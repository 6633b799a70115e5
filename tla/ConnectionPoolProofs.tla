------------------------ MODULE ConnectionPoolProofs ------------------------
(***************************************************************************)
(* The safety promises of the connection manager, for every set of callers *)
(* and every pool size.  The heart is PoolInv, an inductive invariant; the *)
(* promises are its conjuncts or follow from it in one step.               *)
(***************************************************************************)
EXTENDS ConnectionPool, QueueLemmas, FiniteSetTheorems, TLAPS

-----------------------------------------------------------------------------
(* Free connections and next waiters *)

\* tryLease gives a connection of the instance that was free, if there is one.
LEMMA TryLeaseFree ==
  ASSUME NEW db \in DBs, NEW taken, FreeSlots(db, taken) # {}
  PROVE  /\ TryLease(db, taken) \in Conns
         /\ TryLease(db, taken)[1] = db
         /\ TryLease(db, taken) \notin taken
         /\ TryLease(db, taken)[2] \in FreeSlots(db, taken)
<1>1. FreeSlots(db, taken) \in SUBSET Nat
  BY PoolSizeAssumption DEF FreeSlots, Slots
<1>2. Min(FreeSlots(db, taken)) \in FreeSlots(db, taken)
  BY <1>1, MinInSet
<1> QED
  BY <1>2 DEF TryLease, FreeSlots, Conns

\* In a queue without settled waiters the next waiter is the head.
LEMMA NextWaiterIsHead ==
  ASSUME TypeOK, QueueIsTheWaiting
  PROVE  NextWaiter = IF waitQueue = <<>> THEN 0 ELSE 1
<1> DEFINE I == {i \in 1..Len(waitQueue) : waitQueue[i] \notin settled}
<1>1. waitQueue \in Seq(Callers) /\ Len(waitQueue) \in Nat
  BY DEF TypeOK
<1>2. I = 1..Len(waitQueue)
  BY <1>1, ToSetMember DEF QueueIsTheWaiting
<1>3. NextWaiter = IF I # {} THEN Min(I) ELSE 0
  BY DEF NextWaiter, SelectInSeq
<1>4. CASE waitQueue = <<>>
  BY <1>2, <1>3, <1>4
<1>5. CASE waitQueue # <<>>
  <2>1. 1 \in I /\ I \in SUBSET Nat /\ \A i \in I : 1 <= i
    BY <1>1, <1>2, <1>5
  <2>2. Min(I) \in I /\ \A y \in I : Min(I) <= y
    <3> HIDE DEF I
    <3> QED BY <2>1, MinInSet
  <2>3. Min(I) \in Nat /\ 1 <= Min(I) /\ Min(I) <= 1
    <3> HIDE DEF I
    <3> QED BY <2>1, <2>2
  <2> QED BY <1>3, <1>5, <2>1, <2>3
<1> QED BY <1>4, <1>5

-----------------------------------------------------------------------------
(* One lemma per action: it preserves PoolInv *)

\* A new call only moves its caller to ensureState's answer.
LEMMA CallKeepsInv ==
  ASSUME PoolInv, NEW c \in Callers, Call(c)
  PROVE  PoolInv'
<1> USE DEF PoolInv, Call, CallRejected, CallReady, CallInit,
           managerVars, leaseVars, callerVars, Resting, Outcomes, Active, Holding, Working,
           DBs, NoDb, Slots, Conns, NoConn, FreeSlots
<1>1. TypeOK'
  BY DEF TypeOK
<1>2. OneGeneration'
  <2>1. CASE CallRejected(c)
    BY <2>1 DEF TypeOK, OneGeneration
  <2>2. CASE CallReady(c)
    <3>1. state \in DBs /\ state <= opened /\ ~initInFlight
      BY <2>2 DEF TypeOK, OneGeneration
    <3>2. \A d \in Callers : pc'[d] \in Working => current'[d] = state
      BY <2>2 DEF TypeOK, OneGeneration
    <3> QED BY <2>2, <3>1, <3>2 DEF TypeOK, OneGeneration
  <2>3. CASE CallInit(c)
    BY <2>3 DEF TypeOK, OneGeneration
  <2> QED BY <2>1, <2>2, <2>3
<1>3. LeasesFlagged'
  BY DEF TypeOK, LeasesFlagged, OneGeneration
<1>4. LeaseExclusive'
  BY DEF TypeOK, LeaseExclusive, LeasesFlagged
<1>5. NoStuckLease'
  BY DEF TypeOK, NoStuckLease, LeasesFlagged
<1>6. NoIdleConnection'
  BY DEF TypeOK, NoIdleConnection
<1>7. QueueIsTheWaiting'
  BY DEF TypeOK, QueueIsTheWaiting
<1>8. HandOverSucceeds'
  BY DEF TypeOK, HandOverSucceeds
<1> QED BY <1>1, <1>2, <1>3, <1>4, <1>5, <1>6, <1>7, <1>8

\* Init opens an instance nobody uses yet, and publishes it once.
LEMMA InitStepKeepsInv ==
  ASSUME PoolInv, InitStep
  PROVE  PoolInv'
<1> USE DEF PoolInv, InitStep, InitOpen, InitResolve, InitFail, WakeEnsuring,
           managerVars, leaseVars, callerVars, Resting, Outcomes, Active, Holding, Working,
           DBs, NoDb, Slots, Conns, NoConn, FreeSlots
<1>1. TypeOK'
  <2>1. CASE InitOpen
    BY <2>1, MaxOpensAssumption DEF TypeOK, OneGeneration
  <2>2. CASE InitResolve
    BY <2>2 DEF TypeOK
  <2>3. CASE InitFail
    BY <2>3 DEF TypeOK
  <2> QED BY <2>1, <2>2, <2>3
<1>2. OneGeneration'
  BY DEF TypeOK, OneGeneration
<1>3. LeasesFlagged'
  BY DEF TypeOK, LeasesFlagged, OneGeneration
<1>4. LeaseExclusive'
  BY DEF TypeOK, LeaseExclusive, LeasesFlagged
<1>5. NoStuckLease'
  BY DEF TypeOK, NoStuckLease, LeasesFlagged
<1>6. NoIdleConnection'
  BY DEF TypeOK, NoIdleConnection
<1>7. QueueIsTheWaiting'
  BY DEF TypeOK, QueueIsTheWaiting
<1>8. HandOverSucceeds'
  BY DEF TypeOK, HandOverSucceeds
<1> QED BY <1>1, <1>2, <1>3, <1>4, <1>5, <1>6, <1>7, <1>8

\* Starting the leased function moves no lease.
LEMMA BeginKeepsInv ==
  ASSUME PoolInv, NEW c \in Callers, Begin(c)
  PROVE  PoolInv'
<1> USE DEF PoolInv, Begin,
           managerVars, leaseVars, callerVars, Resting, Outcomes, Active, Holding, Working,
           DBs, NoDb, Slots, Conns, NoConn, FreeSlots
<1>1. TypeOK'
  BY DEF TypeOK
<1>2. OneGeneration'
  BY DEF TypeOK, OneGeneration
<1>3. LeasesFlagged'
  BY DEF TypeOK, LeasesFlagged, OneGeneration
<1>4. LeaseExclusive'
  BY DEF TypeOK, LeaseExclusive, LeasesFlagged
<1>5. NoStuckLease'
  BY DEF TypeOK, NoStuckLease, LeasesFlagged
<1>6. NoIdleConnection'
  BY DEF TypeOK, NoIdleConnection
<1>7. QueueIsTheWaiting'
  BY DEF TypeOK, QueueIsTheWaiting
<1>8. HandOverSucceeds'
  BY DEF TypeOK, HandOverSucceeds
<1> QED BY <1>1, <1>2, <1>3, <1>4, <1>5, <1>6, <1>7, <1>8

\* A direct lease takes a connection nobody holds.
LEMMA LeaseNowKeepsInv ==
  ASSUME PoolInv, NEW c \in Callers, LeaseNow(c)
  PROVE  PoolInv'
<1> USE DEF PoolInv, LeaseNow,
           managerVars, leaseVars, callerVars, Resting, Outcomes, Active, Holding, Working,
           DBs, NoDb, Slots, Conns, NoConn
<1>1. PICK k \in Conns : /\ k \notin leased /\ k[1] = current[c]
                        /\ leased' = leased \cup {k} /\ conn' = [conn EXCEPT ![c] = k]
  <2>1. current[c] \in DBs
    BY DEF TypeOK, OneGeneration
  <2> QED BY <2>1, TryLeaseFree
<1>2. initDb = NoDb /\ current[c] <= opened
  BY DEF TypeOK, OneGeneration
<1>3. TypeOK'
  BY <1>1 DEF TypeOK
<1>4. OneGeneration'
  BY <1>1 DEF TypeOK, OneGeneration
<1>5. LeasesFlagged'
  BY <1>1, <1>2 DEF TypeOK, LeasesFlagged, OneGeneration
<1>6. LeaseExclusive'
  BY <1>1 DEF TypeOK, LeaseExclusive, LeasesFlagged
<1>7. NoStuckLease'
  BY <1>1 DEF TypeOK, NoStuckLease, LeasesFlagged
<1>8. NoIdleConnection'
  BY DEF TypeOK, NoIdleConnection, FreeSlots
<1>9. QueueIsTheWaiting'
  BY DEF TypeOK, QueueIsTheWaiting
<1>10. HandOverSucceeds'
  BY DEF TypeOK, HandOverSucceeds
<1> QED BY <1>3, <1>4, <1>5, <1>6, <1>7, <1>8, <1>9, <1>10

\* A call waits only when its instance has no free connection.
LEMMA EnqueueKeepsInv ==
  ASSUME PoolInv, NEW c \in Callers, Enqueue(c)
  PROVE  PoolInv'
<1> USE DEF PoolInv, Enqueue,
           managerVars, leaseVars, callerVars, Resting, Outcomes, Active, Holding, Working,
           DBs, NoDb, Slots, Conns, NoConn
<1>1. /\ waitQueue' \in Seq(Callers) /\ ToSet(waitQueue') = ToSet(waitQueue) \cup {c}
      /\ \A i, j \in 1..Len(waitQueue') : waitQueue'[i] = waitQueue'[j] => i = j
  BY AppendDistinct DEF TypeOK, QueueIsTheWaiting
<1>2. TypeOK'
  BY <1>1 DEF TypeOK
<1>3. OneGeneration'
  BY DEF TypeOK, OneGeneration
<1>4. LeasesFlagged'
  BY DEF TypeOK, LeasesFlagged, OneGeneration
<1>5. LeaseExclusive'
  BY DEF TypeOK, LeaseExclusive, LeasesFlagged
<1>6. NoStuckLease'
  BY DEF TypeOK, NoStuckLease, LeasesFlagged
<1>7. NoIdleConnection'
  BY DEF TypeOK, NoIdleConnection
<1>8. QueueIsTheWaiting'
  BY <1>1 DEF TypeOK, QueueIsTheWaiting
<1>9. HandOverSucceeds'
  BY DEF TypeOK, HandOverSucceeds
<1> QED BY <1>2, <1>3, <1>4, <1>5, <1>6, <1>7, <1>8, <1>9

\* A timed-out waiter leaves the queue and is never served.
LEMMA AcquireTimeoutKeepsInv ==
  ASSUME PoolInv, NEW c \in Callers, AcquireTimeout(c)
  PROVE  PoolInv'
<1> USE DEF PoolInv, AcquireTimeout,
           managerVars, leaseVars, callerVars, Resting, Outcomes, Active, Holding, Working,
           DBs, NoDb, Slots, Conns, NoConn
<1>1. /\ waitQueue' \in Seq(Callers) /\ ToSet(waitQueue') = ToSet(waitQueue) \ {c}
      /\ \A i, j \in 1..Len(waitQueue') : waitQueue'[i] = waitQueue'[j] => i = j
  BY RemoveFirstDistinct DEF TypeOK, QueueIsTheWaiting
<1>2. TypeOK'
  BY <1>1 DEF TypeOK
<1>3. OneGeneration'
  BY DEF TypeOK, OneGeneration
<1>4. LeasesFlagged'
  BY DEF TypeOK, LeasesFlagged, OneGeneration
<1>5. LeaseExclusive'
  BY DEF TypeOK, LeaseExclusive, LeasesFlagged
<1>6. NoStuckLease'
  BY DEF TypeOK, NoStuckLease, LeasesFlagged
<1>7. NoIdleConnection'
  BY DEF TypeOK, NoIdleConnection
<1>8. QueueIsTheWaiting'
  BY <1>1 DEF TypeOK, QueueIsTheWaiting
<1>9. HandOverSucceeds'
  BY DEF TypeOK, HandOverSucceeds
<1> QED BY <1>2, <1>3, <1>4, <1>5, <1>6, <1>7, <1>8, <1>9

\* A release of a connection of a forgotten instance changes no flag.
LEMMA ReleaseForgottenKeepsInv ==
  ASSUME PoolInv, NEW c \in Callers, NEW outcome \in {"ok", "failed"},
         ReleaseForgotten(c, outcome)
  PROVE  PoolInv'
<1> USE DEF PoolInv, ReleaseForgotten,
           managerVars, leaseVars, callerVars, Resting, Outcomes, Active, Holding, Working,
           DBs, NoDb, Slots, Conns, NoConn, FreeSlots
<1>1. TypeOK'
  BY DEF TypeOK
<1>2. OneGeneration'
  BY DEF TypeOK, OneGeneration
<1>3. LeasesFlagged'
  BY DEF TypeOK, LeasesFlagged, OneGeneration
<1>4. LeaseExclusive'
  BY DEF TypeOK, LeaseExclusive, LeasesFlagged
<1>5. NoStuckLease'
  BY DEF TypeOK, NoStuckLease, LeasesFlagged
<1>6. NoIdleConnection'
  BY DEF TypeOK, NoIdleConnection
<1>7. QueueIsTheWaiting'
  BY DEF TypeOK, QueueIsTheWaiting
<1>8. HandOverSucceeds'
  BY DEF TypeOK, HandOverSucceeds
<1> QED BY <1>1, <1>2, <1>3, <1>4, <1>5, <1>6, <1>7, <1>8

\* With nobody waiting, a released connection becomes free.
LEMMA ReleaseToPoolKeepsInv ==
  ASSUME PoolInv, NEW c \in Callers, NEW outcome \in {"ok", "failed"},
         ReleaseToPool(c, outcome)
  PROVE  PoolInv'
<1> USE DEF PoolInv, ReleaseToPool,
           managerVars, leaseVars, callerVars, Resting, Outcomes, Active, Holding, Working,
           DBs, NoDb, Slots, Conns, NoConn, FreeSlots
<1>1. waitQueue = <<>> /\ \A d \in Callers : pc[d] # "waiting"
  <2>1. waitQueue = <<>>
    BY NextWaiterIsHead
  <2> QED BY <2>1, EmptyQueue DEF QueueIsTheWaiting
<1>2. TypeOK'
  BY <1>1 DEF TypeOK
<1>3. OneGeneration'
  BY DEF TypeOK, OneGeneration
<1>4. LeasesFlagged'
  BY DEF TypeOK, LeasesFlagged, OneGeneration, LeaseExclusive
<1>5. LeaseExclusive'
  BY DEF TypeOK, LeaseExclusive, LeasesFlagged
<1>6. NoStuckLease'
  BY DEF TypeOK, NoStuckLease, LeasesFlagged
<1>7. NoIdleConnection'
  BY <1>1 DEF TypeOK, NoIdleConnection
<1>8. QueueIsTheWaiting'
  BY <1>1 DEF TypeOK, QueueIsTheWaiting
<1>9. HandOverSucceeds'
  BY DEF TypeOK, HandOverSucceeds
<1> QED BY <1>2, <1>3, <1>4, <1>5, <1>6, <1>7, <1>8, <1>9

\* Closing forgets the instance and empties the queue.
LEMMA CloseKeepsInv ==
  ASSUME PoolInv, Close
  PROVE  PoolInv'
<1> USE DEF PoolInv, Close,
           managerVars, leaseVars, callerVars, Resting, Outcomes, Active, Holding, Working,
           DBs, NoDb, Slots, Conns, NoConn, FreeSlots
<1>1. \A d \in Callers : pc'[d] = IF pc[d] = "waiting" THEN "closed" ELSE pc[d]
  BY DEF TypeOK, QueueIsTheWaiting
<1>2. waitQueue' = <<>> /\ Len(waitQueue') = 0 /\ ToSet(waitQueue') = {}
  BY EmptyQueue
<1>3. TypeOK'
  BY <1>1, ToSetMember DEF TypeOK
<1>4. OneGeneration'
  BY <1>1 DEF TypeOK, OneGeneration
<1>5. LeasesFlagged'
  BY <1>1 DEF TypeOK, LeasesFlagged, OneGeneration
<1>6. LeaseExclusive'
  BY <1>1 DEF TypeOK, LeaseExclusive, LeasesFlagged
<1>7. NoStuckLease'
  BY DEF TypeOK, NoStuckLease, LeasesFlagged
<1>8. NoIdleConnection'
  BY <1>1 DEF TypeOK, NoIdleConnection
<1>9. QueueIsTheWaiting'
  BY <1>1, <1>2 DEF TypeOK, QueueIsTheWaiting
<1>10. HandOverSucceeds'
  BY <1>1 DEF TypeOK, HandOverSucceeds
<1> QED BY <1>3, <1>4, <1>5, <1>6, <1>7, <1>8, <1>9, <1>10

\* A hand-over passes the freed connection to the head of the queue, and to
\* nobody else; the others still find no free connection.
LEMMA ReleaseToWaiterKeepsInv ==
  ASSUME PoolInv, NEW c \in Callers, NEW outcome \in {"ok", "failed"},
         ReleaseToWaiter(c, outcome)
  PROVE  PoolInv'
<1> DEFINE w    == waitQueue[1]
           left == leased \ {conn[c]}
           k    == TryLease(state, left)
<1> USE DEF PoolInv, managerVars, leaseVars, callerVars, Resting, Outcomes, Active,
            Holding, Working, DBs, NoDb, Slots, Conns, NoConn
<1>1. waitQueue # <<>> /\ NextWaiter = 1
  BY NextWaiterIsHead DEF ReleaseToWaiter
<1>2. /\ w \in Callers /\ w \in ToSet(waitQueue) /\ pc[w] = "waiting" /\ w # c
      /\ SubSeq(waitQueue, 2, Len(waitQueue)) \in Seq(Callers)
      /\ ToSet(SubSeq(waitQueue, 2, Len(waitQueue))) = ToSet(waitQueue) \ {w}
      /\ \A i, j \in 1..Len(SubSeq(waitQueue, 2, Len(waitQueue))) :
           SubSeq(waitQueue, 2, Len(waitQueue))[i] = SubSeq(waitQueue, 2, Len(waitQueue))[j]
             => i = j
  BY <1>1, DropHeadDistinct DEF TypeOK, QueueIsTheWaiting, ReleaseToWaiter
<1>3. state \in DBs /\ current[w] = state /\ current[c] = state /\ conn[c] \in leased
  BY <1>2 DEF TypeOK, OneGeneration, LeasesFlagged, ReleaseToWaiter
<1>4. k \in Conns /\ k[1] = state /\ k \notin left /\ k # NoConn
  <2>1. conn[c] \in Conns /\ conn[c][1] = state
    BY <1>3 DEF TypeOK, ReleaseToWaiter
  <2>2. conn[c][2] \in FreeSlots(state, left)
    BY <2>1 DEF FreeSlots
  <2> QED BY <1>3, <2>2, TryLeaseFree
<1>5. /\ waitQueue' = SubSeq(waitQueue, 2, Len(waitQueue))
      /\ settled' = settled \cup {w}
      /\ leased' = left \cup {k}
      /\ conn' = [conn EXCEPT ![c] = NoConn, ![w] = k]
      /\ pc' = [pc EXCEPT ![c] = outcome, ![w] = "granted"]
      /\ UNCHANGED <<managerVars, current>>
  <2>1. LET v == waitQueue[1]
            l == leased \ {conn[c]}
            f == TryLease(state, l)
        IN /\ waitQueue' = SubSeq(waitQueue, 1 + 1, Len(waitQueue))
           /\ settled' = settled \cup {v}
           /\ leased' = l \cup ({f} \ {NoConn})
           /\ conn' = [conn EXCEPT ![c] = NoConn, ![v] = f]
           /\ pc' = [pc EXCEPT ![c] = outcome,
                               ![v] = IF f = NoConn THEN "noConn" ELSE "granted"]
    BY <1>1, Zenon DEF ReleaseToWaiter
  <2>2. UNCHANGED <<managerVars, current>>
    BY DEF ReleaseToWaiter
  <2>3. 1 + 1 = 2 /\ {k} \ {NoConn} = {k}
    BY <1>4
  <2> QED BY <1>4, <2>1, <2>2, <2>3, Zenon
<1>6. pc[c] = "using" /\ conn[c][1] = state
  BY DEF ReleaseToWaiter
<1>7. k = conn[c] /\ leased' = leased
  <2>1. \A s \in Slots : <<state, s>> \in leased
    BY <1>2, <1>3 DEF NoIdleConnection, FreeSlots
  <2>2. k \in leased
    BY <1>4, <2>1
  <2> QED BY <1>3, <1>4, <1>5, <2>2
<1> HIDE DEF w, left, k
<1>8. TypeOK'
  <2>1. outcome \in Resting
    OBVIOUS
  <2>2. pc' \in [Callers -> Resting \cup Active] /\ conn' \in [Callers -> Conns \cup {NoConn}]
    BY <1>2, <1>4, <1>5, <2>1 DEF TypeOK
  <2>3. leased' \subseteq Conns /\ settled' \subseteq Callers /\ waitQueue' \in Seq(Callers)
    BY <1>2, <1>5, <1>7 DEF TypeOK
  <2>4. UNCHANGED <<state, initInFlight, initDb, isClosed, opened, openDbs, current>>
    BY <1>5
  <2> QED BY <2>2, <2>3, <2>4 DEF TypeOK
<1>9. OneGeneration'
  BY <1>2, <1>3, <1>5, <1>6 DEF TypeOK, OneGeneration
<1>10. LeasesFlagged'
  BY <1>2, <1>3, <1>4, <1>5, <1>6, <1>7 DEF TypeOK, LeasesFlagged
<1>11. LeaseExclusive'
  BY <1>2, <1>5, <1>6, <1>7 DEF TypeOK, LeaseExclusive
<1>12. NoStuckLease'
  <2> SUFFICES ASSUME NEW q \in leased, q[1] = state
               PROVE  \E d \in Callers : pc'[d] \in Holding /\ conn'[d] = q
    BY <1>5, <1>7 DEF NoStuckLease
  <2>1. PICK d \in Callers : pc[d] \in Holding /\ conn[d] = q
    BY DEF NoStuckLease
  <2>2. pc'[w] = "granted" /\ conn'[w] = k
    BY <1>2, <1>5 DEF TypeOK
  <2>3. CASE d = c
    BY <1>2, <1>7, <2>1, <2>2, <2>3
  <2>4. CASE d # c
    <3>1. d # w
      BY <1>2, <2>1
    <3>2. pc'[d] = pc[d] /\ conn'[d] = conn[d]
      BY <1>5, <2>4, <3>1 DEF TypeOK
    <3> QED BY <2>1, <3>2
  <2> QED BY <2>3, <2>4
<1>13. NoIdleConnection'
  BY <1>2, <1>5, <1>6, <1>7 DEF TypeOK, NoIdleConnection, FreeSlots
<1>14. QueueIsTheWaiting'
  BY <1>2, <1>5, <1>6 DEF TypeOK, QueueIsTheWaiting
<1>15. HandOverSucceeds'
  BY <1>2, <1>5, <1>6 DEF TypeOK, HandOverSucceeds
<1> QED BY <1>8, <1>9, <1>10, <1>11, <1>12, <1>13, <1>14, <1>15

-----------------------------------------------------------------------------
(* The invariant, and what follows from it *)

\* PoolInv holds initially.
LEMMA InitHasInv == Init => PoolInv
<1> SUFFICES ASSUME Init PROVE PoolInv
  OBVIOUS
<1> USE DEF Init, Resting, Outcomes, Active, Holding, Working, DBs, NoDb, Conns, NoConn
<1>1. <<>> \in Seq(Callers) /\ Len(<<>>) = 0
  OBVIOUS
<1>2. TypeOK
  <2>1. opened \in 0..MaxOpens
    BY MaxOpensAssumption
  <2>2. pc \in [Callers -> Resting \cup Active]
    OBVIOUS
  <2>3. conn \in [Callers -> Conns \cup {NoConn}] /\ current \in [Callers -> DBs \cup {NoDb}]
    OBVIOUS
  <2> QED BY <1>1, <2>1, <2>2, <2>3 DEF TypeOK
<1>3. OneGeneration /\ LeasesFlagged
  BY DEF OneGeneration, LeasesFlagged
<1>4. LeaseExclusive /\ NoStuckLease /\ NoIdleConnection /\ HandOverSucceeds
  BY DEF LeaseExclusive, NoStuckLease, NoIdleConnection, HandOverSucceeds
<1>5. ToSet(waitQueue) = {}
  BY EmptyQueue
<1>6. QueueIsTheWaiting
  BY <1>1, <1>5 DEF QueueIsTheWaiting
<1> QED BY <1>2, <1>3, <1>4, <1>6 DEF PoolInv

\* PoolInv is preserved by every step.
LEMMA NextKeepsInv == PoolInv /\ [Next]_vars => PoolInv'
<1> SUFFICES ASSUME PoolInv, [Next]_vars PROVE PoolInv'
  OBVIOUS
<1>1. CASE InitStep
  BY <1>1, InitStepKeepsInv
<1>2. CASE Close
  BY <1>2, CloseKeepsInv
<1>3. ASSUME NEW c \in Callers,
             Call(c) \/ Lease(c) \/ AcquireTimeout(c) \/ Begin(c) \/ Release(c)
      PROVE  PoolInv'
  <2>1. CASE Call(c)
    BY <2>1, CallKeepsInv
  <2>2. CASE Lease(c)
    BY <2>2, LeaseNowKeepsInv, EnqueueKeepsInv DEF Lease
  <2>3. CASE AcquireTimeout(c)
    BY <2>3, AcquireTimeoutKeepsInv
  <2>4. CASE Begin(c)
    BY <2>4, BeginKeepsInv
  <2>5. CASE Release(c)
    BY <2>5, ReleaseForgottenKeepsInv, ReleaseToPoolKeepsInv, ReleaseToWaiterKeepsInv
       DEF Release
  <2> QED BY <1>3, <2>1, <2>2, <2>3, <2>4, <2>5
<1>4. CASE UNCHANGED vars
  BY <1>4 DEF vars, managerVars, leaseVars, callerVars, PoolInv, TypeOK, OneGeneration,
              LeasesFlagged, LeaseExclusive, NoStuckLease, NoIdleConnection,
              QueueIsTheWaiting, HandOverSucceeds, FreeSlots
<1> QED BY <1>1, <1>2, <1>3, <1>4 DEF Next

\* The connection manager keeps its inductive invariant, in particular the
\* types of its variables.
THEOREM PoolInvariant == Spec => []PoolInv
BY InitHasInv, NextKeepsInv, PTL DEF Spec

\* Every variable of the connection manager stays in its domain.
THEOREM PoolTypes == Spec => []TypeOK
<1>1. PoolInv => TypeOK
  BY DEF PoolInv
<1> QED BY <1>1, PoolInvariant, PTL

\* No connection is lent to two calls at a time.
THEOREM LeasesAreSound == Spec => []LeaseExclusive
<1>1. PoolInv => LeaseExclusive
  BY DEF PoolInv
<1> QED BY <1>1, PoolInvariant, PTL

\* A connection of the served instance that is flagged as leased is with a call
\* that will release it, whatever threw or timed out.
THEOREM NoLeaseIsLost == Spec => []NoStuckLease
<1>1. PoolInv => NoStuckLease
  BY DEF PoolInv
<1> QED BY <1>1, PoolInvariant, PTL

\* No wake-up is lost: while a call waits, all connections it may get are out.
THEOREM WaitersHaveNothingToTake == Spec => []NoIdleConnection
<1>1. PoolInv => NoIdleConnection
  BY DEF PoolInv
<1> QED BY <1>1, PoolInvariant, PTL

\* releaseLease never rejects the waiter it has dequeued.
THEOREM HandOverNeverFails == Spec => []HandOverSucceeds
<1>1. PoolInv => HandOverSucceeds
  BY DEF PoolInv
<1> QED BY <1>1, PoolInvariant, PTL

\* Until close, one open instance serves all calls.
THEOREM OneInstanceServes == Spec => []OneOpenInstance
<1>1. PoolInv => OneOpenInstance
  BY DEF PoolInv, TypeOK, OneGeneration, LeasesFlagged, OneOpenInstance, Working, Holding
<1> QED BY <1>1, PoolInvariant, PTL

\* Leases are given in order of arrival.
THEOREM LeasesAreFair == Spec => LeasesInOrder
<1> DEFINE InOrder == \A c \in Callers :
             pc'[c] = "granted" /\ pc[c] # "granted" =>
               waitQueue = <<>> \/ c = Head(waitQueue)
<1>1. PoolInv /\ [Next]_vars => [InOrder]_vars
  <2> SUFFICES ASSUME PoolInv, Next, NEW c \in Callers,
                      pc'[c] = "granted", pc[c] # "granted", waitQueue # <<>>
               PROVE  c = Head(waitQueue)
    BY DEF PoolInv
  <2> USE DEF PoolInv, managerVars, leaseVars, callerVars
  <2>1. waitQueue[1] \in Callers /\ pc[waitQueue[1]] = "waiting" /\ Head(waitQueue) = waitQueue[1]
    BY DropHeadDistinct DEF TypeOK, QueueIsTheWaiting
  <2>2. ~InitStep /\ ~Close
    BY DEF InitStep, InitOpen, InitResolve, InitFail, WakeEnsuring, Close, TypeOK
  <2>3. PICK d \in Callers : Call(d) \/ Lease(d) \/ AcquireTimeout(d) \/ Begin(d) \/ Release(d)
    BY <2>2 DEF Next
  <2>4. ~Call(d) /\ ~AcquireTimeout(d) /\ ~Begin(d) /\ ~Enqueue(d)
    BY DEF Call, CallRejected, CallReady, CallInit, AcquireTimeout, Begin, Enqueue, TypeOK
  <2>5. ~LeaseNow(d)
    <3>1. SUFFICES ASSUME LeaseNow(d) PROVE FALSE
      OBVIOUS
    <3>2. current[d] = current[waitQueue[1]]
      BY <2>1, <3>1 DEF LeaseNow, OneGeneration, Working
    <3> QED BY <2>1, <3>1, <3>2 DEF LeaseNow, NoIdleConnection
  <2>6. Release(d)
    BY <2>3, <2>4, <2>5 DEF Lease
  <2>7. NextWaiter = 1
    BY NextWaiterIsHead
  <2> QED
    BY <2>1, <2>6, <2>7 DEF Release, ReleaseForgotten, ReleaseToPool, ReleaseToWaiter, TypeOK
<1> QED BY <1>1, PoolInvariant, PTL DEF Spec, LeasesInOrder

-----------------------------------------------------------------------------
(* The manager is a lease queue *)

Holders == {c \in Callers : pc[c] \in Holding}

\* The lease queue counts and searches as this module does.
LEMMA LeasesOperators ==
  /\ \A S : Leases!Cardinality(S) = Cardinality(S)
  /\ \A s : Leases!ToSet(s) = ToSet(s)
  /\ \A s, e : Leases!RemoveFirst(s, e) = RemoveFirst(s, e)
<1>1. \A S : Leases!Cardinality(S) = Cardinality(S)
  BY Zenon DEF Leases!Cardinality, Cardinality
<1>2. \A s : Leases!ToSet(s) = ToSet(s)
  BY Zenon DEF Leases!ToSet, ToSet
<1>3. \A s, e : Leases!RemoveFirst(s, e) = RemoveFirst(s, e)
  BY Zenon DEF Leases!RemoveFirst, RemoveFirst, Leases!RemoveAt, RemoveAt,
               Leases!SelectInSeq, SelectInSeq, Leases!Min, Min
<1> QED BY <1>1, <1>2, <1>3

\* Holders of connections of one instance have different slots of it.
LEMMA HoldersHaveSlots ==
  ASSUME PoolInv, NEW db, \A d \in Holders : current[d] = db
  PROVE  [d \in Holders |-> conn[d][2]] \in Injection(Holders, Slots)
<1> DEFINE f == [d \in Holders |-> conn[d][2]]
<1>1. \A d \in Holders : conn[d] \in Conns /\ conn[d] = <<db, conn[d][2]>>
  BY DEF PoolInv, TypeOK, LeasesFlagged, Holders, Conns
<1>2. f \in [Holders -> Slots]
  BY <1>1 DEF Conns
<1>3. \A d, e \in Holders : f[d] = f[e] => d = e
  BY <1>1 DEF PoolInv, LeaseExclusive, Holders
<1>4. f \in Injection(Holders, Slots)
  <2> HIDE DEF f
  <2> QED BY <1>2, <1>3 DEF Injection, IsInjective
<1> QED BY <1>4

\* A connection of the instance is free: fewer leases are out than there are slots.
LEMMA FreeSlotMeansRoom ==
  ASSUME PoolInv, NEW db, \A d \in Holders : current[d] = db, FreeSlots(db, leased) # {}
  PROVE  Cardinality(Holders) < PoolSize
<1> DEFINE f == [d \in Holders |-> conn[d][2]]
<1>1. f \in Injection(Holders, Slots)
  BY HoldersHaveSlots
<1>2. PICK s \in Slots : <<db, s>> \notin leased
  BY DEF FreeSlots
<1>3. \A d \in Holders : f[d] # s
  BY <1>2 DEF PoolInv, TypeOK, LeasesFlagged, Holders, Conns, Holding, NoConn, NoDb
<1>4. f \in Injection(Holders, Slots \ {s})
  BY <1>1, <1>3 DEF Injection, IsInjective
<1>5. IsFiniteSet(Slots) /\ Cardinality(Slots) = PoolSize
  BY PoolSizeAssumption, FS_Interval DEF Slots
<1>6. IsFiniteSet(Slots \ {s}) /\ Cardinality(Slots \ {s}) = PoolSize - 1
  BY <1>2, <1>5, FS_RemoveElement
<1> HIDE DEF f
<1>7. Cardinality(Holders) <= PoolSize - 1 /\ IsFiniteSet(Holders)
  BY <1>4, <1>6, FS_Injection
<1>8. Cardinality(Holders) \in Nat
  BY <1>7, FS_CardinalityType
<1> QED BY <1>7, <1>8, PoolSizeAssumption

\* No connection of the served instance is free: all its leases are out.
LEMMA NoFreeSlotMeansFull ==
  ASSUME PoolInv, \A d \in Holders : current[d] = state, FreeSlots(state, leased) = {}
  PROVE  Cardinality(Holders) = PoolSize
<1> DEFINE f == [d \in Holders |-> conn[d][2]]
<1>1. f \in Injection(Holders, Slots)
  BY HoldersHaveSlots
<1>2. ASSUME NEW s \in Slots
      PROVE  \E d \in Holders : f[d] = s
  <2>1. <<state, s>> \in leased
    BY DEF FreeSlots
  <2>2. <<state, s>>[1] = state
    OBVIOUS
  <2>3. PICK d \in Callers : pc[d] \in Holding /\ conn[d] = <<state, s>>
    BY <2>1, <2>2 DEF PoolInv, NoStuckLease
  <2> QED BY <2>3 DEF Holders
<1>3. f \in Surjection(Holders, Slots)
  BY <1>1, <1>2 DEF Surjection, Injection
<1>4. IsFiniteSet(Slots) /\ Cardinality(Slots) = PoolSize
  BY PoolSizeAssumption, FS_Interval DEF Slots
<1> HIDE DEF f
<1> QED BY <1>1, <1>3, <1>4, FS_Injection

\* A step that gives no lease and takes none, and leaves the queue alone, is
\* nothing to the lease queue.
LEMMA Unnoticed ==
  ASSUME \A d \in Callers : pc'[d] \in Holding <=> pc[d] \in Holding,
         UNCHANGED <<waitQueue, isClosed>>
  PROVE  UNCHANGED Leases!vars
BY DEF Leases!vars

\* A direct lease is an Acquire: nobody waits, and there is room.
LEMMA LeaseNowIsAcquire ==
  ASSUME PoolInv, NEW c \in Callers, LeaseNow(c)
  PROVE  Leases!Acquire(c)
<1> USE DEF Holding, Working
<1>1. pc[c] = "ensured" /\ UNCHANGED <<waitQueue, isClosed>>
      /\ \A d \in Callers : pc'[d] = IF d = c THEN "granted" ELSE pc[d]
  BY DEF LeaseNow, PoolInv, TypeOK, managerVars
<1>2. waitQueue = <<>>
  <2> SUFFICES ASSUME waitQueue # <<>> PROVE FALSE
    OBVIOUS
  <2>1. waitQueue[1] \in Callers /\ pc[waitQueue[1]] = "waiting"
    BY DropHeadDistinct DEF PoolInv, TypeOK, QueueIsTheWaiting
  <2>2. current[waitQueue[1]] = current[c]
    BY <1>1, <2>1 DEF PoolInv, OneGeneration
  <2> QED BY <2>1, <2>2 DEF PoolInv, NoIdleConnection, LeaseNow
<1>3. \A d \in Holders : current[d] = current[c]
  BY <1>1 DEF PoolInv, OneGeneration, Holders
<1>4. Cardinality(Holders) < PoolSize
  BY <1>3, FreeSlotMeansRoom DEF LeaseNow
<1>5. {d \in Callers : pc'[d] \in Holding} = {d \in Callers : pc[d] \in Holding} \cup {c}
  BY <1>1
<1> QED BY <1>1, <1>2, <1>4, <1>5, LeasesOperators DEF Leases!Acquire, Holders

\* Joining the wait queue is a Wait: until the close, every lease is out.
LEMMA EnqueueIsWait ==
  ASSUME PoolInv, NEW c \in Callers, Enqueue(c)
  PROVE  Leases!Wait(c)
<1> USE DEF Holding, Working
<1>1. /\ pc[c] = "ensured" /\ isClosed' = isClosed /\ waitQueue' = Append(waitQueue, c)
      /\ \A d \in Callers : pc'[d] = IF d = c THEN "waiting" ELSE pc[d]
  BY DEF Enqueue, PoolInv, TypeOK, managerVars
<1>2. isClosed \/ Cardinality(Holders) = PoolSize
  <2> SUFFICES ASSUME ~isClosed PROVE Cardinality(Holders) = PoolSize
    OBVIOUS
  <2>1. state # NoDb /\ current[c] = state
    BY <1>1 DEF PoolInv, OneGeneration
  <2>2. \A d \in Holders : current[d] = state
    BY <2>1 DEF PoolInv, OneGeneration, Holders
  <2> QED BY <2>1, <2>2, NoFreeSlotMeansFull DEF Enqueue
<1>3. c \notin ToSet(waitQueue)
  BY <1>1 DEF PoolInv, QueueIsTheWaiting
<1>4. {d \in Callers : pc'[d] \in Holding} = {d \in Callers : pc[d] \in Holding}
  BY <1>1
<1> QED BY <1>1, <1>2, <1>3, <1>4, LeasesOperators DEF Leases!Wait, Holders

\* A waiter that times out gives up.
LEMMA AcquireTimeoutIsGiveUp ==
  ASSUME PoolInv, NEW c \in Callers, AcquireTimeout(c)
  PROVE  Leases!GiveUp(c)
<1> USE DEF Holding
<1>1. /\ pc[c] = "waiting" /\ isClosed' = isClosed
      /\ waitQueue' = RemoveFirst(waitQueue, c)
      /\ \A d \in Callers : pc'[d] = IF d = c THEN "timedOut" ELSE pc[d]
  BY DEF AcquireTimeout, PoolInv, TypeOK, managerVars
<1>2. c \in ToSet(waitQueue)
  BY <1>1 DEF PoolInv, QueueIsTheWaiting
<1>3. {d \in Callers : pc'[d] \in Holding} = {d \in Callers : pc[d] \in Holding}
  BY <1>1
<1> QED BY <1>1, <1>2, <1>3, LeasesOperators DEF Leases!GiveUp

\* A release of a forgotten connection is a Return after the close; one that
\* finds nobody waiting is a Return; one that finds a waiter hands over to the
\* first in the queue.
LEMMA ReleaseIsReturnOrHandOver ==
  ASSUME PoolInv, NEW c \in Callers, Release(c)
  PROVE  Leases!Return(c) \/ Leases!HandOver(c)
<1> USE DEF Holding, Working
<1>1. PICK outcome \in {"ok", "failed"} : \/ ReleaseForgotten(c, outcome)
                                          \/ ReleaseToPool(c, outcome)
                                          \/ ReleaseToWaiter(c, outcome)
  BY DEF Release
<1>2. pc[c] = "using" /\ isClosed' = isClosed /\ outcome \notin Holding
  BY <1>1 DEF ReleaseForgotten, ReleaseToPool, ReleaseToWaiter, managerVars
<1>3. ASSUME \A d \in Callers : pc'[d] = IF d = c THEN outcome ELSE pc[d]
      PROVE  {d \in Callers : pc'[d] \in Holding} = {d \in Callers : pc[d] \in Holding} \ {c}
  BY <1>2, <1>3
<1>4. CASE ReleaseForgotten(c, outcome)
  <2>1. \A d \in Callers : pc'[d] = IF d = c THEN outcome ELSE pc[d]
    BY <1>4 DEF ReleaseForgotten, PoolInv, TypeOK
  <2>2. isClosed
    BY <1>2, <1>4 DEF ReleaseForgotten, PoolInv, OneGeneration, LeasesFlagged
  <2>3. waitQueue' = waitQueue
    BY <1>4 DEF ReleaseForgotten, leaseVars
  <2> QED BY <1>2, <1>3, <2>1, <2>2, <2>3 DEF Leases!Return
<1>5. CASE ReleaseToPool(c, outcome)
  <2>1. \A d \in Callers : pc'[d] = IF d = c THEN outcome ELSE pc[d]
    BY <1>5 DEF ReleaseToPool, PoolInv, TypeOK
  <2>2. waitQueue = <<>> /\ waitQueue' = <<>>
    BY <1>5, NextWaiterIsHead DEF ReleaseToPool, PoolInv
  <2> QED BY <1>2, <1>3, <2>1, <2>2 DEF Leases!Return
<1>6. CASE ReleaseToWaiter(c, outcome)
  <2> DEFINE w == waitQueue[1]
  <2>1. waitQueue # <<>> /\ NextWaiter = 1
    BY <1>6, NextWaiterIsHead DEF ReleaseToWaiter, PoolInv
  <2>2. w \in Callers /\ pc[w] = "waiting" /\ w # c
    BY <1>2, <2>1, DropHeadDistinct DEF PoolInv, TypeOK, QueueIsTheWaiting
  <2>3. /\ waitQueue' = SubSeq(waitQueue, 2, Len(waitQueue))
        /\ \A d \in Callers : d # c /\ d # w => pc'[d] = pc[d]
        /\ pc'[c] = outcome /\ pc'[w] \in {"noConn", "granted"}
    BY <1>6, <2>1, <2>2 DEF ReleaseToWaiter, PoolInv, TypeOK
  <2>4. pc'[w] = "granted"
    BY <1>6, <2>2, <2>3, ReleaseToWaiterKeepsInv DEF PoolInv, HandOverSucceeds
  <2>5. {d \in Callers : pc'[d] \in Holding}
          = ({d \in Callers : pc[d] \in Holding} \ {c}) \cup {w}
    BY <1>2, <2>2, <2>3, <2>4
  <2>6. waitQueue' = Tail(waitQueue) /\ w = Head(waitQueue)
    BY <2>1, <2>3 DEF PoolInv, TypeOK
  <2> QED BY <1>2, <2>1, <2>5, <2>6 DEF Leases!HandOver
<1> QED BY <1>1, <1>4, <1>5, <1>6

\* Closing the manager closes the lease queue: the waiters are turned away,
\* the leases that are out stay out.
LEMMA CloseIsClose ==
  ASSUME PoolInv, Close
  PROVE  Leases!Close
<1>1. \A d \in Callers : pc'[d] \in Holding <=> pc[d] \in Holding
  BY DEF Close, PoolInv, TypeOK, QueueIsTheWaiting, Holding
<1> QED BY <1>1 DEF Close, Leases!Close

\* Every step of the manager is a step of the lease queue, or none.
LEMMA StepsAreLeaseSteps == PoolInv /\ [Next]_vars => [Leases!Next]_(Leases!vars)
<1> SUFFICES ASSUME PoolInv, [Next]_vars PROVE [Leases!Next]_(Leases!vars)
  OBVIOUS
<1>1. CASE InitStep
  BY <1>1, Unnoticed DEF InitStep, InitOpen, InitResolve, InitFail, WakeEnsuring, Holding,
                         leaseVars, callerVars, PoolInv, TypeOK
<1>2. CASE Close
  BY <1>2, CloseIsClose DEF Leases!Next
<1>3. ASSUME NEW c \in Callers, Call(c) \/ Begin(c)
      PROVE  UNCHANGED Leases!vars
  BY <1>3, Unnoticed DEF Call, CallRejected, CallReady, CallInit, Begin, Holding, Resting, Outcomes,
                         managerVars, leaseVars, PoolInv, TypeOK
<1>4. ASSUME NEW c \in Callers, Lease(c) \/ AcquireTimeout(c) \/ Release(c)
      PROVE  Leases!Next
  BY <1>4, LeaseNowIsAcquire, EnqueueIsWait, AcquireTimeoutIsGiveUp, ReleaseIsReturnOrHandOver
     DEF Lease, Leases!Next
<1>5. CASE UNCHANGED vars
  BY <1>5, Unnoticed DEF vars, managerVars, leaseVars, callerVars
<1> QED BY <1>1, <1>2, <1>3, <1>4, <1>5 DEF Next

\* The connection manager implements the lease queue: a user of withConnection
\* sees a counting semaphore with a first-come first-served queue, whatever
\* init, timeouts and close do behind it.
THEOREM ManagerIsALeaseQueue == Spec => ImplementsLeaseQueue
<1>1. Init => Leases!Init
  BY DEF Init, Leases!Init, Holding
<1> QED BY <1>1, StepsAreLeaseSteps, PoolInvariant, PTL
        DEF Spec, ImplementsLeaseQueue, Leases!Spec

\* Calls never hold more connections than one instance has, closed or not: no
\* init gives the manager a second set of them.
THEOREM LeasesAreBounded == Spec => [](Cardinality(Holders) <= PoolSize)
<1>1. ASSUME PoolInv PROVE Cardinality(Holders) <= PoolSize
  <2>1. PICK db : \A d \in Holders : current[d] = db
    BY <1>1 DEF PoolInv, OneGeneration, Holders, Holding, Working
  <2>2. [d \in Holders |-> conn[d][2]] \in Injection(Holders, Slots)
    BY <1>1, <2>1, HoldersHaveSlots
  <2>3. IsFiniteSet(Slots) /\ Cardinality(Slots) = PoolSize
    BY PoolSizeAssumption, FS_Interval DEF Slots
  <2> QED BY <2>2, <2>3, FS_Injection
<1>2. PoolInv => Cardinality(Holders) <= PoolSize
  BY <1>1
<1> QED BY <1>2, PoolInvariant, PTL
=============================================================================
