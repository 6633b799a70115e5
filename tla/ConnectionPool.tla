--------------------------- MODULE ConnectionPool ---------------------------
(***************************************************************************)
(* The DuckDB connection manager of the API                                *)
(* (src/infra/db/duckdbConnectionManager.ts): a lazily opened pool of      *)
(* connections, leased one call at a time, with a queue of waiting calls.  *)
(*                                                                         *)
(* The code runs on one JavaScript thread.  An action is what runs between *)
(* two awaits; anything may happen between two actions.  A caller is one   *)
(* call of withConnection at a time and owns at most one waiter, so a      *)
(* waiter is named by its caller.                                          *)
(***************************************************************************)
EXTENDS Naturals, Sequences, FiniteSets, SequencesExt

CONSTANTS Callers,    \* concurrent calls of withConnection
          PoolSize,   \* connections per database instance (options.poolSize)
          MaxOpens    \* bound: database instances opened in one behaviour

ASSUME CallersAssumption  == Callers # {} /\ IsFiniteSet(Callers)
ASSUME PoolSizeAssumption == PoolSize \in Nat \ {0}
ASSUME MaxOpensAssumption == MaxOpens \in Nat \ {0}

VARIABLES
  state,         \* the instance the manager serves from, NoDb for null
  initInFlight,  \* an init() promise is pending
  initDb,        \* the instance that init() is connecting, NoDb before createDb
  isClosed,
  opened,        \* instances opened so far
  openDbs,       \* instances (with their connections) not closed yet
  leased,        \* connections whose leased flag is set
  waitQueue,     \* callers, in the order their waiters were pushed
  settled,       \* callers whose waiter has isSettled set
  pc,            \* where each caller stands
  current,       \* the State a caller got from ensureState
  conn           \* the connection a caller was given

managerVars == <<state, initInFlight, initDb, isClosed, opened, openDbs>>
leaseVars   == <<leased, waitQueue, settled>>
callerVars  == <<pc, current, conn>>
vars == <<managerVars, leaseVars, callerVars>>

-----------------------------------------------------------------------------
NoDb   == 0
DBs    == 1..MaxOpens
Slots  == 1..PoolSize
Conns  == DBs \X Slots
NoConn == <<NoDb, 0>>

\* How a call of withConnection can end.
Outcomes == {"ok", "failed", "timedOut", "closed", "initError", "noConn"}
\* A caller not in a call: not yet called, or its last call has settled.
Resting  == {"idle"} \cup Outcomes
\* A caller in a call: awaiting init, past ensureState, in the wait queue,
\* given a connection it has not used yet, running its function on it.
Active   == {"ensuring", "ensured", "waiting", "granted", "using"}
Holding  == {"granted", "using"}

Init ==
  /\ state = NoDb /\ initInFlight = FALSE /\ initDb = NoDb
  /\ isClosed = FALSE /\ opened = 0 /\ openDbs = {}
  /\ leased = {} /\ waitQueue = <<>> /\ settled = {}
  /\ pc = [c \in Callers |-> "idle"]
  /\ current = [c \in Callers |-> NoDb]
  /\ conn = [c \in Callers |-> NoConn]

-----------------------------------------------------------------------------
FreeSlots(db, taken) == {s \in Slots : <<db, s>> \notin taken}

\* Seeded bug: a zero-based index where a slot is meant.
TryLeaseZeroBased(db, taken) ==
  IF FreeSlots(db, taken) = {} THEN NoConn ELSE <<db, Min(FreeSlots(db, taken)) - 1>>

\* tryLease: the first entry whose flag is clear, NoConn when there is none.
TryLease(db, taken) ==
  IF FreeSlots(db, taken) = {} THEN NoConn ELSE <<db, Min(FreeSlots(db, taken))>>

\* Seeded bug: the queue is used as a stack.
NextWaiterLast == SelectLastInSeq(waitQueue, LAMBDA w : w \notin settled)

\* dequeueWaiter: the position of the first waiter not settled, 0 for none.
NextWaiter == SelectInSeq(waitQueue, LAMBDA w : w \notin settled)

\* Every caller that awaits the pending init promise gets its outcome.
WakeEnsuring(outcome) ==
  pc' = [c \in Callers |-> IF pc[c] = "ensuring" THEN outcome ELSE pc[c]]

-----------------------------------------------------------------------------
(* ensureState, on behalf of a new call *)

CallRejected(c) ==
  /\ pc[c] \in Resting
  /\ isClosed
  /\ pc' = [pc EXCEPT ![c] = "closed"]
  /\ UNCHANGED <<managerVars, leaseVars, current, conn>>

CallReady(c) ==
  /\ pc[c] \in Resting
  /\ ~isClosed /\ state # NoDb
  /\ pc' = [pc EXCEPT ![c] = "ensured"]
  /\ current' = [current EXCEPT ![c] = state]
  /\ UNCHANGED <<managerVars, leaseVars, conn>>

\* Seeded bug: every call that finds no pending init starts one.
CallInitAgain(c) ==
  /\ pc[c] \in Resting /\ ~isClosed
  /\ initInFlight \/ opened < MaxOpens
  /\ initInFlight' = TRUE
  /\ pc' = [pc EXCEPT ![c] = "ensuring"]
  /\ UNCHANGED <<state, initDb, isClosed, opened, openDbs, leaseVars, current, conn>>

CallInit(c) ==
  /\ pc[c] \in Resting
  /\ ~isClosed /\ state = NoDb
  /\ initInFlight \/ opened < MaxOpens
  /\ initInFlight' = TRUE
  /\ pc' = [pc EXCEPT ![c] = "ensuring"]
  /\ UNCHANGED <<state, initDb, isClosed, opened, openDbs, leaseVars, current, conn>>

(* init: createDb, then connect once per slot *)

InitOpen ==
  /\ initInFlight /\ initDb = NoDb
  /\ opened' = opened + 1
  /\ initDb' = opened + 1
  /\ openDbs' = openDbs \cup {opened + 1}
  /\ UNCHANGED <<state, initInFlight, isClosed, leaseVars, callerVars>>

\* The then-callback stores the state whatever has happened to the manager
\* meanwhile; the finally-callback follows it before any caller resumes.
InitResolve ==
  /\ initInFlight /\ initDb # NoDb
  /\ state' = initDb
  /\ initInFlight' = FALSE
  /\ initDb' = NoDb
  /\ WakeEnsuring("ensured")
  /\ current' = [c \in Callers |-> IF pc[c] = "ensuring" THEN initDb ELSE current[c]]
  /\ UNCHANGED <<isClosed, opened, openDbs, leaseVars, conn>>

\* createDb gave up after its retries, or a connect failed: an instance that
\* was opened already stays open.
InitFail ==
  /\ initInFlight
  /\ initInFlight' = FALSE
  /\ initDb' = NoDb
  /\ WakeEnsuring("initError")
  /\ UNCHANGED <<state, isClosed, opened, openDbs, leaseVars, current, conn>>

-----------------------------------------------------------------------------
(* acquireLease, past the await of ensureState *)

\* Seeded bug: tryLease does not set the flag.
LeaseNowUnflagged(c) ==
  /\ pc[c] = "ensured"
  /\ FreeSlots(current[c], leased) # {}
  /\ conn' = [conn EXCEPT ![c] = TryLease(current[c], leased)]
  /\ pc' = [pc EXCEPT ![c] = "granted"]
  /\ UNCHANGED <<managerVars, leaseVars, current>>

LeaseNow(c) ==
  /\ pc[c] = "ensured"
  /\ FreeSlots(current[c], leased) # {}
  /\ LET k == TryLease(current[c], leased)
     IN /\ leased' = leased \cup {k}
        /\ conn' = [conn EXCEPT ![c] = k]
  /\ pc' = [pc EXCEPT ![c] = "granted"]
  /\ UNCHANGED <<managerVars, waitQueue, settled, current>>

\* Seeded bugs: waiting without having tried to lease, joining at the front.
EnqueueAlways(c) ==
  /\ pc[c] = "ensured"
  /\ waitQueue' = Append(waitQueue, c)
  /\ settled' = settled \ {c}
  /\ pc' = [pc EXCEPT ![c] = "waiting"]
  /\ UNCHANGED <<managerVars, leased, current, conn>>

EnqueueFront(c) ==
  /\ pc[c] = "ensured"
  /\ FreeSlots(current[c], leased) = {}
  /\ waitQueue' = <<c>> \o waitQueue
  /\ settled' = settled \ {c}
  /\ pc' = [pc EXCEPT ![c] = "waiting"]
  /\ UNCHANGED <<managerVars, leased, current, conn>>

Enqueue(c) ==
  /\ pc[c] = "ensured"
  /\ FreeSlots(current[c], leased) = {}
  /\ waitQueue' = Append(waitQueue, c)
  /\ settled' = settled \ {c}
  /\ pc' = [pc EXCEPT ![c] = "waiting"]
  /\ UNCHANGED <<managerVars, leased, current, conn>>

\* The waiter's timer fires; settling a waiter in any other way clears it.
AcquireTimeout(c) ==
  /\ pc[c] = "waiting" /\ c \notin settled
  /\ settled' = settled \cup {c}
  /\ waitQueue' = RemoveFirst(waitQueue, c)
  /\ pc' = [pc EXCEPT ![c] = "timedOut"]
  /\ UNCHANGED <<managerVars, leased, current, conn>>

-----------------------------------------------------------------------------
(* withConnection: run the function, then releaseLease in the finally block *)

Begin(c) ==
  /\ pc[c] = "granted"
  /\ pc' = [pc EXCEPT ![c] = "using"]
  /\ UNCHANGED <<managerVars, leaseVars, current, conn>>

\* After a close, state is null or another instance: nothing to release.
ReleaseForgotten(c, outcome) ==
  /\ pc[c] = "using"
  /\ conn[c][1] # state
  /\ pc' = [pc EXCEPT ![c] = outcome]
  /\ conn' = [conn EXCEPT ![c] = NoConn]
  /\ UNCHANGED <<managerVars, leaseVars, current>>

\* Seeded bugs: a release that happens only on success, and one that never
\* looks at the wait queue.
ReleaseOnSuccess(c, outcome) ==
  /\ pc[c] = "using"
  /\ conn[c][1] = state
  /\ NextWaiter = 0
  /\ leased' = IF outcome = "ok" THEN leased \ {conn[c]} ELSE leased
  /\ waitQueue' = <<>>
  /\ pc' = [pc EXCEPT ![c] = outcome]
  /\ conn' = [conn EXCEPT ![c] = NoConn]
  /\ UNCHANGED <<managerVars, settled, current>>

ReleaseQuietly(c, outcome) ==
  /\ pc[c] = "using"
  /\ conn[c][1] = state
  /\ leased' = leased \ {conn[c]}
  /\ pc' = [pc EXCEPT ![c] = outcome]
  /\ conn' = [conn EXCEPT ![c] = NoConn]
  /\ UNCHANGED <<managerVars, waitQueue, settled, current>>

ReleaseToPool(c, outcome) ==
  /\ pc[c] = "using"
  /\ conn[c][1] = state
  /\ NextWaiter = 0
  /\ leased' = leased \ {conn[c]}
  /\ waitQueue' = <<>>
  /\ pc' = [pc EXCEPT ![c] = outcome]
  /\ conn' = [conn EXCEPT ![c] = NoConn]
  /\ UNCHANGED <<managerVars, settled, current>>

\* Seeded bug: the next lease is looked for before the flag is cleared.
ReleaseTooLate(c, outcome) ==
  /\ pc[c] = "using"
  /\ conn[c][1] = state
  /\ NextWaiter # 0
  /\ LET w == waitQueue[NextWaiter]
         k == TryLease(state, leased)
     IN /\ waitQueue' = SubSeq(waitQueue, NextWaiter + 1, Len(waitQueue))
        /\ settled' = settled \cup {w}
        /\ leased' = leased \ {conn[c]}
        /\ conn' = [conn EXCEPT ![c] = NoConn, ![w] = k]
        /\ pc' = [pc EXCEPT ![c] = outcome,
                            ![w] = IF k = NoConn THEN "noConn" ELSE "granted"]
  /\ UNCHANGED <<managerVars, current>>

\* The freed connection goes to the first waiter in the same turn; a waiter
\* for which no connection is found is rejected ("noConn").
ReleaseToWaiter(c, outcome) ==
  /\ pc[c] = "using"
  /\ conn[c][1] = state
  /\ NextWaiter # 0
  /\ LET w    == waitQueue[NextWaiter]
         left == leased \ {conn[c]}
         k    == TryLease(state, left)
     IN /\ waitQueue' = SubSeq(waitQueue, NextWaiter + 1, Len(waitQueue))
        /\ settled' = settled \cup {w}
        /\ leased' = left \cup ({k} \ {NoConn})
        /\ conn' = [conn EXCEPT ![c] = NoConn, ![w] = k]
        /\ pc' = [pc EXCEPT ![c] = outcome,
                            ![w] = IF k = NoConn THEN "noConn" ELSE "granted"]
  /\ UNCHANGED <<managerVars, current>>

Release(c) == \E outcome \in {"ok", "failed"} :
  \/ ReleaseForgotten(c, outcome)
  \/ ReleaseToPool(c, outcome)
  \/ ReleaseToWaiter(c, outcome)

-----------------------------------------------------------------------------
\* Seeded bug: close drops the waiters, and their timers, without rejecting them.
CloseSilently ==
  /\ isClosed' = TRUE
  /\ settled' = settled \cup ToSet(waitQueue)
  /\ waitQueue' = <<>>
  /\ state' = NoDb
  /\ openDbs' = openDbs \ {state}
  /\ UNCHANGED <<initInFlight, initDb, opened, leased, pc, current, conn>>

\* close: reject every waiter, forget the state, close its connections and
\* its instance.  The entries' leased flags go with the forgotten state.
Close ==
  /\ isClosed' = TRUE
  /\ pc' = [c \in Callers |->
              IF c \in ToSet(waitQueue) \ settled THEN "closed" ELSE pc[c]]
  /\ settled' = settled \cup ToSet(waitQueue)
  /\ waitQueue' = <<>>
  /\ state' = NoDb
  /\ openDbs' = openDbs \ {state}
  /\ UNCHANGED <<initInFlight, initDb, opened, leased, current, conn>>

-----------------------------------------------------------------------------
InitStep == InitOpen \/ InitResolve \/ InitFail
Call(c)  == CallRejected(c) \/ CallReady(c) \/ CallInit(c)
Lease(c) == LeaseNow(c) \/ Enqueue(c)

Next ==
  \/ InitStep
  \/ Close
  \/ \E c \in Callers : Call(c) \/ Lease(c) \/ AcquireTimeout(c) \/ Begin(c) \/ Release(c)

Spec == Init /\ [][Next]_vars

\* The event loop runs every continuation that is ready, createDb and connect
\* settle (bounded retries), and the leased function ends: a repository query
\* is cut off by its own timeout, the other functions run one short statement.
Progress ==
  /\ WF_vars(InitStep)
  /\ \A c \in Callers : WF_vars(Lease(c)) /\ WF_vars(Begin(c)) /\ WF_vars(Release(c))

FairSpec == Spec /\ Progress

-----------------------------------------------------------------------------
(* What the manager promises *)

\* Every variable stays in its domain.
TypeOK ==
  /\ state \in DBs \cup {NoDb} /\ initDb \in DBs \cup {NoDb}
  /\ initInFlight \in BOOLEAN /\ isClosed \in BOOLEAN
  /\ opened \in 0..MaxOpens /\ openDbs \subseteq DBs
  /\ leased \subseteq Conns
  /\ waitQueue \in Seq(Callers) /\ settled \subseteq Callers
  /\ pc \in [Callers -> Resting \cup Active]
  /\ current \in [Callers -> DBs \cup {NoDb}]
  /\ conn \in [Callers -> Conns \cup {NoConn}]

\* No connection is ever lent to two calls at once, whatever mix of direct
\* leases, hand-overs, timeouts and closes came before.
LeaseExclusive ==
  \A c, d \in Callers :
    pc[c] \in Holding /\ pc[d] \in Holding /\ conn[c] = conn[d] => c = d

\* No lease is lost: a connection of the current state that is flagged as
\* leased is in the hands of a call that will release it.
NoStuckLease ==
  \A k \in leased : k[1] = state =>
    \E c \in Callers : pc[c] \in Holding /\ conn[c] = k

\* No wake-up is lost: while a call waits, no connection it could use is free.
NoIdleConnection ==
  \A c \in Callers : pc[c] = "waiting" => FreeSlots(current[c], leased) = {}

\* The wait queue holds the waiting calls, each once and none of them settled,
\* so a timed-out or rejected waiter can never swallow a hand-over.
QueueIsTheWaiting ==
  /\ \A c \in Callers : pc[c] = "waiting" <=> c \in ToSet(waitQueue)
  /\ \A i, j \in 1..Len(waitQueue) : waitQueue[i] = waitQueue[j] => i = j
  /\ ToSet(waitQueue) \cap settled = {}

\* releaseLease never dequeues a waiter it has no connection for: the error
\* "Lease queue resumed without available connection" is unreachable.
HandOverSucceeds == \A c \in Callers : pc[c] # "noConn"

\* Until the manager is closed it serves one instance, which stays open, and
\* every call past ensureState works on that instance.
OneOpenInstance ==
  ~isClosed =>
    /\ state # NoDb => state \in openDbs /\ ~initInFlight
    /\ \A c \in Callers :
         pc[c] \in {"ensured", "waiting", "granted", "using"} => state # NoDb /\ current[c] = state
    /\ \A c \in Callers : pc[c] \in Holding => conn[c][1] = state

\* Leases are given in order of arrival: a step that gives a connection to a
\* call while others wait gives it to the one that has waited longest.
LeasesInOrder ==
  [][\A c \in Callers :
       pc'[c] = "granted" /\ pc[c] # "granted" =>
         waitQueue = <<>> \/ c = Head(waitQueue)]_vars

\* A waiting call is served or rejected even if its timer never fires.
NoStarvation ==
  \A c \in Callers : pc[c] = "waiting" ~> pc[c] # "waiting" \/ isClosed

\* Every call of withConnection settles, also one that races a close,
\* provided that timers fire.
CallsSettle ==
  (\A c \in Callers : WF_vars(AcquireTimeout(c))) =>
  \A c \in Callers : pc[c] \in Active ~> pc[c] \in Resting

\* The manager implements the abstract lease queue: the holders are the calls
\* that were given a connection, the queue is the wait queue.
Leases == INSTANCE LeaseQueue WITH
            holders <- {c \in Callers : pc[c] \in Holding},
            queue   <- waitQueue,
            closed  <- isClosed

ImplementsLeaseQueue == Leases!Spec

-----------------------------------------------------------------------------
(* Why the promises hold: the inductive invariant behind them *)

\* Callers past ensureState, still in their call.
Working == {"ensured", "waiting", "granted", "using"}

\* A manager serves at most one instance in its life: init runs only before
\* that instance exists, and every call past ensureState got that instance.
OneGeneration ==
  /\ initDb # NoDb => initInFlight /\ initDb \in openDbs /\ initDb <= opened
  /\ initInFlight /\ initDb = NoDb => opened < MaxOpens
  /\ initInFlight => state = NoDb
  /\ state <= opened
  /\ initInFlight \/ (state = NoDb /\ ~isClosed) =>
       \A c \in Callers : pc[c] \notin Working
  /\ state # NoDb /\ ~isClosed => state \in openDbs
  /\ \A c \in Callers : pc[c] \in Working =>
       /\ current[c] # NoDb /\ current[c] <= opened
       /\ state # NoDb => current[c] = state
       /\ \A d \in Callers : pc[d] \in Working => current[c] = current[d]

\* A held connection is flagged, and belongs to the instance its caller got;
\* no connection of an instance still being initialised is flagged.
LeasesFlagged ==
  /\ \A c \in Callers : pc[c] \in Holding => conn[c] \in leased /\ conn[c][1] = current[c]
  /\ \A k \in leased : k[1] <= opened /\ k[1] # initDb

PoolInv ==
  /\ TypeOK /\ OneGeneration /\ LeasesFlagged
  /\ LeaseExclusive /\ NoStuckLease /\ NoIdleConnection
  /\ QueueIsTheWaiting /\ HandOverSucceeds

-----------------------------------------------------------------------------
(* What its tests expect of close, and the code does not keep *)

\* close leaves no instance open behind it: once no init is pending, a closed
\* manager holds no instance (duckdbConnectionManager.test.ts:72 expects the
\* instance closed when close returns).
ClosedManagerHoldsNoState == isClosed /\ ~initInFlight => state = NoDb
=============================================================================
