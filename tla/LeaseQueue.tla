----------------------------- MODULE LeaseQueue -----------------------------
(***************************************************************************)
(* What a user of the connection manager may rely on, without connections, *)
(* instances or promises: a counting semaphore with a first-come           *)
(* first-served queue.  Until it is closed, a call waits only while all    *)
(* leases are out, and a returned lease passes to the first in the queue   *)
(* in the same step.  Once closed, nobody is promised a lease any more,    *)
(* but there are never more leases out than the pool has connections.      *)
(***************************************************************************)
EXTENDS Naturals, Sequences, FiniteSets, SequencesExt

CONSTANTS Callers, PoolSize

VARIABLES holders,  \* the calls that hold a lease
          queue,    \* the calls that wait, longest first
          closed

vars == <<holders, queue, closed>>

Init == holders = {} /\ queue = <<>> /\ closed = FALSE

Acquire(c) ==
  /\ c \notin holders
  /\ queue = <<>> /\ Cardinality(holders) < PoolSize
  /\ holders' = holders \cup {c}
  /\ UNCHANGED <<queue, closed>>

Wait(c) ==
  /\ c \notin holders \cup ToSet(queue)
  /\ closed \/ Cardinality(holders) = PoolSize
  /\ queue' = Append(queue, c)
  /\ UNCHANGED <<holders, closed>>

GiveUp(c) ==
  /\ c \in ToSet(queue)
  /\ queue' = RemoveFirst(queue, c)
  /\ UNCHANGED <<holders, closed>>

Return(c) ==
  /\ c \in holders
  /\ queue = <<>> \/ closed
  /\ holders' = holders \ {c}
  /\ UNCHANGED <<queue, closed>>

HandOver(c) ==
  /\ c \in holders /\ queue # <<>>
  /\ holders' = (holders \ {c}) \cup {Head(queue)}
  /\ queue' = Tail(queue)
  /\ UNCHANGED closed

Close ==
  /\ closed' = TRUE /\ queue' = <<>>
  /\ UNCHANGED holders

Next ==
  \/ Close
  \/ \E c \in Callers : Acquire(c) \/ Wait(c) \/ GiveUp(c) \/ Return(c) \/ HandOver(c)

Spec == Init /\ [][Next]_vars
=============================================================================
