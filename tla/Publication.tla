---------------------------- MODULE Publication ----------------------------
(***************************************************************************)
(* What an import promises to the readers of the database, without CSV     *)
(* files, staging tables or transactions: each dataset is served whole,    *)
(* from the run that published it last, and a run that does not publish    *)
(* changes nothing that is served.                                         *)
(***************************************************************************)
EXTENDS Naturals, Sequences

CONSTANTS Datasets, Keys

VARIABLES served,  \* for each dataset, the keys it serves, with their run
          log      \* the runs so far, oldest first: their dataset and status

vars == <<served, log>>

Init == served = [d \in Datasets |-> {}] /\ log = <<>>

Start(d) ==
  /\ log' = Append(log, <<d, "started">>)
  /\ UNCHANGED served

\* Only the newest run can still be working.
Settle(status) ==
  /\ log # <<>> /\ log[Len(log)][2] = "started"
  /\ log' = [log EXCEPT ![Len(log)] = <<log[Len(log)][1], status>>]

Publish == \E keys \in SUBSET Keys :
  /\ keys # {}
  /\ Settle("published")
  /\ served' = [served EXCEPT ![log[Len(log)][1]] = keys \X {Len(log)}]

Fail == Settle("failed") /\ UNCHANGED served

Next == Publish \/ Fail \/ \E d \in Datasets : Start(d)

Spec == Init /\ [][Next]_vars
=============================================================================
