-------------------------- MODULE MCConnectionPool --------------------------
(* Small instances of ConnectionPool for the model checker. *)
EXTENDS ConnectionPool

\* Callers are interchangeable; sound in runs without liveness properties.
CallerSymmetry == Permutations(Callers)
=============================================================================
