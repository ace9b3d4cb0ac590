---------------------------- MODULE MCReplayTurn ----------------------------
(* Instances of ReplayTurn for TLC.  Turn ids are taken from the request ids. *)
EXTENDS ReplayTurn, TLC

\* Every request starts a turn of its own.
StartedTurns == [r \in Requests |-> r]

\* Every request belongs to one turn: it was started by one of them and is
\* resumed by the others.
ResumedTurn == [r \in Requests |-> CHOOSE t \in Turns : TRUE]

CallSymmetry == Permutations(Calls)

CallRequestSymmetry == Permutations(Calls) \cup Permutations(Requests)
=============================================================================
