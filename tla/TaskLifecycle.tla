--------------------------- MODULE TaskLifecycle ---------------------------
(***************************************************************************)
(* What the workshop promises of a task, whoever calls the orchestrator    *)
(* and however the calls overlap: its status moves along the edges of one  *)
(* graph, it executes only what its owner has confirmed since it was last  *)
(* aligned, the external capabilities granted to it accumulate, and a      *)
(* failed or cancelled task is left alone.  Every operation is one step    *)
(* here; WorkshopTask, where it is several, implements this specification. *)
(***************************************************************************)
CONSTANT Capabilities

VARIABLES
    status,  \* status of the task, "none" before it exists
    auth,    \* external capabilities granted to it
    go       \* its owner has confirmed the plan it was last aligned on

Running == {"executing", "blocked", "reviewing"}

Open == {"aligning", "awaiting_go", "authorized", "re_aligning"} \cup Running

Init == status = "none" /\ auth = {} /\ go = FALSE

\* A task begins by being aligned, or executing for a schedule, which carries
\* the capabilities and the confirmation of the user who made it.
Create ==
    /\ status = "none"
    /\ \/ status' = "aligning" /\ UNCHANGED <<auth, go>>
       \/ status' = "executing" /\ auth' \in SUBSET Capabilities /\ go' = TRUE

Move(from, to) == status \in from /\ status' = to /\ UNCHANGED <<auth, go>>

Confirm == status = "awaiting_go" /\ status' = "authorized" /\ go' = TRUE /\ UNCHANGED auth

\* Back to alignment: what was confirmed no longer counts.
ReAlign ==
    /\ status \in Running \cup {"done"}
    /\ status' = "re_aligning"
    /\ go' = FALSE
    /\ UNCHANGED auth

Grant ==
    /\ status \in {"authorized", "executing", "blocked"}
    /\ auth' \in {s \in SUBSET Capabilities : auth \subseteq s}
    /\ UNCHANGED <<status, go>>

Next ==
    \/ Create
    \/ Move({"aligning", "re_aligning"}, "awaiting_go")
    \/ Confirm
    \/ Move({"authorized"}, "executing")
    \/ Move({"executing", "reviewing"}, "blocked")
    \/ Move({"executing"}, "reviewing")
    \/ Move({"reviewing"}, "done")
    \/ Move(Running, "failed")
    \/ Move(Open, "cancelled")
    \/ ReAlign
    \/ Grant

Spec == Init /\ [][Next]_<<status, auth, go>>

=============================================================================
