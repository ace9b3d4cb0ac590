---------------------------- MODULE MCGeneration ----------------------------
(***************************************************************************)
(* Instances of Generation for TLC.  Each behaviour has a cast that takes  *)
(* the steps, so that the spaces add up instead of multiplying: one task   *)
(* with the calls that overlap on it; the node of two tasks, one of them   *)
(* the runner's, with one call; or all submissions.                        *)
(***************************************************************************)
EXTENDS Generation

CONSTANTS
    t1, c1,  \* the task and the call that stay when there is one of a kind
    Casts    \* the casts of the run

VARIABLE cast

mcVars == <<cast, vars>>

\* The first task can be cancelled, the others cannot.
Kinds == [t \in Tasks |-> IF t = t1 THEN "video" ELSE "image"]

MCInit == cast \in Casts /\ Init

OneTask == \A t \in Tasks \ {t1} : UNCHANGED <<sub[t], gw[t]>>
OneCall == \A c \in Calls \ {c1} : UNCHANGED call[c]

\* On the node it matters how a task ends, not which states it passes, and nobody
\* cancels one.
TasksOnlyEnd ==
    /\ \A t \in Tasks : gw'[t] \in {gw[t], NoStatus, CREATED, SUCCEEDED, FAILED}
    /\ \A c \in Calls : call'[c].pc \notin {"gateway_cancel", "cancel", "gateway_delete"}

MCNext ==
    /\ UNCHANGED cast
    /\ Next
    /\ \/ cast = "calls" /\ OneTask
       \/ cast = "node" /\ OneCall /\ TasksOnlyEnd
       \/ cast = "submissions"

MCSpec == MCInit /\ [][MCNext]_mcVars

\* The fairness of Generation, for the behaviours of one task.
Calling(A) == cast = "calls" /\ A /\ UNCHANGED cast

MCFairness ==
    /\ \A c \in Calls :
        /\ WF_mcVars(Calling(ResultStep(c)))
        /\ WF_mcVars(Calling(ProjectStep(c)))
        /\ WF_mcVars(Calling(EndStep(c)))
        /\ SF_mcVars(Calling(ObserveGateway(c)))
        /\ SF_mcVars(Calling(Apply(c) /\ call[c].res \in Terminal))
    /\ SF_mcVars(Calling(\E c \in Calls : Observe(c, t1)))

MCLiveSpec == MCSpec /\ MCFairness

\* TasksSettle for the behaviours of one task and its calls: a task that has ended
\* at the gateway ends here too, whatever became of its callback.
CalledTasksSettle == cast = "calls" => TasksSettle

=============================================================================
