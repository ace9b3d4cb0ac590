----------------------------- MODULE MCWorkshop -----------------------------
(***************************************************************************)
(* The workshop: a task, the dispatch of runs and their execution.  The    *)
(* three share no row once a run is dispatched, so each behaviour focuses  *)
(* on one of them: the spaces add up instead of multiplying.  The          *)
(* execution of runs is explored for one run and one administrator, their  *)
(* dispatch for two of each and no worker.                                 *)
(***************************************************************************)
EXTENDS WorkshopTask, WorkshopRun

CONSTANTS d1, a1

VARIABLE focus

mcVars == <<focus, taskVars, runVars>>

MCInit == focus \in {"task", "dispatch", "execute"} /\ TaskInit /\ RunInit

OneRun ==
    /\ \A d \in Dispatchers \ {d1} : UNCHANGED disp[d]
    /\ \A a \in Admins \ {a1} : UNCHANGED admin[a]
    /\ clock' <= 1

MCNext ==
    /\ UNCHANGED focus
    /\ \/ focus = "task" /\ TaskNext /\ UNCHANGED runVars
       \/ focus = "dispatch" /\ Prepare /\ UNCHANGED taskVars
       \/ focus = "execute" /\ RunNext /\ OneRun /\ UNCHANGED taskVars

MCFairness ==
    \A w \in Workers :
        WF_mcVars(focus = "execute" /\ Execute(w) /\ UNCHANGED <<focus, taskVars>>)

MCSpec == MCInit /\ [][MCNext]_mcVars /\ MCFairness

\* The tables, the messages and the locals of all processes have their types.
WorkshopTypeOK == TaskTypeOK /\ RunTypeOK

\* RunsSettle for the behaviours that have workers: every message ends its run,
\* although whole workers die and messages are delivered twice, unless the run was
\* deleted or revoked or what executed it failed.
FocusedRunsSettle == focus = "execute" => RunsSettle
=============================================================================
