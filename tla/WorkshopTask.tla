---------------------------- MODULE WorkshopTask ----------------------------
(***************************************************************************)
(* A task of the workshop: the proposal it comes from, its status machine, *)
(* the external capabilities granted to it and used by it, its review, and *)
(* the operations its owner authorises in the brief of the project         *)
(* (src/app/server/workshop/services/task_orchestrator.py,                 *)
(* src/app/server/workshop/persistence/repository.py).                     *)
(*                                                                         *)
(* The HTTP calls run in any number of processes.  One step is one         *)
(* statement or transaction of the database; the row an operation has read *)
(* is a local of its call until the compare-and-set that uses it.  A call  *)
(* that finds its guard false raises and changes nothing, so it is not a   *)
(* step.                                                                   *)
(***************************************************************************)
EXTENDS Naturals, FiniteSets

CONSTANTS
    TaskCalls,     \* HTTP calls about the task that may overlap
    Capabilities,  \* external capabilities: the ones that need a grant
    MaxRevision    \* bound on the revision of the row

ASSUME MaxRevisionAssumption == MaxRevision \in Nat \ {0}

VARIABLES
    proposal,  \* status of the proposal, "none" before the host makes it
    row,       \* row of the task in workshop_tasks
    uses,      \* capabilities recorded as used
    brief,     \* <<call, capability>> of the operations in the project brief
    call,      \* call -> its next step and locals
    created,   \* tasks created from the proposal
    go,        \* the owner has confirmed since the task was last aligned
    granted    \* capabilities whose grant was acknowledged

taskVars == <<proposal, row, uses, brief, call, created, go, granted>>

Status == {"aligning", "awaiting_go", "authorized", "executing", "blocked", "re_aligning",
           "reviewing", "done", "failed", "cancelled"}

Rows == [status : Status \cup {"none"}, revision : Nat, auth : SUBSET Capabilities,
         scheduled : BOOLEAN]

NoRow == [status |-> "none", revision |-> 0, auth |-> {}, scheduled |-> FALSE]

Steps == {"idle", "confirm", "transition", "record", "grant", "uses", "accept", "block",
          "review", "review_cas", "reread", "brief", "save_brief"}

\* row: the row read; target: the status asked for, or that a failed review
\* leads to; caps: the capabilities asked for; seen: the brief read.
Locals == [pc : Steps, row : Rows, target : Status \cup {"none"}, caps : SUBSET Capabilities,
           seen : SUBSET (TaskCalls \X Capabilities)]

Idle == [pc |-> "idle", row |-> NoRow, target |-> "none", caps |-> {}, seen |-> {}]

\* The tables, the locals of the calls and the history have their types.
TaskTypeOK ==
    /\ proposal \in {"none", "pending", "confirmed", "declined"}
    /\ row \in Rows
    /\ uses \subseteq Capabilities
    /\ brief \subseteq TaskCalls \X Capabilities
    /\ call \in [TaskCalls -> Locals]
    /\ created \in Nat
    /\ go \in BOOLEAN
    /\ granted \subseteq Capabilities

TaskInit ==
    /\ proposal = "none"
    /\ row = NoRow
    /\ uses = {}
    /\ brief = {}
    /\ call = [c \in TaskCalls |-> Idle]
    /\ created = 0
    /\ go = FALSE
    /\ granted = {}

Goto(c, locals) == call' = [call EXCEPT ![c] = locals]

-----------------------------------------------------------------------------
\* The proposal

CreateTaskProposal ==
    /\ proposal = "none" /\ row = NoRow
    /\ proposal' = "pending"
    /\ UNCHANGED <<row, uses, brief, call, created, go, granted>>

\* The transaction selects the pending proposal, then updates it if it is
\* still pending and creates the task.
ConfirmTaskProposal(c) ==
    /\ call[c].pc = "idle"
    /\ proposal = "pending"
    /\ Goto(c, [Idle EXCEPT !.pc = "confirm"])
    /\ UNCHANGED <<proposal, row, uses, brief, created, go, granted>>

\* Mutant: the update does not ask whether the proposal is still pending.
ClaimProposalBlindly(c) ==
    /\ call[c].pc = "confirm"
    /\ Goto(c, Idle)
    /\ proposal' = "confirmed"
    /\ row' = [NoRow EXCEPT !.status = "aligning", !.revision = 1]
    /\ created' = created + 1
    /\ UNCHANGED <<uses, brief, go, granted>>

ClaimProposal(c) ==
    /\ call[c].pc = "confirm"
    /\ Goto(c, Idle)
    /\ \/ /\ proposal = "pending"
          /\ proposal' = "confirmed"
          /\ row' = [NoRow EXCEPT !.status = "aligning", !.revision = 1]
          /\ created' = created + 1
       \/ /\ proposal # "pending"
          /\ UNCHANGED <<proposal, row, created>>
    /\ UNCHANGED <<uses, brief, go, granted>>

DeclineTaskProposal ==
    /\ proposal = "pending"
    /\ proposal' = "declined"
    /\ UNCHANGED <<row, uses, brief, call, created, go, granted>>

\* A schedule starts an executing task with its own grants.
StartScheduledTask(caps) ==
    /\ proposal = "none" /\ row = NoRow
    /\ row' = [status |-> "executing", revision |-> 1, auth |-> caps, scheduled |-> TRUE]
    /\ granted' = caps
    /\ go' = TRUE
    /\ UNCHANGED <<proposal, uses, brief, call, created>>

-----------------------------------------------------------------------------
\* Status transitions: read the row, check it, then compare and set

Get(c, from, locals) ==
    /\ call[c].pc = "idle"
    /\ row.status \in from
    /\ row.revision < MaxRevision
    /\ Goto(c, locals)
    /\ UNCHANGED <<proposal, row, uses, brief, created, go, granted>>

Transition(c, from, target) ==
    Get(c, from, [Idle EXCEPT !.pc = "transition", !.row = row, !.target = target])

HostProposeGo(c) == Transition(c, {"aligning", "re_aligning"}, "awaiting_go")
UserConfirmGo(c) == Transition(c, {"awaiting_go"}, "authorized")
BeginExecution(c) == Transition(c, {"authorized"}, "executing")
MarkBlocked(c) == Transition(c, {"executing"}, "blocked")
MarkReAligning(c) == Transition(c, {"executing", "blocked", "reviewing"}, "re_aligning")
MarkReviewing(c) == Transition(c, {"executing"}, "reviewing")
Cancel(c) == Transition(c, Status \ {"done", "failed", "cancelled"}, "cancelled")
Fail(c) == Transition(c, {"executing", "blocked", "reviewing"}, "failed")
UserRejectDone(c) == Transition(c, {"done"}, "re_aligning")
FailReviewBlocked(c) == Transition(c, {"reviewing"}, "blocked")

\* Mutant: the revision is not compared.
MatchesStatusOnly(expected) == row.status = expected.status

\* The row the update of a compare-and-set finds.
Matches(expected) == row.revision = expected.revision /\ row.status = expected.status

SetStatus(target) ==
    /\ row' = [row EXCEPT !.status = target, !.revision = row.revision + 1]
    /\ go' = CASE target = "authorized" -> TRUE
               [] target = "re_aligning" -> FALSE
               [] OTHER -> go

\* A lost compare-and-set raises and leaves the row alone.
UpdateTaskStatusCas(c) ==
    /\ call[c].pc = "transition"
    /\ Goto(c, Idle)
    /\ \/ Matches(call[c].row) /\ SetStatus(call[c].target)
       \/ ~Matches(call[c].row) /\ UNCHANGED <<row, go>>
    /\ UNCHANGED <<proposal, uses, brief, created, granted>>

-----------------------------------------------------------------------------
\* Capabilities

GrantExternalAuth(c) ==
    \E caps \in SUBSET Capabilities :
        Get(c, {"authorized", "executing", "blocked"},
            [Idle EXCEPT !.pc = "grant", !.row = row, !.caps = caps])

UpdateTaskExternalAuthCas(c) ==
    /\ call[c].pc = "grant"
    /\ Goto(c, Idle)
    /\ \/ /\ Matches(call[c].row)
          /\ row' = [row EXCEPT !.auth = call[c].row.auth \cup call[c].caps,
                                !.revision = row.revision + 1]
          /\ granted' = granted \cup call[c].caps
       \/ ~Matches(call[c].row) /\ UNCHANGED <<row, granted>>
    /\ UNCHANGED <<proposal, uses, brief, created, go>>

RecordCapabilityUse(c) ==
    \E cap \in Capabilities :
        Get(c, {"executing", "blocked"}, [Idle EXCEPT !.pc = "record", !.caps = {cap}])

\* A plain insert: the status is not looked at again.
InsertCapabilityUse(c) ==
    /\ call[c].pc = "record"
    /\ uses' = uses \cup call[c].caps
    /\ Goto(c, Idle)
    /\ UNCHANGED <<proposal, row, brief, created, go, granted>>

-----------------------------------------------------------------------------
\* Review

WeakAccept(c) ==
    Get(c, {"reviewing"}, [Idle EXCEPT !.pc = "uses", !.row = row])

\* complete_scheduled_run: a task that is still executing is first put under
\* review; one in another status goes on to be refused by the compare-and-set.
CompleteScheduledRun(c) ==
    /\ row.scheduled
    /\ Get(c, Status, [Idle EXCEPT !.pc = IF row.status = "executing" THEN "review" ELSE "uses",
                                   !.row = row, !.target = "blocked"])

ReviewScheduledRun(c) ==
    /\ call[c].pc = "review"
    /\ \/ /\ row.status = "executing"
          /\ Goto(c, [call[c] EXCEPT !.pc = "review_cas", !.row = row])
       \/ row.status # "executing" /\ Goto(c, Idle)
    /\ UNCHANGED <<proposal, row, uses, brief, created, go, granted>>

ReviewScheduledRunCas(c) ==
    /\ call[c].pc = "review_cas"
    /\ \/ /\ Matches(call[c].row)
          /\ SetStatus("reviewing")
          /\ Goto(c, [call[c] EXCEPT !.pc = "reread"])
       \/ /\ ~Matches(call[c].row)
          /\ Goto(c, Idle)
          /\ UNCHANGED <<row, go>>
    /\ UNCHANGED <<proposal, uses, brief, created, granted>>

\* The update is followed by a read of its own, which may see a later row.
RequireTask(c) ==
    /\ call[c].pc = "reread"
    /\ Goto(c, [call[c] EXCEPT !.pc = "uses", !.row = row])
    /\ UNCHANGED <<proposal, row, uses, brief, created, go, granted>>

\* evaluate_weak_accept, where met says whether the goals and the artifacts
\* pass.
EvaluateWeakAccept(used, auth, met) == met /\ used \subseteq auth

\* The uses are read after the row.  A review that fails is only reported,
\* unless it is the one of a scheduled run, which blocks the task.
ListCapabilityUses(c) ==
    /\ call[c].pc = "uses"
    /\ \E met \in BOOLEAN :
        LET passed == EvaluateWeakAccept(uses, call[c].row.auth, met) IN
        \/ passed /\ Goto(c, [call[c] EXCEPT !.pc = "accept"])
        \/ ~passed /\ call[c].target = "blocked" /\ Goto(c, [call[c] EXCEPT !.pc = "block"])
        \/ ~passed /\ call[c].target # "blocked" /\ Goto(c, Idle)
    /\ UNCHANGED <<proposal, row, uses, brief, created, go, granted>>

\* Mutant: the completion does not ask for a task under review.
CanCompleteAny(c) == row.revision = call[c].row.revision

CanComplete(c) == row.revision = call[c].row.revision /\ row.status = "reviewing"

\* The compare-and-set and the artifacts are one transaction.
CompleteWeakAccept(c) ==
    /\ call[c].pc = "accept"
    /\ Goto(c, Idle)
    /\ \/ CanComplete(c) /\ SetStatus("done")
       \/ ~CanComplete(c) /\ UNCHANGED <<row, go>>
    /\ UNCHANGED <<proposal, uses, brief, created, granted>>

CompleteScheduledBlocked(c) ==
    /\ call[c].pc = "block"
    /\ Goto(c, Idle)
    /\ \/ CanComplete(c) /\ SetStatus("blocked")
       \/ ~CanComplete(c) /\ UNCHANGED <<row, go>>
    /\ UNCHANGED <<proposal, uses, brief, created, granted>>

-----------------------------------------------------------------------------
\* The project brief: read, changed and written back as a whole

AuthorizeOperation(c) ==
    \E cap \in row.auth :
        Get(c, {"authorized", "executing", "blocked"},
            [Idle EXCEPT !.pc = "brief", !.caps = {cap}])

BeginShopAuth(c) ==
    /\ call[c].pc = "idle"
    /\ Goto(c, [Idle EXCEPT !.pc = "brief"])
    /\ UNCHANGED <<proposal, row, uses, brief, created, go, granted>>

GetProjectBrief(c) ==
    /\ call[c].pc = "brief"
    /\ Goto(c, [call[c] EXCEPT !.pc = "save_brief", !.seen = brief])
    /\ UNCHANGED <<proposal, row, uses, brief, created, go, granted>>

UpdateProjectBrief(c) ==
    /\ call[c].pc = "save_brief"
    /\ brief' = call[c].seen \cup ({c} \X call[c].caps)
    /\ Goto(c, Idle)
    /\ UNCHANGED <<proposal, row, uses, created, go, granted>>

-----------------------------------------------------------------------------
TaskCall(c) ==
    \/ ConfirmTaskProposal(c) \/ ClaimProposal(c)
    \/ HostProposeGo(c) \/ UserConfirmGo(c) \/ BeginExecution(c) \/ MarkBlocked(c)
    \/ MarkReAligning(c) \/ MarkReviewing(c) \/ Cancel(c) \/ Fail(c)
    \/ UserRejectDone(c) \/ FailReviewBlocked(c) \/ UpdateTaskStatusCas(c)
    \/ GrantExternalAuth(c) \/ UpdateTaskExternalAuthCas(c)
    \/ RecordCapabilityUse(c) \/ InsertCapabilityUse(c)
    \/ WeakAccept(c) \/ CompleteScheduledRun(c) \/ ReviewScheduledRun(c)
    \/ ReviewScheduledRunCas(c) \/ RequireTask(c) \/ ListCapabilityUses(c)
    \/ CompleteWeakAccept(c) \/ CompleteScheduledBlocked(c)
    \/ AuthorizeOperation(c) \/ BeginShopAuth(c)
    \/ GetProjectBrief(c) \/ UpdateProjectBrief(c)

TaskNext ==
    \/ CreateTaskProposal
    \/ DeclineTaskProposal
    \/ \E caps \in SUBSET Capabilities : StartScheduledTask(caps)
    \/ \E c \in TaskCalls : TaskCall(c)

TaskSpec == TaskInit /\ [][TaskNext]_taskVars

-----------------------------------------------------------------------------
\* A proposal that two calls confirm, or that one confirms while another
\* declines it, makes at most one task, and makes it exactly when it ends
\* confirmed (confirm_task_proposal, decline_task_proposal).
OneTaskPerProposal ==
    /\ created = (IF proposal = "confirmed" THEN 1 ELSE 0)
    /\ row.status # "none" => proposal = "confirmed" \/ row.scheduled

\* No grant that was acknowledged is lost to a concurrent grant or transition
\* (update_task_external_auth_cas writes the whole set back), and every
\* operation written to the brief is one whose capability the task has.
GrantsKept ==
    /\ granted = row.auth
    /\ \A op \in brief : op[2] \in row.auth

Lifecycle == INSTANCE TaskLifecycle WITH status <- row.status, auth <- row.auth

\* The orchestrator, whose operations read and then compare and set, implements
\* the lifecycle of atomic operations: no stale call moves a task along an edge
\* it may not take, executes it without a confirmation given since it was last
\* aligned, revives a failed or cancelled one, or takes a grant away.
ImplementsLifecycle == Lifecycle!Spec

=============================================================================
