----------------------------- MODULE Generation -----------------------------
(***************************************************************************)
(* Generation tasks and the canvas node they are generated for: their      *)
(* submission (by a user, the agent or the workflow runner), the gateway's *)
(* callbacks, status queries, cancellation, deletion, and the projection   *)
(* of a task on the node it is bound to                                    *)
(* (src/app/server/generation/services/service.py,                         *)
(* src/app/server/canvas/services/generation_bind.py, generation_sync.py,  *)
(* src/app/server/ports/adapters.py, src/app/agent/canvas/workflow).       *)
(*                                                                         *)
(* One step is one statement or transaction of the database, or one call   *)
(* to the gateway; a value read in one step and used in a later one is a   *)
(* local of the call.  Nothing is locked across steps, so a process that   *)
(* dies is one that takes no further step.                                 *)
(***************************************************************************)
EXTENDS GenerateTask

CONSTANTS
    Tasks,     \* submissions, each with the task it creates
    OnCanvas,  \* the ones for the node; the others come from the creation page
    Runners,   \* the ones the workflow runner makes when an upstream node ends
    Kind,      \* task -> "image", "video" or "audio"
    Calls,     \* callbacks, queries, cancels and deletes that may overlap
    NoTask

ASSUME OnCanvasAssumption == OnCanvas \subseteq Tasks
ASSUME RunnersAssumption == Runners \subseteq OnCanvas
ASSUME KindAssumption == Kind \in [Tasks -> {"image", "video", "audio"}]
ASSUME NoTaskAssumption == NoTask \notin Tasks

VARIABLES
    task,  \* task -> its row in generate_task
    gw,    \* task -> its status at the gateway
    node,  \* the projection fields of the node's data
    sub,   \* task -> the next step of its submission
    seen,  \* task -> the node as its runner read it
    call   \* call -> its next step and locals

vars == <<task, gw, node, sub, seen, call>>

MaybeTask == Tasks \cup {NoTask}

NodeStatus == {"idle", "waiting_inputs", "running", "success", "failed"}

\* assets and error name the task whose results and error the node shows.
Nodes == [task : MaybeTask, status : NodeStatus, assets : MaybeTask, error : MaybeTask]

FreshNode == [task |-> NoTask, status |-> "idle", assets |-> NoTask, error |-> NoTask]

SubSteps == {"idle", "gate", "config", "persist", "reread", "inputs", "check", "create",
             "gateway", "mark_failed", "bind_union", "bind_node", "fail",
             "bound", "refused", "stopped"}

CallSteps == {"idle", "observe", "apply", "mark_sent", "project", "lookup", "write",
              "gateway_cancel", "cancel", "gateway_delete", "delete"}

\* t: the task; cur: the status it read; res, err, sent: the result to apply;
\* callback, projects: the kind of call; row: the row read for the projection.
Locals == [pc : CallSteps, t : MaybeTask, cur : GatewayTaskStatus \cup {NoStatus},
           res : GatewayTaskStatus \cup {NoStatus}, err : BOOLEAN, sent : BOOLEAN,
           callback : BOOLEAN, projects : BOOLEAN, row : Rows]

Idle == [pc |-> "idle", t |-> NoTask, cur |-> NoStatus, res |-> NoStatus, err |-> FALSE,
         sent |-> FALSE, callback |-> FALSE, projects |-> FALSE, row |-> NoRow]

\* The rows, the gateway, the node and the locals of submissions and calls have
\* their types.
TypeOK ==
    /\ task \in [Tasks -> Rows]
    /\ gw \in [Tasks -> GatewayTaskStatus \cup {NoStatus}]
    /\ node \in Nodes
    /\ sub \in [Tasks -> SubSteps]
    /\ seen \in [Tasks -> Nodes]
    /\ call \in [Calls -> Locals]

Init ==
    /\ task = [t \in Tasks |-> NoRow]
    /\ gw = [t \in Tasks |-> NoStatus]
    /\ node = FreshNode
    /\ sub = [t \in Tasks |-> "idle"]
    /\ seen = [t \in Tasks |-> FreshNode]
    /\ call = [c \in Calls |-> Idle]

-----------------------------------------------------------------------------
\* The node

Bound(t) == t # NoTask /\ node.task = t

\* classify_node_generate_gate
Gate ==
    IF node.task # NoTask /\ IsActive(task[node.task]) THEN "busy"
    ELSE IF node.task # NoTask /\ Exists(task[node.task]) /\ ~task[node.task].deleted
    THEN IF task[node.task].status = SUCCEEDED THEN "done" ELSE "idle"
    ELSE IF node.assets # NoTask THEN "done" ELSE "idle"

\* Mutant: without output assets, the ones of the node are cleared.
UpdateNodeGenerationClears(t, status, assets, error) ==
    node' = [task |-> t, status |-> status, assets |-> assets, error |-> error]

\* CanvasService.update_node_generation: the status, the task and the error are
\* always written, the output assets only when some are given.
UpdateNodeGeneration(t, status, assets, error) ==
    node' = [task |-> t, status |-> status,
             assets |-> IF assets # NoTask THEN assets ELSE node.assets,
             error |-> error]

-----------------------------------------------------------------------------
\* A submission: GenerationService.submit, called by submit_generate, by the
\* agent's tool or by CanvasWorkflowRunner.advance_node.

SubGoto(t, from, to) == sub[t] = from /\ sub' = [sub EXCEPT ![t] = to]

\* An exception ends a submission; the runner catches it and marks the node.
Raise(t) == sub' = [sub EXCEPT ![t] = IF t \in Runners THEN "fail" ELSE "refused"]

\* advance_node reads the node, ...
RunnerRead(t) ==
    /\ t \in Runners
    /\ SubGoto(t, "idle", "gate")
    /\ seen' = [seen EXCEPT ![t] = node]
    /\ UNCHANGED <<task, gw, node, call>>

\* ... leaves it alone if a task occupies it or it has a result, ...
RunnerGate(t) ==
    /\ SubGoto(t, "gate", IF Gate = "idle" THEN "config" ELSE "stopped")
    /\ UNCHANGED <<task, gw, node, seen, call>>

\* ... resolves the configuration and, if that changed it, reads the node
\* again, writes it back with the new configuration and reads it once more.
RunnerConfig(t) ==
    /\ \/ SubGoto(t, "config", "inputs") /\ UNCHANGED seen
       \/ SubGoto(t, "config", "persist") /\ seen' = [seen EXCEPT ![t] = node]
    /\ UNCHANGED <<task, gw, node, call>>

RunnerPersist(t) ==
    /\ SubGoto(t, "persist", "reread")
    /\ UpdateNodeGeneration(seen[t].task, seen[t].status, NoTask, seen[t].error)
    /\ UNCHANGED <<task, gw, seen, call>>

RunnerReread(t) ==
    /\ SubGoto(t, "reread", "inputs")
    /\ seen' = [seen EXCEPT ![t] = node]
    /\ UNCHANGED <<task, gw, node, call>>

\* If inputs are missing the node is marked and keeps the task it was read with.
RunnerInputs(t) ==
    /\ \/ SubGoto(t, "inputs", "check") /\ UNCHANGED node
       \/ /\ SubGoto(t, "inputs", "stopped")
          /\ UpdateNodeGeneration(seen[t].task, "waiting_inputs", NoTask, t)
    /\ UNCHANGED <<task, gw, seen, call>>

\* The handler of advance_node: the node fails, and is bound to no task.
RunnerFail(t) ==
    /\ SubGoto(t, "fail", "stopped")
    /\ UpdateNodeGeneration(NoTask, "failed", NoTask, t)
    /\ UNCHANGED <<task, gw, seen, call>>

\* submit first refuses a node that a task occupies, ...
SubmitCheck(t) ==
    /\ sub[t] = IF t \in Runners THEN "check" ELSE "idle"
    /\ IF t \in OnCanvas /\ Gate = "busy"
       THEN Raise(t)
       ELSE sub' = [sub EXCEPT ![t] = "create"]
    /\ UNCHANGED <<task, gw, node, seen, call>>

\* ... validates the parameters and the reference materials ...
SubmitInvalid(t) ==
    /\ sub[t] = "create"
    /\ Raise(t)
    /\ UNCHANGED <<task, gw, node, seen, call>>

\* ... and creates the row.
SubmitCreate(t) ==
    /\ SubGoto(t, "create", "gateway")
    /\ task' = [task EXCEPT ![t] = Create(@)]
    /\ UNCHANGED <<gw, node, seen, call>>

SubmitToGateway(t) ==
    /\ SubGoto(t, "gateway", "bind_union")
    /\ gw' = [gw EXCEPT ![t] = CREATED]
    /\ UNCHANGED <<task, node, seen, call>>

\* A call that fails may have reached the gateway.
SubmitToGatewayFails(t) ==
    /\ SubGoto(t, "gateway", "mark_failed")
    /\ gw' \in {gw, [gw EXCEPT ![t] = CREATED]}
    /\ UNCHANGED <<task, node, seen, call>>

SubmitMarkFailed(t) ==
    /\ sub[t] = "mark_failed"
    /\ task' = [task EXCEPT ![t] = MarkFailedIfNonTerminal(@)]
    /\ Raise(t)
    /\ UNCHANGED <<gw, node, seen, call>>

SubmitBindUnion(t) ==
    /\ SubGoto(t, "bind_union", IF t \in OnCanvas THEN "bind_node" ELSE "bound")
    /\ task' = [task EXCEPT ![t] = BindUnionTaskQueued(@)]
    /\ UNCHANGED <<gw, node, seen, call>>

\* bind_generate_task_to_node checks again, with the node's row locked, and
\* only writes the task id: the node's status is left to the projection.
SubmitBindNode(t) ==
    /\ sub[t] = "bind_node"
    /\ IF node.task \notin {NoTask, t} /\ IsActive(task[node.task])
       THEN Raise(t) /\ UNCHANGED node
       ELSE /\ sub' = [sub EXCEPT ![t] = "bound"]
            /\ node' = [node EXCEPT !.task = t]
    /\ UNCHANGED <<task, gw, seen, call>>

RunnerStep(t) ==
    \/ RunnerRead(t) \/ RunnerGate(t) \/ RunnerConfig(t) \/ RunnerPersist(t)
    \/ RunnerReread(t) \/ RunnerInputs(t) \/ RunnerFail(t)

SubmitStep(t) ==
    \/ SubmitCheck(t) \/ SubmitInvalid(t) \/ SubmitCreate(t) \/ SubmitToGateway(t)
    \/ SubmitToGatewayFails(t) \/ SubmitMarkFailed(t) \/ SubmitBindUnion(t)
    \/ SubmitBindNode(t)

-----------------------------------------------------------------------------
\* The gateway (external): a task moves forward until it ends.

GatewayAdvance(t) ==
    /\ gw[t] \in NonTerminal
    /\ \E s \in GatewayTaskStatus : s > gw[t] /\ gw' = [gw EXCEPT ![t] = s]
    /\ UNCHANGED <<task, node, sub, seen, call>>

\* What it may report with a status: results only with a success, a reason only
\* with a failure or a cancellation, either of them possibly missing.
Reports(s) ==
    {r \in [urls : BOOLEAN, reason : BOOLEAN] :
        (r.urls => s = SUCCEEDED) /\ (r.reason => s \in {FAILED, CANCELLED})}

-----------------------------------------------------------------------------
\* Calls

Goto(c, from, to) == call[c].pc = from /\ call' = [call EXCEPT ![c].pc = to]
Return(c) == call' = [call EXCEPT ![c] = Idle]

\* The call goes on with the projection, if it is one that projects.
Finish(c, local) ==
    call' = [call EXCEPT ![c] =
        IF local.projects THEN [Idle EXCEPT !.pc = "project", !.t = local.t, !.projects = TRUE]
        ELSE Idle]

\* handle_callback up to the update.  It fails if the id is not stored yet, the
\* task is deleted or the report is invalid.
HandleCallback(c, t, s, report) ==
    LET result == Normalize(s, report.urls, report.reason)
        local == [Idle EXCEPT !.t = t, !.callback = TRUE, !.projects = TRUE]
    IN /\ task[t].union /\ ~task[t].deleted
       /\ IF task[t].sent /\ IsTerminal(task[t])
          THEN Finish(c, local)
          ELSE /\ result # Invalid
               /\ call' = [call EXCEPT ![c] =
                    IF Advances(task[t].status, result)
                    THEN [local EXCEPT !.pc = "apply", !.cur = task[t].status,
                            !.res = result, !.sent = TRUE,
                            !.err = NormalizedError(s, report.urls, report.reason)]
                    ELSE [local EXCEPT !.pc = "mark_sent"]]

\* receive_generate_callback: a callback with a status that the gateway has
\* reached, perhaps late, repeated or out of order.
Callback(c, t) ==
    /\ call[c].pc = "idle"
    /\ gw[t] # NoStatus
    /\ \E s \in {gw[t]} \cup {n \in NonTerminal : n < gw[t]} :
        \E report \in Reports(s) : HandleCallback(c, t, s, report)
    /\ UNCHANGED <<task, gw, node, sub, seen>>

\* Mutant: a task whose callback was handled is not asked for again.
ObserveUnsent(c, t) ==
    /\ call[c].pc = "idle"
    /\ Exists(task[t]) /\ ~task[t].deleted
    /\ \E projects \in BOOLEAN :
        LET local == [Idle EXCEPT !.t = t, !.projects = projects]
        IN IF IsTerminal(task[t]) \/ ~task[t].union \/ task[t].sent
           THEN Finish(c, local)
           ELSE call' = [call EXCEPT ![c] =
                    [local EXCEPT !.pc = "observe", !.cur = task[t].status]]
    /\ UNCHANGED <<task, gw, node, sub, seen>>

\* observe_task: the row is read; a task that has ended or is not known to the
\* gateway is returned as it is.  The status queries of the API do not project
\* the task on the canvas, the agent's list_node_generations does.
Observe(c, t) ==
    /\ call[c].pc = "idle"
    /\ Exists(task[t]) /\ ~task[t].deleted
    /\ \E projects \in BOOLEAN :
        LET local == [Idle EXCEPT !.t = t, !.projects = projects]
        IN IF IsTerminal(task[t]) \/ ~task[t].union
           THEN Finish(c, local)
           ELSE call' = [call EXCEPT ![c] =
                    [local EXCEPT !.pc = "observe", !.cur = task[t].status]]
    /\ UNCHANGED <<task, gw, node, sub, seen>>

\* Then the gateway is asked, once for the status and once more for the result
\* of a task that has ended.  An answer that fails or is invalid is ignored.
ObserveGateway(c) ==
    LET t == call[c].t
        s == gw[t]
    IN /\ call[c].pc = "observe"
       /\ \E report \in Reports(s) :
            LET result == Normalize(s, report.urls, report.reason)
            IN /\ result # Invalid /\ s # call[c].cur
               /\ IF Advances(call[c].cur, result)
                  THEN call' = [call EXCEPT ![c].pc = "apply", ![c].res = result,
                                    ![c].sent = s \in Terminal,
                                    ![c].err = NormalizedError(s, report.urls, report.reason)]
                  ELSE Finish(c, call[c])
       /\ UNCHANGED <<task, gw, node, sub, seen>>

ObserveNothing(c) ==
    /\ call[c].pc = "observe"
    /\ Finish(c, call[c])
    /\ UNCHANGED <<task, gw, node, sub, seen>>

\* apply_result: compare-and-set on the status that was read.
Apply(c) ==
    LET t == call[c].t
    IN /\ call[c].pc = "apply"
       /\ IF MatchesStatus(task[t], call[c].cur)
          THEN /\ task' = [task EXCEPT ![t] =
                              ApplyFields(@, call[c].res, call[c].err, call[c].sent)]
               /\ Finish(c, call[c])
          ELSE /\ IF call[c].callback
                  THEN Goto(c, "apply", "mark_sent")
                  ELSE Finish(c, call[c])
               /\ UNCHANGED task
       /\ UNCHANGED <<gw, node, sub, seen>>

\* Creating the assets of the result fails: the transaction is rolled back and
\* the call raises.
ApplyRollsBack(c) ==
    /\ call[c].pc = "apply" /\ call[c].res = SUCCEEDED
    /\ MatchesStatus(task[call[c].t], call[c].cur)
    /\ Return(c)
    /\ UNCHANGED <<task, gw, node, sub, seen>>

\* handle_callback when the result was not applied
MarkSent(c) ==
    /\ call[c].pc = "mark_sent"
    /\ task' = [task EXCEPT ![call[c].t] = MarkCallbackSent(@)]
    /\ Finish(c, call[c])
    /\ UNCHANGED <<gw, node, sub, seen>>

\* project_generation_task: the task and the node bound to it are read.
ProjectRead(c) ==
    LET t == call[c].t
    IN /\ call[c].pc = "project"
       /\ IF ~task[t].deleted /\ Bound(t)
          THEN call' = [call EXCEPT ![c].pc = "lookup", ![c].row = task[t]]
          ELSE Return(c)
       /\ UNCHANGED <<task, gw, node, sub, seen>>

\* node_status_from_task
NodeStatusFromTask(row) ==
    CASE row.status \in NonTerminal -> "running"
      [] row.status = SUCCEEDED -> "success"
      [] OTHER -> "failed"

\* canvas_node_needs_sync
NeedsSync(row) ==
    \/ node.status # NodeStatusFromTask(row)
    \/ row.status = SUCCEEDED /\ row.assets /\ node.assets = NoTask
    \/ row.status \in {FAILED, CANCELLED} /\ row.error /\ node.error = NoTask

\* project_from_task, reconcile_canvas_node_for_task: the node is read again; a
\* task that has ended is not written to a node found in sync.  (The node is then
\* looked up a second time; unbinding it before that is unbinding it before this.)
ProjectLookup(c) ==
    LET row == call[c].row
    IN /\ call[c].pc = "lookup"
       /\ IF Bound(call[c].t) /\ (IsTerminal(row) => NeedsSync(row))
          THEN Goto(c, "lookup", "write")
          ELSE Return(c)
       /\ UNCHANGED <<task, gw, node, sub, seen>>

\* sync_canvas_node_from_generate_task writes the row it was given.
ProjectWrite(c) ==
    LET t == call[c].t
        row == call[c].row
    IN /\ call[c].pc = "write"
       /\ UpdateNodeGeneration(t, NodeStatusFromTask(row),
            IF row.assets THEN t ELSE NoTask, IF row.error THEN t ELSE NoTask)
       /\ Return(c)
       /\ UNCHANGED <<task, gw, sub, seen>>

\* _attach_generation_output_assets: an asset was deleted meanwhile.
ProjectRejected(c) ==
    /\ call[c].pc = "write" /\ call[c].row.assets
    /\ Return(c)
    /\ UNCHANGED <<task, gw, node, sub, seen>>

\* cancel: an image cannot be cancelled; the gateway is told if it knows the task.
Cancel(c, t) ==
    /\ call[c].pc = "idle"
    /\ Exists(task[t]) /\ ~task[t].deleted /\ Kind[t] # "image"
    /\ call' = [call EXCEPT ![c] =
            [Idle EXCEPT !.t = t, !.pc = IF task[t].union THEN "gateway_cancel" ELSE "cancel"]]
    /\ UNCHANGED <<task, gw, node, sub, seen>>

\* The gateway ends a task that is still running.
Stopped(s) == IF s \in NonTerminal THEN CANCELLED ELSE s

CancelAtGateway(c) ==
    /\ call[c].pc = "gateway_cancel"
    /\ \/ Goto(c, "gateway_cancel", "cancel") /\ gw' = [gw EXCEPT ![call[c].t] = Stopped(@)]
       \/ Return(c) /\ UNCHANGED gw
    /\ UNCHANGED <<task, node, sub, seen>>

CancelRow(c) ==
    /\ call[c].pc = "cancel"
    /\ task' = [task EXCEPT ![call[c].t] = CancelIfNonTerminal(@)]
    /\ Return(c)
    /\ UNCHANGED <<gw, node, sub, seen>>

\* delete_task: only a running video is cancelled at the gateway, and a failure
\* of that is ignored.
Delete(c, t) ==
    /\ call[c].pc = "idle"
    /\ Exists(task[t]) /\ ~task[t].deleted
    /\ call' = [call EXCEPT ![c] = [Idle EXCEPT !.t = t, !.pc =
            IF ~IsTerminal(task[t]) /\ task[t].union /\ Kind[t] = "video"
            THEN "gateway_delete" ELSE "delete"]]
    /\ UNCHANGED <<task, gw, node, sub, seen>>

DeleteAtGateway(c) ==
    /\ Goto(c, "gateway_delete", "delete")
    /\ gw' \in {gw, [gw EXCEPT ![call[c].t] = Stopped(@)]}
    /\ UNCHANGED <<task, node, sub, seen>>

DeleteRow(c) ==
    /\ call[c].pc = "delete"
    /\ task' = [task EXCEPT ![call[c].t] = SoftDelete(@)]
    /\ Return(c)
    /\ UNCHANGED <<gw, node, sub, seen>>

Start(c, t) == Callback(c, t) \/ Observe(c, t) \/ Cancel(c, t) \/ Delete(c, t)

ResultStep(c) ==
    \/ ObserveGateway(c) \/ ObserveNothing(c) \/ Apply(c) \/ ApplyRollsBack(c) \/ MarkSent(c)

ProjectStep(c) ==
    \/ ProjectRead(c) \/ ProjectLookup(c) \/ ProjectWrite(c) \/ ProjectRejected(c)

EndStep(c) == CancelAtGateway(c) \/ CancelRow(c) \/ DeleteAtGateway(c) \/ DeleteRow(c)

Next ==
    \/ \E t \in Tasks : RunnerStep(t) \/ SubmitStep(t) \/ GatewayAdvance(t)
    \/ \E c \in Calls, t \in Tasks : Start(c, t)
    \/ \E c \in Calls : ResultStep(c) \/ ProjectStep(c) \/ EndStep(c)

Spec == Init /\ [][Next]_vars

\* A call that has started goes on.  Somebody keeps asking for the status of
\* every task, the gateway answers some of the questions and results can be
\* stored: what the status queries of the API are for.
Fairness ==
    /\ \A c \in Calls : WF_vars(ResultStep(c)) /\ WF_vars(ProjectStep(c)) /\ WF_vars(EndStep(c))
    /\ \A c \in Calls : SF_vars(ObserveGateway(c))
    /\ \A c \in Calls : SF_vars(Apply(c) /\ call[c].res \in Terminal)
    /\ \A t \in Tasks : SF_vars(\E c \in Calls : Observe(c, t))

LiveSpec == Spec /\ Fairness

-----------------------------------------------------------------------------
\* Properties

\* A task's status only moves forward, and a task that has ended keeps its
\* status, whatever callbacks, queries and cancels overlap: update_if_status
\* compares the status that apply_result decided on.
StatusMovesForward ==
    [][\A t \in Tasks :
        /\ task'[t].status >= task[t].status
        /\ task[t].status \in Terminal => task'[t].status = task[t].status]_vars

\* A task has results, and assets made of them, exactly if it succeeded: the
\* update and the assets are one transaction, and no later update undoes half.
ResultsMatchStatus ==
    \A t \in Tasks :
        /\ task[t].keys <=> task[t].status = SUCCEEDED
        /\ task[t].assets <=> task[t].keys

\* The status of a task known to the gateway is one the gateway has reached: the
\* stored success or failure is the gateway's, and progress is never ahead of it.
NeverAheadOfGateway ==
    \A t \in Tasks : task[t].union =>
        /\ gw[t] # NoStatus
        /\ task[t].status = SUCCEEDED => gw[t] = SUCCEEDED
        /\ task[t].status = FAILED => gw[t] \in {SUCCEEDED, FAILED}
        /\ task[t].status \in {WAITING, RUNNING} => gw[t] >= task[t].status

\* The node shows the results of a task that succeeded, and shows success only
\* with results, although projections and the runner write back what they read
\* some steps earlier.
NodeShowsResults ==
    /\ node.assets # NoTask => task[node.assets].status = SUCCEEDED
    /\ node.status = "success" => node.assets # NoTask

\* A task that has ended at the gateway ends here too, even if its callback came
\* before the gateway's id was stored, or lost the compare-and-set and was
\* marked as handled all the same: a status query repairs it.
TasksSettle ==
    \A t \in Tasks :
        task[t].union /\ gw[t] \in Terminal ~> IsTerminal(task[t]) \/ task[t].deleted

\* What the gate of a node is for: of the submissions that were accepted for it,
\* one at most is still being generated.
OneActiveTask ==
    \A t, u \in OnCanvas :
        sub[t] = "bound" /\ sub[u] = "bound" /\ IsActive(task[t]) /\ IsActive(task[u]) => t = u

=============================================================================
