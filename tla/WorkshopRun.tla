---------------------------- MODULE WorkshopRun ----------------------------
(***************************************************************************)
(* A saved workflow of the workshop, its schedule and its runs: dispatch   *)
(* by hand, by a trigger or by the ticker, execution by Celery workers,    *)
(* enabling, disabling and deletion                                        *)
(* (src/app/server/workshop/services/workflow_schedule_service.py,         *)
(* workflow_run_execution.py, schedule_ticker.py, celery_app.py and        *)
(* src/app/server/workshop/persistence/repository.py).                     *)
(*                                                                         *)
(* Tickers, HTTP calls and workers are separate processes; one step is one *)
(* statement or transaction of the database or one message of the broker.  *)
(* Time is counted in the slots of the schedule's cron expression.         *)
(***************************************************************************)
EXTENDS Naturals, FiniteSets

CONSTANTS
    Dispatchers,  \* calls that start a run, each with the id of its run
    Workers,      \* Celery workers, one task at a time each
    Admins,       \* calls that enable, disable or delete
    Keys,         \* trigger keys callers send
    Files,        \* names of the files an execution may deliver
    MaxSlot,      \* bound on the clock
    MaxFaults     \* bound on crashes and redeliveries

ASSUME SlotsAssumption == MaxSlot \in Nat /\ MaxFaults \in Nat /\ Keys \cap Nat = {}

VARIABLES
    workflow,  \* "draft", "saved" or "deleted"
    schedule,  \* row of the schedule
    clock,     \* the slot that is due now
    fired,     \* triggers with a row in workshop_schedule_runs
    fires,     \* trigger -> tasks ever made with its row
    refs,      \* a task refers to the schedule
    run,       \* run -> its row
    shell,     \* runs whose executing task exists
    files,     \* run -> names of its artifacts
    queue,     \* messages waiting at the broker
    revoked,   \* runs whose message was revoked
    disp,      \* dispatcher -> next step and trigger
    worker,    \* worker -> next step and locals
    admin,     \* admin call -> next step and locals
    stopped,   \* the schedule has been disabled
    lost,      \* runs whose dispatch or execution ended without a result
    faults     \* crashes and redeliveries so far

dbVars == <<workflow, schedule, fired, fires, refs, run, shell, files>>
runVars == <<dbVars, clock, queue, revoked, disp, worker, admin, stopped, lost, faults>>

Slots == 1 .. MaxSlot
Triggers == Slots \cup Keys
NoSlot == 0

Active == {"queued", "running"}
Terminal == {"succeeded", "failed", "blocked", "cancelled"}

RunRows == [status : Active \cup Terminal \cup {"none"}, revision : Nat]
NoRun == [status |-> "none", revision |-> 0]

\* next is NoSlot where the code has NULL.
Schedules == [exists : BOOLEAN, enabled : BOOLEAN, next : 0 .. MaxSlot + 1]
NoSchedule == [exists |-> FALSE, enabled |-> FALSE, next |-> NoSlot]

\* A run made by hand has no trigger.
Dispatches == [pc : {"idle", "claim", "load", "create", "shell", "enqueue", "done"},
               key : Triggers \cup {NoSlot}]

\* d: the run; revision: the one read; result: what the graph ended with.
Executions == [pc : {"idle", "get", "workflow", "start", "reread", "graph", "finish"},
               d : Dispatchers \cup {NoSlot}, revision : Nat, result : Terminal \cup {"none"}]
Free == [pc |-> "idle", d |-> NoSlot, revision |-> 0, result |-> "none"]

\* next: the slot computed; left: the runs still to cancel, with the revision read.
Administrations == [pc : {"idle", "enable", "cancel", "delete", "done"},
                    next : 0 .. MaxSlot + 1, left : SUBSET (Dispatchers \X Nat)]

\* The rows, the messages and the locals of the processes have their types.
RunTypeOK ==
    /\ workflow \in {"draft", "saved", "deleted"}
    /\ schedule \in Schedules
    /\ clock \in 0 .. MaxSlot
    /\ fired \subseteq Triggers
    /\ fires \in [Triggers -> Nat]
    /\ run \in [Dispatchers -> RunRows]
    /\ files \in [Dispatchers -> SUBSET Files]
    /\ shell \subseteq Dispatchers /\ queue \subseteq Dispatchers
    /\ revoked \subseteq Dispatchers /\ lost \subseteq Dispatchers
    /\ disp \in [Dispatchers -> Dispatches]
    /\ worker \in [Workers -> Executions]
    /\ admin \in [Admins -> Administrations]
    /\ refs \in BOOLEAN /\ stopped \in BOOLEAN
    /\ faults \in 0 .. MaxFaults

RunInit ==
    /\ workflow = "draft"
    /\ schedule = NoSchedule
    /\ clock = 0
    /\ fired = {}
    /\ fires = [k \in Triggers |-> 0]
    /\ refs = FALSE
    /\ run = [d \in Dispatchers |-> NoRun]
    /\ shell = {} /\ queue = {} /\ revoked = {} /\ lost = {}
    /\ files = [d \in Dispatchers |-> {}]
    /\ disp = [d \in Dispatchers |-> [pc |-> "idle", key |-> NoSlot]]
    /\ worker = [w \in Workers |-> Free]
    /\ admin = [a \in Admins |-> [pc |-> "idle", next |-> NoSlot, left |-> {}]]
    /\ stopped = FALSE
    /\ faults = 0

Advance == /\ clock < MaxSlot
           /\ clock' = clock + 1
           /\ UNCHANGED <<dbVars, queue, revoked, disp, worker, admin, stopped, lost, faults>>

-----------------------------------------------------------------------------
\* The definition and the schedule

UserConfirmSaveWorkflow ==
    /\ workflow = "draft"
    /\ workflow' = "saved"
    /\ UNCHANGED <<schedule, fired, fires, refs, run, shell, files>>
    /\ UNCHANGED <<clock, queue, revoked, disp, worker, admin, stopped, lost, faults>>

\* Mutant: a slot is skipped.
SlotAfterNext(after) == after + 2

\* The first slot after an instant.
ComputeNextRunAt(after) == after + 1

CreateSchedule ==
    /\ workflow = "saved" /\ ~schedule.exists
    /\ schedule' = [exists |-> TRUE, enabled |-> TRUE, next |-> ComputeNextRunAt(clock)]
    /\ UNCHANGED <<workflow, fired, fires, refs, run, shell, files>>
    /\ UNCHANGED <<clock, queue, revoked, disp, worker, admin, stopped, lost, faults>>

AdminGoto(a, pc) == admin' = [admin EXCEPT ![a].pc = pc]

AdminOnly == UNCHANGED <<dbVars, clock, queue, revoked, disp, worker, stopped, lost, faults>>

\* The service computes the slot, the repository writes it later under the
\* lock of the row.
EnableSchedule(a) ==
    /\ admin[a].pc = "idle" /\ schedule.exists
    /\ admin' = [admin EXCEPT ![a].pc = "enable", ![a].next = ComputeNextRunAt(clock)]
    /\ AdminOnly

WriteEnabled(a) ==
    /\ admin[a].pc = "enable"
    /\ AdminGoto(a, "done")
    /\ \/ /\ schedule.exists /\ ~(schedule.enabled /\ schedule.next # NoSlot)
          /\ schedule' = [schedule EXCEPT !.enabled = TRUE, !.next = admin[a].next]
       \/ /\ ~schedule.exists \/ (schedule.enabled /\ schedule.next # NoSlot)
          /\ UNCHANGED schedule
    /\ UNCHANGED <<workflow, fired, fires, refs, run, shell, files>>
    /\ UNCHANGED <<clock, queue, revoked, disp, worker, stopped, lost, faults>>

DisableSchedule(a) ==
    /\ admin[a].pc = "idle" /\ schedule.exists
    /\ AdminGoto(a, "done")
    /\ schedule' = [schedule EXCEPT !.enabled = FALSE, !.next = NoSlot]
    /\ stopped' = TRUE
    /\ UNCHANGED <<workflow, fired, fires, refs, run, shell, files>>
    /\ UNCHANGED <<clock, queue, revoked, disp, worker, lost, faults>>

StartWorkflowExecution(a) == workflow = "saved" /\ EnableSchedule(a)
StopWorkflowExecution(a) == workflow = "saved" /\ DisableSchedule(a)

-----------------------------------------------------------------------------
\* Deletion

ListActiveWorkflowRuns(a) ==
    /\ admin[a].pc = "idle" /\ workflow # "deleted"
    /\ LET active == {d \in Dispatchers : run[d].status \in Active}
       IN  admin' = [admin EXCEPT ![a].pc = "cancel",
                                  ![a].left = {<<d, run[d].revision>> : d \in active}]
    /\ AdminOnly

CancelWorkflowRunCas(a) ==
    /\ admin[a].pc = "cancel"
    /\ \E x \in admin[a].left :
        LET d == x[1] IN
        \/ /\ run[d].revision = x[2] /\ run[d].status \in Active
           /\ run' = [run EXCEPT ![d] = [status |-> "cancelled", revision |-> x[2] + 1]]
           /\ revoked' = revoked \cup {d}
           /\ admin' = [admin EXCEPT ![a].left = @ \ {x}]
        \/ /\ ~(run[d].revision = x[2] /\ run[d].status \in Active)
           /\ AdminGoto(a, "done")
           /\ UNCHANGED <<run, revoked>>
    /\ UNCHANGED <<workflow, schedule, fired, fires, refs, shell, files>>
    /\ UNCHANGED <<clock, queue, disp, worker, stopped, lost, faults>>

ClearTaskScheduleRefs(a) ==
    /\ admin[a].pc = "cancel" /\ admin[a].left = {}
    /\ AdminGoto(a, "delete")
    /\ refs' = FALSE
    /\ UNCHANGED <<workflow, schedule, fired, fires, run, shell, files>>
    /\ UNCHANGED <<clock, queue, revoked, disp, worker, stopped, lost, faults>>

\* Runs, schedules and their runs go with the workflow; a task that refers to
\* the schedule stops the deletion.
DeleteWorkflow(a) ==
    /\ admin[a].pc = "delete"
    /\ AdminGoto(a, "done")
    /\ \/ /\ workflow # "deleted" /\ ~refs
          /\ workflow' = "deleted"
          /\ schedule' = NoSchedule
          /\ fired' = {}
          /\ run' = [d \in Dispatchers |-> NoRun]
       \/ /\ workflow = "deleted" \/ refs
          /\ UNCHANGED <<workflow, schedule, fired, run>>
    /\ UNCHANGED <<fires, refs, shell, files>>
    /\ UNCHANGED <<clock, queue, revoked, disp, worker, stopped, lost, faults>>

-----------------------------------------------------------------------------
\* Dispatch

DispGoto(d, pc) == disp' = [disp EXCEPT ![d].pc = pc]

DispOnly == UNCHANGED <<dbVars, clock, queue, revoked, worker, admin, stopped, lost, faults>>

ManualRun(d) ==
    /\ disp[d].pc = "idle" /\ workflow = "saved"
    /\ DispGoto(d, "create")
    /\ DispOnly

\* Mutant: the trigger key is not recorded.
InsertTaskOnly(k) ==
    /\ fires' = [fires EXCEPT ![k] = fires[k] + 1]
    /\ refs' = TRUE
    /\ UNCHANGED fired

\* _insert_schedule_trigger: the task, the run of the schedule and the event.
InsertScheduleTrigger(k) ==
    /\ fired' = fired \cup {k}
    /\ fires' = [fires EXCEPT ![k] = fires[k] + 1]
    /\ refs' = TRUE

\* A key that was used before finds the row and the task that it made then; the
\* service goes on to start a run either way.
TriggerSchedule(d) ==
    /\ disp[d].pc = "idle"
    /\ \E k \in Keys :
        /\ \/ k \in fired /\ UNCHANGED <<fired, fires, refs>>
           \/ /\ k \notin fired /\ schedule.enabled /\ workflow = "saved"
              /\ InsertScheduleTrigger(k)
        /\ disp' = [disp EXCEPT ![d] = [pc |-> "load", key |-> k]]
    /\ UNCHANGED <<workflow, schedule, run, shell, files>>
    /\ UNCHANGED <<clock, queue, revoked, worker, admin, stopped, lost, faults>>

ListDueSchedules(d) ==
    /\ disp[d].pc = "idle"
    /\ schedule.enabled /\ schedule.next # NoSlot /\ schedule.next <= clock
    /\ disp' = [disp EXCEPT ![d] = [pc |-> "claim", key |-> schedule.next]]
    /\ DispOnly

\* The slot is still the next one, and its row is locked: the schedule moves
\* on to the slot after it, and the task is made unless the slot was fired.
ClaimDueScheduleRun(d) ==
    LET slot == disp[d].key IN
    /\ disp[d].pc = "claim"
    /\ \/ /\ schedule.enabled /\ schedule.next = slot
          /\ schedule' = [schedule EXCEPT !.next = ComputeNextRunAt(slot)]
          /\ \/ slot \in fired /\ UNCHANGED <<fired, fires, refs>>
             \/ slot \notin fired /\ InsertScheduleTrigger(slot)
          /\ DispGoto(d, "load")
       \/ /\ ~(schedule.enabled /\ schedule.next = slot)
          /\ disp' = [disp EXCEPT ![d] = [pc |-> "done", key |-> NoSlot]]
          /\ UNCHANGED <<schedule, fired, fires, refs>>
    /\ UNCHANGED <<workflow, run, shell, files>>
    /\ UNCHANGED <<clock, queue, revoked, worker, admin, stopped, lost, faults>>

RequireSaved(d) ==
    /\ disp[d].pc = "load"
    /\ DispGoto(d, IF workflow = "saved" THEN "create" ELSE "done")
    /\ DispOnly

\* The row refers to the workflow, so there is none without it.
CreateWorkflowRun(d) ==
    /\ disp[d].pc = "create"
    /\ \/ /\ workflow # "deleted"
          /\ run' = [run EXCEPT ![d] = [status |-> "queued", revision |-> 1]]
          /\ DispGoto(d, "shell")
       \/ workflow = "deleted" /\ DispGoto(d, "done") /\ UNCHANGED run
    /\ UNCHANGED <<workflow, schedule, fired, fires, refs, shell, files>>
    /\ UNCHANGED <<clock, queue, revoked, worker, admin, stopped, lost, faults>>

\* Mutant: a task that cannot be created does not stop the dispatch.
CreateTaskOrGoOn(d) ==
    /\ disp[d].pc = "shell"
    /\ shell' = IF workflow = "saved" THEN shell \cup {d} ELSE shell
    /\ DispGoto(d, "enqueue")
    /\ UNCHANGED <<workflow, schedule, fired, fires, refs, run, files>>
    /\ UNCHANGED <<clock, queue, revoked, worker, admin, stopped, lost, faults>>

CreateExecutingTask(d) ==
    /\ disp[d].pc = "shell"
    /\ \/ workflow = "saved" /\ shell' = shell \cup {d} /\ DispGoto(d, "enqueue")
       \/ workflow # "saved" /\ DispGoto(d, "done") /\ UNCHANGED shell
    /\ UNCHANGED <<workflow, schedule, fired, fires, refs, run, files>>
    /\ UNCHANGED <<clock, queue, revoked, worker, admin, stopped, lost, faults>>

EnqueueWorkflowRun(d) ==
    /\ disp[d].pc = "enqueue"
    /\ queue' = queue \cup {d}
    /\ DispGoto(d, "done")
    /\ UNCHANGED <<dbVars, clock, revoked, worker, admin, stopped, lost, faults>>

\* The tick's deadline, an error or the death of the process ends a dispatch
\* between any two of its steps.
DispatchFails(d) ==
    /\ disp[d].pc \notin {"idle", "done"}
    /\ DispGoto(d, "done")
    /\ lost' = lost \cup {d}
    /\ UNCHANGED <<dbVars, clock, queue, revoked, worker, admin, stopped, faults>>

Dispatch(d) ==
    \/ ManualRun(d) \/ TriggerSchedule(d) \/ ListDueSchedules(d) \/ ClaimDueScheduleRun(d)
    \/ RequireSaved(d) \/ CreateWorkflowRun(d) \/ CreateExecutingTask(d)
    \/ EnqueueWorkflowRun(d)

-----------------------------------------------------------------------------
\* Execution

WorkerGoto(w, pc) == worker' = [worker EXCEPT ![w].pc = pc]

\* The task function returned or raised: either acknowledges the message.
Ack(w) == worker' = [worker EXCEPT ![w] = Free]

WorkerOnly == UNCHANGED <<dbVars, clock, revoked, disp, admin, stopped, lost>>

\* The broker hands out a message; it is acknowledged when the task ends.
Deliver(w) ==
    /\ worker[w].pc = "idle"
    /\ \E d \in queue :
        /\ queue' = queue \ {d}
        /\ worker' = [worker EXCEPT ![w] = [Free EXCEPT !.pc = "get", !.d = d]]
    /\ WorkerOnly /\ UNCHANGED faults

\* A worker that has heard of the revocation drops the message.
DropRevoked ==
    /\ \E d \in queue \cap revoked : queue' = queue \ {d} /\ lost' = lost \cup {d}
    /\ UNCHANGED <<dbVars, clock, revoked, disp, worker, admin, stopped, faults>>

GetWorkflowRun(w) ==
    LET row == run[worker[w].d] IN
    /\ worker[w].pc = "get"
    /\ \/ /\ row.status \in Active
          /\ worker' = [worker EXCEPT ![w].pc = "workflow", ![w].revision = row.revision]
       \/ row.status \notin Active /\ Ack(w)
    /\ WorkerOnly /\ UNCHANGED <<queue, faults>>

GetWorkflow(w) ==
    /\ worker[w].pc = "workflow"
    /\ \/ workflow # "deleted" /\ WorkerGoto(w, "start")
       \/ workflow = "deleted" /\ Ack(w)
    /\ WorkerOnly /\ UNCHANGED <<queue, faults>>

\* update_workflow_run_cas compares the revision, not the status.
RunMatches(w) == /\ run[worker[w].d].status # "none"
                 /\ run[worker[w].d].revision = worker[w].revision

UpdateRun(w, status) ==
    run' = [run EXCEPT ![worker[w].d] = [status |-> status, revision |-> worker[w].revision + 1]]

StartRun(w) ==
    /\ worker[w].pc = "start"
    /\ \/ RunMatches(w) /\ UpdateRun(w, "running") /\ WorkerGoto(w, "reread")
       \/ ~RunMatches(w) /\ Ack(w) /\ UNCHANGED run
    /\ UNCHANGED <<workflow, schedule, fired, fires, refs, shell, files>>
    /\ UNCHANGED <<clock, queue, revoked, disp, admin, stopped, lost, faults>>

\* The update is followed by a read of its own, which may see a later row.
RereadRun(w) ==
    LET row == run[worker[w].d] IN
    /\ worker[w].pc = "reread"
    /\ \/ /\ row.status # "none"
          /\ worker' = [worker EXCEPT ![w].pc = "graph", ![w].revision = row.revision]
       \/ row.status = "none" /\ Ack(w)
    /\ WorkerOnly /\ UNCHANGED <<queue, faults>>

\* What the graph can end with when it has delivered these new files.
GraphResults(new) == {"failed", "blocked"} \cup (IF new = {} THEN {} ELSE {"succeeded"})

\* The nodes write files; only the ones whose names the run did not have yet
\* become artifacts and count as delivered.
ExecuteWorkflowGraph(w) ==
    LET d == worker[w].d IN
    /\ worker[w].pc = "graph"
    /\ \E made \in SUBSET Files :
        /\ files' = [files EXCEPT ![d] = files[d] \cup made]
        /\ \E result \in GraphResults(made \ files[d]) :
              worker' = [worker EXCEPT ![w].pc = "finish", ![w].result = result]
    /\ UNCHANGED <<workflow, schedule, fired, fires, refs, run, shell>>
    /\ UNCHANGED <<clock, queue, revoked, disp, admin, stopped, lost, faults>>

FinishRun(w) ==
    /\ worker[w].pc = "finish"
    /\ \/ RunMatches(w) /\ UpdateRun(w, worker[w].result)
       \/ ~RunMatches(w) /\ UNCHANGED run
    /\ Ack(w)
    /\ UNCHANGED <<workflow, schedule, fired, fires, refs, shell, files>>
    /\ UNCHANGED <<clock, queue, revoked, disp, admin, stopped, lost, faults>>

\* Any other exception of the task function: the message is acknowledged and
\* the run keeps the status it had.
ExecutionFails(w) ==
    /\ worker[w].pc # "idle"
    /\ lost' = lost \cup {worker[w].d}
    /\ Ack(w)
    /\ UNCHANGED <<dbVars, clock, queue, revoked, disp, admin, stopped, faults>>

\* Mutant: the message was acknowledged when it was delivered.
WorkerDiesAcked(w) ==
    /\ worker[w].pc # "idle" /\ faults < MaxFaults
    /\ Ack(w)
    /\ faults' = faults + 1
    /\ WorkerOnly /\ UNCHANGED queue

\* A child of the worker's pool is killed, and the worker acknowledges its message:
\* task_acks_late is set without task_reject_on_worker_lost.  The run keeps the
\* status it had.
PoolChildDies(w) ==
    /\ worker[w].pc # "idle" /\ faults < MaxFaults
    /\ lost' = lost \cup {worker[w].d}
    /\ Ack(w)
    /\ faults' = faults + 1
    /\ UNCHANGED <<dbVars, clock, queue, revoked, disp, admin, stopped>>

\* The worker dies with its pool: nobody is left to acknowledge the message,
\* which is delivered again.
WorkerDies(w) ==
    /\ worker[w].pc # "idle" /\ faults < MaxFaults
    /\ queue' = queue \cup {worker[w].d}
    /\ Ack(w)
    /\ faults' = faults + 1
    /\ WorkerOnly

\* The broker's visibility timeout passes while the worker goes on.
Redeliver(w) ==
    /\ worker[w].pc # "idle" /\ faults < MaxFaults
    /\ queue' = queue \cup {worker[w].d}
    /\ faults' = faults + 1
    /\ WorkerOnly /\ UNCHANGED worker

Execute(w) ==
    \/ Deliver(w) \/ GetWorkflowRun(w) \/ GetWorkflow(w) \/ StartRun(w) \/ RereadRun(w)
    \/ ExecuteWorkflowGraph(w) \/ FinishRun(w)

-----------------------------------------------------------------------------
Administer(a) ==
    \/ EnableSchedule(a) \/ StartWorkflowExecution(a) \/ WriteEnabled(a)
    \/ DisableSchedule(a) \/ StopWorkflowExecution(a)
    \/ ListActiveWorkflowRuns(a) \/ CancelWorkflowRunCas(a) \/ ClearTaskScheduleRefs(a)
    \/ DeleteWorkflow(a)

Prepare ==
    \/ Advance \/ UserConfirmSaveWorkflow \/ CreateSchedule \/ DropRevoked
    \/ \E a \in Admins : Administer(a)
    \/ \E d \in Dispatchers : Dispatch(d) \/ DispatchFails(d)

Work(w) ==
    \/ Execute(w) \/ ExecutionFails(w) \/ PoolChildDies(w) \/ WorkerDies(w) \/ Redeliver(w)

RunNext == Prepare \/ \E w \in Workers : Work(w)

RunFairness == \A w \in Workers : WF_runVars(Execute(w))

RunSpec == RunInit /\ [][RunNext]_runVars

-----------------------------------------------------------------------------
\* Each trigger makes one task with its row, and as long as nobody disables the
\* schedule no slot between two that were fired is skipped.
SlotsMakeTasks ==
    /\ \A k \in Triggers : fires[k] <= 1
    /\ (schedule.exists /\ ~stopped) =>
          \A s \in Slots : s < schedule.next /\ (\E r \in Slots : r <= s /\ fires[r] = 1)
                              => fires[s] = 1

\* As long as nobody disables the schedule, a slot starts one run.
SlotsStartOneRun ==
    ~stopped =>
        \A d, e \in {x \in Dispatchers : run[x].status # "none"} :
            disp[d].key \in Slots /\ disp[d].key = disp[e].key => d = e

\* Tickers of several processes may see a slot due at the same time, and a user
\* may enable the schedule with a slot computed long before: still each trigger
\* makes one task with its row (_insert_schedule_trigger), and while nobody
\* disables the schedule the slots it has passed make one task and start at most
\* one run each (claim_due_schedule_run).  It does not say that a trigger starts one
\* run: a key that is used again, or a slot claimed again after a stale enable,
\* finds its task and starts another run with a task of its own.
SlotsFireOnce == SlotsMakeTasks /\ SlotsStartOneRun

\* A run that reaches a worker has its executing task, which its artifacts
\* hang from, however its dispatch ended.
ExecutedRunHasTask ==
    /\ queue \subseteq shell
    /\ \A w \in Workers : worker[w].pc # "idle" => worker[w].d \in shell

\* Every message ends its run, although whole workers die and messages are
\* delivered twice, unless the run was deleted or revoked, its execution raised or
\* the child of the pool that executed it was killed.
RunsSettle ==
    \A d \in Dispatchers :
        d \in queue ~> (run[d].status \in Terminal \cup {"none"} \/ d \in lost)

=============================================================================
