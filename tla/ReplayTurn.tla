----------------------------- MODULE ReplayTurn -----------------------------
(***************************************************************************)
(* A canvas session's turns: the HTTP calls that start or follow a turn,   *)
(* the background execution that writes its frames to the replay store,    *)
(* the session's turn lock in Redis, the calls that cancel a turn, and the *)
(* failures in between (src/app/server/api/use_cases/canvas_episode.py,    *)
(* src/app/agent/canvas/turn, src/app/agent/runtime/stream/replay.py).     *)
(*                                                                         *)
(* A request has one execution at most.  A request that starts a turn has  *)
(* a turn id of its own; one that resumes a turn after an interrupt has    *)
(* the id of the turn it resumes.  One step is one Redis command or        *)
(* script.  Frames are their types and have size one.                      *)
(***************************************************************************)
EXTENDS ReplayStore

CONSTANTS
    Requests,    \* request ids sent to one session
    Calls,       \* HTTP calls that start, resume or reconnect to a turn
    Cancellers,  \* HTTP calls that cancel the session's turn
    Turns,       \* turn ids
    Turn,        \* request -> its turn id
    None

ASSUME TurnAssumption == Turn \in [Requests -> Turns]
ASSUME NoneAssumption == None \notin Requests \cup Turns

VARIABLES
    store,    \* request -> its keys in Redis (see ReplayStore)
    lock,     \* value of the session's turn lock, or None
    signal,   \* turns that have a cancel key
    aged,     \* requests claimed at least a lease TTL ago
    cpc,      \* call -> its next step
    creq,     \* call -> its request
    cursor,   \* call -> number of frames it has passed on
    crun,     \* call -> whether it read the status "running"
    epc,      \* request -> next step of its execution
    term,     \* request -> terminal_status of its publisher
    pending,  \* request -> saw_pending of its publisher
    cancel,   \* request -> cancel_event is set
    lost,     \* request -> lease_lost_event is set
    final,    \* request -> final_status of its execution
    kpc,      \* canceller -> its next step
    kturn,    \* canceller -> the turn it waits for
    evicted   \* running turns whose lock was taken away (history)

calls == <<cpc, creq, cursor, crun>>
execs == <<epc, term, pending, cancel, lost, final>>
killers == <<kpc, kturn>>
vars == <<store, lock, signal, aged, calls, execs, killers, evicted>>

CallSteps == {"idle", "read_meta", "acquire", "discard_read", "discard_delete",
              "read", "after_read", "after_empty", "has_lease", "mark_lost",
              "ended", "refused", "gone"}
Creating == {"acquire", "discard_read", "discard_delete"}
Following == {"read", "after_read", "after_empty", "has_lease", "mark_lost"}

ExecSteps == {"none", "spawned", "running", "failing", "finish", "clear",
              "release", "over", "dead"}
Live(r) == epc[r] \in {"spawned", "running", "failing", "finish", "clear", "release"}

KillerSteps == {"idle", "signal", "target", "wait", "force_get", "force_delete"}

Metas == [status : Statuses, log : Seq(FrameTypes), bytes : Nat, lease : BOOLEAN]

TypeOK ==
    /\ store \in [Requests -> Metas]
    /\ lock \in Turns \cup {None}
    /\ signal \subseteq Turns
    /\ aged \subseteq Requests
    /\ cpc \in [Calls -> CallSteps]
    /\ creq \in [Calls -> Requests \cup {None}]
    /\ \A c \in Calls : cpc[c] \in Creating \cup Following \cup {"read_meta"}
                            => creq[c] \in Requests
    /\ cursor \in [Calls -> Nat]
    /\ crun \in [Calls -> BOOLEAN]
    /\ epc \in [Requests -> ExecSteps]
    /\ term \in [Requests -> ClosedStatus \cup {"none"}]
    /\ pending \in [Requests -> BOOLEAN]
    /\ cancel \in [Requests -> BOOLEAN]
    /\ lost \in [Requests -> BOOLEAN]
    /\ final \in [Requests -> ClosedStatus]
    /\ kpc \in [Cancellers -> KillerSteps]
    /\ kturn \in [Cancellers -> Turns \cup {None}]
    /\ \A k \in Cancellers : kpc[k] # "idle" => kturn[k] \in Turns
    /\ evicted \subseteq Requests

Init ==
    /\ store = [r \in Requests |-> Absent]
    /\ lock = None
    /\ signal = {}
    /\ aged = {}
    /\ cpc = [c \in Calls |-> "idle"]
    /\ creq = [c \in Calls |-> None]
    /\ cursor = [c \in Calls |-> 0]
    /\ crun = [c \in Calls |-> FALSE]
    /\ epc = [r \in Requests |-> "none"]
    /\ term = [r \in Requests |-> "none"]
    /\ pending = [r \in Requests |-> FALSE]
    /\ cancel = [r \in Requests |-> FALSE]
    /\ lost = [r \in Requests |-> FALSE]
    /\ final = [r \in Requests |-> "failed"]
    /\ kpc = [k \in Cancellers |-> "idle"]
    /\ kturn = [k \in Cancellers |-> None]
    /\ evicted = {}

-----------------------------------------------------------------------------
(* POST /turn and POST /turn/resume: start_turn and resume_turn *)

\* The call goes on.
CallGoto(c, step) ==
    /\ cpc' = [cpc EXCEPT ![c] = step]
    /\ crun' = [crun EXCEPT ![c] = FALSE]
    /\ UNCHANGED <<creq, cursor>>

\* The call is over; step tells how.
CallStops(c, step) ==
    /\ cpc' = [cpc EXCEPT ![c] = step]
    /\ creq' = [creq EXCEPT ![c] = None]
    /\ cursor' = [cursor EXCEPT ![c] = 0]
    /\ crun' = [crun EXCEPT ![c] = FALSE]

\* replay_store.claim.  The call that creates the claim goes on to the lock,
\* any other one reads the meta hash and follows the stream.
StartTurn(c, r) ==
    /\ cpc[c] = "idle"
    /\ store' = [store EXCEPT ![r] = Claim(store[r])]
    /\ creq' = [creq EXCEPT ![c] = r]
    /\ cpc' = [cpc EXCEPT ![c] =
                 IF store[r].status = "absent" THEN "acquire" ELSE "read_meta"]
    /\ UNCHANGED <<lock, signal, aged, cursor, crun, execs, killers, evicted>>

\* require_meta of a claim that existed; its creator may have discarded it.
ReadMeta(c) ==
    /\ cpc[c] = "read_meta"
    /\ IF store[creq[c]].status = "absent"
       THEN CallStops(c, "refused") ELSE CallGoto(c, "read")
    /\ UNCHANGED <<store, lock, signal, aged, execs, killers, evicted>>

\* A bad cursor or a failure of enrich_turn_user_input or resolve_selected.
RejectInput(c) ==
    /\ cpc[c] = "acquire"
    /\ CallGoto(c, "discard_read")
    /\ UNCHANGED <<store, lock, signal, aged, execs, killers, evicted>>

\* canvas_turn_lock.acquire (SET NX) and background_supervisor.start.
Acquire(c) ==
    /\ cpc[c] = "acquire"
    /\ \/ /\ lock = None
          /\ lock' = Turn[creq[c]]
          /\ epc' = [epc EXCEPT ![creq[c]] = "spawned"]
          /\ CallGoto(c, "read")
       \/ /\ lock # None
          /\ CallGoto(c, "discard_read")
          /\ UNCHANGED <<lock, epc>>
    /\ UNCHANGED <<store, signal, aged, term, pending, cancel, lost, final,
                   killers, evicted>>

\* discard_starting, the read: only a claim without events is to be deleted.
DiscardRead(c) ==
    /\ cpc[c] = "discard_read"
    /\ IF store[creq[c]].status = "starting" /\ store[creq[c]].log = <<>>
       THEN CallGoto(c, "discard_delete") ELSE CallStops(c, "refused")
    /\ UNCHANGED <<store, lock, signal, aged, execs, killers, evicted>>

\* discard_starting, the delete, which does not look again.  Event ids grow
\* with time, so an old cursor is before every event of a later claim; a call
\* that ended belongs to the claim that is gone.
DiscardDelete(c) ==
    /\ cpc[c] = "discard_delete"
    /\ LET r == creq[c]
           over == {d \in Calls : d = c \/ (creq[d] = r /\ cpc[d] = "ended")}
       IN  /\ store' = [store EXCEPT ![r] = Absent]
           /\ aged' = aged \ {r}
           /\ cpc' = [cpc EXCEPT ![c] = "refused"]
           /\ creq' = [d \in Calls |-> IF d \in over THEN None ELSE creq[d]]
           /\ cursor' = [d \in Calls |-> IF creq[d] = r THEN 0 ELSE cursor[d]]
    /\ UNCHANGED <<lock, signal, crun, execs, killers, evicted>>

\* The client goes away and the call with it, wherever it is.
Disconnect(c) ==
    /\ cpc[c] \in Creating \cup Following \cup {"read_meta"}
    /\ CallStops(c, "gone")
    /\ UNCHANGED <<store, lock, signal, aged, execs, killers, evicted>>

-----------------------------------------------------------------------------
(* Following a stream: the reconnect endpoint and stream_replay *)

\* require_owned_meta and validate_replay_cursor, with a cursor from earlier.
Reconnect(c, r, n) ==
    /\ cpc[c] = "idle"
    /\ store[r].status # "absent"
    /\ n \in 0 .. Len(store[r].log)
    /\ cpc' = [cpc EXCEPT ![c] = "read"]
    /\ creq' = [creq EXCEPT ![c] = r]
    /\ cursor' = [cursor EXCEPT ![c] = n]
    /\ UNCHANGED <<store, lock, signal, aged, crun, execs, killers, evicted>>

\* XREAD after the cursor: some of the new frames, or nothing for a while.
ReadAfter(c) ==
    /\ cpc[c] = "read"
    /\ LET last == Len(store[creq[c]].log) IN
         \/ \E n \in (cursor[c] + 1) .. last :
              /\ cpc' = [cpc EXCEPT ![c] = "after_read"]
              /\ cursor' = [cursor EXCEPT ![c] = n]
              /\ UNCHANGED <<creq, crun>>
         \/ cursor[c] >= last /\ CallGoto(c, "after_empty")
    /\ UNCHANGED <<store, lock, signal, aged, execs, killers, evicted>>

\* Mutant: a closed request ends the stream wherever the cursor is.
AtEndWhenClosed(c) == IsClosed(store[creq[c]])

\* The request is closed and the cursor is at its last event.
AtEnd(c) ==
    LET m == store[creq[c]] IN
        IsClosed(m) /\ (m.log = <<>> \/ cursor[c] = Len(m.log))

\* The meta hash is read after the frames were sent.
AfterRead(c) ==
    /\ cpc[c] = "after_read"
    /\ IF store[creq[c]].status = "absent" THEN CallStops(c, "refused")
       ELSE CallGoto(c, IF AtEnd(c) THEN "ended" ELSE "read")
    /\ UNCHANGED <<store, lock, signal, aged, execs, killers, evicted>>

\* The meta hash is read after nothing came: the stream is over, or the
\* request is open and its lease is looked up next, or a heartbeat is sent.
AfterEmpty(c) ==
    /\ cpc[c] = "after_empty"
    /\ LET m == store[creq[c]] IN
         \/ m.status = "absent" /\ CallStops(c, "refused")
         \/ AtEnd(c) /\ CallGoto(c, "ended")
         \/ /\ IsOpen(m)
            /\ cpc' = [cpc EXCEPT ![c] = "has_lease"]
            /\ crun' = [crun EXCEPT ![c] = (m.status = "running")]
            /\ UNCHANGED <<creq, cursor>>
         \/ IsClosed(m) /\ ~AtEnd(c) /\ CallGoto(c, "read")
    /\ UNCHANGED <<store, lock, signal, aged, execs, killers, evicted>>

\* Mutant: the age of the claim is asked for in every case.
HasLeaseAged(c) ==
    /\ cpc[c] = "has_lease"
    /\ CallGoto(c, IF ~store[creq[c]].lease /\ creq[c] \in aged
                   THEN "mark_lost" ELSE "read")
    /\ UNCHANGED <<store, lock, signal, aged, execs, killers, evicted>>

\* has_lease, and the age of the claim if it was starting when read.
HasLease(c) ==
    /\ cpc[c] = "has_lease"
    /\ CallGoto(c, IF ~store[creq[c]].lease /\ (crun[c] \/ creq[c] \in aged)
                   THEN "mark_lost" ELSE "read")
    /\ UNCHANGED <<store, lock, signal, aged, execs, killers, evicted>>

\* Mutant: the script does not get the key of the lock.
MarkExecutionLostOnly(c) ==
    /\ cpc[c] = "mark_lost"
    /\ IF CanMarkLost(store[creq[c]])
       THEN store' = [store EXCEPT ![creq[c]] = MarkLost(store[creq[c]], "error", 1)]
       ELSE UNCHANGED store
    /\ CallGoto(c, "read")
    /\ UNCHANGED <<lock, signal, aged, execs, killers, evicted>>

\* The lock goes, and what runs under it is on its own.
TakeLock ==
    /\ lock' = None
    /\ evicted' = evicted \cup {r \in Requests : Turn[r] = lock /\ Live(r)}

\* mark_execution_lost: the script looks at the status and the lease again and
\* frees the lock if this turn holds it.
MarkExecutionLost(c) ==
    /\ cpc[c] = "mark_lost"
    /\ LET r == creq[c] IN
         \/ /\ CanMarkLost(store[r])
            /\ store' = [store EXCEPT ![r] = MarkLost(store[r], "error", 1)]
            /\ IF lock = Turn[r] THEN TakeLock ELSE UNCHANGED <<lock, evicted>>
         \/ ~CanMarkLost(store[r]) /\ UNCHANGED <<store, lock, evicted>>
    /\ CallGoto(c, "read")
    /\ UNCHANGED <<signal, aged, execs, killers>>

-----------------------------------------------------------------------------
(* The background execution: run_canvas_replay_execution *)

ExecGoto(r, step) ==
    /\ epc' = [epc EXCEPT ![r] = step]
    /\ UNCHANGED <<term, pending, cancel, lost, final>>

\* The task is gone, and its locals with it.
ExecStops(r, step) ==
    /\ epc' = [epc EXCEPT ![r] = step]
    /\ term' = [term EXCEPT ![r] = "none"]
    /\ pending' = [pending EXCEPT ![r] = FALSE]
    /\ cancel' = [cancel EXCEPT ![r] = FALSE]
    /\ lost' = [lost EXCEPT ![r] = FALSE]
    /\ final' = [final EXCEPT ![r] = "failed"]
    /\ evicted' = evicted \ {r}

\* Mutant: a failed set_running returns before the try block.
BeginRunningNoCleanup(r) ==
    /\ epc[r] = "spawned"
    /\ IF CanSetRunning(store[r])
       THEN /\ store' = [store EXCEPT ![r] = SetRunning(store[r])]
            /\ ExecGoto(r, "running")
       ELSE ExecGoto(r, "over") /\ UNCHANGED store
    /\ UNCHANGED <<lock, signal, aged, calls, killers, evicted>>

\* set_running: a claim that was given up meanwhile cannot be run any more.
BeginRunning(r) ==
    /\ epc[r] = "spawned"
    /\ \/ /\ CanSetRunning(store[r])
          /\ store' = [store EXCEPT ![r] = SetRunning(store[r])]
          /\ ExecGoto(r, "running")
       \/ /\ ~CanSetRunning(store[r])
          /\ ExecGoto(r, "failing")
          /\ UNCHANGED store
    /\ UNCHANGED <<lock, signal, aged, calls, killers, evicted>>

\* The turn engine yields a frame and the publisher appends it; a frame after
\* the one that closed the request is dropped (no step).  A request that is
\* closed already cancels the engine and ends the execution.
Publish(r, f) ==
    /\ epc[r] = "running"
    /\ ~lost[r]
    /\ term[r] = "none"
    /\ LET answer == AppendResult(store[r], 1, FALSE) IN
         \/ /\ answer = "OK"
            /\ store' = [store EXCEPT ![r] = AppendFrame(store[r], f, 1, CloseStatus(f))]
            /\ term' = [term EXCEPT ![r] = CloseStatus(f)]
            /\ pending' = [pending EXCEPT ![r] = (pending[r] \/ f = "pending")]
            /\ UNCHANGED <<epc, cancel>>
         \/ /\ answer # "OK"
            /\ epc' = [epc EXCEPT ![r] = IF answer = "CLOSED" THEN "finish" ELSE "failing"]
            /\ cancel' = [cancel EXCEPT ![r] = (cancel[r] \/ answer \in {"CLOSED", "LIMIT"})]
            /\ UNCHANGED <<store, term, pending>>
    /\ UNCHANGED <<lost, final, lock, signal, aged, calls, killers, evicted>>

\* A chunk arrives, or the stream ends, after the lease was lost; or the
\* engine raises; or the supervisor cancels the task at shutdown.
ExecFails(r) ==
    /\ epc[r] = "running"
    /\ ExecGoto(r, "failing")
    /\ UNCHANGED <<store, lock, signal, aged, calls, killers, evicted>>

\* The engine's stream ends by itself; without a terminal frame and without a
\* pending interrupt this is a failure.
StreamEnds(r) ==
    /\ epc[r] = "running"
    /\ ~lost[r]
    /\ \/ /\ term[r] # "none"
          /\ final' = [final EXCEPT ![r] = term[r]]
          /\ epc' = [epc EXCEPT ![r] = "finish"]
       \/ /\ term[r] = "none" /\ pending[r]
          /\ final' = [final EXCEPT ![r] = "interrupted"]
          /\ epc' = [epc EXCEPT ![r] = "finish"]
       \/ /\ term[r] = "none" /\ ~pending[r]
          /\ epc' = [epc EXCEPT ![r] = "failing"]
          /\ UNCHANGED final
    /\ UNCHANGED <<term, pending, cancel, lost, store, lock, signal, aged, calls,
                   killers, evicted>>

\* append_failure: the error frame is forced past the size limit and closes
\* the request.  On a closed or deleted request, or if Redis fails, the
\* exception leaves through the finally block.
AppendFailure(r) ==
    /\ epc[r] = "failing"
    /\ \/ /\ AppendResult(store[r], 1, TRUE) = "OK"
          /\ store' = [store EXCEPT ![r] = AppendFrame(store[r], "error", 1, "failed")]
       \/ UNCHANGED store
    /\ epc' = [epc EXCEPT ![r] = "finish"]
    /\ final' = [final EXCEPT ![r] = "failed"]
    /\ UNCHANGED <<term, pending, cancel, lost, lock, signal, aged, calls, killers, evicted>>

\* replay_store.finish
ExecFinish(r) ==
    /\ epc[r] = "finish"
    /\ store' = [store EXCEPT ![r] = Finish(store[r], final[r])]
    /\ ExecGoto(r, "clear")
    /\ UNCHANGED <<lock, signal, aged, calls, killers, evicted>>

\* replay_store.clear_cancel
ClearCancel(r) ==
    /\ epc[r] = "clear"
    /\ signal' = signal \ {Turn[r]}
    /\ ExecGoto(r, "release")
    /\ UNCHANGED <<store, lock, aged, calls, killers, evicted>>

\* Mutant: the lock is deleted without comparing its owner.
ReleaseAny(r) ==
    /\ epc[r] = "release"
    /\ lock' = None
    /\ ExecStops(r, "over")
    /\ UNCHANGED <<store, signal, aged, calls, killers>>

\* canvas_turn_lock.release: only the turn's own lock is deleted.
Release(r) ==
    /\ epc[r] = "release"
    /\ lock' = IF lock = Turn[r] THEN None ELSE lock
    /\ ExecStops(r, "over")
    /\ UNCHANGED <<store, signal, aged, calls, killers>>

\* _refresh_lease finds that the lease or the session lock is not the turn's.
RefreshFails(r) ==
    /\ epc[r] = "running"
    /\ ~cancel[r]
    /\ ~store[r].lease \/ lock # Turn[r]
    /\ lost' = [lost EXCEPT ![r] = TRUE]
    /\ cancel' = [cancel EXCEPT ![r] = TRUE]
    /\ UNCHANGED <<epc, term, pending, final, store, lock, signal, aged, calls,
                   killers, evicted>>

\* The cancel event of a turn is set.
SetCancelEvent(r) ==
    /\ cancel' = [cancel EXCEPT ![r] = TRUE]
    /\ UNCHANGED <<epc, term, pending, lost, final>>

\* Mutant: the watcher stops once the turn has produced something.
WatchCancelEarly(r) ==
    /\ epc[r] = "running"
    /\ ~cancel[r]
    /\ Turn[r] \in signal
    /\ store[r].log = <<>>
    /\ SetCancelEvent(r)
    /\ UNCHANGED <<store, lock, signal, aged, calls, killers, evicted>>

\* _watch_cancel finds the cancel key.
WatchCancel(r) ==
    /\ epc[r] = "running"
    /\ ~cancel[r]
    /\ Turn[r] \in signal
    /\ SetCancelEvent(r)
    /\ UNCHANGED <<store, lock, signal, aged, calls, killers, evicted>>

-----------------------------------------------------------------------------
(* Cancelling: _cancel_session_turn and cancel_and_wait *)

KillerGoto(k, step) ==
    /\ kpc' = [kpc EXCEPT ![k] = step]
    /\ UNCHANGED kturn

KillerStops(k) ==
    /\ kpc' = [kpc EXCEPT ![k] = "idle"]
    /\ kturn' = [kturn EXCEPT ![k] = None]

\* active_turn
CancelTurn(k) ==
    /\ kpc[k] = "idle"
    /\ lock # None
    /\ kpc' = [kpc EXCEPT ![k] = "signal"]
    /\ kturn' = [kturn EXCEPT ![k] = lock]
    /\ UNCHANGED <<store, lock, signal, aged, calls, execs, evicted>>

\* replay_store.signal_cancel
SignalCancel(k) ==
    /\ kpc[k] = "signal"
    /\ signal' = signal \cup {kturn[k]}
    /\ KillerGoto(k, "target")
    /\ UNCHANGED <<store, lock, aged, calls, execs, evicted>>

\* cancel_and_wait reads the lock again; a turn that runs in this process gets
\* its cancel event set directly.
CancelAndWait(k) ==
    /\ kpc[k] = "target"
    /\ \/ lock = None /\ KillerStops(k) /\ UNCHANGED execs
       \/ /\ lock # None
          /\ kpc' = [kpc EXCEPT ![k] = "wait"]
          /\ kturn' = [kturn EXCEPT ![k] = lock]
          /\ \/ UNCHANGED execs
             \/ \E r \in Requests : Turn[r] = lock /\ Live(r) /\ SetCancelEvent(r)
    /\ UNCHANGED <<store, lock, signal, aged, calls, evicted>>

\* The lock is no longer the turn's.
WaitReleased(k) ==
    /\ kpc[k] = "wait"
    /\ lock # kturn[k]
    /\ KillerStops(k)
    /\ UNCHANGED <<store, lock, signal, aged, calls, execs, evicted>>

\* CANVAS_TURN_CANCEL_WAIT_SEC passes.
WaitTimesOut(k) ==
    /\ kpc[k] = "wait"
    /\ KillerGoto(k, "force_get")
    /\ UNCHANGED <<store, lock, signal, aged, calls, execs, evicted>>

\* force_release, GET
ForceGet(k) ==
    /\ kpc[k] = "force_get"
    /\ IF lock = None THEN KillerStops(k) ELSE KillerGoto(k, "force_delete")
    /\ UNCHANGED <<store, lock, signal, aged, calls, execs, evicted>>

\* force_release, DEL: whatever the lock holds by then.
ForceDelete(k) ==
    /\ kpc[k] = "force_delete"
    /\ IF lock = None THEN UNCHANGED <<lock, evicted>> ELSE TakeLock
    /\ KillerStops(k)
    /\ UNCHANGED <<store, signal, aged, calls, execs>>

-----------------------------------------------------------------------------
(* Time and failures *)

\* The process that runs the turn dies: no finally block runs.
Crash(r) ==
    /\ Live(r)
    /\ ExecStops(r, "dead")
    /\ UNCHANGED <<store, lock, signal, aged, calls, killers>>

\* The lease is not refreshed in time: its process is dead or stalled.
LeaseExpires(r) ==
    /\ store[r].lease
    /\ store' = [store EXCEPT ![r] = ExpireLease(store[r])]
    /\ UNCHANGED <<lock, signal, aged, calls, execs, killers, evicted>>

\* The lock of a dead turn runs out (CANVAS_TURN_LOCK_TTL_SEC).
LockExpires ==
    /\ lock # None
    /\ \A r \in Requests : Turn[r] = lock => ~Live(r)
    /\ lock' = None
    /\ UNCHANGED <<store, signal, aged, calls, execs, killers, evicted>>

\* SSE_EXECUTION_LEASE_TTL_SEC have passed since the claim.
Age(r) ==
    /\ store[r].status = "starting"
    /\ r \notin aged
    /\ aged' = aged \cup {r}
    /\ UNCHANGED <<store, lock, signal, calls, execs, killers, evicted>>

CallStep(c) ==
    \/ ReadMeta(c) \/ Acquire(c) \/ DiscardRead(c) \/ DiscardDelete(c)
    \/ ReadAfter(c) \/ AfterRead(c) \/ AfterEmpty(c) \/ HasLease(c)
    \/ MarkExecutionLost(c)

CleanupStep(r) ==
    BeginRunning(r) \/ AppendFailure(r) \/ ExecFinish(r) \/ ClearCancel(r) \/ Release(r)

KillerStep(k) ==
    \/ SignalCancel(k) \/ CancelAndWait(k) \/ WaitReleased(k) \/ WaitTimesOut(k)
    \/ ForceGet(k) \/ ForceDelete(k)

CallNext(c) ==
    \/ \E r \in Requests : StartTurn(c, r)
    \/ \E r \in Requests : \E n \in 0 .. Len(store[r].log) : Reconnect(c, r, n)
    \/ CallStep(c) \/ RejectInput(c) \/ Disconnect(c)

ExecNext(r) ==
    \/ CleanupStep(r)
    \/ \E f \in FrameTypes : Publish(r, f)
    \/ ExecFails(r) \/ StreamEnds(r) \/ RefreshFails(r) \/ WatchCancel(r)
    \/ Crash(r) \/ LeaseExpires(r) \/ Age(r)

Next ==
    \/ \E c \in Calls : CallNext(c)
    \/ \E r \in Requests : ExecNext(r)
    \/ \E k \in Cancellers : CancelTurn(k) \/ KillerStep(k)
    \/ LockExpires

\* What a cancelled engine does: it stops at its next check of the event.
EngineStops(r) == cancel[r] /\ (StreamEnds(r) \/ ExecFails(r))

\* HTTP calls, background tasks and pollers that have not died go on; a
\* cancelled engine stops; leases run out once nobody refreshes them.  A turn
\* that is not cancelled may go on for ever, and a lock need not run out.
Fairness ==
    /\ \A c \in Calls : WF_vars(CallStep(c))
    /\ \A r \in Requests :
         /\ WF_vars(CleanupStep(r))
         /\ WF_vars(RefreshFails(r))
         /\ WF_vars(WatchCancel(r))
         /\ WF_vars(EngineStops(r))
         /\ WF_vars(epc[r] = "dead" /\ LeaseExpires(r))
         /\ WF_vars(Age(r))

Spec == Init /\ [][Next]_vars /\ Fairness

-----------------------------------------------------------------------------
(* Properties *)

LastFrame(m) == m.log[Len(m.log)]

\* The log of a request has at most one terminal frame, as its last one,
\* though the execution, a lost-execution report and a late failure may all
\* try to write one.
LogClosedOnce ==
    \A r \in Requests :
        \A i \in 1 .. Len(store[r].log) - 1 : store[r].log[i] \notin TerminalTypes

\* The status in the meta hash tells the same story as the frames a client
\* has seen: a terminal frame fixes the status, a request is completed or
\* cancelled only after that frame, and interrupted only while the client has
\* something to answer.
StatusMatchesLog ==
    \A r \in Requests :
        LET m == store[r]
            ended == m.log # <<>> /\ LastFrame(m) \in TerminalTypes
        IN  /\ ended => m.status = CloseStatus(LastFrame(m))
            /\ m.status \in {"completed", "cancelled"} => ended
            /\ m.status = "interrupted" =>
                 ~ended /\ \E i \in 1 .. Len(m.log) : m.log[i] = "pending"

\* A client whose stream was ended by the server has every frame of the log,
\* and none is ever added behind its back.
EndedSawEverything ==
    \A c \in Calls : cpc[c] = "ended" /\ creq[c] # None =>
        IsClosed(store[creq[c]]) /\ cursor[c] = Len(store[creq[c]].log)

\* What a reader of the store sees of a request: how its turn stands, and the
\* frames of its log.
Outcomes ==
    [r \in Requests |-> CASE store[r].status = "absent" -> "none"
                          [] IsOpen(store[r]) -> "open"
                          [] OTHER -> store[r].status]

Logs == [r \in Requests |-> store[r].log]

TurnLog == INSTANCE TurnLogs WITH outcome <- Outcomes, frames <- Logs

\* Whatever the execution, the calls that follow it, those that discard or
\* report it and the failures do between their commands, the store behaves as
\* a log with one writer: a late frame, a late status or a late delete never
\* changes a log that was closed, and no log that has frames of a turn goes.
ImplementsTurnLogs == TurnLog!Spec

\* The session lock excludes executions: one that runs holds it, unless the
\* lock was taken from it (lost execution, forced release).
LiveTurnHoldsLock ==
    \A r \in Requests : Live(r) => lock = Turn[r] \/ r \in evicted

\* Two requests never have the same turn: no turn is resumed.
OwnTurns == \A q, r \in Requests : Turn[q] = Turn[r] => q = r

\* The lock is never left to a turn that is over or never started.
NoLeakedLock ==
    lock # None =>
        \E r \in Requests : Turn[r] = lock /\ epc[r] \notin {"none", "over"}

\* A turn whose cancellation was requested stops running, whichever process
\* runs it.
CancelledTurnStops ==
    \A r \in Requests :
        (Turn[r] \in signal /\ epc[r] = "running") ~> (epc[r] # "running")

\* Nobody will write to the request any more.
Abandoned(r) ==
    \/ IsClosed(store[r])
    \/ epc[r] = "dead"
    \/ /\ store[r].status = "starting" /\ epc[r] = "none"
       /\ \A c \in Calls : creq[c] = r => cpc[c] \notin Creating

\* A client that follows a request is not left hanging when the request is
\* closed, its process has died or its claim was never run.
FollowersLearn ==
    \A c \in Calls, r \in Requests :
        (cpc[c] \in Following /\ creq[c] = r /\ Abandoned(r))
            ~> (cpc[c] \notin Following)

\* A client that follows a turn which dies half-way gives the session back
\* without waiting for the lock to run out.
DeadTurnFreesSession ==
    \A c \in Calls, r \in Requests :
        (/\ cpc[c] \in Following /\ creq[c] = r
         /\ lock = Turn[r] /\ epc[r] = "dead" /\ IsOpen(store[r]))
            ~> (lock # Turn[r] \/ cpc[c] = "gone")

=============================================================================
