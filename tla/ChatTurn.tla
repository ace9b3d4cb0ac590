------------------------------ MODULE ChatTurn ------------------------------
(***************************************************************************)
(* The turns of one conversation: the lock, the cancel signal and the gate *)
(* in Redis, the conversation's active turn in the database, and those who *)
(* change them without a common order: executions started by a message or  *)
(* resumed at a gate, the aborts of /turn/cancel and /gate/cancel, and the *)
(* cleanup of a process that starts (src/app/agent/chat/turn,              *)
(* src/app/agent/chat/gate/pending.py, src/app/agent/chat/service.py,      *)
(* src/app/server/api/v1/endpoints/chat.py).                               *)
(*                                                                         *)
(* One step is one command to Redis or one statement of the database.  The *)
(* log of a turn's frames is the subject of ReplayStore: here every        *)
(* request has a log of its own, and its lease may be given up.            *)
(***************************************************************************)
EXTENDS Naturals, FiniteSets

CONSTANTS
    Starts,    \* calls of /message/stream; each proposes the turn of its name
    Resumes,   \* calls of /turn/resume
    Aborts,    \* calls of /turn/cancel and /gate/cancel
    Restarts,  \* processes that start
    NoTurn

ASSUME ActorsAssumption ==
    /\ Starts \cap Resumes = {} /\ Starts \cap Aborts = {} /\ Starts \cap Restarts = {}
    /\ Resumes \cap Aborts = {} /\ Resumes \cap Restarts = {} /\ Aborts \cap Restarts = {}
    /\ NoTurn \notin Starts

VARIABLES
    turnLock,    \* Redis chat:turn_lock: the turn that holds the conversation
    signal,      \* Redis chat:turn_cancel: the turn that shall stop
    gate,        \* Redis chat:gate_pending: a turn and the status of its gate
    activeTurn,  \* the conversation's row: active_turn_id
    chat,        \* actor -> its next step and locals
    cancelled,   \* the executions whose cancel_event is set and still of use
    leased       \* the executions that have a lease

chatVars == <<turnLock, signal, gate, activeTurn, chat, cancelled, leased>>

Executions == Starts \cup Resumes
Actors == Executions \cup Aborts \cup Restarts
MaybeTurn == Starts \cup {NoTurn}

Gates == [turn : MaybeTurn, status : {"none", "pending", "resuming"}]
NoGate == [turn |-> NoTurn, status |-> "none"]

\* From the lock's acquisition to the end of the agent's stream.
Running == {"spawn", "mark", "stream"}

\* The steps of finalize_inflight_turn_abort.
Finalizing == {"fin_stale", "fin_drop", "gate", "peek", "force", "sig_peek", "sig_del", "active"}

\* The steps after the stream's own cleanup, up to the last release.
Releasing == {"rel_shell", "rel_service", "clear_peek", "clear_del", "rel_replay"}

\* replay_store.finish has closed the log.
Closed == {"clear_peek", "clear_del", "rel_replay"}

Holding == Running \cup {"gated", "clear_active", "resume_clear", "resume_end"}
                   \cup Finalizing \cup Releasing

ChatSteps == Holding \cup {"idle", "stale", "drop", "submit", "resuming", "acquire",
                           "resolve", "signal", "refused", "done", "dead"}

\* The keys, the row and the locals have their types.
ChatTypeOK ==
    /\ turnLock \in MaybeTurn
    /\ signal \in MaybeTurn
    /\ gate \in Gates
    /\ activeTurn \in MaybeTurn
    /\ chat \in [Actors -> [pc : ChatSteps, turn : MaybeTurn, seen : MaybeTurn]]
    /\ cancelled \subseteq Executions
    /\ leased \subseteq Executions

ChatInit ==
    /\ turnLock = NoTurn
    /\ signal = NoTurn
    /\ gate = NoGate
    /\ activeTurn = NoTurn
    /\ chat = [a \in Actors |->
            [pc |-> "idle", turn |-> IF a \in Starts THEN a ELSE NoTurn, seen |-> NoTurn]]
    /\ cancelled = {}
    /\ leased = {}

\* What a step has read is used by the next one at the latest.
ChatGoto(a, from, to) ==
    /\ chat[a].pc = from
    /\ chat' = [chat EXCEPT ![a].pc = to, ![a].seen = NoTurn]

\* A step that keeps what it has read in the local "seen".
Look(a, from, what, to) ==
    /\ chat[a].pc = from
    /\ chat' = [chat EXCEPT ![a].pc = to, ![a].seen = what]

-----------------------------------------------------------------------------
\* Steps that several callers share

\* ConversationTurnLock.release: by owner, in one script.
ChatRelease(e) ==
    turnLock' = IF turnLock = chat[e].turn THEN NoTurn ELSE turnLock

\* clear_stale_gate_ephemeral reads the gate, and deletes it if it is not
\* pending; by then it may be.
ClearStaleGate(a, from, drop, to) ==
    \/ /\ ChatGoto(a, from, IF gate.status = "resuming" THEN drop ELSE to)
       /\ UNCHANGED <<turnLock, signal, gate, activeTurn, cancelled, leased>>
    \/ /\ ChatGoto(a, drop, to)
       /\ gate' = NoGate
       /\ UNCHANGED <<turnLock, signal, activeTurn, cancelled, leased>>

\* TurnCancelSignal.clear: a read, and a deletion if it read the turn.
ClearSignal(a, peek, del, to) ==
    \/ /\ Look(a, peek, signal, del)
       /\ UNCHANGED <<turnLock, signal, gate, activeTurn, cancelled, leased>>
    \/ /\ ChatGoto(a, del, to)
       /\ signal' = IF chat[a].seen = chat[a].turn THEN NoTurn ELSE signal
       /\ UNCHANGED <<turnLock, gate, activeTurn, cancelled, leased>>

\* force_cancel: a read, and a deletion of whatever is there if it read a turn.
ForceCancel(a, to) ==
    \/ /\ Look(a, "peek", turnLock, "force")
       /\ UNCHANGED <<turnLock, signal, gate, activeTurn, cancelled, leased>>
    \/ /\ ChatGoto(a, "force", to)
       /\ turnLock' = IF chat[a].seen # NoTurn THEN NoTurn ELSE turnLock
       /\ UNCHANGED <<signal, gate, activeTurn, cancelled, leased>>

\* The first release after the stream: a resume has no shell of its own.
FirstRelease(a) == IF a \in Starts THEN "rel_shell" ELSE "rel_service"

ClearActive(a, from, to) ==
    /\ ChatGoto(a, from, to)
    /\ activeTurn' = NoTurn
    /\ UNCHANGED <<turnLock, signal, gate, cancelled, leased>>

ClearGate(a, from, to) ==
    /\ ChatGoto(a, from, to)
    /\ gate' = NoGate
    /\ UNCHANGED <<turnLock, signal, activeTurn, cancelled, leased>>

\* clear_turn_ephemeral_state: the gate, the lock, the signal, the active turn.
ClearTurnEphemeralState(a) ==
    \/ ClearGate(a, "gate", "peek")
    \/ ForceCancel(a, IF chat[a].turn # NoTurn THEN "sig_peek" ELSE "active")
    \/ ClearSignal(a, "sig_peek", "sig_del", "active")
    \/ ClearActive(a, "active", IF a \in Executions THEN FirstRelease(a) ELSE "done")

-----------------------------------------------------------------------------
\* A message: prepare_turn, the lock, the execution in the background

PrepareTurn(s) ==
    /\ ChatGoto(s, "idle", CASE gate.status = "pending" -> "refused"
                             [] gate.status = "resuming" -> "stale"
                             [] OTHER -> "acquire")
    /\ UNCHANGED <<turnLock, signal, gate, activeTurn, cancelled, leased>>

\* An upgrade invitation is pending, or the input is refused after the claim.
RefuseMessage(s) ==
    /\ s \in Starts
    /\ ChatGoto(s, "acquire", "refused")
    /\ UNCHANGED <<turnLock, signal, gate, activeTurn, cancelled, leased>>

ChatAcquire(e) ==
    /\ ChatGoto(e, "acquire", IF turnLock = NoTurn THEN "spawn" ELSE "refused")
    /\ \/ turnLock = NoTurn /\ turnLock' = chat[e].turn /\ leased' = leased \cup {e}
       \/ turnLock # NoTurn /\ UNCHANGED <<turnLock, leased>>
    /\ UNCHANGED <<signal, gate, activeTurn, cancelled>>

\* run_chat_replay_execution: set_running, then the stream; the log may have been
\* closed by then.
SetRunning(e) ==
    /\ \/ /\ ChatGoto(e, "spawn", IF e \in Starts THEN "mark" ELSE "stream")
          /\ UNCHANGED cancelled
       \/ ChatGoto(e, "spawn", "clear_peek") /\ cancelled' = cancelled \ {e}
    /\ UNCHANGED <<turnLock, signal, gate, activeTurn, leased>>

MarkTurnActive(s) ==
    /\ ChatGoto(s, "mark", "stream")
    /\ activeTurn' = s
    /\ UNCHANGED <<turnLock, signal, gate, cancelled, leased>>

\* The stream ends, with an answer, an error, the wall clock or a cancellation.
StreamEnds(s) ==
    /\ ChatGoto(s, "stream", IF s \in cancelled THEN "fin_stale" ELSE "clear_active")
    /\ cancelled' = cancelled \ {s}
    /\ UNCHANGED <<turnLock, signal, gate, activeTurn, leased>>

\* emit_user_gates: the turn is interrupted and waits for the user.
EmitUserGate(e) ==
    /\ ChatGoto(e, "stream", "gated")
    /\ gate' = [turn |-> chat[e].turn, status |-> "pending"]
    /\ UNCHANGED <<turnLock, signal, activeTurn, cancelled, leased>>

\* cancel_event is looked at once more: an interrupted turn stays active.
StreamGated(e) ==
    /\ ChatGoto(e, "gated", IF e \in cancelled THEN "fin_stale" ELSE FirstRelease(e))
    /\ cancelled' = cancelled \ {e}
    /\ UNCHANGED <<turnLock, signal, gate, activeTurn, leased>>

\* finalize_inflight_turn_abort: what the stream does when it was cancelled.  An
\* exception ends it early.
FinalizeAbort(e) ==
    \/ ClearStaleGate(e, "fin_stale", "fin_drop", "gate")
    \/ ClearTurnEphemeralState(e)
    \/ /\ chat[e].pc \in Finalizing
       /\ ChatGoto(e, chat[e].pc, FirstRelease(e))
       /\ UNCHANGED <<turnLock, signal, gate, activeTurn, cancelled, leased>>

\* Mutant: the replay execution leaves the release to the service.
ReleaseStepTwice(e) ==
    \/ /\ \/ ChatGoto(e, "rel_shell", "rel_service")
          \/ ChatGoto(e, "rel_service", "clear_peek")
       /\ ChatRelease(e)
       /\ UNCHANGED <<signal, gate, activeTurn, cancelled, leased>>
    \/ /\ ChatGoto(e, "rel_replay", "done") /\ leased' = leased \ {e}
       /\ UNCHANGED <<turnLock, signal, gate, activeTurn, cancelled>>
    \/ ClearSignal(e, "clear_peek", "clear_del", "rel_replay")

\* The lock is released by the stream's shell, by the service and by the replay
\* execution, which clears the signal before.
ReleaseStep(e) ==
    \/ /\ \/ ChatGoto(e, "rel_shell", "rel_service") /\ UNCHANGED leased
          \/ ChatGoto(e, "rel_service", "clear_peek") /\ UNCHANGED leased
          \/ ChatGoto(e, "rel_replay", "done") /\ leased' = leased \ {e}
       /\ ChatRelease(e)
       /\ UNCHANGED <<signal, gate, activeTurn, cancelled>>
    \/ ClearSignal(e, "clear_peek", "clear_del", "rel_replay")

-----------------------------------------------------------------------------
\* The answer at a gate: prepare_resume_turn, the lock, the resumed execution

\* The status of the gate is not looked at.  Only a submission changes it.
PrepareResume(r) ==
    /\ chat[r].pc = "idle" /\ gate.turn # NoTurn
    /\ \E next \in {"submit", "acquire"} :
            chat' = [chat EXCEPT ![r].pc = next, ![r].turn = gate.turn]
    /\ UNCHANGED <<turnLock, signal, gate, activeTurn, cancelled, leased>>

\* update_gate_pending_status reads the gate and writes it back: an abort in
\* between is undone.
ReadGate(r) ==
    /\ chat[r].pc = "submit"
    /\ IF gate.turn = NoTurn THEN ChatGoto(r, "submit", "acquire")
       ELSE Look(r, "submit", gate.turn, "resuming")
    /\ UNCHANGED <<turnLock, signal, gate, activeTurn, cancelled, leased>>

\* update_gate_pending_status writes what it has read with the new status.
WriteGate(r) ==
    /\ ChatGoto(r, "resuming", "acquire")
    /\ gate' = [turn |-> chat[r].seen, status |-> "resuming"]
    /\ UNCHANGED <<turnLock, signal, activeTurn, cancelled, leased>>

\* The agent completes: the gate goes, and then the active turn; or the gate's
\* tool failed for good, and the turn stays active.
ResumeCompletes(r) ==
    \/ ClearGate(r, "stream", "resume_clear")
    \/ ClearGate(r, "stream", "resume_end")
    \/ ClearActive(r, "resume_clear", "resume_end")

\* The stream is over, or fails in a way that is reported as an event; or it
\* raises, and a cancellation is not looked at any more.
ResumeEnds(r) ==
    /\ \/ \E from \in {"stream", "resume_end"} :
                ChatGoto(r, from, IF r \in cancelled THEN "fin_stale" ELSE "rel_service")
       \/ ChatGoto(r, "stream", "rel_service")
    /\ cancelled' = cancelled \ {r}
    /\ UNCHANGED <<turnLock, signal, gate, activeTurn, leased>>

-----------------------------------------------------------------------------
\* What runs beside a stream

Watching == (Running \ {"spawn"}) \cup {"gated", "resume_clear", "resume_end"}

\* watch_turn_cancel and _watch_cancel
WatchCancel(e) ==
    /\ chat[e].pc \in Watching /\ e \notin cancelled
    /\ signal = chat[e].turn
    /\ cancelled' = cancelled \cup {e}
    /\ UNCHANGED <<turnLock, signal, gate, activeTurn, chat, leased>>

\* Mutant: the loop of an execution that has lost its lease ends without a word.
RefreshLeaseSilent(e) ==
    /\ chat[e].pc \in Watching /\ e \notin cancelled
    /\ e \in leased /\ turnLock # chat[e].turn
    /\ cancelled' = cancelled \cup {e}
    /\ UNCHANGED <<turnLock, signal, gate, activeTurn, chat, leased>>

\* _refresh_lease: the execution stops when it has lost its lease or its lock.
RefreshLease(e) ==
    /\ chat[e].pc \in Watching /\ e \notin cancelled
    /\ e \notin leased \/ turnLock # chat[e].turn
    /\ cancelled' = cancelled \cup {e}
    /\ UNCHANGED <<turnLock, signal, gate, activeTurn, chat, leased>>

\* A process dies.
ExecutionDies(e) ==
    /\ chat[e].pc \in Holding
    /\ ChatGoto(e, chat[e].pc, "dead")
    /\ cancelled' = cancelled \ {e}
    /\ UNCHANGED <<turnLock, signal, gate, activeTurn, leased>>

\* Mutant: the lock has no time to live, and nobody gives up on a process that is gone.
LeaseLostOfLive(e) ==
    /\ e \in leased /\ chat[e].pc \in Holding \ Closed
    /\ leased' = leased \ {e}
    /\ ChatRelease(e)
    /\ UNCHANGED <<signal, gate, activeTurn, chat, cancelled>>

\* The lease of an execution that is dead or stalled runs out: whoever follows its
\* log closes it and releases the lock by owner; so does the lock's time to live.
LeaseLost(e) ==
    /\ e \in leased /\ chat[e].pc \in (Holding \ Closed) \cup {"dead"}
    /\ leased' = leased \ {e}
    /\ ChatRelease(e)
    /\ UNCHANGED <<signal, gate, activeTurn, chat, cancelled>>

\* The time to live of the gate; that of the signal is longer than any turn.
KeysExpire ==
    \/ /\ gate # NoGate /\ gate' = NoGate
       /\ UNCHANGED <<turnLock, signal, activeTurn, chat, cancelled, leased>>
    \/ /\ signal # NoTurn
       /\ \A e \in Executions : chat[e].turn = signal => chat[e].pc \notin Holding
       /\ signal' = NoTurn
       /\ UNCHANGED <<turnLock, gate, activeTurn, chat, cancelled, leased>>

-----------------------------------------------------------------------------
\* Aborts and the cleanup of a process that starts

\* cancel_active_turn reads the conversation's row.
CancelActiveTurn(a) ==
    /\ Look(a, "idle", activeTurn, "resolve")
    /\ UNCHANGED <<turnLock, signal, gate, activeTurn, cancelled, leased>>

\* _resolve_turn_id: of the row, of the gate or of the lock.
ResolveTurn(a) ==
    LET t == IF chat[a].seen # NoTurn THEN chat[a].seen
             ELSE IF gate.turn # NoTurn THEN gate.turn ELSE turnLock
    IN
    /\ chat[a].pc = "resolve"
    /\ chat' = [chat EXCEPT ![a] =
            [pc |-> IF t = NoTurn THEN "gate" ELSE "signal", turn |-> t, seen |-> NoTurn]]
    /\ UNCHANGED <<turnLock, signal, gate, activeTurn, cancelled, leased>>

\* cancel_gate: the gate must be pending.
CancelGate(a) ==
    /\ chat[a].pc = "idle" /\ gate.status = "pending"
    /\ chat' = [chat EXCEPT ![a].pc = "signal", ![a].turn = gate.turn]
    /\ UNCHANGED <<turnLock, signal, gate, activeTurn, cancelled, leased>>

SendSignal(a, to) ==
    /\ ChatGoto(a, "signal", to)
    /\ signal' = chat[a].turn
    /\ UNCHANGED <<turnLock, gate, activeTurn, cancelled, leased>>

AbortStep(a) == ResolveTurn(a) \/ SendSignal(a, "gate") \/ ClearTurnEphemeralState(a)

\* clear_stale_active_turns_on_startup
FindActive(p) ==
    /\ chat[p].pc = "idle" /\ activeTurn # NoTurn
    /\ chat' = [chat EXCEPT ![p].pc = "peek", ![p].turn = activeTurn]
    /\ UNCHANGED <<turnLock, signal, gate, activeTurn, cancelled, leased>>

StartupStep(p) ==
    ForceCancel(p, "signal") \/ SendSignal(p, "active") \/ ClearActive(p, "active", "done")

-----------------------------------------------------------------------------

\* A step of an execution that has its lock, except what its stream does before
\* it is cancelled.
CleanupStep(e) ==
    \/ SetRunning(e)
    \/ StreamGated(e)
    \/ FinalizeAbort(e)
    \/ ReleaseStep(e)
    \/ e \in Starts /\ MarkTurnActive(e)
    \/ e \in Starts /\ ClearActive(e, "clear_active", "rel_shell")
    \/ e \in Resumes /\ ResumeCompletes(e) /\ chat[e].pc = "resume_clear"
    \/ e \in Resumes /\ ResumeEnds(e) /\ chat[e].pc = "resume_end"

StreamStep(e) ==
    \/ EmitUserGate(e)
    \/ e \in Starts /\ StreamEnds(e)
    \/ e \in Resumes /\ ResumeCompletes(e) /\ chat[e].pc = "stream"
    \/ e \in Resumes /\ ResumeEnds(e) /\ chat[e].pc = "stream"

RequestStep(e) ==
    \/ e \in Starts /\ (PrepareTurn(e) \/ ClearStaleGate(e, "stale", "drop", "acquire"))
    \/ RefuseMessage(e)
    \/ e \in Resumes /\ (PrepareResume(e) \/ ReadGate(e) \/ WriteGate(e))
    \/ ChatAcquire(e)

ExecutionStep(e) ==
    \/ RequestStep(e) \/ StreamStep(e) \/ CleanupStep(e)
    \/ WatchCancel(e) \/ RefreshLease(e) \/ ExecutionDies(e) \/ LeaseLost(e)

ChatNext ==
    \/ \E e \in Executions : ExecutionStep(e)
    \/ \E a \in Aborts : CancelActiveTurn(a) \/ CancelGate(a) \/ AbortStep(a)
    \/ \E p \in Restarts : FindActive(p) \/ StartupStep(p)
    \/ KeysExpire

ChatSpec == ChatInit /\ [][ChatNext]_chatVars

\* What an execution does whether or not its agent does anything: it cleans up, its
\* stream ends once it is cancelled, its lease runs out when it is dead.
MustStep(e) ==
    \/ CleanupStep(e)
    \/ e \in cancelled /\ StreamStep(e)
    \/ chat[e].pc = "dead" /\ LeaseLost(e)

\* Executions and aborts go on and the lease is refreshed.  Nothing is assumed of
\* the watchers of the signal, which may poll too late, nor of an agent's turn,
\* which may take as long as it likes.
ChatFairness ==
    /\ \A e \in Executions : WF_chatVars(MustStep(e)) /\ WF_chatVars(RefreshLease(e))
    /\ \A a \in Aborts : WF_chatVars(AbortStep(a))

ChatLiveSpec == ChatSpec /\ ChatFairness

-----------------------------------------------------------------------------
\* Properties

\* The conversation is locked only on behalf of an execution that has a lease and
\* has not ended: it will release the lock, or its lease will run out.  A resumed
\* turn shares its id with the execution it resumes, and anybody may take the lock
\* away by force.
LockHasExecution ==
    turnLock # NoTurn =>
        \E e \in leased : chat[e].turn = turnLock /\ chat[e].pc \in Holding \cup {"dead"}

\* Another execution of the same turn has acquired the lock.
TakenOver(e) ==
    \E f \in Executions \ {e} : chat[f].turn = chat[e].turn /\ chat[f].pc \in Holding

\* An abort has sent its signal to the turn and has not looked at the lock yet.
ToldToStop(e) ==
    \E a \in Aborts : chat[a].turn = chat[e].turn /\ chat[a].pc \in {"gate", "peek"}

Stops(e) ==
    chat[e].pc \in Running /\ (ToldToStop(e) \/ turnLock # chat[e].turn)
        ~> chat[e].pc \notin Running \/ TakenOver(e)

\* A turn that is told to stop while it runs, or whose lock was taken away, stops,
\* even if the signal is cleared or overwritten before its watcher has seen it: an
\* abort never leaves a turn running beside the next one for good.
DisownedTurnsStop == \A e \in Executions : Stops(e)

Unlocks(t) ==
    turnLock = t /\ (\A e \in Executions : chat[e].turn = t => chat[e].pc \notin Running)
        ~> turnLock # t

\* What stream_turn releases the lock once more for: a conversation whose turn is
\* over, in whatever way, does not stay locked.
LockFreedAfterTurn == \A t \in Starts : Unlocks(t)

=============================================================================
