----------------------------- MODULE TurnEngine -----------------------------
(***************************************************************************)
(* One turn inside its process: TurnEngine drives the agent in a task of   *)
(* its own, a bus takes the turn's events to the subscribers, which send   *)
(* frames and store messages, and the stream that the caller reads ends    *)
(* when the task does, when the turn is cancelled or when the caller goes  *)
(* away (src/app/agent/runtime/turn_engine, src/app/agent/runtime/turn and *)
(* the subscribers of the chat and of the canvas).                         *)
(*                                                                         *)
(* Events are broadcast, each subscriber handling its own in order in      *)
(* tasks of a chain, or are barriers that the engine waits for.  The chat  *)
(* stores its answer in the chain of one subscriber (the recorder) and,    *)
(* where that has not done it, in the barrier of another; the canvas in a  *)
(* barrier only, behind its own chain.  One step is what a task does       *)
(* between two awaits.  The turn is a new one: a resumed turn has other    *)
(* subscribers and hooks.                                                  *)
(***************************************************************************)
EXTENDS Naturals, Sequences

CONSTANT MaxEvents  \* bound on the agent's events

VARIABLES
    surface,      \* chat or canvas
    cancelEvent,  \* cancel_event
    stream,       \* the next step of TurnEngine.stream
    cut,          \* the caller has gone away
    out,          \* the frames put into the queue, "end" being the sentinel
    read,         \* how many of them the pump has handed on
    told,         \* the last frame, if the queue does not have it
    run,          \* the run task: next step, event of its barrier, events so far
    state,        \* RunState, and whether the run has raised
    interrupt,    \* what the agent's graph waits for: none, gate, invite, confirm
    chain,        \* subscriber -> broadcast events that it has not handled
    writing,      \* the recorder is storing the answer
    recorder,     \* last_model_message and final_persisted
    stored,       \* messages with the answer in the database
    dbFailed,     \* a write has failed or was cut off
    cleanup       \* the next step of the cleanup task

engineVars == <<surface, cancelEvent, stream, cut, out, read, told, run, state, interrupt,
                chain, writing, recorder, stored, dbFailed, cleanup>>

streamVars == <<cancelEvent, stream, cut, read, told>>
storeVars == <<writing, recorder, stored, dbFailed>>

\* Who has a chain: the subscriber that sends frames and one that stores.
Subscribers == {"sse", "db"}

EngineInit ==
    /\ surface \in {"chat", "canvas"}
    /\ cancelEvent = FALSE /\ stream = "pump" /\ cut = FALSE
    /\ out = <<>> /\ read = 0 /\ told = "none"
    /\ run = [pc |-> "start", event |-> "none", events |-> 0]
    /\ state = [by |-> "failed", started |-> FALSE, failed |-> FALSE, answered |-> FALSE,
                text |-> FALSE, published |-> FALSE, raised |-> FALSE]
    /\ interrupt = "none"
    /\ chain = [s \in Subscribers |-> <<>>]
    /\ writing = FALSE
    /\ recorder = [last |-> "none", persisted |-> FALSE]
    /\ stored = 0 /\ dbFailed = FALSE
    /\ cleanup = "idle"

-----------------------------------------------------------------------------
(* The bus *)

\* Which chains an event joins: the frames', and the recorder's or, on the canvas,
\* that of the subscriber that stores.
BroadcastEvents ==
    [sse |-> {"token", "tool", "ended"},
     db |-> IF surface = "chat" THEN {"tool", "text"} ELSE {"tool"}]

Deliver(queue, s, event) ==
    IF event \in BroadcastEvents[s] THEN Append(queue, event) ELSE queue

Broadcast(event) == chain' = [s \in Subscribers |-> Deliver(chain[s], s, event)]

\* Two broadcasts without an await between them.
BroadcastBoth(first, second) ==
    chain' = [s \in Subscribers |-> Deliver(Deliver(chain[s], s, first), s, second)]

\* Mutant: the frames of a barrier do not wait for the chain.
NotWaiting(s) == TRUE

\* A barrier waits for the chain of the subscriber it comes to.
ChainDone(s) == chain[s] = <<>>

\* handle of SseTurnSubscriber for TurnEnded.
EndedFrames ==
    CASE state.by = "interrupted" -> <<>>
      [] state.by = "cancelled" -> IF surface = "chat" THEN <<"done">> ELSE <<>>
      [] state.by = "completed" -> <<"done">>
      [] OTHER -> (IF state.failed THEN <<>> ELSE <<"error">>)
                    \o (IF surface = "chat" THEN <<"done">> ELSE <<>>)

\* SseTurnSubscriber handles the next event of its chain: emit does not wait.
SseHandles ==
    /\ chain.sse # <<>>
    /\ out' = out \o (IF Head(chain.sse) = "ended" THEN EndedFrames ELSE <<Head(chain.sse)>>)
    /\ chain' = [chain EXCEPT !.sse = Tail(@)]
    /\ UNCHANGED <<surface, streamVars, run, state, interrupt, storeVars, cleanup>>

\* The recorder, or the canvas, handles a step with tools: a write, and nothing else
\* depends on its success.
DbHandlesTool ==
    /\ chain.db # <<>> /\ Head(chain.db) = "tool"
    /\ chain' = [chain EXCEPT !.db = Tail(@)]
    /\ recorder' = [recorder EXCEPT !.last = "call"]
    /\ UNCHANGED <<surface, streamVars, out, run, state, interrupt, writing, stored, dbFailed, cleanup>>

\* The recorder begins to store the answer of a step without tools.
DbBeginsText ==
    /\ chain.db # <<>> /\ Head(chain.db) = "text" /\ ~writing
    /\ writing' = TRUE
    /\ recorder' = [recorder EXCEPT !.last = "text"]
    /\ UNCHANGED <<surface, streamVars, out, run, state, interrupt, chain, stored, dbFailed, cleanup>>

\* The answer is stored, or the write fails, which _run_broadcast only logs.
DbEndsText ==
    /\ writing
    /\ writing' = FALSE
    /\ chain' = [chain EXCEPT !.db = Tail(@)]
    /\ \/ /\ stored' = stored + 1
          /\ recorder' = [recorder EXCEPT !.persisted = TRUE]
          /\ UNCHANGED dbFailed
       \/ dbFailed' = TRUE /\ UNCHANGED <<stored, recorder>>
    /\ UNCHANGED <<surface, streamVars, out, run, state, interrupt, cleanup>>

-----------------------------------------------------------------------------
(* The run task *)

RunGoto(pc, event) == run' = [run EXCEPT !.pc = pc, !.event = event]

\* The run leaves its try clause with a reason and waits for the cleanup task, which
\* repairs the checkpoint unless the turn went well.
Finish(by) ==
    /\ run' = [run EXCEPT !.pc = "finish"]
    /\ state' = [state EXCEPT !.by = by]
    /\ cleanup' = IF state.started /\ by \notin {"completed", "interrupted"}
                  THEN "repair" ELSE "announce"

\* Mutant: the barrier of a failure goes to the store alone.
FailUnseen ==
    IF state.failed
    THEN Finish("failed")
    ELSE /\ state' = [state EXCEPT !.by = "failed", !.failed = TRUE]
         /\ RunGoto("bar_db", "failed")
         /\ UNCHANGED cleanup

\* _fail, after which the run ends: a barrier unless there has been one.
Fail ==
    IF state.failed
    THEN Finish("failed")
    ELSE /\ state' = [state EXCEPT !.by = "failed", !.failed = TRUE]
         /\ RunGoto("bar_sse", "failed")
         /\ UNCHANGED cleanup

\* The run takes no step of its own once it is cancelled.
Runs(pc) == run.pc = pc /\ stream # "forced"

\* _start_turn: the barriers and the repair of a start; an exception fails the turn.
StartTurn ==
    /\ Runs("start")
    /\ \/ /\ RunGoto("drive", "none")
          /\ state' = [state EXCEPT !.started = TRUE]
          /\ UNCHANGED cleanup
       \/ Fail
    /\ UNCHANGED <<surface, streamVars, out, interrupt, chain, storeVars>>

\* What the graph may wait for when the run looks: tools of the chat interrupt it for a
\* gate or an invitation, the canvas in manual mode before a tool that the user is to
\* confirm; an answer is the last step.
Interrupts ==
    IF state.text THEN {"none"}
    ELSE IF surface = "chat" THEN {"none", "gate", "invite"} ELSE {"none", "confirm"}

\* An event arrives and the turn is cancelled or out of time.
StopAtEvent ==
    /\ Runs("drive")
    /\ state' = [state EXCEPT !.by = IF cancelEvent THEN "cancelled" ELSE "failed"]
    /\ RunGoto("interrupts", "none")
    /\ interrupt' \in Interrupts
    /\ UNCHANGED <<surface, streamVars, out, chain, storeVars, cleanup>>

\* An event of the agent is dispatched; the run goes on or leaves the loop for a reason.
Dispatch(by) ==
    /\ Runs("drive") /\ ~cancelEvent /\ run.events < MaxEvents /\ ~state.text
    /\ run' = [run EXCEPT !.events = @ + 1, !.pc = IF by = "none" THEN @ ELSE "interrupts"]
    /\ interrupt' \in IF by = "none" THEN {interrupt} ELSE Interrupts
    /\ UNCHANGED <<surface, streamVars, out, storeVars, cleanup>>

\* A token of an answer or of another channel.
HandleModelToken ==
    /\ Dispatch("none")
    /\ Broadcast("token")
    /\ \E answer \in BOOLEAN : state' = [state EXCEPT !.answered = @ \/ answer]

\* A step that calls a tool, until the tool has finished: it may be a step too many, the
\* guards may stop the turn, and a blocked browser completes it.  A tool of the chat may
\* have published a file.
HandleTool ==
    /\ Broadcast("tool")
    /\ \E by \in {"none", "guard", "failed"} \cup IF surface = "chat" THEN {"completed"} ELSE {},
         file \in IF surface = "chat" THEN BOOLEAN ELSE {FALSE} :
        /\ Dispatch(by)
        /\ state' = [state EXCEPT !.by = IF by = "none" THEN @ ELSE by,
                                  !.published = @ \/ file]

\* The step that answers, and the tokens of an answer that was not streamed, unless it is
\* a step too many.
HandleModelStepFinished ==
    \/ /\ Dispatch("none")
       /\ IF state.answered THEN Broadcast("text") ELSE BroadcastBoth("text", "token")
       /\ state' = [state EXCEPT !.text = TRUE, !.answered = TRUE]
    \/ /\ Dispatch("failed")
       /\ Broadcast("text")
       /\ state' = [state EXCEPT !.text = TRUE, !.by = "failed"]

\* The agent reports a failure, or something raises: the stream, a recovery, or a
\* subscriber that a barrier has come to.
HandleTurnFailed ==
    /\ \/ Runs("drive") \/ Runs("recover") \/ Runs("interrupts")
       \/ (Runs("bar_sse") \/ Runs("bar_db")) /\ run.event # "failed"
    /\ Fail
    /\ UNCHANGED <<surface, streamVars, out, interrupt, chain, storeVars>>

\* The agent is done.  Without an answer the hook of the canvas fails the turn, whatever
\* it waits for; that of the chat suspends it if it waits for the user, and tries to
\* recover an answer if it does not.
HandleTurnCompleted ==
    /\ Runs("drive") /\ ~cancelEvent
    /\ interrupt' \in Interrupts
    /\ \/ state.answered /\ RunGoto("bar_db", "completed") /\ UNCHANGED <<state, cleanup>>
       \/ /\ ~state.answered /\ surface = "chat"
          /\ IF interrupt' # "none"
             THEN RunGoto("bar_db", "suspended")
             ELSE RunGoto("recover", "completed")
          /\ UNCHANGED <<state, cleanup>>
       \/ ~state.answered /\ surface = "canvas" /\ Fail
    /\ UNCHANGED <<surface, streamVars, out, chain, storeVars>>

\* After the loop: what the graph waits for is announced; otherwise a turn that is
\* complete or cancelled ends, the chat tries to recover from a guard's stop, and
\* anything else is a failure.
EmitInterrupts ==
    /\ Runs("interrupts")
    /\ \/ interrupt # "none" /\ RunGoto("bar_sse", "interrupted") /\ UNCHANGED <<state, cleanup>>
       \/ interrupt = "none" /\ (state.by = "completed" \/ cancelEvent) /\ Finish(state.by)
       \/ /\ interrupt = "none" /\ state.by # "completed" /\ ~cancelEvent
          /\ IF surface = "chat" /\ state.by = "guard"
             THEN RunGoto("recover", "guard") /\ UNCHANGED <<state, cleanup>>
             ELSE Fail
    /\ UNCHANGED <<surface, streamVars, out, interrupt, chain, storeVars>>

\* _attempt_recovery: a cancelled one ends the turn, a successful one sends an answer and
\* stores it, one that gives up stores an apology.
AttemptRecovery ==
    /\ Runs("recover")
    /\ \/ /\ cancelEvent
          /\ Finish("cancelled")
          /\ recorder' = [recorder EXCEPT !.persisted = TRUE]
          /\ UNCHANGED chain
       \/ /\ ~cancelEvent
          /\ RunGoto("storing", IF run.event = "completed" THEN "answered" ELSE "recovered")
          /\ Broadcast("token")
          /\ state' = [state EXCEPT !.answered = TRUE]
          /\ UNCHANGED <<recorder, cleanup>>
       \/ ~cancelEvent /\ RunGoto("storing", "exhausted") /\ UNCHANGED <<state, chain, recorder, cleanup>>
    /\ UNCHANGED <<surface, streamVars, out, interrupt, writing, stored, dbFailed>>

\* A barrier comes to SseTurnSubscriber, which shows the tools to be confirmed and says
\* nothing of gates and invitations.
BarrierSse ==
    /\ Runs("bar_sse") /\ ChainDone("sse")
    /\ out' = CASE run.event = "failed" -> Append(out, "error")
                [] run.event # "failed" /\ interrupt = "confirm" -> Append(out, "pending")
                [] OTHER -> out
    /\ RunGoto("bar_db", run.event)
    /\ UNCHANGED <<surface, streamVars, state, interrupt, chain, storeVars, cleanup>>

\* What the engine does after a barrier, or after the write of a recovery.
Passed(event) ==
    CASE event \in {"failed", "interrupted"} -> Finish(event)
      [] event = "suspended" -> Finish("interrupted")
      [] event = "recovered" -> Finish("completed")
      [] event = "exhausted" -> Fail
      [] event = "answered" -> RunGoto("bar_db", "completed") /\ UNCHANGED <<state, cleanup>>
      [] event = "completed" ->
            /\ state' = [state EXCEPT !.by = "completed"]
            /\ RunGoto("interrupts", "none")
            /\ UNCHANGED cleanup

\* The canvas has a chain of its own and stores nothing of an interruption, which passes
\* it by.
AwaitsDb == surface = "canvas" /\ run.event # "interrupted"

\* A barrier comes to the subscriber that stores: the chat's has no chain of its own, so
\* that the recorder may not be done.  While nothing final is stored, it names the files
\* that the turn has published (finalize_published_deliverables) or stores the answer, or
\* else tells the user what the turn waits for.
BarrierDb ==
    /\ Runs("bar_db") /\ (AwaitsDb => ChainDone("db"))
    /\ LET open == run.event \in {"completed", "suspended"} /\ ~recorder.persisted
           store == open /\ IF surface = "chat" THEN state.published \/ recorder.last = "text"
                                               ELSE state.answered
           suspend == open /\ surface = "chat" /\ interrupt # "none"
           invite == run.event = "interrupted" /\ interrupt = "invite"
       IN \/ store /\ RunGoto("storing", run.event) /\ UNCHANGED <<out, state, cleanup>>
          \/ ~store /\ suspend /\ out' = Append(out, "pending") /\ Finish("interrupted")
          \/ /\ ~store /\ ~suspend
             /\ out' = IF invite THEN Append(out, "pending") ELSE out
             /\ Passed(run.event)
    /\ UNCHANGED <<surface, streamVars, interrupt, chain, storeVars>>

\* The write of the barrier, of the names of the files or of the answer, or that of the
\* recovery succeeds, or raises.
Store ==
    /\ Runs("storing")
    /\ \/ /\ stored' = IF run.event \in {"completed", "suspended"} /\ state.published
                     THEN stored ELSE stored + 1
          /\ recorder' = [recorder EXCEPT !.persisted = TRUE]
          /\ Passed(run.event) /\ UNCHANGED dbFailed
       \/ dbFailed' = TRUE /\ Fail /\ UNCHANGED <<stored, recorder>>
    /\ UNCHANGED <<surface, streamVars, out, interrupt, chain, writing>>

\* The chain that a barrier waits for.
Awaited ==
    CASE run.pc = "bar_sse" -> {"sse"}
      [] run.pc = "bar_db" /\ AwaitsDb -> {"db"}
      [] OTHER -> {}

\* The stream has cancelled the run, wherever it waits, and with it what it waits for.
RunCancelled ==
    /\ stream = "forced" /\ run.pc \notin {"finish", "done"}
    /\ Finish(IF state.by \in {"completed", "interrupted"} THEN state.by ELSE "cancelled")
    /\ chain' = [s \in Subscribers |-> IF s \in Awaited THEN <<>> ELSE chain[s]]
    /\ dbFailed' = (dbFailed \/ run.pc = "storing")
    /\ UNCHANGED <<surface, streamVars, out, interrupt, writing, recorder, stored>>

-----------------------------------------------------------------------------
(* The cleanup task *)

CleanupRepair ==
    /\ cleanup = "repair"
    /\ cleanup' = "announce"
    /\ UNCHANGED <<surface, streamVars, out, run, state, interrupt, chain, storeVars>>

CleanupAnnounce ==
    /\ cleanup = "announce"
    /\ Broadcast("ended")
    /\ cleanup' = "drain"
    /\ UNCHANGED <<surface, streamVars, out, run, state, interrupt, storeVars>>

RunDone(raised) ==
    /\ run' = [run EXCEPT !.pc = "done"]
    /\ state' = [state EXCEPT !.raised = raised]

\* Mutant: close does not drain the chains.
CloseAtOnce ==
    /\ cleanup = "drain"
    /\ cleanup' = "done"
    /\ RunDone(FALSE)
    /\ out' = Append(out, "end")
    /\ UNCHANGED <<surface, streamVars, interrupt, chain, storeVars>>

\* close has seen all chains to their end.
Close ==
    /\ cleanup = "drain" /\ \A s \in Subscribers : ChainDone(s)
    /\ cleanup' = "done"
    /\ RunDone(FALSE)
    /\ out' = Append(out, "end")
    /\ UNCHANGED <<surface, streamVars, interrupt, chain, storeVars>>

\* Mutant: only the repair is limited in time.
RepairTimesOut ==
    /\ cleanup = "repair"
    /\ cleanup' = "done"
    /\ RunDone(TRUE)
    /\ out' = Append(out, "end")
    /\ UNCHANGED <<surface, streamVars, interrupt, chain, storeVars>>

\* The cleanup takes too long: it is cancelled, with the chains it waits for, and the
\* run raises.
CleanupTimesOut ==
    /\ cleanup = "repair" \/ (cleanup = "drain" /\ chain.db # <<>>)
    /\ cleanup' = "done"
    /\ chain' = IF cleanup = "drain" THEN [s \in Subscribers |-> <<>>] ELSE chain
    /\ writing' = IF cleanup = "drain" THEN FALSE ELSE writing
    /\ dbFailed' = (dbFailed \/ cleanup = "drain")
    /\ RunDone(TRUE)
    /\ out' = Append(out, "end")
    /\ UNCHANGED <<surface, streamVars, interrupt, recorder, stored>>

-----------------------------------------------------------------------------
(* The stream *)

\* The finally clause of TurnEngine.stream.
Leave ==
    /\ stream' = "grace"
    /\ cancelEvent' = (cancelEvent \/ run.pc # "done")

\* pump_encoded_sse_queue hands on a frame, or ends: a cancel comes first.
Pump ==
    /\ stream = "pump"
    /\ \/ cancelEvent /\ Leave /\ told' = "cancelled" /\ UNCHANGED read
       \/ /\ ~cancelEvent /\ read < Len(out)
          /\ IF out[read + 1] = "end"
             THEN Leave /\ UNCHANGED read
             ELSE read' = read + 1 /\ UNCHANGED <<stream, cancelEvent>>
          /\ UNCHANGED told
    /\ UNCHANGED <<surface, cut, out, run, state, interrupt, chain, storeVars, cleanup>>

\* The caller is cancelled or closes the stream.
CallerLeaves ==
    /\ stream = "pump"
    /\ Leave
    /\ cut' = TRUE
    /\ UNCHANGED <<surface, out, read, told, run, state, interrupt, chain, storeVars, cleanup>>

\* The run has had its time to stop by itself.
GraceEnds ==
    /\ stream = "grace" /\ run.pc # "done"
    /\ stream' = "forced"
    /\ UNCHANGED <<surface, cancelEvent, cut, out, read, told, run, state, interrupt, chain,
                   storeVars, cleanup>>

\* The run is over; what it has raised becomes an error frame of the mount's runner.
StreamEnds ==
    /\ stream \in {"grace", "forced"} /\ run.pc = "done"
    /\ stream' = "ended"
    /\ told' = IF state.raised THEN "error" ELSE told
    /\ UNCHANGED <<surface, cancelEvent, cut, out, read, run, state, interrupt, chain,
                   storeVars, cleanup>>

\* A watcher of cancel signals sets the event.
Cancel ==
    /\ ~cancelEvent /\ stream = "pump"
    /\ cancelEvent' = TRUE
    /\ UNCHANGED <<surface, stream, cut, out, read, told, run, state, interrupt, chain,
                   storeVars, cleanup>>

-----------------------------------------------------------------------------
RunStep ==
    \/ StartTurn \/ StopAtEvent \/ HandleModelToken \/ HandleTool \/ HandleModelStepFinished
    \/ HandleTurnFailed \/ HandleTurnCompleted \/ EmitInterrupts \/ AttemptRecovery
    \/ BarrierSse \/ BarrierDb \/ Store

BusStep == SseHandles \/ DbHandlesTool \/ DbBeginsText \/ DbEndsText

CleanupStep == CleanupRepair \/ CleanupAnnounce \/ Close \/ CleanupTimesOut

StreamStep == Pump \/ GraceEnds \/ StreamEnds

EngineNext ==
    \/ RunStep \/ RunCancelled \/ BusStep \/ CleanupStep
    \/ StreamStep \/ CallerLeaves \/ Cancel

EngineSpec == EngineInit /\ [][EngineNext]_engineVars

\* What the event loop does without an answer of the agent, of a recovery or of the
\* database, which may never come.
EventLoop == StreamStep \/ RunCancelled \/ CleanupStep \/ SseHandles

-----------------------------------------------------------------------------
(* Properties *)

\* No token, pending call or second error follows the frame that reports a failure, and
\* nothing follows "done", although tokens are sent by tasks that the engine does not
\* wait for (TurnEventBus.barrier and broadcast).
FramesInOrder ==
    \A i, j \in DOMAIN out : i < j =>
        /\ out[i] = "error" => out[j] \in {"done", "end"}
        /\ out[i] = "done" => out[j] = "end"

\* The turn waits for the user and no subscriber has spoken of it: of a gate that the
\* engine finds after the loop, behind a stop by the guards or the clock or behind a turn
\* with an answer; and of what a turn waits for whose files are stored as its answer.
Unspoken ==
    \/ run.event = "interrupted" /\ interrupt = "gate"
    \/ run.event = "suspended" /\ recorder.persisted

\* A stream that its caller has read to the end has told how the turn ended, or that it
\* waits for the user, however run, cleanup and cancel overlap (TurnEngine.stream),
\* unless it waits for something that the subscribers leave unspoken.
StreamTellsEnd ==
    stream = "ended" /\ ~cut /\ ~Unspoken =>
        told # "none" \/ \E i \in 1..read : out[i] \in {"done", "error", "pending"}

\* When a turn that was completed with an answer is over, the answer is stored, and not
\* the names of its files in its place, if no write failed and none was cut off; and on
\* the canvas it is stored once.
AnswerStored ==
    run.pc = "done" /\ ~dbFailed /\ ~state.raised =>
        /\ state.text /\ state.by = "completed" => stored > 0
        /\ surface = "canvas" => stored <= 1

\* A stream that is cancelled, or whose caller has gone, ends, even if neither the agent
\* nor the database ever answers again.
CancelledStreamEnds == cancelEvent ~> stream = "ended"

=============================================================================
