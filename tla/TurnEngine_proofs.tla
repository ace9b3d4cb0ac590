------------------------- MODULE TurnEngine_proofs --------------------------
(***************************************************************************)
(* Proofs about the engine of one turn, on both surfaces and for any       *)
(* number of events of the agent: its frames are in order (FramesInOrder), *)
(* a stream that is read to its end has told how the turn ended            *)
(* (StreamTellsEnd), and the answer of a completed turn is stored          *)
(* (AnswerStored).  One invariant says where run, cleanup and stream may   *)
(* be together, and one more for each of the three what frames, stream and *)
(* store owe to that.                                                      *)
(***************************************************************************)
EXTENDS TurnEngine, TLAPS

Frames == {"token", "tool", "error", "done", "pending", "end"}
Reasons == {"failed", "guard", "completed", "interrupted", "cancelled"}
Pcs == {"start", "drive", "recover", "interrupts", "bar_sse", "bar_db", "storing", "finish", "done"}
Events == {"none", "guard", "failed", "completed", "suspended", "interrupted", "answered",
           "recovered", "exhausted"}
Over == {"finish", "done"}

BusEvents == {"token", "tool", "text", "ended"}
RunRecords == [pc : Pcs, event : Events, events : Nat]
States == [by : Reasons, started : BOOLEAN, failed : BOOLEAN, answered : BOOLEAN,
           text : BOOLEAN, published : BOOLEAN, raised : BOOLEAN]
Chains == [Subscribers -> Seq(BusEvents)]
Recorders == [last : {"none", "call", "text"}, persisted : BOOLEAN]

TypeOK ==
    /\ surface \in {"chat", "canvas"}
    /\ cancelEvent \in BOOLEAN /\ cut \in BOOLEAN /\ writing \in BOOLEAN /\ dbFailed \in BOOLEAN
    /\ stream \in {"pump", "grace", "forced", "ended"}
    /\ out \in Seq(Frames) /\ read \in Nat
    /\ told \in {"none", "cancelled", "error"}
    /\ run \in RunRecords /\ state \in States
    /\ interrupt \in {"none", "gate", "invite", "confirm"}
    /\ chain \in Chains
    /\ recorder \in Recorders
    /\ stored \in Nat
    /\ cleanup \in {"idle", "repair", "announce", "drain", "done"}

\* Where the run may be with its reason and its barrier, and the cleanup with the run.
RunOK ==
    /\ run.pc \in Over <=> cleanup # "idle"
    /\ run.pc = "done" <=> cleanup = "done"
    /\ run.pc = "storing" =>
        run.event \in {"completed", "suspended", "answered", "recovered", "exhausted"}
    /\ run.pc = "bar_db" => run.event \in {"failed", "completed", "suspended", "interrupted"}
    /\ run.pc \in {"bar_db", "storing"} /\ run.event = "suspended" =>
        interrupt # "none" /\ surface = "chat"
    /\ run.pc = "bar_sse" => run.event \in {"failed", "interrupted"}
    /\ run.pc = "recover" => run.event \in {"completed", "guard"}
    /\ run.pc \in {"bar_sse", "bar_db"} /\ run.event = "interrupted" => interrupt # "none"
    /\ state.failed => run.event = "failed" /\ run.pc \in {"bar_sse", "bar_db"} \cup Over
    /\ run.pc \in {"bar_sse", "bar_db"} /\ run.event = "failed" => state.failed
    /\ run.pc \in {"bar_sse", "bar_db"} /\ run.event = "failed" => state.by = "failed"
    /\ state.by = "interrupted" => run.pc \in Over
    /\ state.by = "cancelled" => cancelEvent
    /\ stream # "pump" /\ run.pc # "done" => cancelEvent
    /\ state.raised => run.pc = "done"

Has(s, f) == \E i \in 1..Len(s) : s[i] = f
Seen(f) == Has(out, f)

\* The chain of the frames: "ended" is the last event, and behind the frame of a
\* failure there is no other.
QueueOK ==
    /\ \A i \in 1..Len(chain["sse"]) :
        /\ chain["sse"][i] # "text"
        /\ chain["sse"][i] = "ended" => i = Len(chain["sse"]) /\ cleanup = "drain"
    /\ cleanup = "drain" /\ chain["sse"] # <<>> => chain["sse"][Len(chain["sse"])] = "ended"

AfterErrorOK ==
    Seen("error") =>
        \/ /\ state.failed /\ run.pc \in {"bar_db"} \cup Over
           /\ chain["sse"] = <<>> \/ chain["sse"] = <<"ended">>
        \/ cleanup \in {"drain", "done"} /\ chain["sse"] = <<>>

AfterDoneOK == Seen("done") => cleanup \in {"drain", "done"} /\ chain["sse"] = <<>>

ChainOK == QueueOK /\ AfterErrorOK /\ AfterDoneOK

\* What a turn has said when it is over.  It may be silent if it was cancelled, and of
\* what the subscribers leave unspoken.
Silent == state.by = "cancelled" \/ Unspoken
Spoken == Seen("error") \/ Seen("done") \/ Seen("pending")

SpokenOK ==
    /\ state.failed /\ run.pc \in {"bar_db"} \cup Over /\ state.by # "cancelled" => Seen("error")
    /\ run.pc = "bar_db" /\ run.event = "interrupted" /\ interrupt = "confirm" => Seen("pending")
    /\ state.by = "interrupted" => Spoken \/ Silent
    /\ cleanup = "drain" /\ chain["sse"] = <<>> => Spoken \/ Silent
    /\ cleanup = "done" /\ ~state.raised => Spoken \/ Silent

\* The sentinel is the last frame, if the cleanup was not cut off, and a stream that
\* has not been cut off or cancelled has come to it.
EndOK ==
    /\ Seen("end") => run.pc = "done"
    /\ run.pc = "done" /\ ~state.raised =>
        /\ chain["sse"] = <<>> /\ chain["db"] = <<>>
        /\ \A i \in 1..Len(out) : out[i] = "end" => i = Len(out)

ReadOK ==
    /\ stream # "pump" /\ ~cut /\ told = "none" =>
        ~cancelEvent /\ read < Len(out) /\ out[read + 1] = "end"
    /\ stream = "ended" => run.pc = "done"
    /\ stream = "ended" /\ told = "none" => ~state.raised

SentinelOK == EndOK /\ ReadOK

\* The canvas stores in the barrier of a completed turn only, and does so once.
CanvasOK ==
    surface = "canvas" =>
        /\ ~writing /\ ~state.published
        /\ ~Has(chain["db"], "text")
        /\ stored = IF recorder.persisted THEN 1 ELSE 0
        /\ run.pc # "recover"
        /\ run.pc = "storing" => run.event = "completed" /\ ~recorder.persisted
        /\ run.pc = "bar_db" /\ run.event = "completed" => state.answered
        /\ state.by = "completed" => stored > 0

\* The recorder of the chat has an answer before it or has tried to store it.
ChatOK ==
    surface = "chat" =>
        /\ writing => Len(chain["db"]) > 0 /\ chain["db"][1] = "text"
        /\ state.text => stored > 0 \/ dbFailed \/ Has(chain["db"], "text")

Inv ==
    /\ TypeOK /\ RunOK /\ FramesInOrder /\ ChainOK /\ SpokenOK /\ SentinelOK
    /\ CanvasOK /\ ChatOK

-----------------------------------------------------------------------------
(* Types of the operators *)

LEMMA DeliverType ==
    ASSUME NEW q \in Seq(BusEvents), NEW s, NEW e \in BusEvents
    PROVE  Deliver(q, s, e) \in Seq(BusEvents)
  BY DEF Deliver

LEMMA BroadcastType ==
    ASSUME chain \in Chains, NEW e \in BusEvents, NEW f \in BusEvents,
           Broadcast(e) \/ BroadcastBoth(e, f)
    PROVE  chain' \in Chains
<1>1. \A s \in Subscribers : chain[s] \in Seq(BusEvents)
  BY DEF Chains
<1>2. \A s \in Subscribers : Deliver(chain[s], s, e) \in Seq(BusEvents)
  BY <1>1, DeliverType
<1>3. \A s \in Subscribers : Deliver(Deliver(chain[s], s, e), s, f) \in Seq(BusEvents)
  BY <1>2, DeliverType
<1> QED
  BY <1>2, <1>3 DEF Broadcast, BroadcastBoth, Chains

LEMMA EventsType ==
    ASSUME NEW r \in RunRecords, NEW p \in Pcs
    PROVE  [r EXCEPT !.events = @ + 1, !.pc = p] \in RunRecords
<1>1. r.events + 1 \in Nat
  BY DEF RunRecords
<1>2. \A n \in Nat : [r EXCEPT !.events = n, !.pc = p] \in RunRecords
  BY DEF RunRecords
<1> QED
  BY <1>1, <1>2, Zenon

LEMMA Appends ==
    ASSUME NEW S, NEW s \in Seq(S), NEW x \in S, NEW y \in S
    PROVE  /\ s \o <<>> = s
           /\ s \o <<x>> = Append(s, x)
           /\ s \o (<<>> \o <<>>) = s
           /\ s \o (<<x>> \o <<>>) = Append(s, x)
           /\ s \o (<<>> \o <<y>>) = Append(s, y)
           /\ s \o (<<x>> \o <<y>>) = Append(Append(s, x), y)
<1>1. <<>> \in Seq(S) /\ <<x>> \in Seq(S) /\ <<y>> \in Seq(S)
  OBVIOUS
<1>2. \A t \in Seq(S) : <<>> \o t = t /\ t \o <<>> = t
  OBVIOUS
<1>3. \A t \in Seq(S) : t \o <<x>> = Append(t, x) /\ t \o <<y>> = Append(t, y)
  OBVIOUS
<1>4. \A a, b, c \in Seq(S) : a \o (b \o c) = (a \o b) \o c
  BY SMTT(30)
<1>5. Append(s, x) \in Seq(S)
  OBVIOUS
<1>6. s \o (<<x>> \o <<y>>) = Append(Append(s, x), y)
  BY <1>1, <1>3, <1>4, <1>5, ZenonT(60)
<1> QED
  BY <1>1, <1>2, <1>3, <1>6, Zenon

\* The frames of the end of a turn are one or two, or none.
LEMMA EndedFramesAre ==
    ASSUME out \in Seq(Frames)
    PROVE  LET ended == out \o EndedFrames IN
           \/ /\ ended = out
              /\ state.by \in {"interrupted", "cancelled"} \/ state.failed
           \/ ended = Append(out, "done")
           \/ ended = Append(out, "error") /\ ~state.failed
           \/ ended = Append(Append(out, "error"), "done") /\ ~state.failed
<1>1. "error" \in Frames /\ "done" \in Frames
  BY DEF Frames
<1>2. /\ out \o <<>> = out
      /\ out \o <<"done">> = Append(out, "done")
      /\ out \o (<<>> \o <<>>) = out
      /\ out \o (<<"error">> \o <<>>) = Append(out, "error")
      /\ out \o (<<>> \o <<"done">>) = Append(out, "done")
      /\ out \o (<<"error">> \o <<"done">>) = Append(Append(out, "error"), "done")
  BY <1>1, Appends
<1> QED
  BY <1>2, Zenon DEF EndedFrames

LEMMA HeadIsFirst ==
    ASSUME NEW S, NEW q \in Seq(S), q # <<>>
    PROVE  /\ Len(q) \in Nat /\ Len(q) > 0 /\ Head(q) = q[1] /\ q[1] \in S
           /\ Tail(q) \in Seq(S) /\ Len(Tail(q)) = Len(q) - 1
           /\ \A i \in 1..Len(Tail(q)) : Tail(q)[i] = q[i + 1]
  OBVIOUS

LEMMA TailOfOne ==
    ASSUME NEW S, NEW q \in Seq(S), Len(q) = 1
    PROVE  Tail(q) = <<>>
<1>1. \A t \in Seq(S) : Len(t) = 0 => t = <<>>
  OBVIOUS
<1>2. Len(Tail(q)) = 0 /\ Tail(q) \in Seq(S)
  OBVIOUS
<1> QED
  BY <1>1, <1>2, Zenon

\* The next event for the frames, and that the end of the turn is the last.
LEMMA HeadOfSse ==
    ASSUME TypeOK, ChainOK, chain["sse"] # <<>>
    PROVE  /\ Head(chain["sse"]) \in {"token", "tool", "ended"}
           /\ Head(chain["sse"]) = "ended" => Tail(chain["sse"]) = <<>> /\ cleanup = "drain"
<1> DEFINE q == chain["sse"]
<1>1. q \in Seq(BusEvents)
  BY DEF TypeOK, Chains, Subscribers
<1>2. /\ Len(q) \in Nat /\ Len(q) > 0 /\ Head(q) = q[1] /\ q[1] \in BusEvents
      /\ Tail(q) \in Seq(BusEvents) /\ Len(Tail(q)) = Len(q) - 1
  BY <1>1, HeadIsFirst
<1>3. q[1] # "text" /\ (q[1] = "ended" => Len(q) = 1 /\ cleanup = "drain")
  <2>1. 1 \in 1..Len(q)
    BY <1>2
  <2> QED
    BY <2>1 DEF ChainOK, QueueOK
<1> HIDE DEF q
<1>4. q[1] = "ended" => Tail(q) = <<>>
  BY <1>1, <1>3, TailOfOne
<1> QED
  BY <1>2, <1>3, <1>4 DEF q, BusEvents

-----------------------------------------------------------------------------
(* Types *)

LEMMA RunTypeStep ==
    ASSUME TypeOK, RunOK, [EngineNext]_engineVars
    PROVE  run' \in RunRecords
<1>1. CASE StartTurn
  BY <1>1 DEF StartTurn, Runs, RunGoto, Fail, Finish, TypeOK, RunOK, RunRecords, Pcs,
     Events
<1>2. CASE StopAtEvent
  BY <1>2 DEF StopAtEvent, Runs, RunGoto, Interrupts, TypeOK, RunOK, RunRecords, Pcs,
     Events
<1>3. CASE HandleModelToken
  <2>1. PICK p \in Pcs : run' = [run EXCEPT !.events = @ + 1, !.pc = p]
    BY <1>3 DEF HandleModelToken, Dispatch, Runs, TypeOK, RunRecords, Pcs
  <2> QED
    BY <2>1, EventsType DEF TypeOK
<1>4. CASE HandleTool
  <2>1. PICK p \in Pcs : run' = [run EXCEPT !.events = @ + 1, !.pc = p]
    BY <1>4 DEF HandleTool, Dispatch, Runs, TypeOK, RunRecords, Pcs
  <2> QED
    BY <2>1, EventsType DEF TypeOK
<1>5. CASE HandleModelStepFinished
  <2>1. PICK p \in Pcs : run' = [run EXCEPT !.events = @ + 1, !.pc = p]
    BY <1>5 DEF HandleModelStepFinished, Dispatch, Runs, TypeOK, RunRecords, Pcs
  <2> QED
    BY <2>1, EventsType DEF TypeOK
<1>6. CASE HandleTurnFailed
  BY <1>6 DEF HandleTurnFailed, Runs, RunGoto, Fail, Finish, TypeOK, RunOK,
     RunRecords, Pcs, Events
<1>7. CASE HandleTurnCompleted
  BY <1>7, ZenonT(60) DEF HandleTurnCompleted, Runs, RunGoto, Fail, Finish, Interrupts, TypeOK,
     RunOK, RunRecords, Pcs, Events
<1>8. CASE EmitInterrupts
  BY <1>8, ZenonT(60) DEF EmitInterrupts, Runs, RunGoto, Fail, Finish, TypeOK, RunOK, RunRecords,
     Pcs, Events
<1>9. CASE AttemptRecovery
  BY <1>9 DEF AttemptRecovery, Runs, RunGoto, Finish, Broadcast, TypeOK, RunOK,
     RunRecords, Pcs, Events
<1>10. CASE BarrierSse
  BY <1>10 DEF BarrierSse, Runs, RunGoto, ChainDone, TypeOK, RunOK, RunRecords, Pcs,
     Events
<1>11. CASE BarrierDb
  BY <1>11, ZenonT(60) DEF BarrierDb, Runs, RunGoto, Passed, Fail, Finish, ChainDone, TypeOK,
     RunOK, RunRecords, Pcs, Events
<1>12. CASE Store
  BY <1>12, ZenonT(60) DEF Store, Runs, RunGoto, Passed, Fail, Finish, TypeOK, RunOK, RunRecords,
     Pcs, Events
<1>13. CASE RunCancelled
  BY <1>13 DEF RunCancelled, Finish, Awaited, TypeOK, RunOK, RunRecords, Pcs, Events
<1>14. CASE Close
  BY <1>14 DEF Close, RunDone, ChainDone, TypeOK, RunOK, RunRecords, Pcs, Events
<1>15. CASE CleanupTimesOut
  BY <1>15 DEF CleanupTimesOut, RunDone, TypeOK, RunOK, RunRecords, Pcs, Events
<1>16. CASE BusStep \/ StreamStep \/ CleanupRepair \/ CleanupAnnounce \/ CallerLeaves
            \/ Cancel \/ UNCHANGED engineVars
  BY <1>16 DEF BusStep, SseHandles, DbHandlesTool, DbBeginsText, DbEndsText,
     StreamStep, Pump, GraceEnds, StreamEnds, CleanupRepair, CleanupAnnounce,
     CallerLeaves, Cancel, engineVars, Leave, streamVars, storeVars, TypeOK, RunOK,
     RunRecords, Pcs, Events
<1> QED
  BY <1>1, <1>2, <1>3, <1>4, <1>5, <1>6, <1>7, <1>8, <1>9, <1>10, <1>11,
     <1>12, <1>13, <1>14, <1>15, <1>16
  DEF EngineNext, RunStep, BusStep, CleanupStep, StreamStep

LEMMA StateTypeStep ==
    ASSUME TypeOK, RunOK, [EngineNext]_engineVars
    PROVE  state' \in States
<1>1. CASE StartTurn
  BY <1>1, ZenonT(60) DEF StartTurn, Runs, RunGoto, Fail, Finish, TypeOK, States, Reasons
<1>2. CASE StopAtEvent
  BY <1>2 DEF StopAtEvent, Runs, RunGoto, Interrupts, TypeOK, States, Reasons
<1>3. CASE HandleModelToken
  BY <1>3 DEF HandleModelToken, Dispatch, Runs, Broadcast, TypeOK, States, Reasons
<1>4. CASE HandleTool
  BY <1>4, ZenonT(60) DEF HandleTool, Dispatch, Runs, Interrupts, Broadcast, TypeOK, States,
     Reasons
<1>5. CASE HandleModelStepFinished
  BY <1>5, ZenonT(60) DEF HandleModelStepFinished, Dispatch, Runs, Interrupts, Broadcast,
     BroadcastBoth, TypeOK, States, Reasons
<1>6. CASE HandleTurnFailed
  BY <1>6, ZenonT(60) DEF HandleTurnFailed, Runs, RunGoto, Fail, Finish, TypeOK, States, Reasons
<1>7. CASE HandleTurnCompleted
  BY <1>7, ZenonT(60) DEF HandleTurnCompleted, Runs, RunGoto, Fail, Finish, Interrupts, TypeOK,
     States, Reasons
<1>8. CASE EmitInterrupts
  BY <1>8, ZenonT(60) DEF EmitInterrupts, Runs, RunGoto, Fail, Finish, TypeOK, States, Reasons
<1>9. CASE AttemptRecovery
  BY <1>9 DEF AttemptRecovery, Runs, RunGoto, Finish, Broadcast, TypeOK, States,
     Reasons
<1>10. CASE BarrierDb
  BY <1>10, ZenonT(60) DEF BarrierDb, Runs, RunGoto, Passed, Fail, Finish, ChainDone, TypeOK,
     States, Reasons, RunOK
<1>11. CASE Store
  BY <1>11, ZenonT(60) DEF Store, Runs, RunGoto, Passed, Fail, Finish, TypeOK, States, Reasons,
     RunOK
<1>12. CASE RunCancelled
  BY <1>12 DEF RunCancelled, Finish, Awaited, TypeOK, States, Reasons
<1>13. CASE Close
  BY <1>13 DEF Close, RunDone, ChainDone, TypeOK, States, Reasons
<1>14. CASE CleanupTimesOut
  BY <1>14 DEF CleanupTimesOut, RunDone, TypeOK, States, Reasons
<1>15. CASE BusStep \/ StreamStep \/ BarrierSse \/ CleanupRepair \/ CleanupAnnounce
            \/ CallerLeaves \/ Cancel \/ UNCHANGED engineVars
  BY <1>15 DEF BusStep, SseHandles, DbHandlesTool, DbBeginsText, DbEndsText,
     StreamStep, Pump, GraceEnds, StreamEnds, BarrierSse, CleanupRepair,
     CleanupAnnounce, CallerLeaves, Cancel, engineVars, Leave, streamVars, storeVars,
     TypeOK, States, Reasons
<1> QED
  BY <1>1, <1>2, <1>3, <1>4, <1>5, <1>6, <1>7, <1>8, <1>9, <1>10, <1>11,
     <1>12, <1>13, <1>14, <1>15
  DEF EngineNext, RunStep, BusStep, CleanupStep, StreamStep

LEMMA ChainTypeStep ==
    ASSUME TypeOK, RunOK, CanvasOK, ChatOK, [EngineNext]_engineVars
    PROVE  chain' \in Chains
<1>1. CASE HandleModelToken
  BY <1>1, BroadcastType DEF HandleModelToken, TypeOK, BusEvents
<1>2. CASE HandleTool
  BY <1>2, BroadcastType DEF HandleTool, TypeOK, BusEvents
<1>3. CASE HandleModelStepFinished
  BY <1>3, BroadcastType DEF HandleModelStepFinished, TypeOK, BusEvents
<1>4. CASE AttemptRecovery
  BY <1>4, BroadcastType DEF AttemptRecovery, TypeOK, BusEvents
<1>5. CASE RunCancelled
  BY <1>5 DEF RunCancelled, Finish, Awaited, TypeOK, Chains, Subscribers
<1>6. CASE SseHandles
  <2>1. Tail(chain["sse"]) \in Seq(BusEvents)
    BY <1>6 DEF SseHandles, TypeOK, Chains, Subscribers
  <2> QED
    BY <2>1, <1>6 DEF SseHandles, TypeOK, Chains, Subscribers
<1>7. CASE DbHandlesTool
  <2>1. Tail(chain["db"]) \in Seq(BusEvents)
    BY <1>7 DEF DbHandlesTool, TypeOK, Chains, Subscribers
  <2> QED
    BY <2>1, <1>7 DEF DbHandlesTool, TypeOK, Chains, Subscribers
<1>8. CASE DbEndsText
  <2>1. Tail(chain["db"]) \in Seq(BusEvents)
    BY <1>8 DEF DbEndsText, TypeOK, Chains, Subscribers, CanvasOK, ChatOK
  <2> QED
    BY <2>1, <1>8 DEF DbEndsText, TypeOK, Chains, Subscribers
<1>9. CASE CleanupAnnounce
  BY <1>9, BroadcastType DEF CleanupAnnounce, TypeOK, BusEvents
<1>10. CASE CleanupTimesOut
  BY <1>10 DEF CleanupTimesOut, RunDone, TypeOK, Chains, Subscribers
<1>11. CASE StreamStep \/ StartTurn \/ StopAtEvent \/ HandleTurnFailed
            \/ HandleTurnCompleted \/ EmitInterrupts \/ BarrierSse \/ BarrierDb
            \/ Store \/ DbBeginsText \/ CleanupRepair \/ Close \/ CallerLeaves
            \/ Cancel \/ UNCHANGED engineVars
  BY <1>11 DEF StreamStep, Pump, GraceEnds, StreamEnds, StartTurn, StopAtEvent,
     HandleTurnFailed, HandleTurnCompleted, EmitInterrupts, BarrierSse, BarrierDb,
     Store, DbBeginsText, CleanupRepair, Close, CallerLeaves, Cancel, engineVars,
     Finish, RunDone, Leave, streamVars, storeVars, TypeOK, Chains, Subscribers
<1> QED
  BY <1>1, <1>2, <1>3, <1>4, <1>5, <1>6, <1>7, <1>8, <1>9, <1>10, <1>11
  DEF EngineNext, RunStep, BusStep, CleanupStep, StreamStep

LEMMA OutTypeStep ==
    ASSUME TypeOK, ChainOK, [EngineNext]_engineVars
    PROVE  out' \in Seq(Frames)
<1>1. CASE BarrierSse
  BY <1>1 DEF BarrierSse, Runs, RunGoto, ChainDone, TypeOK, Frames
<1>2. CASE BarrierDb
  <2>1. Append(out, "pending") \in Seq(Frames) /\ out \in Seq(Frames)
    BY DEF TypeOK, Frames
  <2> QED
    BY <2>1, <1>2, Zenon DEF BarrierDb
<1>3. CASE SseHandles
  <2> DEFINE h == Head(chain["sse"])
  <2>1. h # "ended" => h \in Frames
    BY <1>3, HeadOfSse DEF SseHandles, Frames
  <2> HIDE DEF h
  <2>2. h # "ended" => out \o <<h>> \in Seq(Frames)
    BY <2>1 DEF TypeOK
  <2>3. out \o EndedFrames \in Seq(Frames)
    <3>1. \A s \in Seq(Frames) : Append(s, "done") \in Seq(Frames) /\ Append(s, "error") \in Seq(Frames)
      BY DEF Frames
    <3> QED
      BY <3>1, EndedFramesAre, Zenon DEF TypeOK
  <2> QED
    BY <2>2, <2>3, <1>3, Zenon DEF SseHandles, h
<1>4. CASE Close
  BY <1>4 DEF Close, RunDone, ChainDone, TypeOK, Frames
<1>5. CASE CleanupTimesOut
  BY <1>5, SMTT(30) DEF CleanupTimesOut, RunDone, TypeOK, Frames
<1>6. CASE StreamStep \/ StartTurn \/ StopAtEvent \/ HandleModelToken \/ HandleTool
            \/ HandleModelStepFinished \/ HandleTurnFailed \/ HandleTurnCompleted
            \/ EmitInterrupts \/ AttemptRecovery \/ Store \/ RunCancelled
            \/ DbHandlesTool \/ DbBeginsText \/ DbEndsText \/ CleanupRepair
            \/ CleanupAnnounce \/ CallerLeaves \/ Cancel \/ UNCHANGED engineVars
  BY <1>6 DEF StreamStep, Pump, GraceEnds, StreamEnds, StartTurn, StopAtEvent,
     HandleModelToken, HandleTool, HandleModelStepFinished, HandleTurnFailed,
     HandleTurnCompleted, EmitInterrupts, AttemptRecovery, Store, RunCancelled,
     DbHandlesTool, DbBeginsText, DbEndsText, CleanupRepair, CleanupAnnounce,
     CallerLeaves, Cancel, engineVars, Finish, Dispatch, Leave, streamVars, storeVars,
     TypeOK, Frames
<1> QED
  BY <1>1, <1>2, <1>3, <1>4, <1>5, <1>6
  DEF EngineNext, RunStep, BusStep, CleanupStep, StreamStep

LEMMA RecorderTypeStep ==
    ASSUME TypeOK, RunOK, [EngineNext]_engineVars
    PROVE  recorder' \in Recorders
<1>1. CASE AttemptRecovery
  BY <1>1 DEF AttemptRecovery, Runs, RunGoto, Finish, Broadcast, storeVars, TypeOK,
     Recorders
<1>2. CASE Store
  BY <1>2 DEF Store, Runs, RunGoto, Passed, Fail, Finish, storeVars, TypeOK, Recorders
<1>3. CASE DbHandlesTool
  BY <1>3 DEF DbHandlesTool, storeVars, TypeOK, Recorders
<1>4. CASE DbBeginsText
  BY <1>4 DEF DbBeginsText, storeVars, TypeOK, Recorders
<1>5. CASE DbEndsText
  BY <1>5 DEF DbEndsText, storeVars, TypeOK, Recorders
<1>6. CASE CleanupStep \/ StreamStep \/ StartTurn \/ StopAtEvent \/ HandleModelToken
            \/ HandleTool \/ HandleModelStepFinished \/ HandleTurnFailed
            \/ HandleTurnCompleted \/ EmitInterrupts \/ BarrierSse \/ BarrierDb
            \/ RunCancelled \/ SseHandles \/ CallerLeaves \/ Cancel
            \/ UNCHANGED engineVars
  BY <1>6, ZenonT(60) DEF CleanupStep, CleanupRepair, CleanupAnnounce, Close, CleanupTimesOut,
     StreamStep, Pump, GraceEnds, StreamEnds, StartTurn, StopAtEvent,
     HandleModelToken, HandleTool, HandleModelStepFinished, HandleTurnFailed,
     HandleTurnCompleted, EmitInterrupts, BarrierSse, BarrierDb, RunCancelled,
     SseHandles, CallerLeaves, Cancel, engineVars, Finish, Dispatch, RunDone, Leave,
     streamVars, storeVars, TypeOK, Recorders
<1> QED
  BY <1>1, <1>2, <1>3, <1>4, <1>5, <1>6
  DEF EngineNext, RunStep, BusStep, CleanupStep, StreamStep

LEMMA StoredTypeStep ==
    ASSUME TypeOK, RunOK, [EngineNext]_engineVars
    PROVE  stored' \in Nat
<1>1. CASE Store
  <2>1. stored + 1 \in Nat /\ stored \in Nat
    BY DEF TypeOK
  <2> QED
    BY <2>1, <1>1, Zenon DEF Store
<1>2. CASE DbEndsText
  BY <1>2, SMTT(30) DEF DbEndsText, storeVars, TypeOK
<1>3. CASE CleanupStep \/ StreamStep \/ StartTurn \/ StopAtEvent \/ HandleModelToken
            \/ HandleTool \/ HandleModelStepFinished \/ HandleTurnFailed
            \/ HandleTurnCompleted \/ EmitInterrupts \/ AttemptRecovery \/ BarrierSse
            \/ BarrierDb \/ RunCancelled \/ SseHandles \/ DbHandlesTool
            \/ DbBeginsText \/ CallerLeaves \/ Cancel \/ UNCHANGED engineVars
  BY <1>3 DEF CleanupStep, CleanupRepair, CleanupAnnounce, Close, CleanupTimesOut,
     StreamStep, Pump, GraceEnds, StreamEnds, StartTurn, StopAtEvent,
     HandleModelToken, HandleTool, HandleModelStepFinished, HandleTurnFailed,
     HandleTurnCompleted, EmitInterrupts, AttemptRecovery, BarrierSse, BarrierDb,
     RunCancelled, SseHandles, DbHandlesTool, DbBeginsText, CallerLeaves, Cancel,
     engineVars, Finish, Dispatch, RunDone, Leave, streamVars, storeVars, TypeOK
<1> QED
  BY <1>1, <1>2, <1>3
  DEF EngineNext, RunStep, BusStep, CleanupStep, StreamStep

LEMMA ModesTypeStep ==
    ASSUME TypeOK, RunOK, [EngineNext]_engineVars
    PROVE  /\ cleanup' \in {"idle", "repair", "announce", "drain", "done"}
           /\ interrupt' \in {"none", "gate", "invite", "confirm"} /\ surface' \in {"chat", "canvas"}
<1>1. CASE StartTurn
  BY <1>1 DEF StartTurn, Runs, RunGoto, Fail, Finish, TypeOK
<1>2. CASE StopAtEvent
  BY <1>2 DEF StopAtEvent, Runs, RunGoto, Interrupts, TypeOK
<1>3. CASE HandleTool
  BY <1>3 DEF HandleTool, Dispatch, Runs, Interrupts, Broadcast, TypeOK
<1>4. CASE HandleModelStepFinished
  BY <1>4 DEF HandleModelStepFinished, Dispatch, Runs, Interrupts, Broadcast,
     BroadcastBoth, TypeOK
<1>5. CASE HandleTurnFailed
  BY <1>5 DEF HandleTurnFailed, Runs, RunGoto, Fail, Finish, TypeOK
<1>6. CASE HandleTurnCompleted
  BY <1>6 DEF HandleTurnCompleted, Runs, RunGoto, Fail, Finish, Interrupts, TypeOK
<1>7. CASE EmitInterrupts
  BY <1>7 DEF EmitInterrupts, Runs, RunGoto, Fail, Finish, TypeOK
<1>8. CASE AttemptRecovery
  BY <1>8 DEF AttemptRecovery, Runs, RunGoto, Finish, Broadcast, TypeOK
<1>9. CASE BarrierDb
  BY <1>9 DEF BarrierDb, Runs, RunGoto, Passed, Fail, Finish, ChainDone, TypeOK, RunOK
<1>10. CASE Store
  BY <1>10 DEF Store, Runs, RunGoto, Passed, Fail, Finish, TypeOK, RunOK
<1>11. CASE RunCancelled
  BY <1>11 DEF RunCancelled, Finish, Awaited, TypeOK
<1>12. CASE CleanupRepair
  BY <1>12 DEF CleanupRepair, TypeOK
<1>13. CASE CleanupAnnounce
  BY <1>13 DEF CleanupAnnounce, Broadcast, TypeOK
<1>14. CASE Close
  BY <1>14 DEF Close, RunDone, ChainDone, TypeOK
<1>15. CASE CleanupTimesOut
  BY <1>15 DEF CleanupTimesOut, RunDone, TypeOK
<1>16. CASE BusStep \/ StreamStep \/ HandleModelToken \/ BarrierSse \/ CallerLeaves
            \/ Cancel \/ UNCHANGED engineVars
  BY <1>16 DEF BusStep, SseHandles, DbHandlesTool, DbBeginsText, DbEndsText,
     StreamStep, Pump, GraceEnds, StreamEnds, HandleModelToken, BarrierSse,
     CallerLeaves, Cancel, engineVars, Dispatch, Leave, streamVars, storeVars, TypeOK
<1> QED
  BY <1>1, <1>2, <1>3, <1>4, <1>5, <1>6, <1>7, <1>8, <1>9, <1>10, <1>11,
     <1>12, <1>13, <1>14, <1>15, <1>16
  DEF EngineNext, RunStep, BusStep, CleanupStep, StreamStep

LEMMA FlagsTypeStep ==
    ASSUME TypeOK, RunOK, [EngineNext]_engineVars
    PROVE  /\ cancelEvent' \in BOOLEAN /\ cut' \in BOOLEAN /\ writing' \in BOOLEAN /\ dbFailed' \in BOOLEAN
           /\ stream' \in {"pump", "grace", "forced", "ended"}
           /\ read' \in Nat /\ told' \in {"none", "cancelled", "error"}
<1>1. CASE Store
  BY <1>1 DEF Store, Runs, RunGoto, Passed, Fail, Finish, streamVars, storeVars,
     TypeOK
<1>2. CASE RunCancelled
  BY <1>2 DEF RunCancelled, Finish, Awaited, streamVars, storeVars, TypeOK
<1>3. CASE DbBeginsText
  BY <1>3 DEF DbBeginsText, streamVars, storeVars, TypeOK
<1>4. CASE DbEndsText
  BY <1>4 DEF DbEndsText, streamVars, storeVars, TypeOK
<1>5. CASE CleanupTimesOut
  BY <1>5 DEF CleanupTimesOut, RunDone, streamVars, storeVars, TypeOK
<1>6. CASE Pump
  <2>1. read + 1 \in Nat /\ read \in Nat
    BY DEF TypeOK
  <2>2. read' \in Nat
    BY <2>1, <1>6, Zenon DEF Pump
  <2> QED
    BY <2>2, <1>6 DEF Pump, Leave, storeVars, TypeOK
<1>7. CASE CallerLeaves
  BY <1>7 DEF CallerLeaves, Leave, streamVars, storeVars, TypeOK
<1>8. CASE GraceEnds
  BY <1>8 DEF GraceEnds, streamVars, storeVars, TypeOK
<1>9. CASE StreamEnds
  BY <1>9 DEF StreamEnds, streamVars, storeVars, TypeOK
<1>10. CASE Cancel
  BY <1>10, SMTT(30) DEF Cancel, streamVars, storeVars, TypeOK
<1>11. CASE StartTurn \/ StopAtEvent \/ HandleModelToken \/ HandleTool
            \/ HandleModelStepFinished \/ HandleTurnFailed \/ HandleTurnCompleted
            \/ EmitInterrupts \/ AttemptRecovery \/ BarrierSse \/ BarrierDb
            \/ SseHandles \/ DbHandlesTool \/ CleanupRepair \/ CleanupAnnounce
            \/ Close \/ UNCHANGED engineVars
  BY <1>11, ZenonT(60) DEF StartTurn, StopAtEvent, HandleModelToken, HandleTool,
     HandleModelStepFinished, HandleTurnFailed, HandleTurnCompleted, EmitInterrupts,
     AttemptRecovery, BarrierSse, BarrierDb, SseHandles, DbHandlesTool, CleanupRepair,
     CleanupAnnounce, Close, engineVars, Finish, Dispatch, RunDone, streamVars,
     storeVars, TypeOK
<1> QED
  BY <1>1, <1>2, <1>3, <1>4, <1>5, <1>6, <1>7, <1>8, <1>9, <1>10, <1>11
  DEF EngineNext, RunStep, BusStep, CleanupStep, StreamStep

LEMMA TypeStep ==
    ASSUME TypeOK, RunOK, ChainOK, CanvasOK, ChatOK, [EngineNext]_engineVars
    PROVE  TypeOK'
  BY RunTypeStep, StateTypeStep, ChainTypeStep, OutTypeStep, RecorderTypeStep, StoredTypeStep,
     ModesTypeStep, FlagsTypeStep DEF TypeOK

-----------------------------------------------------------------------------
(* Run, cleanup and stream *)

\* What the two actions do that go on in as many ways as there are barriers.
LEMMA BarrierDbDoes ==
    ASSUME TypeOK, RunOK, BarrierDb
    PROVE  \/ /\ run.event \in {"completed", "suspended"} /\ ~recorder.persisted
              /\ RunGoto("storing", run.event) /\ UNCHANGED <<out, state, cleanup>>
           \/ /\ run.event \in {"completed", "suspended"} /\ surface = "chat" /\ interrupt # "none"
              /\ out' = Append(out, "pending") /\ Finish("interrupted")
           \/ /\ run.event = "completed"
              /\ surface = "canvas" => recorder.persisted \/ ~state.answered
              /\ state' = [state EXCEPT !.by = "completed"] /\ RunGoto("interrupts", "none")
              /\ UNCHANGED <<out, cleanup>>
           \/ run.event = "suspended" /\ recorder.persisted /\ Finish("interrupted") /\ UNCHANGED out
           \/ run.event = "failed" /\ Finish("failed") /\ UNCHANGED out
           \/ /\ run.event = "interrupted" /\ Finish("interrupted")
              /\ out' = IF interrupt = "invite" THEN Append(out, "pending") ELSE out
<1>1. run.event \in {"failed", "completed", "suspended", "interrupted"}
  BY DEF BarrierDb, Runs, RunOK
<1>2. CASE run.event = "completed"
  BY <1>2 DEF BarrierDb, Passed
<1>3. CASE run.event = "failed"
  BY <1>3 DEF BarrierDb, Passed
<1>4. CASE run.event = "interrupted"
  BY <1>4 DEF BarrierDb, Passed
<1>5. CASE run.event = "suspended"
  <2>1. interrupt # "none" /\ surface = "chat"
    BY <1>5 DEF BarrierDb, Runs, RunOK
  <2> QED
    BY <2>1, <1>5 DEF BarrierDb, Passed
<1> QED
  BY <1>1, <1>2, <1>3, <1>4, <1>5

Fails ==
    /\ state' = [state EXCEPT !.by = "failed", !.failed = TRUE]
    /\ RunGoto("bar_sse", "failed") /\ UNCHANGED cleanup

LEMMA StoreDoes ==
    ASSUME TypeOK, RunOK, Store
    PROVE  \/ /\ run.event = "completed" /\ dbFailed' = dbFailed
              /\ stored' = IF state.published THEN stored ELSE stored + 1
              /\ recorder' = [recorder EXCEPT !.persisted = TRUE]
              /\ state' = [state EXCEPT !.by = "completed"] /\ RunGoto("interrupts", "none")
              /\ UNCHANGED cleanup
           \/ /\ run.event = "suspended" /\ dbFailed' = dbFailed
              /\ stored' = IF state.published THEN stored ELSE stored + 1
              /\ recorder' = [recorder EXCEPT !.persisted = TRUE] /\ Finish("interrupted")
           \/ run.event = "answered" /\ dbFailed' = dbFailed /\ stored' = stored + 1
              /\ recorder' = [recorder EXCEPT !.persisted = TRUE]
              /\ RunGoto("bar_db", "completed") /\ UNCHANGED <<state, cleanup>>
           \/ run.event = "recovered" /\ dbFailed' = dbFailed /\ stored' = stored + 1
              /\ recorder' = [recorder EXCEPT !.persisted = TRUE] /\ Finish("completed")
           \/ run.event = "exhausted" /\ dbFailed' = dbFailed /\ stored' = stored + 1
              /\ recorder' = [recorder EXCEPT !.persisted = TRUE] /\ Fails
           \/ dbFailed' = TRUE /\ UNCHANGED <<stored, recorder>> /\ Fails
<1>1. /\ run.event \in {"completed", "suspended", "answered", "recovered", "exhausted"}
      /\ ~state.failed
  BY DEF Store, Runs, RunOK, Over
<1>2. Fail => Fails
  BY <1>1 DEF Fail, Fails
<1>3. CASE dbFailed' = TRUE /\ Fail /\ UNCHANGED <<stored, recorder>>
  BY <1>2, <1>3
<1>4. CASE /\ stored' = (IF run.event \in {"completed", "suspended"} /\ state.published
                        THEN stored ELSE stored + 1)
           /\ recorder' = [recorder EXCEPT !.persisted = TRUE]
           /\ Passed(run.event) /\ UNCHANGED dbFailed
  BY <1>1, <1>2, <1>4 DEF Passed
<1> QED
  BY <1>3, <1>4 DEF Store

LEMMA RunOKStep ==
    ASSUME TypeOK, RunOK, [EngineNext]_engineVars
    PROVE  RunOK'
<1>1. CASE StartTurn
  BY <1>1, ZenonT(60) DEF StartTurn, Runs, RunGoto, Fail, Finish, streamVars, TypeOK, RunOK,
     RunRecords, States, Over
<1>2. CASE StopAtEvent
  BY <1>2 DEF StopAtEvent, Runs, RunGoto, Interrupts, streamVars, TypeOK, RunOK,
     RunRecords, States, Over
<1>3. CASE HandleModelToken
  BY <1>3 DEF HandleModelToken, Dispatch, Runs, Broadcast, streamVars, TypeOK, RunOK,
     RunRecords, States, Over
<1>4. CASE HandleTool
  BY <1>4 DEF HandleTool, Dispatch, Runs, Interrupts, Broadcast, streamVars, TypeOK,
     RunOK, RunRecords, States, Over
<1>5. CASE HandleModelStepFinished
  BY <1>5, ZenonT(60) DEF HandleModelStepFinished, Dispatch, Runs, Interrupts, Broadcast,
     BroadcastBoth, streamVars, TypeOK, RunOK, RunRecords, States, Over
<1>6. CASE HandleTurnFailed
  BY <1>6, ZenonT(60) DEF HandleTurnFailed, Runs, RunGoto, Fail, Finish, streamVars, TypeOK,
     RunOK, RunRecords, States, Over
<1>7. CASE HandleTurnCompleted
  BY <1>7, ZenonT(60) DEF HandleTurnCompleted, Runs, RunGoto, Fail, Finish, Interrupts,
     streamVars, TypeOK, RunOK, RunRecords, States, Over
<1>8. CASE EmitInterrupts
  BY <1>8, ZenonT(60) DEF EmitInterrupts, Runs, RunGoto, Fail, Finish, streamVars, TypeOK, RunOK,
     RunRecords, States, Over
<1>9. CASE AttemptRecovery
  BY <1>9, ZenonT(60) DEF AttemptRecovery, Runs, RunGoto, Finish, Broadcast, streamVars, TypeOK,
     RunOK, RunRecords, States, Over
<1>10. CASE BarrierSse
  BY <1>10 DEF BarrierSse, Runs, RunGoto, ChainDone, streamVars, TypeOK, RunOK,
     RunRecords, States, Over
<1>11. CASE BarrierDb
  BY <1>11, BarrierDbDoes, ZenonT(60)
  DEF BarrierDb, Runs, RunGoto, Finish, streamVars, TypeOK, RunOK, RunRecords, States, Over
<1>12. CASE Store
  BY <1>12, StoreDoes, ZenonT(60)
  DEF Store, Runs, RunGoto, Fails, Finish, streamVars, TypeOK, RunOK, RunRecords, States, Over
<1>13. CASE RunCancelled
  BY <1>13 DEF RunCancelled, Finish, Awaited, streamVars, TypeOK, RunOK, RunRecords,
     States, Over
<1>14. CASE CleanupRepair
  BY <1>14 DEF CleanupRepair, streamVars, TypeOK, RunOK, RunRecords, States, Over
<1>15. CASE CleanupAnnounce
  BY <1>15 DEF CleanupAnnounce, Broadcast, streamVars, TypeOK, RunOK, RunRecords,
     States, Over
<1>16. CASE Close
  BY <1>16 DEF Close, RunDone, ChainDone, streamVars, TypeOK, RunOK, RunRecords,
     States, Over
<1>17. CASE CleanupTimesOut
  BY <1>17 DEF CleanupTimesOut, RunDone, streamVars, TypeOK, RunOK, RunRecords,
     States, Over
<1>18. CASE Pump
  BY <1>18 DEF Pump, Leave, streamVars, TypeOK, RunOK, RunRecords, States, Over
<1>19. CASE CallerLeaves
  BY <1>19 DEF CallerLeaves, Leave, streamVars, TypeOK, RunOK, RunRecords, States,
     Over
<1>20. CASE GraceEnds
  BY <1>20 DEF GraceEnds, streamVars, TypeOK, RunOK, RunRecords, States, Over
<1>21. CASE StreamEnds
  BY <1>21 DEF StreamEnds, streamVars, TypeOK, RunOK, RunRecords, States, Over
<1>22. CASE Cancel
  BY <1>22 DEF Cancel, streamVars, TypeOK, RunOK, RunRecords, States, Over
<1>23. CASE BusStep \/ UNCHANGED engineVars
  BY <1>23 DEF BusStep, SseHandles, DbHandlesTool, DbBeginsText, DbEndsText,
     engineVars, streamVars, storeVars, TypeOK, RunOK, RunRecords, States, Over
<1> QED
  BY <1>1, <1>2, <1>3, <1>4, <1>5, <1>6, <1>7, <1>8, <1>9, <1>10, <1>11,
     <1>12, <1>13, <1>14, <1>15, <1>16, <1>17, <1>18, <1>19, <1>20, <1>21, <1>22,
     <1>23
  DEF EngineNext, RunStep, BusStep, CleanupStep, StreamStep

-----------------------------------------------------------------------------
(* Frames *)

Ordered(s) ==
    \A i, j \in 1..Len(s) : i < j =>
        /\ s[i] = "error" => s[j] \in {"done", "end"}
        /\ s[i] = "done" => s[j] = "end"

LEMMA AppendHas ==
    ASSUME NEW S, NEW s \in Seq(S), NEW x \in S, NEW f
    PROVE  Has(Append(s, x), f) <=> Has(s, f) \/ x = f
<1>1. Len(s) \in Nat /\ Len(Append(s, x)) = Len(s) + 1 /\ Append(s, x)[Len(s) + 1] = x
  OBVIOUS
<1>2. \A i \in 1..Len(s) : Append(s, x)[i] = s[i]
  OBVIOUS
<1> QED
  BY <1>1, <1>2 DEF Has

LEMMA AppendOrdered ==
    ASSUME NEW s \in Seq(Frames), NEW x \in Frames, Ordered(s),
           Has(s, "error") => x \in {"done", "end"},
           Has(s, "done") => x = "end"
    PROVE  Ordered(Append(s, x))
<1> DEFINE t == Append(s, x)
<1>1. Len(s) \in Nat /\ Len(t) = Len(s) + 1 /\ t[Len(s) + 1] = x
  OBVIOUS
<1>2. \A i \in 1..Len(s) : t[i] = s[i]
  OBVIOUS
<1> HIDE DEF t
<1>3. ASSUME NEW i \in 1..Len(t), NEW j \in 1..Len(t), i < j
      PROVE  (t[i] = "error" => t[j] \in {"done", "end"}) /\ (t[i] = "done" => t[j] = "end")
  <2>1. i \in 1..Len(s) /\ t[i] = s[i]
    BY <1>1, <1>2, <1>3
  <2>2. CASE j = Len(s) + 1
    BY <2>1, <2>2, <1>1 DEF Has
  <2>3. CASE j \in 1..Len(s)
    BY <2>1, <2>3, <1>2, <1>3 DEF Ordered
  <2> QED
    BY <2>2, <2>3, <1>1, <1>3
<1> QED
  BY <1>3 DEF Ordered, t

LEMMA InOrder ==
    ASSUME out \in Seq(Frames)
    PROVE  FramesInOrder <=> Ordered(out)
  BY DEF FramesInOrder, Ordered

\* What a subscriber's chain gets of a broadcast.
LEMMA BroadcastDoes ==
    ASSUME chain \in Chains, NEW e, Broadcast(e)
    PROVE  /\ chain'["sse"] = IF e \in {"token", "tool", "ended"} THEN Append(chain["sse"], e)
                              ELSE chain["sse"]
           /\ chain'["db"] = IF e = "tool" \/ (e = "text" /\ surface = "chat")
                             THEN Append(chain["db"], e) ELSE chain["db"]
  BY DEF Broadcast, Deliver, BroadcastEvents, Subscribers

LEMMA BroadcastBothDoes ==
    ASSUME chain \in Chains, BroadcastBoth("text", "token")
    PROVE  /\ chain'["sse"] = Append(chain["sse"], "token")
           /\ chain'["db"] = IF surface = "chat" THEN Append(chain["db"], "text") ELSE chain["db"]
  BY DEF BroadcastBoth, Deliver, BroadcastEvents, Subscribers

LEMMA FramesStep ==
    ASSUME TypeOK, RunOK, ChainOK, Ordered(out), [EngineNext]_engineVars
    PROVE  Ordered(out')
<1>a. out \in Seq(Frames)
  BY DEF TypeOK
<1>1. CASE BarrierSse
  <2>1. ~Has(out, "error") /\ ~Has(out, "done")
    BY <1>1 DEF BarrierSse, Runs, RunOK, ChainOK, AfterErrorOK, AfterDoneOK, Seen, Over
  <2> QED
    BY <2>1, <1>1, <1>a, AppendOrdered DEF BarrierSse, Frames
<1>2. CASE BarrierDb
  <2>1. run.event # "failed" => ~Has(out, "error") /\ ~Has(out, "done")
    BY <1>2 DEF BarrierDb, Runs, RunOK, ChainOK, AfterErrorOK, AfterDoneOK, Seen, Over
  <2>2. out' = out \/ (run.event # "failed" /\ out' = Append(out, "pending"))
    BY <1>2, BarrierDbDoes
  <2> QED
    BY <2>1, <2>2, <1>a, AppendOrdered DEF Frames
<1>3. CASE SseHandles
  <2> DEFINE h == Head(chain["sse"])
  <2>1. h \in {"token", "tool", "ended"} /\ chain["sse"] # <<>>
    BY <1>3, HeadOfSse DEF SseHandles
  <2>2. ~Has(out, "done") /\ (Has(out, "error") => state.failed /\ h = "ended")
    BY <1>3 DEF SseHandles, ChainOK, AfterErrorOK, AfterDoneOK, Seen
  <2>3. CASE h # "ended"
    <3>1. out' = Append(out, h) /\ h \in Frames
      BY <1>3, <2>1, <2>3, <1>a, Appends DEF SseHandles, Frames
    <3> HIDE DEF h
    <3> QED
      BY <3>1, <2>2, <2>3, <1>a, AppendOrdered
  <2>4. CASE h = "ended"
    <3>1. out' = out \o EndedFrames
      BY <1>3, <2>4 DEF SseHandles
    <3>2. Has(out, "error") => state.failed
      BY <2>2
    <3>3. CASE out' = Append(Append(out, "error"), "done") /\ ~state.failed
      <4>1. Append(out, "error") \in Seq(Frames) /\ Ordered(Append(out, "error"))
        BY <3>2, <3>3, <2>2, <1>a, AppendOrdered DEF Frames
      <4>2. ~Has(Append(out, "error"), "done")
        BY <2>2, <1>a, AppendHas DEF Frames
      <4> QED
        BY <4>1, <4>2, <3>3, AppendOrdered DEF Frames
    <3> QED
      BY <3>1, <3>2, <3>3, <2>2, <1>a, EndedFramesAre, AppendOrdered DEF Frames
  <2> QED
    BY <2>3, <2>4
<1>4. CASE Close
  <2>1. out' = Append(out, "end")
    BY <1>4 DEF Close
  <2> QED
    BY <2>1, <1>a, AppendOrdered DEF Frames
<1>5. CASE CleanupTimesOut
  <2>1. out' = Append(out, "end")
    BY <1>5 DEF CleanupTimesOut
  <2> QED
    BY <2>1, <1>a, AppendOrdered DEF Frames
<1>6. CASE StreamStep \/ StartTurn \/ StopAtEvent \/ HandleModelToken \/ HandleTool
            \/ HandleModelStepFinished \/ HandleTurnFailed \/ HandleTurnCompleted
            \/ EmitInterrupts \/ AttemptRecovery \/ Store \/ RunCancelled
            \/ DbHandlesTool \/ DbBeginsText \/ DbEndsText \/ CleanupRepair
            \/ CleanupAnnounce \/ CallerLeaves \/ Cancel \/ UNCHANGED engineVars
  BY <1>6 DEF StreamStep, Pump, GraceEnds, StreamEnds, StartTurn, StopAtEvent,
     HandleModelToken, HandleTool, HandleModelStepFinished, HandleTurnFailed,
     HandleTurnCompleted, EmitInterrupts, AttemptRecovery, Store, RunCancelled,
     DbHandlesTool, DbBeginsText, DbEndsText, CleanupRepair, CleanupAnnounce,
     CallerLeaves, Cancel, engineVars, Finish, Dispatch, Leave, streamVars, storeVars,
     Ordered
<1> QED
  BY <1>1, <1>2, <1>3, <1>4, <1>5, <1>6
  DEF EngineNext, RunStep, BusStep, CleanupStep, StreamStep

\* The chain of the frames gets an event while the turn goes on, or its end.
LEMMA QueueGrows ==
    ASSUME TypeOK, QueueOK, cleanup # "drain", NEW e \in {"token", "tool", "ended"},
           chain'["sse"] = Append(chain["sse"], e),
           e = "ended" <=> cleanup' = "drain"
    PROVE  QueueOK'
<1> DEFINE q == chain["sse"]
           r == chain'["sse"]
<1>1. q \in Seq(BusEvents)
  BY DEF TypeOK, Chains, Subscribers
<1>2. Len(q) \in Nat /\ r = Append(q, e) /\ Len(r) = Len(q) + 1 /\ r[Len(q) + 1] = e
  BY <1>1
<1>3. \A i \in 1..Len(q) : r[i] = q[i]
  BY <1>1
<1>4. \A i \in 1..Len(q) : q[i] \notin {"text", "ended"}
  BY DEF QueueOK
<1> HIDE DEF q, r
<1>5. \A i \in 1..Len(r) : r[i] # "text" /\ (r[i] = "ended" => i = Len(r) /\ cleanup' = "drain")
  BY <1>2, <1>3, <1>4
<1>6. cleanup' = "drain" => r[Len(r)] = "ended"
  BY <1>2
<1> QED
  BY <1>5, <1>6 DEF QueueOK, r

LEMMA QueueRests ==
    ASSUME QueueOK, chain'["sse"] = chain["sse"], cleanup = "drain" <=> cleanup' = "drain"
    PROVE  QueueOK'
  BY DEF QueueOK

LEMMA QueueEmpties ==
    ASSUME chain'["sse"] = <<>>
    PROVE  QueueOK'
  BY DEF QueueOK

LEMMA QueueShrinks ==
    ASSUME TypeOK, QueueOK, chain["sse"] # <<>>, chain'["sse"] = Tail(chain["sse"]),
           cleanup' = cleanup
    PROVE  QueueOK'
<1> DEFINE q == chain["sse"]
           r == chain'["sse"]
<1>1. q \in Seq(BusEvents)
  BY DEF TypeOK, Chains, Subscribers
<1>2. /\ Len(q) \in Nat /\ Len(q) > 0 /\ r \in Seq(BusEvents) /\ Len(r) = Len(q) - 1
      /\ \A i \in 1..Len(r) : r[i] = q[i + 1]
  BY <1>1, HeadIsFirst
<1>3. /\ \A i \in 1..Len(q) : q[i] # "text" /\ (q[i] = "ended" => i = Len(q) /\ cleanup = "drain")
      /\ cleanup = "drain" => q[Len(q)] = "ended"
  BY DEF QueueOK
<1>4. r # <<>> => Len(r) > 0
  BY <1>2
<1> HIDE DEF q, r
<1>5. \A i \in 1..Len(r) : r[i] # "text" /\ (r[i] = "ended" => i = Len(r) /\ cleanup' = "drain")
  BY <1>2, <1>3
<1>6. cleanup' = "drain" /\ r # <<>> => r[Len(r)] = "ended"
  BY <1>2, <1>3, <1>4
<1> QED
  BY <1>5, <1>6 DEF QueueOK, r

LEMMA QueueStep ==
    ASSUME TypeOK, RunOK, QueueOK, [EngineNext]_engineVars
    PROVE  QueueOK'
<1>1. CASE StartTurn
  BY <1>1, QueueRests
  DEF StartTurn, Runs, RunGoto, Fail, Finish, RunOK, Over
<1>2. CASE HandleModelToken
  BY <1>2, BroadcastDoes, QueueGrows DEF HandleModelToken, Dispatch, Runs, RunOK, TypeOK, Over
<1>3. CASE HandleTool
  BY <1>3, BroadcastDoes, QueueGrows DEF HandleTool, Dispatch, Runs, RunOK, TypeOK, Over
<1>4. CASE HandleModelStepFinished
  <2>1. cleanup = "idle" /\ cleanup' = "idle"
    BY <1>4 DEF HandleModelStepFinished, Dispatch, Runs, RunOK, Over
  <2>2. CASE Broadcast("text")
    BY <2>1, <2>2, BroadcastDoes, QueueRests DEF TypeOK
  <2>3. CASE BroadcastBoth("text", "token")
    BY <2>1, <2>3, BroadcastBothDoes, QueueGrows DEF TypeOK
  <2> QED
    BY <2>2, <2>3, <1>4 DEF HandleModelStepFinished
<1>5. CASE HandleTurnFailed
  BY <1>5, QueueRests
  DEF HandleTurnFailed, Runs, RunGoto, Fail, Finish, RunOK, Over
<1>6. CASE HandleTurnCompleted
  BY <1>6, QueueRests
  DEF HandleTurnCompleted, Runs, RunGoto, Fail, Finish, Interrupts, RunOK, Over
<1>7. CASE EmitInterrupts
  BY <1>7, QueueRests
  DEF EmitInterrupts, Runs, RunGoto, Fail, Finish, RunOK, Over
<1>8. CASE AttemptRecovery
  <2>1. cleanup = "idle" /\ cleanup' # "drain"
    BY <1>8 DEF AttemptRecovery, Runs, Finish, RunOK, Over
  <2>2. CASE Broadcast("token")
    BY <2>1, <2>2, BroadcastDoes, QueueGrows DEF TypeOK
  <2>3. CASE UNCHANGED chain
    BY <2>1, <2>3, QueueRests
  <2> QED
    BY <2>2, <2>3, <1>8 DEF AttemptRecovery
<1>9. CASE BarrierDb
  BY <1>9, BarrierDbDoes, QueueRests DEF BarrierDb, Runs, RunGoto, Finish, RunOK, Over
<1>10. CASE Store
  BY <1>10, StoreDoes, QueueRests DEF Store, Runs, RunGoto, Fails, Finish, RunOK, Over
<1>11. CASE RunCancelled
  <2>1. cleanup = "idle" /\ cleanup' # "drain"
    BY <1>11 DEF RunCancelled, Finish, RunOK, Over
  <2>2. chain'["sse"] = chain["sse"] \/ chain'["sse"] = <<>>
    BY <1>11 DEF RunCancelled, Subscribers
  <2> QED
    BY <2>1, <2>2, QueueRests, QueueEmpties
<1>12. CASE SseHandles
  <2>1. chain["sse"] # <<>> /\ chain'["sse"] = Tail(chain["sse"]) /\ cleanup' = cleanup
    BY <1>12 DEF SseHandles, TypeOK, Chains, Subscribers
  <2> QED
    BY <2>1, QueueShrinks
<1>13. CASE DbHandlesTool
  <2>1. chain'["sse"] = chain["sse"] /\ cleanup' = cleanup
    BY <1>13 DEF DbHandlesTool, TypeOK, Chains, Subscribers
  <2> QED
    BY <2>1, QueueRests
<1>14. CASE DbEndsText
  <2>1. chain'["sse"] = chain["sse"] /\ cleanup' = cleanup
    BY <1>14 DEF DbEndsText, TypeOK, Chains, Subscribers
  <2> QED
    BY <2>1, QueueRests
<1>15. CASE CleanupRepair
  BY <1>15, QueueRests DEF CleanupRepair
<1>16. CASE CleanupAnnounce
  BY <1>16, BroadcastDoes, QueueGrows DEF CleanupAnnounce, TypeOK
<1>17. CASE Close
  <2>1. chain'["sse"] = <<>>
    BY <1>17 DEF Close, ChainDone, Subscribers
  <2> QED
    BY <2>1, QueueEmpties
<1>18. CASE CleanupTimesOut
  <2>1. CASE cleanup = "repair"
    BY <2>1, <1>18, QueueRests DEF CleanupTimesOut
  <2>2. CASE cleanup = "drain"
    BY <2>2, <1>18, QueueEmpties DEF CleanupTimesOut, Subscribers
  <2> QED
    BY <2>1, <2>2, <1>18 DEF CleanupTimesOut
<1>19. CASE StreamStep \/ StopAtEvent \/ BarrierSse \/ DbBeginsText \/ CallerLeaves
            \/ Cancel \/ UNCHANGED engineVars
  BY <1>19 DEF StreamStep, Pump, GraceEnds, StreamEnds, StopAtEvent, BarrierSse,
     DbBeginsText, CallerLeaves, Cancel, engineVars, Leave, streamVars, storeVars,
     QueueOK
<1> QED
  BY <1>1, <1>2, <1>3, <1>4, <1>5, <1>6, <1>7, <1>8, <1>9, <1>10, <1>11,
     <1>12, <1>13, <1>14, <1>15, <1>16, <1>17, <1>18, <1>19
  DEF EngineNext, RunStep, BusStep, CleanupStep, StreamStep

\* Before the barrier of a failure and the end of the turn there is no frame of either.
LEMMA NotOverYet ==
    ASSUME TypeOK, RunOK, ChainOK, run.pc \notin Over, run.pc = "bar_db" => run.event # "failed"
    PROVE  ~Seen("error") /\ ~Seen("done")
  BY DEF RunOK, ChainOK, AfterErrorOK, AfterDoneOK, Over

LEMMA AfterStep ==
    ASSUME TypeOK, RunOK, ChainOK, [EngineNext]_engineVars
    PROVE  AfterErrorOK' /\ AfterDoneOK'
<1>1. CASE StartTurn
  <2>1. run.pc \notin Over /\ (run.pc = "bar_db" => run.event # "failed") /\ out' = out
    BY <1>1 DEF StartTurn, Runs, RunOK, Over
  <2> QED
    BY <2>1, NotOverYet DEF AfterErrorOK, AfterDoneOK, Seen, Has
<1>2. CASE StopAtEvent
  <2>1. run.pc \notin Over /\ (run.pc = "bar_db" => run.event # "failed") /\ out' = out
    BY <1>2 DEF StopAtEvent, Runs, RunOK, Over
  <2> QED
    BY <2>1, NotOverYet DEF AfterErrorOK, AfterDoneOK, Seen, Has
<1>3. CASE HandleModelToken
  <2>1. run.pc \notin Over /\ (run.pc = "bar_db" => run.event # "failed") /\ out' = out
    BY <1>3 DEF HandleModelToken, Dispatch, Runs, RunOK, Over
  <2> QED
    BY <2>1, NotOverYet DEF AfterErrorOK, AfterDoneOK, Seen, Has
<1>4. CASE HandleTool
  <2>1. run.pc \notin Over /\ (run.pc = "bar_db" => run.event # "failed") /\ out' = out
    BY <1>4 DEF HandleTool, Dispatch, Runs, RunOK, Over
  <2> QED
    BY <2>1, NotOverYet DEF AfterErrorOK, AfterDoneOK, Seen, Has
<1>5. CASE HandleModelStepFinished
  <2>1. run.pc \notin Over /\ (run.pc = "bar_db" => run.event # "failed") /\ out' = out
    BY <1>5 DEF HandleModelStepFinished, Dispatch, Runs, RunOK, Over
  <2> QED
    BY <2>1, NotOverYet DEF AfterErrorOK, AfterDoneOK, Seen, Has
<1>6. CASE HandleTurnFailed
  <2>1. run.pc \notin Over /\ (run.pc = "bar_db" => run.event # "failed") /\ out' = out
    BY <1>6 DEF HandleTurnFailed, Runs, RunOK, Over
  <2> QED
    BY <2>1, NotOverYet DEF AfterErrorOK, AfterDoneOK, Seen, Has
<1>7. CASE HandleTurnCompleted
  <2>1. run.pc \notin Over /\ (run.pc = "bar_db" => run.event # "failed") /\ out' = out
    BY <1>7 DEF HandleTurnCompleted, Runs, RunOK, Over
  <2> QED
    BY <2>1, NotOverYet DEF AfterErrorOK, AfterDoneOK, Seen, Has
<1>8. CASE EmitInterrupts
  <2>1. run.pc \notin Over /\ (run.pc = "bar_db" => run.event # "failed") /\ out' = out
    BY <1>8 DEF EmitInterrupts, Runs, RunOK, Over
  <2> QED
    BY <2>1, NotOverYet DEF AfterErrorOK, AfterDoneOK, Seen, Has
<1>9. CASE AttemptRecovery
  <2>1. run.pc \notin Over /\ (run.pc = "bar_db" => run.event # "failed") /\ out' = out
    BY <1>9 DEF AttemptRecovery, Runs, RunOK, Over
  <2> QED
    BY <2>1, NotOverYet DEF AfterErrorOK, AfterDoneOK, Seen, Has
<1>10. CASE BarrierSse
  <2>1. ~Seen("error") /\ ~Seen("done") /\ chain["sse"] = <<>>
    BY <1>10, NotOverYet DEF BarrierSse, Runs, ChainDone, Over
  <2>2. run'.pc = "bar_db" /\ state' = state /\ chain' = chain
    BY <1>10 DEF BarrierSse, RunGoto, TypeOK, RunRecords
  <2>3. CASE run.event = "failed"
    <3>1. ~Has(out', "done")
      BY <2>1, <2>3, <1>10, AppendHas DEF BarrierSse, TypeOK, Seen, Frames
    <3>2. state.failed
      BY <2>3, <1>10 DEF BarrierSse, Runs, RunOK
    <3> QED
      BY <2>1, <2>2, <3>1, <3>2 DEF AfterErrorOK, AfterDoneOK, Seen, Has
  <2>4. CASE run.event # "failed"
    BY <2>1, <2>4, <1>10 DEF BarrierSse, AfterErrorOK, AfterDoneOK, Seen, Has
  <2> QED
    BY <2>3, <2>4
<1>11. CASE BarrierDb
  <2>1. CASE run.event = "failed"
    <3>1. out' = out /\ chain' = chain /\ Finish("failed") /\ ~Seen("done")
      BY <2>1, <1>11, BarrierDbDoes DEF BarrierDb, Runs, RunOK, ChainOK, AfterDoneOK, Over
    <3>2. run'.pc = "finish" /\ state'.failed = state.failed
      BY <3>1 DEF Finish, TypeOK, RunRecords, States
    <3>3. Seen("error") => state.failed /\ (chain["sse"] = <<>> \/ chain["sse"] = <<"ended">>)
      BY <1>11 DEF BarrierDb, Runs, RunOK, ChainOK, AfterErrorOK, Over
    <3> QED
      BY <3>1, <3>2, <3>3 DEF AfterErrorOK, AfterDoneOK, Seen, Has, Over
  <2>2. CASE run.event # "failed"
    <3>1. ~Seen("error") /\ ~Seen("done")
      BY <2>2, <1>11, NotOverYet DEF BarrierDb, Runs, Over
    <3>2. out' = out \/ out' = Append(out, "pending")
      BY <2>2, <1>11, BarrierDbDoes
    <3>3. ~Has(out', "error") /\ ~Has(out', "done")
      <4>1. ~Has(Append(out, "pending"), "error") /\ ~Has(Append(out, "pending"), "done")
        BY <3>1, AppendHas DEF TypeOK, Seen, Frames
      <4> QED
        BY <4>1, <3>1, <3>2, Zenon DEF Seen
    <3> QED
      BY <3>3 DEF AfterErrorOK, AfterDoneOK, Seen, Has
  <2> QED
    BY <2>1, <2>2
<1>12. CASE Store
  <2>1. run.pc \notin Over /\ (run.pc = "bar_db" => run.event # "failed") /\ out' = out
    BY <1>12 DEF Store, Runs, RunOK, Over
  <2> QED
    BY <2>1, NotOverYet DEF AfterErrorOK, AfterDoneOK, Seen, Has
<1>13. CASE RunCancelled
  <2>1. out' = out /\ run'.pc = "finish" /\ state'.failed = state.failed
    BY <1>13 DEF RunCancelled, Finish, TypeOK, RunRecords, States
  <2>2. chain'["sse"] = chain["sse"] \/ chain'["sse"] = <<>>
    BY <1>13 DEF RunCancelled, Subscribers
  <2>3. cleanup = "idle"
    BY <1>13 DEF RunCancelled, RunOK, Over
  <2> QED
    BY <2>1, <2>2, <2>3 DEF ChainOK, AfterErrorOK, AfterDoneOK, Seen, Has, Over
<1>14. CASE SseHandles
  <2> DEFINE h == Head(chain["sse"])
  <2>1. /\ h \in {"token", "tool", "ended"} /\ chain["sse"] # <<>>
        /\ h = "ended" => Tail(chain["sse"]) = <<>> /\ cleanup = "drain"
    BY <1>14, HeadOfSse DEF SseHandles
  <2>2. CASE h = "ended"
    <3>1. chain'["sse"] = <<>> /\ cleanup' = "drain"
      BY <2>1, <2>2, <1>14 DEF SseHandles, TypeOK, Chains, Subscribers
    <3> QED
      BY <3>1 DEF AfterErrorOK, AfterDoneOK
  <2>3. CASE h # "ended"
    <3>1. ~Has(out, "error") /\ ~Has(out, "done")
      BY <2>1, <2>3 DEF ChainOK, AfterErrorOK, AfterDoneOK, Seen
    <3>2. out' = Append(out, h) /\ h \in Frames /\ out \in Seq(Frames)
      BY <1>14, <2>1, <2>3, Appends DEF SseHandles, TypeOK, Frames
    <3>3. ~Has(out', "error") /\ ~Has(out', "done")
      BY <3>1, <3>2, <2>1, AppendHas
    <3> QED
      BY <3>3 DEF AfterErrorOK, AfterDoneOK, Seen, Has
  <2> QED
    BY <2>2, <2>3
<1>15. CASE DbHandlesTool
  <2>1. chain'["sse"] = chain["sse"]
    BY <1>15 DEF DbHandlesTool, TypeOK, Chains, Subscribers
  <2> QED
    BY <2>1, <1>15 DEF DbHandlesTool, ChainOK, AfterErrorOK, AfterDoneOK, Seen, Has
<1>16. CASE DbEndsText
  <2>1. chain'["sse"] = chain["sse"]
    BY <1>16 DEF DbEndsText, TypeOK, Chains, Subscribers
  <2> QED
    BY <2>1, <1>16 DEF DbEndsText, ChainOK, AfterErrorOK, AfterDoneOK, Seen, Has
<1>17. CASE CleanupRepair
  BY <1>17 DEF CleanupRepair, ChainOK, AfterErrorOK, AfterDoneOK, Seen, Has
<1>18. CASE CleanupAnnounce
  <2>1. ~Seen("done") /\ (Seen("error") => state.failed /\ run.pc \in {"bar_db"} \cup Over
                                         /\ (chain["sse"] = <<>> \/ chain["sse"] = <<"ended">>))
    BY <1>18 DEF CleanupAnnounce, ChainOK, AfterErrorOK, AfterDoneOK
  <2>2. chain["sse"] # <<"ended">>
    <3>1. Len(<<"ended">>) = 1 /\ <<"ended">>[1] = "ended"
      OBVIOUS
    <3> QED
      BY <3>1, <1>18 DEF CleanupAnnounce, ChainOK, QueueOK
  <2>3. chain'["sse"] = Append(chain["sse"], "ended")
    BY <1>18, BroadcastDoes DEF CleanupAnnounce, TypeOK
  <2>4. Append(<<>>, "ended") = <<"ended">>
    OBVIOUS
  <2>5. Seen("error") => chain'["sse"] = <<"ended">>
    BY <2>1, <2>2, <2>3, <2>4
  <2> QED
    BY <2>1, <2>5, <1>18 DEF CleanupAnnounce, AfterErrorOK, AfterDoneOK, Seen, Has
<1>19. CASE Close
  <2>1. chain'["sse"] = <<>> /\ cleanup' = "done"
    BY <1>19 DEF Close, ChainDone, Subscribers
  <2> QED
    BY <2>1 DEF AfterErrorOK, AfterDoneOK
<1>20. CASE CleanupTimesOut
  <2>1. CASE cleanup = "drain"
    BY <2>1, <1>20 DEF CleanupTimesOut, Subscribers, AfterErrorOK, AfterDoneOK
  <2>2. CASE cleanup = "repair"
    <3>1. \A f : Has(out', f) <=> Has(out, f) \/ f = "end"
      BY <1>20, AppendHas DEF CleanupTimesOut, TypeOK, Frames
    <3>2. run'.pc = "done" /\ state'.failed = state.failed /\ chain' = chain
      BY <2>2, <1>20 DEF CleanupTimesOut, RunDone, TypeOK, RunRecords, States
    <3> QED
      BY <3>1, <3>2, <2>2 DEF ChainOK, AfterErrorOK, AfterDoneOK, Seen, Over
  <2> QED
    BY <2>1, <2>2, <1>20 DEF CleanupTimesOut
<1>21. CASE StreamStep \/ DbBeginsText \/ CallerLeaves \/ Cancel
            \/ UNCHANGED engineVars
  BY <1>21 DEF StreamStep, Pump, GraceEnds, StreamEnds, DbBeginsText, CallerLeaves,
     Cancel, engineVars, Leave, streamVars, storeVars, ChainOK, AfterErrorOK,
     AfterDoneOK, Seen, Has
<1> QED
  BY <1>1, <1>2, <1>3, <1>4, <1>5, <1>6, <1>7, <1>8, <1>9, <1>10, <1>11,
     <1>12, <1>13, <1>14, <1>15, <1>16, <1>17, <1>18, <1>19, <1>20, <1>21
  DEF EngineNext, RunStep, BusStep, CleanupStep, StreamStep

-----------------------------------------------------------------------------
(* What the stream has told *)

\* No frame is taken back.
Grows(s, t) == Len(s) <= Len(t) /\ \A i \in 1..Len(s) : t[i] = s[i]

LEMMA AppendGrows ==
    ASSUME NEW s \in Seq(Frames), NEW x \in Frames
    PROVE  Grows(s, s) /\ Grows(s, Append(s, x))
  BY DEF Grows

LEMMA GrowsTwice ==
    ASSUME NEW s \in Seq(Frames), NEW x \in Frames, NEW y \in Frames
    PROVE  Grows(s, Append(Append(s, x), y))
<1>1. Append(s, x) \in Seq(Frames)
  OBVIOUS
<1>2. Grows(s, Append(s, x)) /\ Grows(Append(s, x), Append(Append(s, x), y))
  BY <1>1, AppendGrows
<1>3. Len(s) \in Nat /\ Len(Append(s, x)) = Len(s) + 1
      /\ Len(Append(Append(s, x), y)) = Len(s) + 2
  BY <1>1
<1> QED
  BY <1>2, <1>3 DEF Grows

LEMMA HasGrows ==
    ASSUME NEW s \in Seq(Frames), NEW t \in Seq(Frames), Grows(s, t), NEW f, Has(s, f)
    PROVE  Has(t, f)
  BY DEF Has, Grows

LEMMA OutGrows ==
    ASSUME TypeOK, RunOK, ChainOK, [EngineNext]_engineVars
    PROVE  Grows(out, out')
<1>a. out \in Seq(Frames) /\ Grows(out, out)
  BY DEF TypeOK, Grows
<1>1. CASE BarrierSse
  BY <1>1, <1>a, AppendGrows DEF BarrierSse, Frames
<1>2. CASE BarrierDb
  <2>1. out' = out \/ out' = Append(out, "pending")
    BY <1>2, BarrierDbDoes
  <2> QED
    BY <2>1, <1>a, AppendGrows DEF Frames
<1>3. CASE SseHandles
  <2> DEFINE h == Head(chain["sse"])
  <2>1. h \in {"token", "tool", "ended"}
    BY <1>3, HeadOfSse DEF SseHandles
  <2>2. CASE h # "ended"
    <3>1. out' = Append(out, h) /\ h \in Frames
      BY <1>3, <2>1, <2>2, <1>a, Appends DEF SseHandles, Frames
    <3> HIDE DEF h
    <3> QED
      BY <3>1, <1>a, AppendGrows
  <2>3. CASE h = "ended"
    <3>1. out' = out \o EndedFrames
      BY <1>3, <2>3 DEF SseHandles
    <3> QED
      BY <3>1, <1>a, EndedFramesAre, AppendGrows, GrowsTwice DEF Frames
  <2> QED
    BY <2>2, <2>3
<1>4. CASE Close
  BY <1>4, <1>a, AppendGrows DEF Close, Frames
<1>5. CASE CleanupTimesOut
  BY <1>5, <1>a, AppendGrows, SMTT(30) DEF CleanupTimesOut, Frames
<1>6. CASE StreamStep \/ StartTurn \/ StopAtEvent \/ HandleModelToken \/ HandleTool
            \/ HandleModelStepFinished \/ HandleTurnFailed \/ HandleTurnCompleted
            \/ EmitInterrupts \/ AttemptRecovery \/ Store \/ RunCancelled
            \/ DbHandlesTool \/ DbBeginsText \/ DbEndsText \/ CleanupRepair
            \/ CleanupAnnounce \/ CallerLeaves \/ Cancel \/ UNCHANGED engineVars
  BY <1>6, <1>a DEF StreamStep, Pump, GraceEnds, StreamEnds, StartTurn, StopAtEvent,
     HandleModelToken, HandleTool, HandleModelStepFinished, HandleTurnFailed,
     HandleTurnCompleted, EmitInterrupts, AttemptRecovery, Store, RunCancelled,
     DbHandlesTool, DbBeginsText, DbEndsText, CleanupRepair, CleanupAnnounce,
     CallerLeaves, Cancel, engineVars, Finish, Dispatch, Leave, streamVars, storeVars,
     Grows
<1> QED
  BY <1>1, <1>2, <1>3, <1>4, <1>5, <1>6
  DEF EngineNext, RunStep, BusStep, CleanupStep, StreamStep

LEMMA SeenStays ==
    ASSUME TypeOK, TypeOK', RunOK, ChainOK, [EngineNext]_engineVars
    PROVE  /\ \A f : Has(out, f) => Has(out', f)
           /\ Spoken => Spoken'
           /\ Seen("error") => Seen("error")'
           /\ Seen("pending") => Seen("pending")'
<1>1. \A f : Has(out, f) => Has(out', f)
  BY OutGrows, HasGrows DEF TypeOK
<1> QED
  BY <1>1 DEF Spoken, Seen, Has

\* What is stored stays so, and what is unspoken.
LEMMA PersistedStays ==
    ASSUME TypeOK, [EngineNext]_engineVars
    PROVE  recorder.persisted => recorder'.persisted
<1>1. CASE DbHandlesTool \/ DbBeginsText \/ DbEndsText \/ AttemptRecovery \/ Store
  BY <1>1 DEF DbHandlesTool, DbBeginsText, DbEndsText, AttemptRecovery, Store, TypeOK, Recorders
<1>2. CASE ~(DbHandlesTool \/ DbBeginsText \/ DbEndsText \/ AttemptRecovery \/ Store)
  <2>1. recorder' = recorder
    BY <1>2 DEF EngineNext, RunStep, BusStep, CleanupStep, StreamStep, StartTurn, StopAtEvent,
       HandleModelToken, HandleTool, HandleModelStepFinished, Dispatch, HandleTurnFailed,
       HandleTurnCompleted, EmitInterrupts, BarrierSse, BarrierDb, RunCancelled, SseHandles,
       CleanupRepair, CleanupAnnounce, Close, CleanupTimesOut, Pump, GraceEnds, StreamEnds,
       CallerLeaves, Cancel, engineVars, storeVars
  <2> QED
    BY <2>1
<1> QED
  BY <1>1, <1>2

LEMMA SpokenStep ==
    ASSUME TypeOK, TypeOK', RunOK, ChainOK, SpokenOK, [EngineNext]_engineVars
    PROVE  SpokenOK'
<1>a. /\ Spoken => Spoken'
      /\ Seen("error") => Seen("error")'
      /\ Seen("pending") => Seen("pending")'
      /\ recorder.persisted => recorder'.persisted
  BY SeenStays, PersistedStays
<1>1. CASE StartTurn
  BY <1>1, ZenonT(60) DEF StartTurn, Runs, RunGoto, Fail, Finish, TypeOK, RunOK, SpokenOK, Over,
     RunRecords, States
<1>2. CASE StopAtEvent
  BY <1>2 DEF StopAtEvent, Runs, RunGoto, Interrupts, TypeOK, RunOK, SpokenOK, Over,
     RunRecords, States
<1>3. CASE HandleModelToken
  BY <1>3 DEF HandleModelToken, Dispatch, Runs, TypeOK, RunOK, SpokenOK, Over,
     RunRecords, States
<1>4. CASE HandleTool
  BY <1>4 DEF HandleTool, Dispatch, Runs, Interrupts, TypeOK, RunOK, SpokenOK, Over,
     RunRecords, States
<1>5. CASE HandleModelStepFinished
  BY <1>5, ZenonT(60) DEF HandleModelStepFinished, Dispatch, Runs, Interrupts, TypeOK, RunOK,
     SpokenOK, Over, RunRecords, States
<1>6. CASE HandleTurnFailed
  BY <1>6, ZenonT(60) DEF HandleTurnFailed, Runs, RunGoto, Fail, Finish, TypeOK, RunOK, SpokenOK,
     Over, RunRecords, States
<1>7. CASE HandleTurnCompleted
  BY <1>7, ZenonT(60) DEF HandleTurnCompleted, Runs, RunGoto, Fail, Finish, Interrupts, TypeOK,
     RunOK, SpokenOK, Over, RunRecords, States
<1>8. CASE EmitInterrupts
  BY <1>8, ZenonT(60) DEF EmitInterrupts, Runs, RunGoto, Fail, Finish, TypeOK, RunOK, SpokenOK,
     Over, RunRecords, States
<1>9. CASE AttemptRecovery
  BY <1>9 DEF AttemptRecovery, Runs, RunGoto, Finish, TypeOK, RunOK, SpokenOK, Over,
     RunRecords, States
<1>10. CASE BarrierSse
  <2>1. run'.pc = "bar_db" /\ run'.event = run.event /\ state' = state /\ cleanup = "idle"
    BY <1>10 DEF BarrierSse, Runs, RunGoto, TypeOK, RunOK, RunRecords, Over
  <2>2. /\ run.event = "failed" => Seen("error")'
        /\ run.event # "failed" /\ interrupt = "confirm" => Seen("pending")'
    BY <1>10, AppendHas DEF BarrierSse, TypeOK, Frames, Seen, Has
  <2> QED
    BY <2>1, <2>2, <1>10 DEF BarrierSse, Runs, RunOK, SpokenOK, Over
<1>11. CASE BarrierDb
  <2>1. /\ run.pc = "bar_db" /\ cleanup = "idle" /\ interrupt' = interrupt /\ out \in Seq(Frames)
        /\ state.failed => run.event = "failed" /\ state.by = "failed"
        /\ state.by # "interrupted" /\ recorder' = recorder
    BY <1>11 DEF BarrierDb, Runs, RunOK, TypeOK, Over, storeVars
  <2>2. out' = Append(out, "pending") => Spoken'
    BY <2>1, AppendHas DEF Frames, Spoken, Seen, Has
  <2>3. CASE run.event \in {"completed", "suspended"}
    <3>1. CASE /\ run.event \in {"completed", "suspended"} /\ RunGoto("storing", run.event)
               /\ UNCHANGED <<out, state, cleanup>>
      BY <2>1, <3>1 DEF RunGoto, TypeOK, SpokenOK, Over, RunRecords, States
    <3>2. CASE out' = Append(out, "pending") /\ Finish("interrupted")
      BY <2>1, <2>2, <2>3, <3>2 DEF Finish, TypeOK, SpokenOK, Over, RunRecords, States
    <3>3. CASE state' = [state EXCEPT !.by = "completed"] /\ RunGoto("interrupts", "none")
               /\ UNCHANGED <<out, cleanup>>
      BY <2>1, <2>3, <3>3 DEF RunGoto, TypeOK, SpokenOK, Over, RunRecords, States
    <3>4. CASE run.event = "suspended" /\ recorder.persisted /\ Finish("interrupted")
      <4>1. run'.event = "suspended"
        BY <3>4 DEF Finish, TypeOK, RunRecords
      <4>2. Silent'
        BY <4>1, <3>4, <2>1 DEF Silent, Unspoken
      <4> QED
        BY <4>2, <3>4, <2>1, <2>3 DEF Finish, TypeOK, SpokenOK, Over, RunRecords, States
    <3> QED
      BY <2>3, <3>1, <3>2, <3>3, <3>4, <1>11, BarrierDbDoes
  <2>4. CASE run.event = "failed"
    BY <2>1, <2>4, <1>11, <1>a, BarrierDbDoes DEF Finish, TypeOK, SpokenOK, Over, RunRecords, States
  <2>5. CASE run.event = "interrupted"
    <3>1. interrupt \in {"gate", "invite", "confirm"} /\ (interrupt = "confirm" => Seen("pending"))
      BY <2>1, <2>5 DEF RunOK, TypeOK, SpokenOK
    <3>2. Finish("interrupted") /\ (interrupt = "invite" => Spoken')
      BY <2>2, <2>5, <1>11, BarrierDbDoes
    <3>3. run'.event = "interrupted"
      BY <3>2, <2>5 DEF Finish, TypeOK, RunRecords
    <3>4. Spoken' \/ Silent'
      BY <3>1, <3>2, <3>3, <2>1, <1>a DEF Silent, Unspoken, Spoken
    <3> QED
      BY <3>2, <3>4, <2>1, <2>5 DEF Finish, TypeOK, SpokenOK, States
  <2> QED
    BY <2>3, <2>4, <2>5, <1>11 DEF BarrierDb, Runs, RunOK
<1>12. CASE Store
  <2>1. /\ run.pc = "storing" /\ cleanup = "idle" /\ interrupt' = interrupt
        /\ ~state.failed /\ state.by # "interrupted"
    BY <1>12 DEF Store, Runs, RunOK, Over
  <2>2. CASE /\ run.event = "suspended" /\ recorder' = [recorder EXCEPT !.persisted = TRUE]
             /\ Finish("interrupted")
    <3>1. run'.event = "suspended" /\ recorder'.persisted
      BY <2>2 DEF Finish, TypeOK, RunRecords, Recorders
    <3>2. Silent'
      BY <3>1 DEF Silent, Unspoken
    <3> QED
      BY <3>2, <2>1, <2>2 DEF Finish, TypeOK, SpokenOK, Over, RunRecords, States
  <2>3. CASE Finish("completed")
    BY <2>1, <2>3 DEF Finish, TypeOK, SpokenOK, Over, RunRecords, States
  <2>4. CASE Fails
    BY <2>1, <2>4 DEF Fails, RunGoto, TypeOK, SpokenOK, Over, RunRecords, States
  <2>5. CASE /\ RunGoto("interrupts", "none") \/ RunGoto("bar_db", "completed")
             /\ state' = [state EXCEPT !.by = "completed"] \/ state' = state
             /\ UNCHANGED cleanup
    BY <2>1, <2>5 DEF RunGoto, TypeOK, SpokenOK, Over, RunRecords, States
  <2> QED
    BY <2>2, <2>3, <2>4, <2>5, <1>12, StoreDoes
<1>13. CASE RunCancelled
  <2>1. state.by # "interrupted" /\ (state.failed => state.by = "failed")
    BY <1>13 DEF RunCancelled, RunOK, Over
  <2> QED
    BY <2>1, <1>13 DEF RunCancelled, Finish, TypeOK, SpokenOK, RunRecords, States
<1>14. CASE SseHandles
  <2>1. chain["sse"] # <<>> /\ UNCHANGED <<run, state, interrupt, cleanup>>
    BY <1>14 DEF SseHandles
  <2>2. ASSUME cleanup = "drain", chain'["sse"] = <<>>
        PROVE  Spoken' \/ Silent'
    <3> DEFINE q == chain["sse"]
    <3>1. q \in Seq(BusEvents) /\ q # <<>> /\ Tail(q) = <<>>
      BY <2>1, <2>2, <1>14 DEF SseHandles, TypeOK, Chains, Subscribers
    <3>2. Len(q) \in Nat /\ Len(q) > 0 /\ Head(q) = q[1] /\ Len(Tail(q)) = Len(q) - 1
      BY <3>1, HeadIsFirst
    <3>3. Len(Tail(q)) = 0
      <4>1. Len(<<>>) = 0
        OBVIOUS
      <4> QED
        BY <4>1, <3>1, Zenon
    <3>4. Len(q) = 1
      BY <3>2, <3>3
    <3>5. Head(q) = "ended"
      BY <3>1, <3>2, <3>4, <2>2 DEF ChainOK, QueueOK
    <3>6. out' = out \o EndedFrames /\ out \in Seq(Frames)
      BY <3>5, <1>14 DEF SseHandles, TypeOK
    <3>7. CASE out' = out /\ (state.by \in {"interrupted", "cancelled"} \/ state.failed)
      <4>1. Spoken \/ Silent
        <5>1. cleanup # "idle" => run.pc \in Over
          BY DEF RunOK
        <5> QED
          BY <3>7, <2>2, <5>1 DEF SpokenOK, Spoken, Silent, Unspoken
      <4>2. Silent => Silent'
        BY <2>1, <1>a DEF Silent, Unspoken
      <4> QED
        BY <4>1, <4>2, <1>a
    <3>8. CASE out' = Append(out, "done")
      BY <3>6, <3>8, AppendHas DEF Frames, Spoken, Seen, Has
    <3>9. CASE out' = Append(out, "error")
      BY <3>6, <3>9, AppendHas DEF Frames, Spoken, Seen, Has
    <3>10. CASE out' = Append(Append(out, "error"), "done")
      <4>1. Append(out, "error") \in Seq(Frames)
        BY <3>6 DEF Frames
      <4> QED
        BY <4>1, <3>10, AppendHas DEF Frames, Spoken, Seen, Has
    <3> QED
      BY <3>6, <3>7, <3>8, <3>9, <3>10, EndedFramesAre
  <2> QED
    BY <2>1, <2>2, <1>a DEF SpokenOK, Silent, Unspoken
<1>15. CASE DbHandlesTool
  <2>1. chain'["sse"] = chain["sse"] /\ UNCHANGED <<run, state, interrupt, cleanup>>
    BY <1>15 DEF DbHandlesTool, TypeOK, Chains, Subscribers
  <2> QED
    BY <2>1, <1>a DEF SpokenOK, Silent, Unspoken
<1>16. CASE DbEndsText
  <2>1. chain'["sse"] = chain["sse"] /\ UNCHANGED <<run, state, interrupt, cleanup>>
    BY <1>16 DEF DbEndsText, TypeOK, Chains, Subscribers
  <2> QED
    BY <2>1, <1>a DEF SpokenOK, Silent, Unspoken
<1>17. CASE CleanupRepair
  BY <1>17, <1>a DEF CleanupRepair, SpokenOK, Silent, Unspoken
<1>18. CASE CleanupAnnounce
  <2>1. chain'["sse"] # <<>>
    <3>1. chain'["sse"] = Append(chain["sse"], "ended") /\ chain["sse"] \in Seq(BusEvents)
      BY <1>18, BroadcastDoes DEF CleanupAnnounce, TypeOK, Chains, Subscribers
    <3>2. \A q \in Seq(BusEvents) : Append(q, "ended") # <<>>
      <4>1. ASSUME NEW q \in Seq(BusEvents)
            PROVE  Len(Append(q, "ended")) = Len(q) + 1 /\ Len(q) \in Nat
        OBVIOUS
      <4>2. Len(<<>>) = 0
        OBVIOUS
      <4> QED
        BY <4>1, <4>2
    <3> QED
      BY <3>1, <3>2, Zenon
  <2> QED
    BY <2>1, <1>18, <1>a DEF CleanupAnnounce, SpokenOK, Silent, Unspoken
<1>19. CASE Close
  <2>1. cleanup = "drain" /\ chain["sse"] = <<>> /\ interrupt' = interrupt
    BY <1>19 DEF Close, ChainDone, Subscribers
  <2>2. /\ run'.event = run.event /\ state'.by = state.by /\ state'.failed = state.failed
        /\ run.pc = "finish" /\ run'.pc = "done"
    BY <1>19 DEF Close, RunDone, TypeOK, RunOK, RunRecords, States, Over
  <2> QED
    BY <2>1, <2>2, <1>19, <1>a DEF Close, SpokenOK, Silent, Unspoken, Over
<1>20. CASE CleanupTimesOut
  <2>1. /\ run'.event = run.event /\ state'.by = state.by /\ state'.failed = state.failed
        /\ state'.raised = TRUE /\ run.pc = "finish" /\ run'.pc = "done"
        /\ interrupt' = interrupt /\ cleanup' = "done"
    BY <1>20 DEF CleanupTimesOut, RunDone, TypeOK, RunOK, RunRecords, States, Over
  <2> QED
    BY <2>1, <1>a DEF SpokenOK, Silent, Unspoken, Over
<1>21. CASE StreamStep \/ DbBeginsText \/ CallerLeaves \/ Cancel
            \/ UNCHANGED engineVars
  <2>1. UNCHANGED <<run, state, interrupt, cleanup, chain>>
    BY <1>21 DEF StreamStep, Pump, GraceEnds, StreamEnds, DbBeginsText, CallerLeaves, Cancel,
       engineVars
  <2> QED
    BY <2>1, <1>a DEF SpokenOK, Silent, Unspoken
<1> QED
  BY <1>1, <1>2, <1>3, <1>4, <1>5, <1>6, <1>7, <1>8, <1>9, <1>10, <1>11,
     <1>12, <1>13, <1>14, <1>15, <1>16, <1>17, <1>18, <1>19, <1>20, <1>21
  DEF EngineNext, RunStep, BusStep, CleanupStep, StreamStep

\* The run does not come back, and only the cleanup ends it.
LEMMA RunEnds ==
    ASSUME TypeOK, RunOK, [EngineNext]_engineVars
    PROVE  /\ run.pc = "done" => UNCHANGED <<run, state>>
           /\ run.pc # "done" /\ run'.pc = "done" => Close \/ CleanupTimesOut
<1>1. CASE run.pc = "done"
  BY <1>1 DEF EngineNext, RunStep, BusStep, CleanupStep, StreamStep, StartTurn, StopAtEvent,
     HandleModelToken, HandleTool, HandleModelStepFinished, Dispatch, HandleTurnFailed,
     HandleTurnCompleted, EmitInterrupts, AttemptRecovery, BarrierSse, BarrierDb, Store, Runs,
     RunCancelled, SseHandles, DbHandlesTool, DbBeginsText, DbEndsText, CleanupRepair,
     CleanupAnnounce, Close, CleanupTimesOut, Pump, GraceEnds, StreamEnds, CallerLeaves, Cancel,
     engineVars, RunOK
<1>2. CASE RunStep \/ RunCancelled
  <2>1. run'.pc # "done"
    <3>1. CASE StartTurn
      BY <3>1 DEF StartTurn, Runs, RunGoto, Fail, Finish, TypeOK, RunRecords
    <3>2. CASE StopAtEvent
      BY <3>2 DEF StopAtEvent, Runs, RunGoto, TypeOK, RunRecords
    <3>3. CASE HandleModelToken
      BY <3>3 DEF HandleModelToken, Dispatch, Runs, TypeOK, RunRecords
    <3>4. CASE HandleTool
      BY <3>4 DEF HandleTool, Dispatch, Runs, TypeOK, RunRecords
    <3>5. CASE HandleModelStepFinished
      BY <3>5 DEF HandleModelStepFinished, Dispatch, Runs, TypeOK, RunRecords
    <3>6. CASE HandleTurnFailed
      BY <3>6 DEF HandleTurnFailed, Runs, RunGoto, Fail, Finish, TypeOK, RunRecords
    <3>7. CASE HandleTurnCompleted
      BY <3>7, ZenonT(60)
      DEF HandleTurnCompleted, Runs, RunGoto, Fail, Finish, TypeOK, RunRecords
    <3>8. CASE EmitInterrupts
      BY <3>8 DEF EmitInterrupts, Runs, RunGoto, Fail, Finish, TypeOK, RunRecords
    <3>9. CASE AttemptRecovery
      BY <3>9 DEF AttemptRecovery, Runs, RunGoto, Finish, TypeOK, RunRecords
    <3>10. CASE BarrierSse
      BY <3>10 DEF BarrierSse, Runs, RunGoto, TypeOK, RunRecords
    <3>11. CASE BarrierDb
      BY <3>11, BarrierDbDoes DEF RunGoto, Finish, TypeOK, RunRecords
    <3>12. CASE Store
      BY <3>12, StoreDoes DEF RunGoto, Fails, Finish, TypeOK, RunRecords
    <3>13. CASE RunCancelled
      BY <3>13, SMTT(30) DEF RunCancelled, Finish, TypeOK, RunRecords
    <3> QED
      BY <1>2, <3>1, <3>2, <3>3, <3>4, <3>5, <3>6, <3>7, <3>8, <3>9, <3>10, <3>11,
         <3>12, <3>13 DEF RunStep
  <2>2. run.pc # "done"
    BY <1>2 DEF RunStep, StartTurn, StopAtEvent, HandleModelToken, HandleTool,
       HandleModelStepFinished, Dispatch, HandleTurnFailed, HandleTurnCompleted, EmitInterrupts,
       AttemptRecovery, BarrierSse, BarrierDb, Store, Runs, RunCancelled
  <2> QED
    BY <2>1, <2>2
<1>3. CASE ~(RunStep \/ RunCancelled \/ Close \/ CleanupTimesOut)
  BY <1>3 DEF EngineNext, BusStep, CleanupStep, StreamStep, SseHandles, DbHandlesTool,
     DbBeginsText, DbEndsText, CleanupRepair, CleanupAnnounce, Pump, GraceEnds, StreamEnds,
     CallerLeaves, Cancel, engineVars
<1> QED
  BY <1>1, <1>2, <1>3

\* Only the cleanup sends the sentinel.
LEMMA OneSentinel ==
    ASSUME TypeOK, RunOK, ChainOK, [EngineNext]_engineVars, ~Close, ~CleanupTimesOut
    PROVE  Has(out', "end") => Has(out, "end")
<1>a. out \in Seq(Frames)
  BY DEF TypeOK
<1>1. CASE BarrierSse
  BY <1>1, <1>a, AppendHas DEF BarrierSse, Frames
<1>2. CASE BarrierDb
  <2>1. out' = out \/ out' = Append(out, "pending")
    BY <1>2, BarrierDbDoes
  <2>2. Has(Append(out, "pending"), "end") => Has(out, "end")
    BY <1>a, AppendHas DEF Frames
  <2> QED
    BY <2>1, <2>2, Zenon
<1>3. CASE SseHandles
  <2> DEFINE h == Head(chain["sse"])
  <2>1. h \in {"token", "tool", "ended"}
    BY <1>3, HeadOfSse DEF SseHandles
  <2>2. CASE h # "ended"
    <3>1. out' = Append(out, h) /\ h \in Frames
      BY <1>3, <2>1, <2>2, <1>a, Appends DEF SseHandles, Frames
    <3> QED
      BY <3>1, <2>1, <1>a, AppendHas
  <2>3. CASE h = "ended"
    <3>1. out' = out \o EndedFrames
      BY <1>3, <2>3 DEF SseHandles
    <3>2. Append(out, "error") \in Seq(Frames)
      BY <1>a DEF Frames
    <3>3. /\ Has(Append(out, "error"), "end") => Has(out, "end")
          /\ Has(Append(out, "done"), "end") => Has(out, "end")
          /\ Has(Append(Append(out, "error"), "done"), "end") => Has(Append(out, "error"), "end")
      <4>1. "error" \in Frames /\ "done" \in Frames
        BY DEF Frames
      <4> QED
        BY <1>a, <3>2, <4>1, AppendHas, ZenonT(60)
    <3> QED
      BY <3>1, <3>3, <1>a, EndedFramesAre, Zenon
  <2> QED
    BY <2>2, <2>3
<1>4. CASE ~(BarrierSse \/ BarrierDb \/ SseHandles)
  <2>1. out' = out
    BY <1>4 DEF EngineNext, RunStep, BusStep, CleanupStep, StreamStep, StartTurn, StopAtEvent,
       HandleModelToken, HandleTool, HandleModelStepFinished, Dispatch, HandleTurnFailed,
       HandleTurnCompleted, EmitInterrupts, AttemptRecovery, Store, RunCancelled, DbHandlesTool,
       DbBeginsText, DbEndsText, CleanupRepair, CleanupAnnounce, Pump, GraceEnds, StreamEnds,
       CallerLeaves, Cancel, engineVars
  <2> QED
    BY <2>1
<1> QED
  BY <1>1, <1>2, <1>3, <1>4

\* Nothing is left to do for the bus when the cleanup has closed it.
LEMMA BusRests ==
    ASSUME TypeOK, RunOK, CanvasOK, ChatOK, run.pc = "done", chain["sse"] = <<>>,
           chain["db"] = <<>>, [EngineNext]_engineVars
    PROVE  UNCHANGED <<out, chain>>
<1>1. ~writing
  <2>1. Len(<<>>) = 0
    OBVIOUS
  <2> QED
    BY <2>1 DEF CanvasOK, ChatOK, TypeOK
<1> QED
  BY <1>1 DEF EngineNext, RunStep, BusStep, CleanupStep, StreamStep, StartTurn, StopAtEvent,
     HandleModelToken, HandleTool, HandleModelStepFinished, Dispatch, HandleTurnFailed,
     HandleTurnCompleted, EmitInterrupts, AttemptRecovery, BarrierSse, BarrierDb, Store, Runs,
     RunCancelled, SseHandles, DbHandlesTool, DbBeginsText, DbEndsText, CleanupRepair,
     CleanupAnnounce, Close, CleanupTimesOut, Pump, GraceEnds, StreamEnds, CallerLeaves, Cancel,
     engineVars, RunOK, Over

LEMMA EndStep ==
    ASSUME TypeOK, TypeOK', RunOK, ChainOK, EndOK, CanvasOK, ChatOK, [EngineNext]_engineVars
    PROVE  EndOK'
<1>1. CASE Close
  <2>1. /\ chain'["sse"] = <<>> /\ chain'["db"] = <<>> /\ out' = Append(out, "end")
        /\ run.pc # "done" /\ out \in Seq(Frames)
    BY <1>1 DEF Close, ChainDone, Subscribers, RunOK, TypeOK, Over
  <2>2. run'.pc = "done"
    BY <1>1 DEF Close, RunDone, TypeOK, RunRecords
  <2>3. ~Has(out, "end")
    BY <2>1 DEF EndOK, Seen
  <2>4. \A i \in 1..Len(out') : out'[i] = "end" => i = Len(out')
    <3>1. Len(out) \in Nat /\ Len(Append(out, "end")) = Len(out) + 1
      BY <2>1
    <3>2. \A i \in 1..Len(out) : Append(out, "end")[i] = out[i]
      BY <2>1
    <3> QED
      BY <2>1, <2>3, <3>1, <3>2 DEF Has
  <2> QED
    BY <2>1, <2>2, <2>4 DEF EndOK
<1>2. CASE CleanupTimesOut
  <2>1. run'.pc = "done" /\ state'.raised
    BY <1>2 DEF CleanupTimesOut, RunDone, TypeOK, RunRecords, States
  <2> QED
    BY <2>1 DEF EndOK
<1>3. CASE ~Close /\ ~CleanupTimesOut
  <2>1. CASE run.pc # "done"
    <3>1. run'.pc # "done" /\ ~Has(out', "end")
      BY <1>3, <2>1, RunEnds, OneSentinel DEF EndOK, Seen
    <3> QED
      BY <3>1 DEF EndOK, Seen, Has
  <2>2. CASE run.pc = "done" /\ state.raised
    BY <2>2, RunEnds DEF EndOK
  <2>3. CASE run.pc = "done" /\ ~state.raised
    <3>1. UNCHANGED <<run, state, out, chain>>
      BY <2>3, RunEnds, BusRests, SMTT(30) DEF EndOK
    <3> QED
      BY <3>1, <2>3 DEF EndOK, Seen, Has
  <2> QED
    BY <2>1, <2>2, <2>3
<1> QED
  BY <1>1, <1>2, <1>3

LEMMA ReadStep ==
    ASSUME TypeOK, TypeOK', RunOK, ChainOK, EndOK, ReadOK, [EngineNext]_engineVars
    PROVE  ReadOK'
<1>1. Grows(out, out') /\ Len(out) \in Nat /\ Len(out') \in Nat /\ read \in Nat
  BY OutGrows DEF TypeOK
<1>2. CASE Pump
  <2>1. CASE told' = "cancelled"
    BY <2>1, <1>2 DEF Pump, Leave, ReadOK
  <2>2. CASE ~cancelEvent /\ read < Len(out) /\ out[read + 1] = "end" /\ Leave
    <3>1. run.pc = "done"
      BY <2>2, <1>1 DEF EndOK, Seen, Has
    <3> QED
      BY <2>2, <3>1, <1>2 DEF Pump, Leave, ReadOK
  <2>3. CASE UNCHANGED stream
    BY <2>3, <1>2 DEF Pump, ReadOK
  <2> QED
    BY <2>1, <2>2, <2>3, <1>2 DEF Pump
<1>3. CASE CallerLeaves
  BY <1>3 DEF CallerLeaves, Leave, ReadOK
<1>4. CASE GraceEnds \/ Cancel
  BY <1>4 DEF GraceEnds, Cancel, ReadOK
<1>5. CASE StreamEnds
  BY <1>5 DEF StreamEnds, ReadOK
<1>6. CASE UNCHANGED streamVars
  <2>1. stream = "ended" => UNCHANGED <<run, state>>
    BY RunEnds DEF ReadOK
  <2>2. read < Len(out) => read < Len(out') /\ out'[read + 1] = out[read + 1]
    BY <1>1 DEF Grows
  <2> QED
    BY <2>1, <2>2, <1>6 DEF ReadOK, streamVars
<1> QED
  BY <1>2, <1>3, <1>4, <1>5, <1>6
  DEF EngineNext, RunStep, BusStep, CleanupStep, StreamStep, StartTurn, StopAtEvent,
     HandleModelToken, HandleTool, HandleModelStepFinished, Dispatch, HandleTurnFailed,
     HandleTurnCompleted, EmitInterrupts, AttemptRecovery, BarrierSse, BarrierDb, Store,
     RunCancelled, SseHandles, DbHandlesTool, DbBeginsText, DbEndsText, CleanupRepair,
     CleanupAnnounce, Close, CleanupTimesOut, engineVars, streamVars

-----------------------------------------------------------------------------
(* The answer *)

\* What happens to the chain of the subscriber that stores.
LEMMA TailHas ==
    ASSUME NEW S, NEW q \in Seq(S), q # <<>>, NEW f
    PROVE  Has(q, f) <=> Head(q) = f \/ Has(Tail(q), f)
<1>1. /\ Len(q) \in Nat /\ Len(q) > 0 /\ Head(q) = q[1]
      /\ Tail(q) \in Seq(S) /\ Len(Tail(q)) = Len(q) - 1
      /\ \A i \in 1..Len(Tail(q)) : Tail(q)[i] = q[i + 1]
  BY HeadIsFirst
<1> DEFINE r == Tail(q)
<1>2. /\ Len(r) = Len(q) - 1 /\ \A i \in 1..Len(r) : r[i] = q[i + 1]
  BY <1>1
<1> HIDE DEF r
<1>3. ASSUME Has(q, f)
      PROVE  q[1] = f \/ Has(r, f)
  <2>1. PICK i \in 1..Len(q) : q[i] = f
    BY <1>3 DEF Has
  <2>2. CASE i = 1
    BY <2>1, <2>2
  <2>3. CASE i # 1
    <3>1. i - 1 \in 1..Len(r) /\ r[i - 1] = q[(i - 1) + 1] /\ (i - 1) + 1 = i
      BY <2>1, <2>3, <1>1, <1>2
    <3> QED
      BY <2>1, <3>1 DEF Has
  <2> QED
    BY <2>2, <2>3
<1>4. Has(r, f) => Has(q, f)
  BY <1>1, <1>2 DEF Has
<1>5. q[1] = f => Has(q, f)
  BY <1>1 DEF Has
<1> QED
  BY <1>1, <1>3, <1>4, <1>5 DEF r

LEMMA FirstStays ==
    ASSUME NEW S, NEW q \in Seq(S), NEW x \in S, Len(q) > 0
    PROVE  Len(Append(q, x)) > 0 /\ Append(q, x)[1] = q[1]
  OBVIOUS

LEMMA EmptyHasNone ==
    ASSUME NEW f
    PROVE  ~Has(<<>>, f)
  BY DEF Has

\* On the canvas no chain has an answer.
LEMMA CanvasQueue ==
    ASSUME TypeOK, CanvasOK, surface = "canvas", [EngineNext]_engineVars
    PROVE  ~Has(chain'["db"], "text")
<1>a. chain \in Chains /\ chain["db"] \in Seq(BusEvents) /\ ~Has(chain["db"], "text")
  BY DEF TypeOK, Chains, Subscribers, CanvasOK
<1>b. ~Has(Append(chain["db"], "tool"), "text")
  BY <1>a, AppendHas DEF BusEvents
<1>1. CASE HandleModelToken \/ HandleTool \/ AttemptRecovery \/ CleanupAnnounce
  <2>1. \/ chain' = chain \/ Broadcast("token") \/ Broadcast("tool") \/ Broadcast("ended")
    BY <1>1 DEF HandleModelToken, HandleTool, AttemptRecovery, CleanupAnnounce
  <2> QED
    BY <2>1, <1>a, <1>b, BroadcastDoes
<1>2. CASE HandleModelStepFinished
  <2>1. Broadcast("text") \/ BroadcastBoth("text", "token")
    BY <1>2 DEF HandleModelStepFinished
  <2> QED
    BY <2>1, <1>a, BroadcastDoes, BroadcastBothDoes
<1>3. CASE RunCancelled \/ CleanupTimesOut
  <2>1. chain'["db"] = chain["db"] \/ chain'["db"] = <<>>
    BY <1>3 DEF RunCancelled, CleanupTimesOut, Subscribers
  <2> QED
    BY <2>1, <1>a, EmptyHasNone
<1>4. CASE SseHandles
  <2>1. chain'["db"] = chain["db"]
    BY <1>4, <1>a DEF SseHandles, Chains, Subscribers
  <2> QED
    BY <2>1, <1>a
<1>5. CASE DbHandlesTool
  <2>1. chain["db"] # <<>> /\ chain'["db"] = Tail(chain["db"])
    BY <1>5, <1>a DEF DbHandlesTool, Chains, Subscribers
  <2>2. ~Has(Tail(chain["db"]), "text")
    BY <2>1, <1>a, TailHas
  <2> QED
    BY <2>1, <2>2
<1>6. CASE DbEndsText
  BY <1>6 DEF DbEndsText, CanvasOK
<1>7. CASE UNCHANGED chain
  BY <1>7, <1>a
<1> QED
  BY <1>1, <1>2, <1>3, <1>4, <1>5, <1>6, <1>7
  DEF EngineNext, RunStep, BusStep, CleanupStep, StreamStep, StartTurn, StopAtEvent,
     HandleTurnFailed, HandleTurnCompleted, EmitInterrupts, BarrierSse, BarrierDb, Store,
     DbBeginsText, CleanupRepair, Close, Pump, GraceEnds, StreamEnds, CallerLeaves, Cancel,
     engineVars

\* On the canvas no tool publishes a file.
LEMMA NothingPublished ==
    ASSUME TypeOK, RunOK, surface = "canvas", [EngineNext]_engineVars
    PROVE  state'.published = state.published
<1>1. CASE StartTurn
  BY <1>1, ZenonT(60) DEF StartTurn, Fail, Finish, TypeOK, States
<1>2. CASE HandleTool
  BY <1>2 DEF HandleTool, TypeOK, States
<1>3. CASE HandleTurnFailed \/ HandleTurnCompleted
  BY <1>3, ZenonT(60) DEF HandleTurnFailed, HandleTurnCompleted, Fail, Finish, TypeOK, States
<1>4. CASE EmitInterrupts
  BY <1>4, ZenonT(60) DEF EmitInterrupts, Fail, Finish, TypeOK, States
<1>5. CASE BarrierDb
  BY <1>5, BarrierDbDoes DEF Finish, TypeOK, States
<1>6. CASE Store
  BY <1>6, StoreDoes DEF Fails, Finish, TypeOK, States
<1>7. CASE \/ StopAtEvent \/ HandleModelToken \/ HandleModelStepFinished \/ AttemptRecovery
           \/ RunCancelled
  BY <1>7 DEF StopAtEvent, HandleModelToken, HandleModelStepFinished, AttemptRecovery,
     RunCancelled, Finish, TypeOK, States
<1>8. CASE Close \/ CleanupTimesOut
  BY <1>8 DEF Close, CleanupTimesOut, RunDone, TypeOK, States
<1>9. CASE \/ BusStep \/ StreamStep \/ BarrierSse \/ CleanupRepair \/ CleanupAnnounce
           \/ CallerLeaves \/ Cancel \/ UNCHANGED engineVars
  BY <1>9 DEF BusStep, SseHandles, DbHandlesTool, DbBeginsText, DbEndsText, StreamStep, Pump,
     GraceEnds, StreamEnds, BarrierSse, CleanupRepair, CleanupAnnounce, CallerLeaves, Cancel,
     engineVars
<1> QED
  BY <1>1, <1>2, <1>3, <1>4, <1>5, <1>6, <1>7, <1>8, <1>9
  DEF EngineNext, RunStep, CleanupStep

LEMMA CanvasStep ==
    ASSUME TypeOK, RunOK, CanvasOK, surface = "canvas", [EngineNext]_engineVars
    PROVE  CanvasOK'
<1>a. ~Has(chain'["db"], "text") /\ ~state.published /\ ~state'.published
  BY CanvasQueue, NothingPublished DEF CanvasOK
<1>1. CASE StartTurn
  <2>1. ~state.failed
    BY <1>1 DEF StartTurn, Runs, RunOK, Over
  <2>2. run'.pc \in {"drive", "bar_sse"} /\ (state'.by = state.by \/ state'.by = "failed")
    BY <2>1, <1>1 DEF StartTurn, RunGoto, Fail, TypeOK, RunRecords, States
  <2> QED
    BY <2>2, <1>1, <1>a DEF StartTurn, storeVars, CanvasOK
<1>2. CASE StopAtEvent
  BY <1>2, <1>a DEF StopAtEvent, Runs, RunGoto, Interrupts, storeVars, TypeOK, RunOK,
     CanvasOK, RunRecords, States, Recorders
<1>3. CASE HandleModelToken
  BY <1>3, <1>a DEF HandleModelToken, Dispatch, Runs, storeVars, TypeOK, RunOK,
     CanvasOK, RunRecords, States, Recorders
<1>4. CASE HandleTool
  BY <1>4, <1>a DEF HandleTool, Dispatch, Runs, Interrupts, storeVars, TypeOK, RunOK,
     CanvasOK, RunRecords, States, Recorders
<1>5. CASE HandleModelStepFinished
  BY <1>5, <1>a, ZenonT(60) DEF HandleModelStepFinished, Dispatch, Runs, Interrupts, storeVars,
     TypeOK, RunOK, CanvasOK, RunRecords, States, Recorders
<1>6. CASE HandleTurnFailed
  <2>1. ~state.failed
    BY <1>6 DEF HandleTurnFailed, Runs, RunOK, Over
  <2>2. run'.pc = "bar_sse" /\ state'.by = "failed"
    BY <2>1, <1>6 DEF HandleTurnFailed, RunGoto, Fail, TypeOK, RunRecords, States
  <2> QED
    BY <2>2, <1>6, <1>a DEF HandleTurnFailed, storeVars, CanvasOK
<1>7. CASE HandleTurnCompleted
  BY <1>7, <1>a, ZenonT(60) DEF HandleTurnCompleted, Runs, RunGoto, Fail, Finish, Interrupts,
     storeVars, TypeOK, RunOK, CanvasOK, RunRecords, States, Recorders
<1>8. CASE EmitInterrupts
  BY <1>8, <1>a, ZenonT(60) DEF EmitInterrupts, Runs, RunGoto, Fail, Finish, storeVars, TypeOK,
     RunOK, CanvasOK, RunRecords, States, Recorders
<1>9. CASE AttemptRecovery
  BY <1>9, <1>a DEF AttemptRecovery, Runs, RunGoto, Finish, storeVars, TypeOK, RunOK,
     CanvasOK, RunRecords, States, Recorders
<1>10. CASE BarrierSse
  BY <1>10, <1>a DEF BarrierSse, Runs, RunGoto, storeVars, TypeOK, RunOK, CanvasOK,
     RunRecords, States, Recorders
<1>11. CASE BarrierDb
  <2>1. run.event # "suspended" /\ (run.event = "completed" => state.answered)
    BY <1>11 DEF BarrierDb, Runs, RunOK, CanvasOK
  <2>2. /\ run'.pc \in {"storing", "interrupts", "finish"}
        /\ run'.pc = "storing" => run'.event = "completed" /\ ~recorder.persisted
        /\ state'.by = "completed" => recorder.persisted \/ state.by = "completed"
    BY <2>1, <1>11, BarrierDbDoes DEF RunGoto, Finish, TypeOK, RunRecords, States
  <2> QED
    BY <2>2, <1>11, <1>a DEF BarrierDb, storeVars, CanvasOK
<1>12. CASE Store
  <2>1. run.event = "completed" /\ ~recorder.persisted /\ stored = 0
    BY <1>12 DEF Store, Runs, CanvasOK
  <2>2. UNCHANGED <<surface, interrupt, writing>>
    BY <1>12 DEF Store
  <2>3. CASE /\ stored' = (IF state.published THEN stored ELSE stored + 1)
             /\ recorder' = [recorder EXCEPT !.persisted = TRUE]
             /\ RunGoto("interrupts", "none")
    <3>1. stored' = 1 /\ recorder'.persisted = TRUE /\ run'.pc = "interrupts"
      BY <2>1, <2>3, <1>a DEF RunGoto, TypeOK, RunRecords, Recorders
    <3> QED
      BY <3>1, <2>2, <1>a DEF CanvasOK
  <2>4. CASE UNCHANGED <<stored, recorder>> /\ Fails
    <3>1. run'.pc = "bar_sse" /\ state'.by = "failed"
      BY <2>4 DEF Fails, RunGoto, TypeOK, RunRecords, States
    <3> QED
      BY <3>1, <2>2, <2>4, <1>a DEF CanvasOK
  <2> QED
    BY <2>1, <2>3, <2>4, <1>12, StoreDoes
<1>13. CASE RunCancelled
  BY <1>13, <1>a DEF RunCancelled, Finish, TypeOK, RunOK, CanvasOK, RunRecords, States, Recorders
<1>14. CASE SseHandles
  BY <1>14, <1>a DEF SseHandles, storeVars, TypeOK, RunOK, CanvasOK, RunRecords, States,
     Recorders
<1>15. CASE DbHandlesTool
  BY <1>15, <1>a DEF DbHandlesTool, storeVars, TypeOK, RunOK, CanvasOK, RunRecords,
     States, Recorders
<1>16. CASE DbBeginsText
  <2>1. Has(chain["db"], "text")
    BY <1>16, TailHas DEF DbBeginsText, TypeOK, Chains, Subscribers
  <2> QED
    BY <2>1 DEF CanvasOK
<1>17. CASE DbEndsText
  BY <1>17, <1>a DEF DbEndsText, storeVars, TypeOK, RunOK, CanvasOK, RunRecords, States,
     Recorders
<1>18. CASE CleanupAnnounce
  BY <1>18, <1>a DEF CleanupAnnounce, storeVars, TypeOK, RunOK, CanvasOK, RunRecords,
     States, Recorders
<1>19. CASE Close
  BY <1>19, <1>a DEF Close, RunDone, ChainDone, storeVars, TypeOK, RunOK, CanvasOK,
     RunRecords, States, Recorders
<1>20. CASE CleanupTimesOut
  BY <1>20, <1>a DEF CleanupTimesOut, RunDone, storeVars, TypeOK, RunOK, CanvasOK,
     RunRecords, States, Recorders
<1>21. CASE StreamStep \/ CleanupRepair \/ CallerLeaves \/ Cancel
            \/ UNCHANGED engineVars
  BY <1>21, <1>a DEF StreamStep, Pump, GraceEnds, StreamEnds, CleanupRepair,
     CallerLeaves, Cancel, engineVars, Leave, streamVars, storeVars, CanvasOK
<1> QED
  BY <1>1, <1>2, <1>3, <1>4, <1>5, <1>6, <1>7, <1>8, <1>9, <1>10, <1>11,
     <1>12, <1>13, <1>14, <1>15, <1>16, <1>17, <1>18, <1>19, <1>20, <1>21
  DEF EngineNext, RunStep, BusStep, CleanupStep, StreamStep

\* In the chat an answer leaves the chain only by being stored, or cut off.
LEMMA ChatStep ==
    ASSUME TypeOK, RunOK, ChatOK, surface = "chat", [EngineNext]_engineVars
    PROVE  ChatOK'
<1> DEFINE q == chain["db"]
           First(s) == Len(s) > 0 /\ s[1] = "text"
<1>a. /\ chain \in Chains /\ q \in Seq(BusEvents) /\ Len(q) \in Nat /\ stored \in Nat
      /\ writing => First(q)
      /\ state.text => stored > 0 \/ dbFailed \/ Has(q, "text")
  BY DEF TypeOK, Chains, Subscribers, ChatOK
<1>b. /\ Has(q, "text") => Has(Append(q, "tool"), "text") /\ Has(Append(q, "text"), "text")
      /\ Has(Append(q, "text"), "text")
  BY <1>a, AppendHas DEF BusEvents
<1>c. First(q) => First(Append(q, "tool")) /\ First(Append(q, "text"))
  BY <1>a, FirstStays DEF BusEvents
<1> HIDE DEF First
<1>1. CASE HandleModelToken \/ HandleTool \/ CleanupAnnounce \/ AttemptRecovery
  <2>1. chain' = chain \/ Broadcast("token") \/ Broadcast("tool") \/ Broadcast("ended")
    BY <1>1 DEF HandleModelToken, HandleTool, AttemptRecovery, CleanupAnnounce
  <2>2. chain'["db"] = q \/ chain'["db"] = Append(q, "tool")
    BY <2>1, <1>a, BroadcastDoes
  <2>3. state'.text = state.text /\ UNCHANGED <<surface, writing, stored, dbFailed>>
    BY <1>1 DEF HandleModelToken, HandleTool, AttemptRecovery, CleanupAnnounce, Dispatch, Finish,
       storeVars, TypeOK, States
  <2> QED
    BY <2>2, <2>3, <1>a, <1>b, <1>c DEF ChatOK, First
<1>2. CASE HandleModelStepFinished
  <2>1. Broadcast("text") \/ BroadcastBoth("text", "token")
    BY <1>2 DEF HandleModelStepFinished
  <2>2. chain'["db"] = Append(q, "text")
    BY <2>1, <1>a, BroadcastDoes, BroadcastBothDoes
  <2>3. UNCHANGED <<surface, writing, stored, dbFailed>>
    BY <1>2 DEF HandleModelStepFinished, Dispatch, storeVars
  <2> QED
    BY <2>2, <2>3, <1>a, <1>b, <1>c DEF ChatOK, First
<1>3. CASE DbHandlesTool
  <2>1. q # <<>> /\ Head(q) = "tool" /\ chain'["db"] = Tail(q)
    BY <1>3, <1>a DEF DbHandlesTool, Chains, Subscribers
  <2>2. q[1] = "tool"
    BY <2>1, <1>a, HeadIsFirst
  <2>3. ~writing
    BY <2>2, <1>a DEF First
  <2>4. Has(q, "text") => Has(Tail(q), "text")
    BY <2>1, <1>a, TailHas
  <2> QED
    BY <2>1, <2>3, <2>4, <1>3, <1>a DEF DbHandlesTool, ChatOK
<1>4. CASE DbBeginsText
  <2>1. q # <<>> /\ Head(q) = "text"
    BY <1>4 DEF DbBeginsText
  <2>2. First(q)
    BY <2>1, <1>a, HeadIsFirst DEF First
  <2> QED
    BY <2>2, <1>4, <1>a DEF DbBeginsText, ChatOK, First
<1>5. CASE DbEndsText
  BY <1>5, <1>a DEF DbEndsText, ChatOK
<1>6. CASE SseHandles
  <2>1. chain'["db"] = q
    BY <1>6, <1>a DEF SseHandles, Chains, Subscribers
  <2> QED
    BY <2>1, <1>6, <1>a DEF SseHandles, storeVars, ChatOK, First
<1>7. CASE RunCancelled
  <2>1. chain'["db"] = q
    BY <1>7 DEF RunCancelled, Awaited, AwaitsDb, Subscribers
  <2>2. state'.text = state.text /\ UNCHANGED <<surface, writing, stored>> /\ (dbFailed => dbFailed')
    BY <1>7 DEF RunCancelled, Finish, TypeOK, States
  <2> QED
    BY <2>1, <2>2, <1>a DEF ChatOK, First
<1>8. CASE CleanupTimesOut
  <2>1. state'.text = state.text /\ UNCHANGED <<surface, stored>>
    BY <1>8 DEF CleanupTimesOut, RunDone, TypeOK, States
  <2>2. CASE cleanup = "drain"
    BY <2>1, <2>2, <1>8 DEF CleanupTimesOut, ChatOK
  <2>3. CASE cleanup = "repair"
    BY <2>1, <2>3, <1>8, <1>a DEF CleanupTimesOut, ChatOK, First
  <2> QED
    BY <2>2, <2>3, <1>8 DEF CleanupTimesOut
<1>9. CASE Store
  <2>1. state'.text = state.text
    BY <1>9, StoreDoes DEF Fails, Finish, TypeOK, States
  <2>2. /\ UNCHANGED <<surface, chain, writing>>
        /\ (stored' \in {stored, stored + 1} /\ dbFailed' = dbFailed) \/ dbFailed'
    BY <1>9 DEF Store
  <2> QED
    BY <2>1, <2>2, <1>a DEF ChatOK, First
<1>10. CASE BarrierDb
  <2>1. state'.text = state.text
    BY <1>10, BarrierDbDoes DEF Finish, TypeOK, States
  <2> QED
    BY <2>1, <1>10, <1>a DEF BarrierDb, storeVars, ChatOK, First
<1>11. CASE \/ StartTurn \/ StopAtEvent \/ HandleTurnFailed \/ HandleTurnCompleted
            \/ EmitInterrupts \/ BarrierSse \/ CleanupRepair \/ Close \/ StreamStep
            \/ CallerLeaves \/ Cancel \/ UNCHANGED engineVars
  <2>1. UNCHANGED <<surface, chain, writing, stored, dbFailed>>
    BY <1>11 DEF StartTurn, StopAtEvent, HandleTurnFailed, HandleTurnCompleted, EmitInterrupts,
       BarrierSse, CleanupRepair, Close, StreamStep, Pump, GraceEnds, StreamEnds, CallerLeaves,
       Cancel, storeVars, engineVars
  <2>2. state'.text = state.text
    BY <1>11 DEF StartTurn, StopAtEvent, HandleTurnFailed, HandleTurnCompleted, EmitInterrupts,
       BarrierSse, CleanupRepair, Close, RunDone, StreamStep, Pump, GraceEnds, StreamEnds,
       CallerLeaves, Cancel, Fail, Finish, engineVars, TypeOK, States
  <2> QED
    BY <2>1, <2>2, <1>a DEF ChatOK, First
<1> QED
  BY <1>1, <1>2, <1>3, <1>4, <1>5, <1>6, <1>7, <1>8, <1>9, <1>10, <1>11
  DEF EngineNext, RunStep, BusStep, CleanupStep

-----------------------------------------------------------------------------
(* Theorems *)

LEMMA InitInv ==
    ASSUME EngineInit
    PROVE  Inv
<1>1. out = <<>> /\ chain["sse"] = <<>> /\ chain["db"] = <<>>
  BY DEF EngineInit, Subscribers
<1>2. \A f : ~Has(<<>>, f)
  BY EmptyHasNone
<1>3. /\ run.pc = "start" /\ run.event = "none" /\ cleanup = "idle" /\ stream = "pump"
      /\ state.by = "failed" /\ ~state.failed /\ ~state.text /\ ~state.published /\ ~state.raised
      /\ recorder.persisted = FALSE /\ stored = 0 /\ ~writing /\ interrupt = "none"
  BY DEF EngineInit
<1>4. TypeOK
  <2>1. chain \in Chains /\ out \in Seq(Frames)
    BY DEF EngineInit, Chains, Subscribers
  <2>2. state \in States /\ run \in RunRecords /\ recorder \in Recorders
    BY DEF EngineInit, States, RunRecords, Recorders, Reasons, Pcs, Events
  <2> QED
    BY <2>1, <2>2 DEF EngineInit, TypeOK
<1>5. RunOK
  BY <1>3 DEF RunOK, Over
<1>6. FramesInOrder
  BY <1>1 DEF FramesInOrder
<1>7. ChainOK
  BY <1>1, <1>2, <1>3 DEF ChainOK, QueueOK, AfterErrorOK, AfterDoneOK, Seen
<1>8. SpokenOK
  BY <1>3 DEF SpokenOK, Over
<1>9. SentinelOK
  BY <1>1, <1>2, <1>3 DEF SentinelOK, EndOK, ReadOK, Seen
<1>10. CanvasOK /\ ChatOK
  BY <1>1, <1>2, <1>3, SMTT(30) DEF CanvasOK, ChatOK
<1> QED
  BY <1>4, <1>5, <1>6, <1>7, <1>8, <1>9, <1>10 DEF Inv

LEMMA SurfaceStays ==
    ASSUME [EngineNext]_engineVars
    PROVE  surface' = surface
  BY DEF EngineNext, RunStep, BusStep, CleanupStep, StreamStep, StartTurn, StopAtEvent,
     HandleModelToken, HandleTool, HandleModelStepFinished, Dispatch, HandleTurnFailed,
     HandleTurnCompleted, EmitInterrupts, AttemptRecovery, BarrierSse, BarrierDb, Store,
     RunCancelled, SseHandles, DbHandlesTool, DbBeginsText, DbEndsText, CleanupRepair,
     CleanupAnnounce, Close, CleanupTimesOut, Pump, GraceEnds, StreamEnds, CallerLeaves, Cancel,
     engineVars

LEMMA StepInv ==
    ASSUME Inv, [EngineNext]_engineVars
    PROVE  Inv'
<1> USE DEF Inv
<1>1. TypeOK'
  BY TypeStep
<1>2. RunOK'
  BY RunOKStep
<1>3. FramesInOrder'
  <2>1. Ordered(out)
    BY InOrder DEF TypeOK
  <2>2. Ordered(out') /\ out' \in Seq(Frames)
    BY <2>1, <1>1, FramesStep DEF TypeOK
  <2> QED
    BY <2>2 DEF FramesInOrder, Ordered
<1>4. ChainOK'
  BY QueueStep, AfterStep DEF ChainOK
<1>5. SpokenOK'
  BY <1>1, SpokenStep
<1>6. SentinelOK'
  BY <1>1, EndStep, ReadStep DEF SentinelOK
<1>7. CanvasOK'
  <2>1. CASE surface = "canvas"
    BY <2>1, CanvasStep
  <2>2. CASE surface # "canvas"
    BY <2>2, SurfaceStays DEF CanvasOK
  <2> QED
    BY <2>1, <2>2
<1>8. ChatOK'
  <2>1. CASE surface = "chat"
    BY <2>1, ChatStep
  <2>2. CASE surface # "chat"
    BY <2>2, SurfaceStays DEF ChatOK
  <2> QED
    BY <2>1, <2>2
<1> QED
  BY <1>1, <1>2, <1>3, <1>4, <1>5, <1>6, <1>7, <1>8

LEMMA InvHolds == EngineSpec => []Inv
  BY InitInv, StepInv, PTL DEF EngineSpec

\* Nothing but "done" follows the frame that reports a failure, and nothing follows
\* "done", although the bus sends tokens in tasks that the engine does not wait for
\* (TurnEventBus.barrier and broadcast, SseTurnSubscriber), for any number of events.
THEOREM FramesAreInOrder == EngineSpec => []FramesInOrder
  BY InvHolds, PTL DEF Inv

\* A stream that its caller has read to the end has told how the turn ended or that it
\* waits for the user, however run, cleanup, their timeouts and a cancel overlap
\* (TurnEngine.stream), but for the two ways of waiting that no subscriber speaks of: a
\* gate that is found after the loop, and a turn whose published files are stored as its
\* answer before it is suspended (finalize_published_deliverables).
THEOREM TheEndIsTold == EngineSpec => []StreamTellsEnd
<1>1. Inv => StreamTellsEnd
  <2> SUFFICES ASSUME Inv, stream = "ended", ~cut, told = "none",
                      ~Unspoken
               PROVE  \E i \in 1..read : out[i] \in {"done", "error", "pending"}
    BY DEF StreamTellsEnd
  <2> USE DEF Inv
  <2>1. run.pc = "done" /\ ~state.raised /\ ~cancelEvent /\ read < Len(out) /\ out[read + 1] = "end"
    BY DEF SentinelOK, ReadOK
  <2>2. read \in Nat /\ Len(out) \in Nat
    BY DEF TypeOK
  <2>3. read + 1 = Len(out)
    BY <2>1, <2>2 DEF SentinelOK, EndOK
  <2>4. state.by # "cancelled"
    BY <2>1 DEF RunOK
  <2>5. Spoken
    BY <2>1, <2>4 DEF SpokenOK, Silent, RunOK
  <2>6. PICK i \in 1..Len(out) : out[i] \in {"done", "error", "pending"}
    BY <2>5 DEF Spoken, Seen, Has
  <2>7. i # Len(out)
    BY <2>1, <2>3, <2>6
  <2>8. i \in 1..read
    BY <2>2, <2>3, <2>6, <2>7
  <2> QED
    BY <2>6, <2>8
<1> QED
  BY <1>1, InvHolds, PTL

\* The answer of a completed turn is stored when the turn is over, if no write failed
\* and none was cut off, by whichever of the recorder and the barrier comes first, also
\* where the barrier has stored the names of the turn's files in its place; and
\* on the canvas it is stored once (CanvasPersistenceSubscriber,
\* ChatPersistenceSubscriber, TurnAgentEventRecorder).
THEOREM AnswersAreStored == EngineSpec => []AnswerStored
<1>1. Inv => AnswerStored
  <2> SUFFICES ASSUME Inv, run.pc = "done", ~dbFailed, ~state.raised
               PROVE  /\ state.text /\ state.by = "completed" => stored > 0
                      /\ surface = "canvas" => stored <= 1
    BY DEF AnswerStored
  <2> USE DEF Inv
  <2>1. CASE surface = "canvas"
    BY <2>1 DEF CanvasOK
  <2>2. CASE surface = "chat"
    <3>1. ~Has(chain["db"], "text")
      BY EmptyHasNone DEF SentinelOK, EndOK
    <3> QED
      BY <3>1, <2>2 DEF ChatOK
  <2> QED
    BY <2>1, <2>2 DEF TypeOK
<1> QED
  BY <1>1, InvHolds, PTL

=============================================================================
