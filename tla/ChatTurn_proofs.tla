--------------------------- MODULE ChatTurn_proofs ---------------------------
(***************************************************************************)
(* For any number of messages, answers, aborts and starting processes, the *)
(* types of ChatTurn are kept and its lock is held only on behalf of an    *)
(* execution that has a lease and has not ended.                           *)
(***************************************************************************)
EXTENDS ChatTurn, TLAPS

\* The steps are strings, and none of the steps in which a request has not got the
\* lock, or has let go of it, is one of Holding.
LEMMA StepSets ==
    /\ Holding \subseteq ChatSteps
    /\ {"idle", "stale", "drop", "submit", "resuming", "acquire", "resolve", "signal",
        "refused", "done", "dead"} \subseteq ChatSteps
    /\ \A pc \in {"idle", "stale", "drop", "submit", "resuming", "acquire", "resolve",
                  "signal", "refused", "done", "dead"} : pc \notin Holding
    /\ {"spawn", "mark", "stream", "gated", "clear_active", "resume_clear", "resume_end",
        "fin_stale", "fin_drop", "gate", "peek", "force", "sig_peek", "sig_del", "active",
        "rel_shell", "rel_service", "clear_peek", "clear_del", "rel_replay"} \subseteq Holding
  BY DEF Holding, Running, Finalizing, Releasing, ChatSteps

\* The local of an actor after a step that only moves it on.
LEMMA GotoTypes ==
    ASSUME ChatTypeOK, NEW a \in Actors, NEW from, NEW to \in ChatSteps, ChatGoto(a, from, to)
    PROVE  /\ chat' \in [Actors -> [pc : ChatSteps, turn : MaybeTurn, seen : MaybeTurn]]
           /\ chat'[a].pc = to /\ chat'[a].turn = chat[a].turn /\ chat[a].pc = from
           /\ \A b \in Actors : b # a => chat'[b] = chat[b]
  BY DEF ChatTypeOK, ChatGoto, MaybeTurn

\* The same for a step that keeps what it has read.
LEMMA LookTypes ==
    ASSUME ChatTypeOK, NEW a \in Actors, NEW from, NEW what \in MaybeTurn, NEW to \in ChatSteps,
           Look(a, from, what, to)
    PROVE  /\ chat' \in [Actors -> [pc : ChatSteps, turn : MaybeTurn, seen : MaybeTurn]]
           /\ chat'[a].pc = to /\ chat'[a].turn = chat[a].turn /\ chat[a].pc = from
           /\ \A b \in Actors : b # a => chat'[b] = chat[b]
  BY DEF ChatTypeOK, Look, MaybeTurn

\* The inductive invariant: the types are needed to know what a step leaves alone.
Kept == ChatTypeOK /\ LockHasExecution

\* Whoever moves, the lock is still held for an execution if the actor was not the one
\* it was held for, or still is.
LEMMA LockStep ==
    ASSUME Kept, NEW a \in Actors,
           \A b \in Actors : b # a => chat'[b] = chat[b],
           leased \ {a} \subseteq leased',
           turnLock' \in {turnLock, NoTurn},
           \/ a \notin leased
           \/ chat[a].pc \notin Holding \cup {"dead"}
           \/ turnLock' # chat[a].turn
           \/ /\ a \in leased' /\ chat'[a].turn = chat[a].turn
              /\ chat'[a].pc \in Holding \cup {"dead"}
    PROVE  LockHasExecution'
  <1> SUFFICES ASSUME turnLock' # NoTurn
               PROVE  \E e \in leased' : /\ chat'[e].turn = turnLock'
                                         /\ chat'[e].pc \in Holding \cup {"dead"}
    BY DEF LockHasExecution
  <1>1. turnLock' = turnLock
    OBVIOUS
  <1>2. PICK e \in leased : chat[e].turn = turnLock /\ chat[e].pc \in Holding \cup {"dead"}
    BY <1>1 DEF Kept, LockHasExecution
  <1>3. e \in Actors
    BY DEF Kept, ChatTypeOK, Actors
  <1>4. CASE e = a
    BY <1>1, <1>2, <1>4
  <1>5. CASE e # a
    BY <1>1, <1>2, <1>3, <1>5
  <1> QED BY <1>4, <1>5

\* A step that moves an actor on, and at most takes the lock away.
LEMMA GotoKeeps ==
    ASSUME Kept, NEW a \in Actors, NEW from, NEW to \in ChatSteps, ChatGoto(a, from, to),
           a \in Executions /\ from \in Holding \cup {"dead"} => to \in Holding \cup {"dead"},
           turnLock' \in {turnLock, NoTurn}, leased' = leased,
           signal' \in MaybeTurn, gate' \in Gates, activeTurn' \in MaybeTurn,
           cancelled' \subseteq Executions
    PROVE  Kept'
  <1>1. ChatTypeOK'
    BY GotoTypes DEF Kept, ChatTypeOK, MaybeTurn
  <1>2. LockHasExecution'
    BY GotoTypes, LockStep DEF Kept, ChatTypeOK
  <1> QED BY <1>1, <1>2 DEF Kept

\* The same for a step that reads.
LEMMA LookKeeps ==
    ASSUME Kept, NEW a \in Actors, NEW from, NEW what \in MaybeTurn, NEW to \in ChatSteps,
           Look(a, from, what, to),
           a \in Executions /\ from \in Holding \cup {"dead"} => to \in Holding \cup {"dead"},
           UNCHANGED <<turnLock, signal, gate, activeTurn, cancelled, leased>>
    PROVE  Kept'
  <1>1. ChatTypeOK'
    BY LookTypes DEF Kept, ChatTypeOK, MaybeTurn
  <1>2. LockHasExecution'
    BY LookTypes, LockStep DEF Kept, ChatTypeOK
  <1> QED BY <1>1, <1>2 DEF Kept

\* A step that chooses the turn an actor is about, which it does before it has the lock.
LEMMA TurnKeeps ==
    ASSUME Kept, NEW a \in Actors, NEW t \in MaybeTurn, NEW seen \in MaybeTurn,
           NEW to \in ChatSteps,
           a \in Executions => chat[a].pc \notin Holding \cup {"dead"},
           chat' = [chat EXCEPT ![a] = [pc |-> to, turn |-> t, seen |-> seen]],
           UNCHANGED <<turnLock, signal, gate, activeTurn, cancelled, leased>>
    PROVE  Kept'
  <1>1. ChatTypeOK'
    BY DEF Kept, ChatTypeOK
  <1>2. \A b \in Actors : b # a => chat'[b] = chat[b]
    BY DEF Kept, ChatTypeOK
  <1>3. LockHasExecution'
    BY <1>2, LockStep DEF Kept, ChatTypeOK
  <1> QED BY <1>1, <1>3 DEF Kept

\* The same, as a step writes it that leaves what was read alone.
LEMMA ChooseKeeps ==
    ASSUME Kept, NEW a \in Actors, NEW t \in MaybeTurn, NEW to \in ChatSteps,
           a \in Executions => chat[a].pc \notin Holding \cup {"dead"},
           chat' = [chat EXCEPT ![a].pc = to, ![a].turn = t],
           UNCHANGED <<turnLock, signal, gate, activeTurn, cancelled, leased>>
    PROVE  Kept'
  <1>1. ChatTypeOK'
    BY DEF Kept, ChatTypeOK
  <1>2. \A b \in Actors : b # a => chat'[b] = chat[b]
    BY DEF Kept, ChatTypeOK
  <1>3. LockHasExecution'
    BY <1>2, LockStep DEF Kept, ChatTypeOK
  <1> QED BY <1>1, <1>3 DEF Kept

\* A step of something that runs beside the stream and moves nobody.
LEMMA WatchKeeps ==
    ASSUME Kept, cancelled' \subseteq Executions, signal' \in MaybeTurn, gate' \in Gates,
           UNCHANGED <<turnLock, activeTurn, chat, leased>>
    PROVE  Kept'
  BY DEF Kept, ChatTypeOK, LockHasExecution

-----------------------------------------------------------------------------
\* The steps that several callers share

\* TurnCancelSignal.clear, whoever calls it.
LEMMA SignalStep ==
    ASSUME Kept, NEW a \in Actors, NEW peek \in Holding, NEW del \in Holding,
           NEW to \in Holding, ClearSignal(a, peek, del, to)
    PROVE  Kept'
  <1>1. CASE Look(a, peek, signal, del)
             /\ UNCHANGED <<turnLock, signal, gate, activeTurn, cancelled, leased>>
    BY <1>1, LookKeeps, StepSets DEF Kept, ChatTypeOK
  <1>2. CASE /\ ChatGoto(a, del, to)
             /\ signal' = IF chat[a].seen = chat[a].turn THEN NoTurn ELSE signal
             /\ UNCHANGED <<turnLock, gate, activeTurn, cancelled, leased>>
    BY <1>2, GotoKeeps, StepSets DEF Kept, ChatTypeOK, MaybeTurn
  <1> QED BY <1>1, <1>2 DEF ClearSignal

\* force_cancel only takes locks away.
LEMMA ForceStep ==
    ASSUME Kept, NEW a \in Actors, NEW to \in ChatSteps,
           a \in Executions => to \in Holding, ForceCancel(a, to)
    PROVE  Kept'
  <1>1. CASE Look(a, "peek", turnLock, "force")
             /\ UNCHANGED <<turnLock, signal, gate, activeTurn, cancelled, leased>>
    BY <1>1, LookKeeps, StepSets DEF Kept, ChatTypeOK
  <1>2. CASE /\ ChatGoto(a, "force", to)
             /\ turnLock' = IF chat[a].seen # NoTurn THEN NoTurn ELSE turnLock
             /\ UNCHANGED <<signal, gate, activeTurn, cancelled, leased>>
    BY <1>2, GotoKeeps DEF Kept, ChatTypeOK
  <1> QED BY <1>1, <1>2 DEF ForceCancel

\* clear_stale_gate_ephemeral leaves the lock alone.
LEMMA StaleGateStep ==
    ASSUME Kept, NEW a \in Actors, NEW from \in ChatSteps, NEW drop \in ChatSteps,
           NEW to \in ChatSteps, ClearStaleGate(a, from, drop, to),
           from \in Holding \cup {"dead"} => drop \in Holding /\ to \in Holding,
           drop \in Holding \cup {"dead"} => to \in Holding
    PROVE  Kept'
  <1>1. CASE ChatGoto(a, from, IF gate.status = "resuming" THEN drop ELSE to)
             /\ UNCHANGED <<turnLock, signal, gate, activeTurn, cancelled, leased>>
    BY <1>1, GotoKeeps DEF Kept, ChatTypeOK
  <1>2. CASE /\ ChatGoto(a, drop, to)
             /\ gate' = NoGate
             /\ UNCHANGED <<turnLock, signal, activeTurn, cancelled, leased>>
    BY <1>2, GotoKeeps DEF Kept, ChatTypeOK, NoGate, Gates, MaybeTurn
  <1> QED BY <1>1, <1>2 DEF ClearStaleGate

\* clear_turn_active leaves the lock alone.
LEMMA ActiveStep ==
    ASSUME Kept, NEW a \in Actors, NEW from \in ChatSteps, NEW to \in ChatSteps,
           a \in Executions => to \in Holding, ClearActive(a, from, to)
    PROVE  Kept'
  BY GotoKeeps DEF Kept, ChatTypeOK, MaybeTurn, ClearActive

\* clear_gate_pending leaves the lock alone.
LEMMA GateStep ==
    ASSUME Kept, NEW a \in Actors, NEW from \in ChatSteps, NEW to \in Holding,
           ClearGate(a, from, to)
    PROVE  Kept'
  BY GotoKeeps, StepSets DEF Kept, ChatTypeOK, MaybeTurn, ClearGate, NoGate, Gates

\* clear_turn_ephemeral_state, of an abort or of a cancelled execution.
LEMMA EphemeralStep ==
    ASSUME Kept, NEW a \in Actors, ClearTurnEphemeralState(a)
    PROVE  Kept'
  <1>1. CASE ClearGate(a, "gate", "peek")
    BY <1>1, GateStep, StepSets
  <1>2. CASE ForceCancel(a, IF chat[a].turn # NoTurn THEN "sig_peek" ELSE "active")
    BY <1>2, ForceStep, StepSets
  <1>3. CASE ClearSignal(a, "sig_peek", "sig_del", "active")
    BY <1>3, SignalStep, StepSets
  <1>4. CASE ClearActive(a, "active", IF a \in Executions THEN FirstRelease(a) ELSE "done")
    BY <1>4, ActiveStep, StepSets DEF FirstRelease
  <1> QED BY <1>1, <1>2, <1>3, <1>4 DEF ClearTurnEphemeralState

\* TurnCancelSignal.signal leaves the lock alone.
LEMMA SendStep ==
    ASSUME Kept, NEW a \in Actors, NEW to \in ChatSteps, SendSignal(a, to)
    PROVE  Kept'
  BY GotoKeeps, StepSets DEF Kept, ChatTypeOK, SendSignal

-----------------------------------------------------------------------------
\* The steps of executions

\* A request takes the lock and the lease in one script, or does neither.
LEMMA AcquireStep ==
    ASSUME Kept, NEW e \in Executions, ChatAcquire(e)
    PROVE  Kept'
  <1> e \in Actors
    BY DEF Actors
  <1>1. CASE turnLock = NoTurn
    <2>1. /\ ChatGoto(e, "acquire", "spawn")
          /\ turnLock' = chat[e].turn /\ leased' = leased \cup {e}
      BY <1>1 DEF ChatAcquire
    <2>2. ChatTypeOK'
      BY <2>1, GotoTypes, StepSets DEF Kept, ChatTypeOK, ChatAcquire
    <2>3. e \in leased' /\ chat'[e].turn = turnLock' /\ chat'[e].pc \in Holding
      BY <2>1, GotoTypes, StepSets DEF Kept
    <2> QED BY <2>2, <2>3 DEF Kept, LockHasExecution
  <1>2. CASE turnLock # NoTurn
    BY <1>2, GotoKeeps, StepSets DEF ChatAcquire, Kept, ChatTypeOK
  <1> QED BY <1>1, <1>2

\* A release by owner: if somebody has the lock afterwards, it is not this turn's.
LEMMA ReleasedStep ==
    ASSUME Kept, NEW e \in Executions, ReleaseStep(e)
    PROVE  Kept'
  <1> e \in Actors
    BY DEF Actors
  <1>1. ASSUME NEW from \in Holding, NEW to \in Holding, ChatGoto(e, from, to), ChatRelease(e),
               UNCHANGED <<signal, gate, activeTurn, cancelled, leased>>
        PROVE  Kept'
    BY <1>1, GotoKeeps, StepSets DEF Kept, ChatTypeOK, ChatRelease
  <1>2. CASE /\ ChatGoto(e, "rel_replay", "done") /\ leased' = leased \ {e}
             /\ ChatRelease(e)
             /\ UNCHANGED <<signal, gate, activeTurn, cancelled>>
    <2>1. turnLock' \in {turnLock, NoTurn} /\ (turnLock' # chat[e].turn \/ turnLock' = NoTurn)
      BY <1>2 DEF ChatRelease
    <2>2. ChatTypeOK'
      BY <1>2, <2>1, GotoTypes, StepSets DEF Kept, ChatTypeOK, MaybeTurn
    <2>3. CASE turnLock' = NoTurn
      BY <2>2, <2>3 DEF Kept, LockHasExecution
    <2>4. CASE turnLock' # chat[e].turn
      <3>1. \A b \in Actors : b # e => chat'[b] = chat[b]
        BY <1>2, GotoTypes, StepSets DEF Kept
      <3>2. LockHasExecution'
        BY <1>2, <2>1, <2>4, <3>1, LockStep
      <3> QED BY <2>2, <3>2 DEF Kept
    <2> QED BY <2>1, <2>3, <2>4
  <1>3. CASE ClearSignal(e, "clear_peek", "clear_del", "rel_replay")
    BY <1>3, SignalStep, StepSets
  <1> QED BY <1>1, <1>2, <1>3, StepSets DEF ReleaseStep

\* The lease runs out: the lock is released by owner.
LEMMA LeaseLostStep ==
    ASSUME Kept, NEW e \in Executions, LeaseLost(e)
    PROVE  Kept'
  <1>1. turnLock' \in {turnLock, NoTurn} /\ (turnLock' # chat[e].turn \/ turnLock' = NoTurn)
    BY DEF LeaseLost, ChatRelease
  <1>2. ChatTypeOK'
    BY <1>1 DEF Kept, ChatTypeOK, LeaseLost, MaybeTurn
  <1>3. CASE turnLock' = NoTurn
    BY <1>2, <1>3 DEF Kept, LockHasExecution
  <1>4. CASE turnLock' # chat[e].turn
    BY <1>1, <1>2, <1>4, LockStep DEF Kept, LeaseLost, Actors
  <1> QED BY <1>1, <1>3, <1>4

\* What a request does before it has the lock.
LEMMA RequestKeeps ==
    ASSUME Kept, NEW e \in Executions, RequestStep(e)
    PROVE  Kept'
  <1> e \in Actors
    BY DEF Actors
  <1>1. CASE PrepareTurn(e)
    BY <1>1, GotoKeeps, StepSets DEF PrepareTurn, Kept, ChatTypeOK
  <1>2. CASE ClearStaleGate(e, "stale", "drop", "acquire")
    BY <1>2, StaleGateStep, StepSets
  <1>3. CASE RefuseMessage(e)
    BY <1>3, GotoKeeps, StepSets DEF RefuseMessage, Kept, ChatTypeOK
  <1>4. CASE PrepareResume(e)
    <2>1. PICK next \in {"submit", "acquire"} :
              chat' = [chat EXCEPT ![e].pc = next, ![e].turn = gate.turn]
      BY <1>4 DEF PrepareResume
    <2>2. gate.turn \in MaybeTurn
      BY DEF Kept, ChatTypeOK, Gates
    <2>3. chat[e].pc \notin Holding \cup {"dead"} /\ next \in ChatSteps
      BY <1>4, StepSets DEF PrepareResume
    <2> QED BY <1>4, <2>1, <2>2, <2>3, ChooseKeeps DEF PrepareResume
  <1>5. CASE ReadGate(e)
    <2>1. gate.turn \in MaybeTurn
      BY DEF Kept, ChatTypeOK, Gates
    <2>2. CASE gate.turn = NoTurn
      BY <1>5, <2>2, GotoKeeps, StepSets DEF ReadGate, Kept, ChatTypeOK
    <2>3. CASE gate.turn # NoTurn
      BY <1>5, <2>1, <2>3, LookKeeps, StepSets DEF ReadGate
    <2> QED BY <2>2, <2>3
  <1>6. CASE WriteGate(e)
    <2>1. gate' \in Gates
      BY <1>6 DEF WriteGate, Kept, ChatTypeOK, Gates
    <2> QED BY <1>6, <2>1, GotoKeeps, StepSets DEF WriteGate, Kept, ChatTypeOK
  <1>7. CASE ChatAcquire(e)
    BY <1>7, AcquireStep
  <1> QED BY <1>1, <1>2, <1>3, <1>4, <1>5, <1>6, <1>7 DEF RequestStep

\* A resumed stream's end and its cleanup.
LEMMA ResumeKeeps ==
    ASSUME Kept, NEW r \in Executions, ResumeCompletes(r) \/ ResumeEnds(r)
    PROVE  Kept'
  <1> r \in Actors
    BY DEF Actors
  <1>1. CASE ClearGate(r, "stream", "resume_clear") \/ ClearGate(r, "stream", "resume_end")
    BY <1>1, GateStep, StepSets
  <1>2. CASE ClearActive(r, "resume_clear", "resume_end")
    BY <1>2, ActiveStep, StepSets
  <1>3. CASE ResumeEnds(r)
    <2>1. PICK from \in {"stream", "resume_end"}, to \in {"fin_stale", "rel_service"} :
              ChatGoto(r, from, to)
      BY <1>3 DEF ResumeEnds
    <2> QED BY <1>3, <2>1, GotoKeeps, StepSets DEF ResumeEnds, Kept, ChatTypeOK
  <1> QED BY <1>1, <1>2, <1>3 DEF ResumeCompletes

\* The stream of a turn.
LEMMA StreamKeeps ==
    ASSUME Kept, NEW e \in Executions, StreamStep(e)
    PROVE  Kept'
  <1> e \in Actors
    BY DEF Actors
  <1>1. CASE EmitUserGate(e)
    <2>1. gate' \in Gates
      BY <1>1 DEF EmitUserGate, Kept, ChatTypeOK, Gates
    <2> QED BY <1>1, <2>1, GotoKeeps, StepSets DEF EmitUserGate, Kept, ChatTypeOK
  <1>2. CASE StreamEnds(e)
    BY <1>2, GotoKeeps, StepSets DEF StreamEnds, Kept, ChatTypeOK
  <1>3. CASE ResumeCompletes(e) \/ ResumeEnds(e)
    BY <1>3, ResumeKeeps
  <1> QED BY <1>1, <1>2, <1>3 DEF StreamStep

\* What an execution does after its stream.
LEMMA CleanupKeeps ==
    ASSUME Kept, NEW e \in Executions, CleanupStep(e)
    PROVE  Kept'
  <1> e \in Actors
    BY DEF Actors
  <1>1. CASE SetRunning(e)
    <2>1. PICK to \in {"mark", "stream", "clear_peek"} : ChatGoto(e, "spawn", to)
      BY <1>1 DEF SetRunning
    <2>2. cancelled' \subseteq Executions
      BY <1>1 DEF SetRunning, Kept, ChatTypeOK
    <2> QED BY <1>1, <2>1, <2>2, GotoKeeps, StepSets DEF SetRunning, Kept, ChatTypeOK
  <1>2. CASE StreamGated(e)
    BY <1>2, GotoKeeps, StepSets DEF StreamGated, FirstRelease, Kept, ChatTypeOK
  <1>3. CASE FinalizeAbort(e)
    <2>1. CASE ClearStaleGate(e, "fin_stale", "fin_drop", "gate")
      BY <2>1, StaleGateStep, StepSets
    <2>2. CASE ClearTurnEphemeralState(e)
      BY <2>2, EphemeralStep
    <2>3. CASE /\ chat[e].pc \in Finalizing
               /\ ChatGoto(e, chat[e].pc, FirstRelease(e))
               /\ UNCHANGED <<turnLock, signal, gate, activeTurn, cancelled, leased>>
      BY <2>3, GotoKeeps, StepSets DEF FirstRelease, Kept, ChatTypeOK
    <2> QED BY <1>3, <2>1, <2>2, <2>3 DEF FinalizeAbort
  <1>4. CASE ReleaseStep(e)
    BY <1>4, ReleasedStep
  <1>5. CASE e \in Starts /\ MarkTurnActive(e)
    BY <1>5, GotoKeeps, StepSets DEF MarkTurnActive, Kept, ChatTypeOK, MaybeTurn
  <1>6. CASE ClearActive(e, "clear_active", "rel_shell")
    BY <1>6, ActiveStep, StepSets
  <1>7. CASE ResumeCompletes(e) \/ ResumeEnds(e)
    BY <1>7, ResumeKeeps
  <1> QED BY <1>1, <1>2, <1>3, <1>4, <1>5, <1>6, <1>7 DEF CleanupStep

\* One step of an execution, or of what watches it.
LEMMA ExecutionKeeps ==
    ASSUME Kept, NEW e \in Executions, ExecutionStep(e)
    PROVE  Kept'
  <1>1. CASE RequestStep(e) \/ StreamStep(e) \/ CleanupStep(e)
    BY <1>1, RequestKeeps, StreamKeeps, CleanupKeeps
  <1>2. CASE WatchCancel(e)
    BY <1>2, WatchKeeps DEF WatchCancel, Kept, ChatTypeOK
  <1>3. CASE RefreshLease(e)
    BY <1>3, WatchKeeps DEF RefreshLease, Kept, ChatTypeOK
  <1>4. CASE ExecutionDies(e)
    BY <1>4, GotoKeeps, StepSets DEF ExecutionDies, Kept, ChatTypeOK, Actors
  <1>5. CASE LeaseLost(e)
    BY <1>5, LeaseLostStep
  <1> QED BY <1>1, <1>2, <1>3, <1>4, <1>5 DEF ExecutionStep

-----------------------------------------------------------------------------
\* Those who are not executions may take the lock and never have it

\* /turn/cancel and /gate/cancel.
LEMMA AbortKeeps ==
    ASSUME Kept, NEW a \in Aborts, CancelActiveTurn(a) \/ CancelGate(a) \/ AbortStep(a)
    PROVE  Kept'
  <1> a \in Actors /\ a \notin Executions
    BY ActorsAssumption DEF Actors, Executions
  <1>1. CASE CancelActiveTurn(a)
    BY <1>1, LookKeeps, StepSets DEF CancelActiveTurn, Kept, ChatTypeOK
  <1>2. CASE CancelGate(a)
    <2>1. gate.turn \in MaybeTurn /\ "signal" \in ChatSteps
      BY StepSets DEF Kept, ChatTypeOK, Gates
    <2>2. /\ chat' = [chat EXCEPT ![a].pc = "signal", ![a].turn = gate.turn]
          /\ UNCHANGED <<turnLock, signal, gate, activeTurn, cancelled, leased>>
      BY <1>2 DEF CancelGate, Kept, ChatTypeOK
    <2> QED BY <2>1, <2>2, ChooseKeeps
  <1>3. CASE ResolveTurn(a)
    <2>1. PICK t \in MaybeTurn, to \in {"gate", "signal"} :
              chat' = [chat EXCEPT ![a] = [pc |-> to, turn |-> t, seen |-> NoTurn]]
      BY <1>3 DEF ResolveTurn, Kept, ChatTypeOK, Gates
    <2>2. to \in ChatSteps /\ NoTurn \in MaybeTurn
      BY StepSets DEF MaybeTurn
    <2>3. UNCHANGED <<turnLock, signal, gate, activeTurn, cancelled, leased>>
      BY <1>3 DEF ResolveTurn
    <2> QED BY <2>1, <2>2, <2>3, TurnKeeps
  <1>4. CASE SendSignal(a, "gate")
    BY <1>4, SendStep, StepSets
  <1>5. CASE ClearTurnEphemeralState(a)
    BY <1>5, EphemeralStep
  <1> QED BY <1>1, <1>2, <1>3, <1>4, <1>5 DEF AbortStep

\* clear_stale_active_turns_on_startup.
LEMMA StartupKeeps ==
    ASSUME Kept, NEW p \in Restarts, FindActive(p) \/ StartupStep(p)
    PROVE  Kept'
  <1> p \in Actors /\ p \notin Executions
    BY ActorsAssumption DEF Actors, Executions
  <1>1. CASE FindActive(p)
    <2>1. activeTurn \in MaybeTurn /\ "peek" \in ChatSteps
      BY StepSets DEF Kept, ChatTypeOK
    <2>2. /\ chat' = [chat EXCEPT ![p].pc = "peek", ![p].turn = activeTurn]
          /\ UNCHANGED <<turnLock, signal, gate, activeTurn, cancelled, leased>>
      BY <1>1 DEF FindActive, Kept, ChatTypeOK
    <2> QED BY <2>1, <2>2, ChooseKeeps
  <1>2. CASE ForceCancel(p, "signal")
    BY <1>2, ForceStep, StepSets
  <1>3. CASE SendSignal(p, "active")
    BY <1>3, SendStep, StepSets
  <1>4. CASE ClearActive(p, "active", "done")
    BY <1>4, ActiveStep, StepSets
  <1> QED BY <1>1, <1>2, <1>3, <1>4 DEF StartupStep

\* The times to live of the gate and the signal.
LEMMA ExpiryKeeps ==
    ASSUME Kept, KeysExpire
    PROVE  Kept'
  BY WatchKeeps DEF KeysExpire, Kept, ChatTypeOK, NoGate, Gates, MaybeTurn

-----------------------------------------------------------------------------
\* The theorems

\* At first nobody has the lock.
LEMMA InitKept == ChatInit => Kept
  <1> SUFFICES ASSUME ChatInit PROVE Kept
    OBVIOUS
  <1>1. chat \in [Actors -> [pc : ChatSteps, turn : MaybeTurn, seen : MaybeTurn]]
    BY StepSets DEF ChatInit, MaybeTurn
  <1> QED BY <1>1 DEF ChatInit, Kept, ChatTypeOK, LockHasExecution, NoGate, Gates, MaybeTurn

\* One step of anybody.
LEMMA StepKept == Kept /\ [ChatNext]_chatVars => Kept'
  <1> SUFFICES ASSUME Kept, [ChatNext]_chatVars PROVE Kept'
    OBVIOUS
  <1>1. CASE \E e \in Executions : ExecutionStep(e)
    BY <1>1, ExecutionKeeps
  <1>2. CASE \E a \in Aborts : CancelActiveTurn(a) \/ CancelGate(a) \/ AbortStep(a)
    BY <1>2, AbortKeeps
  <1>3. CASE \E p \in Restarts : FindActive(p) \/ StartupStep(p)
    BY <1>3, StartupKeeps
  <1>4. CASE KeysExpire
    BY <1>4, ExpiryKeeps
  <1>5. CASE UNCHANGED chatVars
    BY <1>5 DEF chatVars, Kept, ChatTypeOK, LockHasExecution
  <1> QED BY <1>1, <1>2, <1>3, <1>4, <1>5 DEF ChatNext

\* The types and the lock's execution are kept by every step of every actor.
THEOREM ChatInvariance == ChatSpec => []Kept
  BY InitKept, StepKept, PTL DEF ChatSpec

\* Type correctness: the keys of Redis, the conversation's row and what the requests
\* remember hold a turn of this conversation, or nothing.
THEOREM ChatTypeCorrect == ChatSpec => []ChatTypeOK
  <1>1. Kept => ChatTypeOK
    BY DEF Kept
  <1> QED BY <1>1, ChatInvariance, PTL

\* A conversation is never locked on behalf of nobody: whoever releases or loses its
\* lease (the shell, the service, the replay execution, a follower of a stalled log)
\* takes its lock along, and aborts and starting processes only ever remove locks.
THEOREM LockAlwaysHasExecution == ChatSpec => []LockHasExecution
  <1>1. Kept => LockHasExecution
    BY DEF Kept
  <1> QED BY <1>1, ChatInvariance, PTL

=============================================================================
