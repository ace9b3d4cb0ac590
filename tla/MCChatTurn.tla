----------------------------- MODULE MCChatTurn -----------------------------
(***************************************************************************)
(* An instance of ChatTurn for TLC, and the way of a turn's frames to its  *)
(* log (ReplayPublisher).  The requests of a behaviour are those of one    *)
(* cast; processes die or stall and keys expire in those with Faults.  The *)
(* frames have a cast of their own: what they do to the log and what the   *)
(* turns do to the lock do not meet.                                       *)
(***************************************************************************)
EXTENDS ChatTurn, ReplayPublisher

CONSTANTS Faults, OneStart, OneResume, Frames

VARIABLE cast

castVars == <<chatVars, cast, frameVars>>

Casts == {Starts \cup Aborts,
          {OneStart, OneResume} \cup Aborts,
          {OneStart, Faults} \cup Aborts,
          {OneStart, OneResume, Faults} \cup Restarts,
          {OneStart} \cup Resumes,
          {Frames}}

CastInit == ChatInit /\ FramesInit /\ cast \in Casts

TurnNext ==
    \/ \E e \in Executions \cap cast :
         RequestStep(e) \/ StreamStep(e) \/ CleanupStep(e) \/ WatchCancel(e) \/ RefreshLease(e)
    \/ \E a \in Aborts \cap cast : CancelActiveTurn(a) \/ CancelGate(a) \/ AbortStep(a)
    \/ \E p \in Restarts \cap cast : FindActive(p) \/ StartupStep(p)
    \/ Faults \in cast /\ KeysExpire
    \/ Faults \in cast /\ \E e \in Executions \cap cast : ExecutionDies(e) \/ LeaseLost(e)

CastNext ==
    /\ UNCHANGED cast
    /\ \/ TurnNext /\ UNCHANGED frameVars
       \/ Frames \in cast /\ FramesNext /\ UNCHANGED chatVars

\* A step of the turns, or of the frames, as a step of the instance.
OfTurns(A) == A /\ UNCHANGED <<cast, frameVars>>
OfFrames(A) == Frames \in cast /\ A /\ UNCHANGED <<cast, chatVars>>

CastSpec ==
    /\ CastInit
    /\ [][CastNext]_castVars
    /\ \A e \in Executions :
        /\ WF_castVars(e \in cast /\ OfTurns(MustStep(e)))
        /\ WF_castVars(e \in cast /\ OfTurns(RefreshLease(e)))
    /\ \A a \in Aborts : WF_castVars(a \in cast /\ OfTurns(AbortStep(a)))
    /\ WF_castVars(OfFrames(MainStep))
    /\ WF_castVars(OfFrames(FlushAppends))
    /\ SF_castVars(OfFrames(FlushWakes))

\* DisownedTurnsStop for one message and one answer: the others are of the same kind.
FocusedTurnsStop == Stops(OneStart) /\ Stops(OneResume)

\* LockFreedAfterTurn for one message.
FocusedLockFreed == Unlocks(OneStart)

=============================================================================
