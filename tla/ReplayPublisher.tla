--------------------------- MODULE ReplayPublisher ---------------------------
(***************************************************************************)
(* What happens to the frames of one turn between the agent's stream and   *)
(* the log in Redis (ReplayFramePublisher in                               *)
(* src/app/agent/runtime/stream/replay.py and its use in                   *)
(* src/app/agent/canvas/turn/replay_execution.py, which the one of the     *)
(* chat repeats): answer tokens wait in a buffer that the execution and a  *)
(* delayed task empty, under a lock, and any append may fail.              *)
(*                                                                         *)
(* A frame is its number in the order of publication.  The error frames    *)
(* that publishers and followers add when they close a log are only seen   *)
(* in its status.  One step is what a task does between two awaits.        *)
(***************************************************************************)
EXTENDS Naturals, Sequences

CONSTANTS
    MaxFrames,  \* bound on the frames of the stream
    MaxDelta    \* SSE_DELTA_MAX_CHARS, in tokens

VARIABLES
    sent,       \* the kinds of the frames that publish has accepted, in order
    buffer,     \* _delta_parts: the frames that wait
    taken,      \* the frames that the holder of the lock is appending
    lock,       \* _lock: who holds it
    flusher,    \* _flush_task: none, asleep, or appending and not referred to any more
    flushError, \* _flush_error
    terminal,   \* terminal_status
    sawPending, \* saw_pending
    pc,         \* the next step of the execution
    handling,   \* the execution is in one of its except clauses
    final,      \* final_status of the execution
    log,        \* the frames in Redis
    status      \* the log's status

frameVars == <<sent, buffer, taken, lock, flusher, flushError, terminal, sawPending,
               pc, handling, final, log, status>>

Closing == [done |-> "completed", error |-> "failed", cancelled |-> "cancelled"]
Kinds == {"token", "other", "pending"} \cup DOMAIN Closing

FramesInit ==
    /\ sent = <<>> /\ buffer = <<>> /\ taken = <<>>
    /\ lock = "free" /\ flusher = "none" /\ flushError = "none"
    /\ terminal = "none" /\ sawPending = FALSE
    /\ pc = "stream" /\ handling = FALSE /\ final = "failed"
    /\ log = <<>> /\ status = "running"

InHand == sent[Len(sent)]

\* append_frame: the log is closed or full, or Redis fails or the execution is
\* cancelled, before or after Redis has run the script.
Outcomes(force) ==
    IF status = "running" THEN {"ok", "error", "unanswered"} \cup IF force THEN {} ELSE {"limit"}
    ELSE {"closed", "error"}

Written(o) == o \in {"ok", "unanswered"}

\* Where an exception leads: to the append_failure of an except clause, unless the log
\* is closed; from such a clause, out.
Raise(o) ==
    /\ pc' = IF handling \/ o = "closed" THEN "finish" ELSE "fail"
    /\ handling' = TRUE

\* Mutant: the task is cancelled and its reference kept, so that no other is started.
FlushLockedDangling(frames, append, empty) ==
    /\ flusher' = IF flusher = "asleep" THEN "cancelled" ELSE flusher
    /\ taken' = frames /\ buffer' = <<>>
    /\ lock' = "main"
    /\ pc' = IF frames # <<>> THEN append ELSE empty

\* _flush_locked up to its append, by the execution: it cancels the delayed task.
FlushLocked(frames, append, empty) ==
    /\ flusher' = "none"
    /\ taken' = frames /\ buffer' = <<>>
    /\ lock' = "main"
    /\ pc' = IF frames # <<>> THEN append ELSE empty

-----------------------------------------------------------------------------
\* The execution

\* publish takes a frame, unless a delayed flush has failed.
Publish(kind) ==
    /\ pc = "stream"
    /\ \/ /\ flushError # "none"
          /\ Raise(flushError) /\ flushError' = "none"
          /\ UNCHANGED sent
       \/ /\ flushError = "none" /\ terminal = "none" /\ Len(sent) < MaxFrames
          /\ sent' = Append(sent, kind) /\ pc' = "publish"
          /\ UNCHANGED <<flushError, handling>>
    /\ UNCHANGED <<buffer, taken, lock, flusher, terminal, sawPending, final, log, status>>

\* A token is buffered, and the buffer flushed when it is full.
BufferToken ==
    LET frames == Append(buffer, Len(sent)) IN
    /\ pc = "publish" /\ lock = "free" /\ InHand = "token"
    /\ \/ /\ Len(frames) >= MaxDelta
          /\ FlushLocked(frames, "tokens", "stream")
       \/ /\ Len(frames) < MaxDelta
          /\ buffer' = frames
          /\ flusher' = IF flusher = "none" THEN "asleep" ELSE flusher
          /\ pc' = "stream"
          /\ UNCHANGED <<taken, lock>>
    /\ UNCHANGED <<sent, flushError, terminal, sawPending, handling, final, log, status>>

\* Any other frame flushes the buffer first.
FlushBeforeFrame ==
    /\ pc = "publish" /\ lock = "free" /\ InHand # "token"
    /\ FlushLocked(buffer, "tokens", "frame")
    /\ UNCHANGED <<sent, flushError, terminal, sawPending, handling, final, log, status>>

\* The append of the tokens taken, in publish or in close.
AppendTokens ==
    /\ pc \in {"tokens", "closing"}
    /\ \E o \in Outcomes(FALSE) :
        /\ log' = IF Written(o) THEN log \o taken ELSE log
        /\ IF o # "ok" THEN Raise(o)
           ELSE /\ pc' = IF pc = "closing" THEN "ended"
                         ELSE IF InHand = "token" THEN "stream" ELSE "frame"
                /\ UNCHANGED handling
        /\ lock' = IF pc' = "frame" THEN "main" ELSE "free"
    /\ taken' = <<>>
    /\ UNCHANGED <<sent, buffer, flusher, flushError, terminal, sawPending, final, status>>

AppendFrame ==
    /\ pc = "frame"
    /\ \E o \in Outcomes(FALSE) :
        /\ log' = IF Written(o) THEN Append(log, Len(sent)) ELSE log
        /\ status' = IF Written(o) /\ InHand \in DOMAIN Closing THEN Closing[InHand] ELSE status
        /\ terminal' = IF o = "ok" /\ InHand \in DOMAIN Closing THEN Closing[InHand] ELSE terminal
        /\ sawPending' = (sawPending \/ (o = "ok" /\ InHand = "pending"))
        /\ IF o = "ok" THEN pc' = "stream" /\ UNCHANGED handling ELSE Raise(o)
    /\ lock' = "free"
    /\ UNCHANGED <<sent, buffer, taken, flusher, flushError, final>>

\* The stream ends, or it raises or the lease is found lost.
AgentStreamEnds ==
    /\ pc = "stream"
    /\ \/ pc' = "close" /\ UNCHANGED handling
       \/ Raise("error")
    /\ UNCHANGED <<sent, buffer, taken, lock, flusher, flushError, terminal, sawPending,
                   final, log, status>>

\* close flushes, and then raises what a delayed flush has left.
Close ==
    /\ pc = "close" /\ lock = "free"
    /\ flusher' = "none" /\ taken' = buffer /\ buffer' = <<>>
    /\ lock' = IF buffer # <<>> THEN "main" ELSE "free"
    /\ pc' = IF buffer # <<>> THEN "closing" ELSE "ended"
    /\ UNCHANGED <<sent, flushError, terminal, sawPending, handling, final, log, status>>

\* Mutant: close does not raise what a delayed flush has left.
EndedUnaware ==
    /\ pc = "ended"
    /\ pc' = IF terminal # "none" \/ sawPending THEN "finish" ELSE "fail"
    /\ final' = IF terminal # "none" THEN terminal
                ELSE IF sawPending THEN "interrupted" ELSE final
    /\ UNCHANGED <<sent, buffer, taken, lock, flusher, flushError, terminal, sawPending, handling, log, status>>

Ended ==
    /\ pc = "ended"
    /\ flushError' = "none"
    /\ IF flushError # "none" THEN Raise(flushError) /\ UNCHANGED final
       ELSE /\ UNCHANGED handling
            /\ pc' = IF terminal # "none" \/ sawPending THEN "finish" ELSE "fail"
            /\ final' = IF terminal # "none" THEN terminal
                        ELSE IF sawPending THEN "interrupted" ELSE final
    /\ UNCHANGED <<sent, buffer, taken, lock, flusher, terminal, sawPending, log, status>>

\* append_failure: the buffer, whose frames are dropped if the log is full, and an
\* error frame that closes the log.  A stream without a terminal frame ends here too.
FailFlush ==
    /\ pc = "fail" /\ lock = "free"
    /\ FlushLocked(buffer, "fail_tokens", "fail_frame")
    /\ UNCHANGED <<sent, flushError, terminal, sawPending, handling, final, log, status>>

FailTokens ==
    /\ pc = "fail_tokens"
    /\ \E o \in Outcomes(FALSE) :
        /\ log' = IF Written(o) THEN log \o taken ELSE log
        /\ IF o \in {"ok", "limit"}
           THEN pc' = "fail_frame" /\ UNCHANGED <<lock, handling>>
           ELSE Raise(o) /\ lock' = "free"
    /\ taken' = <<>>
    /\ UNCHANGED <<sent, buffer, flusher, flushError, terminal, sawPending, final, status>>

FailFrame ==
    /\ pc = "fail_frame"
    /\ \E o \in Outcomes(TRUE) :
        /\ status' = IF Written(o) THEN "failed" ELSE status
        /\ IF o = "ok" THEN pc' = "finish" /\ UNCHANGED handling ELSE Raise(o)
    /\ lock' = "free"
    /\ UNCHANGED <<sent, buffer, taken, flusher, flushError, terminal, sawPending, final, log>>

\* The process shuts down and cancels the execution while it waits for the lock.
Cancelled ==
    /\ pc \in {"publish", "close", "fail"}
    /\ Raise("error")
    /\ UNCHANGED <<sent, buffer, taken, lock, flusher, flushError, terminal, sawPending,
                   final, log, status>>

\* finish closes a log that is still open; Redis may fail.
Finish ==
    /\ pc = "finish" /\ pc' = "done"
    /\ status' \in {status, IF status = "running" THEN final ELSE status}
    /\ UNCHANGED <<sent, buffer, taken, lock, flusher, flushError, terminal, sawPending,
                   handling, final, log>>

-----------------------------------------------------------------------------
\* Beside the execution

\* _flush_after_delay wakes up and gets the lock.
FlushWakes ==
    /\ flusher = "asleep" /\ lock = "free"
    /\ flusher' = "appending" /\ lock' = "flusher"
    /\ taken' = buffer /\ buffer' = <<>>
    /\ UNCHANGED <<sent, flushError, terminal, sawPending, pc, handling, final, log, status>>

FlushAppends ==
    /\ flusher = "appending"
    /\ \E o \in Outcomes(FALSE) :
        /\ log' = IF Written(o) THEN log \o taken ELSE log
        /\ flushError' = IF o = "ok" THEN flushError ELSE o
    /\ flusher' = "none" /\ lock' = "free" /\ taken' = <<>>
    /\ UNCHANGED <<sent, buffer, terminal, sawPending, pc, handling, final, status>>

\* A follower finds the lease gone and closes the log.
MarkLost ==
    /\ status = "running" /\ status' = "failed"
    /\ UNCHANGED <<sent, buffer, taken, lock, flusher, flushError, terminal, sawPending,
                   pc, handling, final, log>>

-----------------------------------------------------------------------------

\* The steps that an execution takes without its agent.
MainStep ==
    \/ BufferToken \/ FlushBeforeFrame \/ AppendTokens \/ AppendFrame
    \/ Close \/ Ended \/ FailFlush \/ FailTokens \/ FailFrame \/ Finish

FramesNext ==
    \/ \E kind \in Kinds : Publish(kind)
    \/ MainStep \/ AgentStreamEnds \/ Cancelled
    \/ FlushWakes \/ FlushAppends \/ MarkLost

FramesSpec == FramesInit /\ [][FramesNext]_frameVars

\* Redis answers or fails, and the delayed task wakes up and gets the lock in its
\* turn.  The agent may be silent for ever.
FramesLiveSpec ==
    /\ FramesSpec
    /\ WF_frameVars(MainStep)
    /\ WF_frameVars(FlushAppends)
    /\ SF_frameVars(FlushWakes)

-----------------------------------------------------------------------------
\* Properties

Increasing(s) == \A i, j \in 1..Len(s) : i < j => s[i] < s[j]

\* The log has the frames in the order in which they were published, none twice and
\* no frame before the tokens that it follows, whichever task has written them; and
\* an execution that ends well has lost none, although delayed flushes fail unseen.
LogIsFaithful ==
    /\ Increasing(log \o taken \o buffer)
    /\ pc \in {"finish", "done"} /\ final # "failed" => log = [i \in 1..Len(sent) |-> i]

\* A token does not stay in the buffer, even if the agent says nothing more.
TokensLeaveBuffer == buffer # <<>> ~> buffer = <<>>

=============================================================================
