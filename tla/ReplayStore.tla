----------------------------- MODULE ReplayStore -----------------------------
(***************************************************************************)
(* The Redis keys of one replayable SSE request (meta hash, event stream,  *)
(* execution lease) and the Lua scripts of ReplayStore, which Redis runs   *)
(* atomically (src/app/agent/runtime/stream/replay.py).                    *)
(*                                                                         *)
(* A request is a record: the status in its meta hash ("absent" when there *)
(* is no hash), the frames in its stream, the bytes counted, and whether   *)
(* its lease key exists.  A request has one execution at most, so the      *)
(* owner stored in the lease need not be told apart.                       *)
(***************************************************************************)
EXTENDS Naturals, Sequences

CONSTANT MaxBytes   \* SSE_REPLAY_MAX_BYTES, in the unit of the frame sizes

ASSUME MaxBytesAssumption == MaxBytes \in Nat

OpenStatus == {"starting", "running"}
ClosedStatus == {"interrupted", "completed", "failed", "cancelled"}
Statuses == {"absent"} \cup OpenStatus \cup ClosedStatus

FrameTypes == {"token", "pending", "done", "error", "cancelled"}
TerminalTypes == {"done", "error", "cancelled"}

Absent == [status |-> "absent", log |-> <<>>, bytes |-> 0, lease |-> FALSE]

IsOpen(m) == m.status \in OpenStatus
IsClosed(m) == m.status \in ClosedStatus

\* _CLAIM_SCRIPT: the first claim of a request id creates it.
Claim(m) ==
    IF m.status = "absent" THEN [Absent EXCEPT !.status = "starting"] ELSE m

\* _SET_RUNNING_SCRIPT succeeds once, on a request that is still starting.
CanSetRunning(m) == m.status = "starting" /\ ~m.lease

SetRunning(m) ==
    [status |-> "running", log |-> m.log, bytes |-> m.bytes, lease |-> TRUE]

\* Mutant: a closed request still takes frames.
AppendResultNeverClosed(m, size, force) ==
    CASE m.status = "absent" -> "MISSING"
      [] m.status # "absent" /\ ~force /\ m.bytes + size > MaxBytes -> "LIMIT"
      [] OTHER -> "OK"

\* The answer of _APPEND_SCRIPT.
AppendResult(m, size, force) ==
    CASE m.status = "absent" -> "MISSING"
      [] IsClosed(m) -> "CLOSED"
      [] IsOpen(m) /\ ~force /\ m.bytes + size > MaxBytes -> "LIMIT"
      [] OTHER -> "OK"

\* _APPEND_SCRIPT when it answers OK.  A frame that closes the request sets its
\* status and drops its lease in the same script.
AppendFrame(m, f, size, close) ==
    [ status |-> IF close = "none" THEN m.status ELSE close,
      log    |-> Append(m.log, f),
      bytes  |-> m.bytes + size,
      lease  |-> m.lease /\ close = "none" ]

\* Mutant: the last writer of the status wins.
FinishOverwrites(m, s) ==
    IF m.status = "absent" THEN m
    ELSE [status |-> s, log |-> m.log, bytes |-> m.bytes, lease |-> FALSE]

\* _FINISH_SCRIPT: an open request gets the status, the lease goes in any case.
Finish(m, s) ==
    [ status |-> IF IsOpen(m) THEN s ELSE m.status,
      log |-> m.log, bytes |-> m.bytes, lease |-> FALSE ]

\* _MARK_LOST_SCRIPT: only an open request without a lease is given up.
CanMarkLost(m) == IsOpen(m) /\ ~m.lease

MarkLost(m, f, size) ==
    [ status |-> "failed", log |-> Append(m.log, f),
      bytes |-> m.bytes + size, lease |-> FALSE ]

\* The lease's TTL runs out.
ExpireLease(m) ==
    [status |-> m.status, log |-> m.log, bytes |-> m.bytes, lease |-> FALSE]

\* _terminal_status_for and _observe of the publisher: the status a frame
\* closes the request with.  (publish drops every frame after the first one
\* that closes, so the status seen before is none.)
CloseStatus(type) ==
    CASE type = "error" -> "failed"
      [] type = "cancelled" -> "cancelled"
      [] type = "done" -> "completed"
      [] OTHER -> "none"
=============================================================================
