------------------------------ MODULE TurnLogs ------------------------------
(***************************************************************************)
(* What the replay store promises to whoever reads the stream of a turn,   *)
(* however calls, executions and failures overlap: a log is opened once,   *)
(* grows frame by frame while it is open, and is closed once, by a         *)
(* terminal frame and the outcome that frame stands for or by giving it    *)
(* up.  After that nobody touches it.  Only the log of a request that was  *)
(* never run is forgotten, and then the request may be opened again.       *)
(* Every change is one step here; ReplayTurn, where a change is prepared   *)
(* by several commands of several parties, implements this specification.  *)
(***************************************************************************)
EXTENDS Naturals, Sequences

CONSTANT Requests

VARIABLES
    outcome,  \* request -> "none", "open" or how its turn ended
    frames    \* request -> the frames of its log

Init ==
    /\ outcome = [r \in Requests |-> "none"]
    /\ frames = [r \in Requests |-> <<>>]

Open(r) ==
    /\ outcome[r] = "none"
    /\ outcome' = [outcome EXCEPT ![r] = "open"]
    /\ UNCHANGED frames

\* A frame is added and leaves the log with an outcome.
Add(r, f, result) ==
    /\ outcome[r] = "open"
    /\ outcome' = [outcome EXCEPT ![r] = result]
    /\ frames' = [frames EXCEPT ![r] = Append(@, f)]

\* The log ends without a terminal frame: the client has something to answer,
\* or the failure could not be written.
GiveUp(r, result) ==
    /\ outcome[r] = "open"
    /\ result = "interrupted" => \E i \in 1 .. Len(frames[r]) : frames[r][i] = "pending"
    /\ outcome' = [outcome EXCEPT ![r] = result]
    /\ UNCHANGED frames

\* A request that was not run goes: it has no frame, or only the error that
\* reports it lost.
Forget(r) ==
    /\ \/ outcome[r] = "open" /\ frames[r] = <<>>
       \/ outcome[r] = "failed" /\ frames[r] = <<"error">>
    /\ outcome' = [outcome EXCEPT ![r] = "none"]
    /\ frames' = [frames EXCEPT ![r] = <<>>]

Next ==
    \E r \in Requests :
        \/ Open(r)
        \/ Add(r, "token", "open") \/ Add(r, "pending", "open")
        \/ Add(r, "done", "completed")
        \/ Add(r, "error", "failed")
        \/ Add(r, "cancelled", "cancelled")
        \/ GiveUp(r, "failed") \/ GiveUp(r, "interrupted")
        \/ Forget(r)

Spec == Init /\ [][Next]_<<outcome, frames>>

=============================================================================
