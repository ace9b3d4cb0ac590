\* Two messages and an abort; a message, the answer at its gate and an abort; a
\* message and two answers; with faults, a message and an abort, and a message, an
\* answer and a process that starts.  Four frames of a stream: a full batch of tokens
\* and the frame behind it.
CONSTANTS
    NoTurn = NoTurn
    Faults = Faults
    s1 = s1
    r1 = r1
    OneStart = s1
    OneResume = r1
    Starts = {s1, s2}
    Resumes = {r1, r2}
    Aborts = {a1}
    Restarts = {p1}
    Frames = Frames
    MaxFrames = 4
    MaxDelta = 3
SPECIFICATION CastSpec
CHECK_DEADLOCK FALSE
INVARIANTS
    LockHasExecution
    LogIsFaithful
PROPERTIES
    FocusedTurnsStop
    FocusedLockFreed
    TokensLeaveBuffer
