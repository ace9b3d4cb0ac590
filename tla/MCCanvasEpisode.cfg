\* Around the text node: two text generations, an edit and a deletion.  Around the media
\* node: a text generation, a media submission, a call that closes a session and a
\* deletion.  Outside the fence: a runner, a media submission and a deletion.  Around the
\* sessions: a deletion, two calls that close a session and one that opens one.  The
\* engine: two events of an agent, of the chat or of the canvas, before it is done.
CONSTANTS
    None = None
    Texts = {t1, t2}
    Medias = {m1}
    Runners = {r1}
    Deletions = {d1}
    Closers = {c1, c2}
    Openers = {o1}
    Edits = {e1}
    Sessions = {s1, s2, s3, s4}
    FirstSession = s1
    Engine = Engine
    MaxEvents = 2
SPECIFICATION CastSpec
CHECK_DEADLOCK FALSE
INVARIANTS
    DeletionExcludesGenerations
    FramesInOrder
    StreamTellsEnd
    AnswerStored
PROPERTIES
    DeletesOnlyIdle
    LastSessionKept
    NoLostUpdate
    FenceOpens
    CancelledStreamEnds
