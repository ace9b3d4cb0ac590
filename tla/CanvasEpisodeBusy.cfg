\* A text generation and a deletion.
CONSTANTS
    None = None
    Texts = {t1}
    Medias = {}
    Runners = {}
    Deletions = {d1}
    Closers = {}
    Openers = {}
    Edits = {}
    Sessions = {s1}
    FirstSession = s1
SPECIFICATION Spec
CHECK_DEADLOCK FALSE
PROPERTIES
    RefusedOnlyIfInFlight
