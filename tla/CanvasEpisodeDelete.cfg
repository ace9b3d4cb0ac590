\* The workflow runner and a deletion.
CONSTANTS
    None = None
    Texts = {}
    Medias = {}
    Runners = {r1}
    Deletions = {d1}
    Closers = {}
    Openers = {}
    Edits = {}
    Sessions = {s1}
    FirstSession = s1
SPECIFICATION Spec
CHECK_DEADLOCK FALSE
PROPERTIES
    NeverDeletesInFlight
