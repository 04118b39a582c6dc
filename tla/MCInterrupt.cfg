\* Two interruptions, three outputs, and either disposition inherited.
SPECIFICATION Spec
CHECK_DEADLOCK FALSE
CONSTANTS
    h1 = h1
    h2 = h2
    N = 3
    NameLen <- MCNameLen
    Handlers = {h1, h2}
    Dispositions = {"SIG_DFL", "SIG_IGN"}
INVARIANTS NameStable NoTemporaryLeft
PROPERTY InterruptionEnds
