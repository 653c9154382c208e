CONSTANTS
    Calls = {c1, c2}
    Blocks = {b1, b2}
    BUFFER = 1
SPECIFICATION Spec
INVARIANTS WatchersMissNothing
PROPERTIES EngineCommandsAnswered LostTaskStopsNode MappingCatchesUp
