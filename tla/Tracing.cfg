SPECIFICATION FairSpec
CONSTANTS
    Agents = {atrace, dump, walt, ps}
    Tracers = {atrace, dump}
    Synced = {atrace, dump, walt}
    Shelled = {atrace, dump}
    Echoed = {atrace}
    Threaded = {atrace, walt}
INVARIANTS TypeOK NothingIsLostSilently ResultsAreSynced
PROPERTY StopEnds
CHECK_DEADLOCK FALSE
