SPECIFICATION MCSpec
CONSTANTS
    Parts = {"lengths"}
    Threads = {t1, t2}
    Held = 2
    MaxSaid = 4
    MaxPublished = 7
    Sources = {p, q}
    Files = {f, g}
    Missing = Missing
    MaxThreads = 2
    MaxWritten = 2
    MaxWatchers = 2
    MaxSent = 6
    MaxArrived = 3
    Media = {one, other}
    None = None
    SeekThreshold = 1
    ObservedLimit = 2
    Targets = {0, 4}
    Resumed = {3}
    MaxTime = 4
    MaxTurns = 2
INVARIANT OneThreadOfAFile
CHECK_DEADLOCK FALSE
