SPECIFICATION MCSpec
CONSTANTS
    old = old
    new = new
    other = other
    socket = socket
    Daemons = {old, new, other}
    SocketOf <- MCSocketOf
    Nothing = Nothing
    Scripts = 3
    Knows <- MCKnows
    Again = {2}
    Versions = {0, 1, 3}
    AtOnce = FALSE
    Parts = {"starting", "supervisor"}
    Tasks = {t1, t2}
    Alone = t1
    RestartLimit = 1
    Base = 1
    Ceiling = 2
    Progress = 3
    WakeEvery = 1
    Late = 1
    Stops = {1, 3}
    MaxAge = 6
    MaxFaults = 2
    ShortProgress = 3
    ShortStops = {2}
    ShortAge = 3
    FewFaults = 1
INVARIANTS EachIsReachable NumberIsOfTheSchema RunsOnItsSchema EveryRunIsSeen PanicsInARow
PROPERTIES EndedIsDealtWith
