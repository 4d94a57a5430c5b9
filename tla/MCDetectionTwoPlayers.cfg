SPECIFICATION FairSpec
CONSTANTS
    Players = {p1, p2}
    Episodes = {e1}
    NoEpisode = NoEpisode
    Files = {f1}
    Lengths = {}
    Unreported = Unreported
    Needed <- MCNeededShort
    FirstSeconds = 1
    ObservedLimit = 2
    Grain = 1
    Out = Out
    MaxTime = 5
    Gaps = {1, 3}
    Skew = 1
INVARIANTS SittingsFollowReadings CountedOnce
PROPERTIES EveningEnds
