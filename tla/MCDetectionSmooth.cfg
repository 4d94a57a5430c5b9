SPECIFICATION SmoothSpec
CONSTANTS
    Players = {p1, p2}
    Episodes = {e1, e2}
    NoEpisode = NoEpisode
    Files = {f1}
    Lengths = {}
    Unreported = Unreported
    Needed <- MCNeededShort
    FirstSeconds = 1
    ObservedLimit = 2
    Grain = 1
    Out = Out
    MaxTime = 4
    Gaps = {1, 2}
    Skew = 0
INVARIANT MarkIsOpen
