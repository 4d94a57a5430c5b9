SPECIFICATION Spec
CONSTANTS
    Players = {p1}
    Episodes = {e1, e2}
    NoEpisode = NoEpisode
    Files = {f1, f2}
    Lengths = {long}
    Unreported = Unreported
    Needed <- MCNeeded
    FirstSeconds = 2
    ObservedLimit = 2
    Grain = 2
    Out = Out
    MaxTime = 8
    Gaps = {1, 2, 3}
    Skew = 0
SYMMETRY Symmetric
INVARIANTS StoreAgrees
PROPERTIES RecordedOnEnough LedgerSpec
