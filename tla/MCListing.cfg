SPECIFICATION MCSpec
CONSTANTS
    FirstRetry = 1
    LastRetry = 2
    Refresh = 3
    OnMiss = 2
    Off = Off
    AtStart = TRUE
    Asked = {0, 2}
    Reasons = {"down", "denied"}
    Clients = {c1, c2}
    MaxTokens = 2
    Long = 3
    None = None
    series = series
    film = film
    Callers = {a, b}
    Pace = 2
    Wait = 5
    Margin = 1
    Deadline = 3
    MaxChunks = 2
    MaxNext = 8
INVARIANTS NewTokenIsTried HoldIsKept
PROPERTIES LeftAlone SaidOnce TaskReadsAgain SentApart ReadingEnds
