SPECIFICATION MCSpec
CONSTANTS
    None = None
    NoWrite = NoWrite
    Hundred = 100
    MaxNumber = 1000
    series = series
    film = film
    sequel = sequel
    nowhere = nowhere
    aSeries = aSeries
    aFilm = aFilm
    Backends = {anilist}
    Entries = {series, film, sequel, nowhere}
    Works = {series, film, sequel}
    CountOf <- MCCountOf
    EntryOf <- MCEntryOf
    Pins <- MCPins
    Rules <- MCRules
    FirstLists <- MCFirstLists
    Operations <- SomeOperations
    Writes <- MCWrites
    MaxLog = 3
    SmallHundred = 4
    LastNumber = 8
    Show = show
    Own = own
    Other = other
    Counts = {None, 1, 2, 3, 5}
    Episodes = {0, 1, 2, 3, 4, 5, 6, 7, 9, None}
    Taken <- MCTaken
    Sent <- MCSent
    Shows = {aSeries, aFilm}
    FirstFacts <- MCFirstFacts
    Learnable <- MCLearnable
    Spelled <- MCSpelled
    Readings <- MCReadings
    Absent = Absent
    Several = Several
INVARIANTS ChangedOnce DecidedIsOpen ForetoldIsSent ResolvedAsWritten NeverOfAnother
PROPERTIES OutboxSpec
