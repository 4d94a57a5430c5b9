SPECIFICATION Spec
CONSTANTS
    None = None
    Absent = Absent
    Several = Several
    Up = Up
    KindOf <- MCKindOf
    Numerals <- MCNumerals
    Shows <- MCShows
    Spellings <- MCSpellings
    Lists <- MCLists
    Typed <- MCTyped
    Files <- MCFiles
    MaxNames = 2
INVARIANTS KeptApart
