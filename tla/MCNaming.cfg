SPECIFICATION Spec
CONSTANTS
    plain = plain
    marked = marked
    again = again
    short = short
    kPlain = kPlain
    kMarked = kMarked
    kShort = kShort
    e1 = e1
    e2 = e2
    Names <- MCNames
    Keys <- MCKeys
    KeyOf <- MCKeyOf
    NoKey = NoKey
    Plain <- MCPlain
    Entries = {e1, e2}
    Lists <- MCLists
    MaxShows = 3
    Reader = Reader
    Clients = {c1}
    Typed <- MCTyped
    Runs <- MCRuns
CONSTRAINTS FewPins
INVARIANTS PinsApart InPlaceIsOfTheStore OneNameOfAKey NoNameTakesAnEntry
PROPERTIES IdentityStays
