\* Two writers, crashes, and names and values that do not survive the file.
SPECIFICATION Spec
CONSTANTS
    Writers = {w1, w2}
    Names <- FourNames
    Order <- AllNames
    Values <- SomeValues
    Word <- FirstWord
    Empty = ""
    Scrap = "?"
    MaxCalls = 3
INVARIANT NoStray
PROPERTIES ReadBack RoundTrip
CHECK_DEADLOCK FALSE
