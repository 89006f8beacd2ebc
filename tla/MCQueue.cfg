\* Two writers and two readers around a queue of two, and a thread that breaks it.
SPECIFICATION FairSpec
CONSTANTS
    Producers = {p1, p2}
    Consumers = {c1, c2}
    Breakers = {b1}
    Elements = {e1, e2, e3}
    NullPtr = NullPtr
    Capacity = 2
INVARIANTS TypeOK Conservation ExactOutcome
PROPERTIES FrozenAfterBreak EventuallyTaken ImplementsFifo
CHECK_DEADLOCK FALSE
