\* See MCRingQueue.tla for the choice of the instance.
CONSTANTS
    Producers = {p1, p2}
    Consumers = {c1, c2, c3}
    Items     = {v1, v2}
    Size      <- MCSize
    Nobody    = Nobody
    NoItem    = NoItem
SPECIFICATION FairSpec
INVARIANTS TypeOK TokensConserved NoSlotRace
PROPERTIES ImplementsFifo ItemsFlow
