\* See MCBlockQueue.tla for the choice of the instance.
CONSTANTS
    Producers = {p1, p2}
    Consumers = {c1, c2}
    Items     = {v1, v2}
    Capacity  <- MCCapacity
    Nobody    = Nobody
    NoItem    = NoItem
SPECIFICATION FairSpec
INVARIANTS TypeOK NoOverrun ConsumersCovered ProducersCovered
PROPERTIES ImplementsFifo ItemsFlow
