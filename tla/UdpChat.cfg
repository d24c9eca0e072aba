\* Two clients, two texts and the empty one; one datagram is lost or comes twice, or one
\* client is killed.
CONSTANTS
    Clients = {c1, c2}
    Texts = {hi, yo, nil}
    MaxSaid = 3
    Empty = nil
    Nobody = Nobody
    Blank = Blank
    MaxFlight = 3
    MaxFaults = 1
SPECIFICATION FairSpec
INVARIANT TypeOK
PROPERTIES ImplementsRoom Heard
CHECK_DEADLOCK FALSE
