SPECIFICATION Spec
CONSTANTS
    NoMsg = NoMsg
    ClientCookie = blue
    ServerCookie = red
    NoCookie = NoCookie
    AckCopies = 5
    MaxPending = 1
\* The server may be left retrying for ever; with its retries capped by
\* MaxPending it then stops.
CHECK_DEADLOCK FALSE
INVARIANTS Agreement NoPrematureMessage
PROPERTIES ImplementsHandshake ServerStuckOnlyOnLostAcks ServerFinishes
