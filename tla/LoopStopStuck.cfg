\* A signal after the first datagram.
SPECIFICATION FairSpec
CONSTANTS
    Users = {main}
    EnableTCP = FALSE
    EnableUDP = TRUE
CHECK_DEADLOCK FALSE
PROPERTY StopNeedsNoDatagram
