\* A signal that arrives before Run has set its flag.
SPECIFICATION FairSpec
CONSTANTS
    Users = {main}
    EnableTCP = TRUE
    EnableUDP = FALSE
CHECK_DEADLOCK FALSE
PROPERTY StopStops
