SPECIFICATION FairSpec
CONSTANTS
    NULL = NULL
    Gone = Gone
    Migrations = {m1}
    Guests <- MCGuests
    Min <- MCMin
    MaxCores = 3
    PodNames = {r1, r2, r3}
    Worlds <- MCWorlds
INVARIANTS OneGuest GuestIsTracked
PROPERTY Settles
CHECK_DEADLOCK FALSE
