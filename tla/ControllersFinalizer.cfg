SPECIFICATION Spec
CONSTANTS
    NULL = NULL
    Gone = Gone
    Migrations = {m1}
    Guests <- MCGuests
    Min <- MCMin
    MaxCores = 3
    PodNames = {r1, r2, r3}
    Worlds <- MCCancelWorlds
INVARIANTS DeletedMigrationFreesVM
CHECK_DEADLOCK FALSE
