SPECIFICATION Spec
CONSTANTS
    NULL = NULL
    Gone = Gone
    Migrations = {m1, m2}
    Guests <- MCGuests
    Min <- MCMin
    MaxCores = 3
    PodNames = {r1, r2, r3}
    Worlds <- MCTwoMigrationsWorlds
PROPERTY NoScalingWhileMigrating
CHECK_DEADLOCK FALSE
