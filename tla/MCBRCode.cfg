SPECIFICATION MCSpec
CONSTANT Request <- MCRequest
INVARIANTS
    CodeCarries
    DamageShows
CHECK_DEADLOCK FALSE
