SPECIFICATION FairSpec
CONSTANTS
    MaxSessions = 2
    MaxEvents = 2
    MaxFails = 1
    MaxLate = 1
INVARIANTS CommandsAccepted KeysAgree
PROPERTIES RevocationTakesEffect ProfileReaches
CHECK_DEADLOCK FALSE
