SPECIFICATION FairSpec
CONSTANTS
    Sources = {sensor, secure_connect}
    Capacity = 2
    WakeSlots = 1
    DedupeMax = 1
    MaxErrors = 1
    MaxEmits = 3
    MaxRejects = 1
    MaxNow = 1
    MaxCrashes = 1
INVARIANTS
    StoredInOrder
PROPERTIES
    Delivered
CHECK_DEADLOCK FALSE
