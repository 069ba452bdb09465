SPECIFICATION FairSpec
CONSTANTS
    Batches = {b1, b2}
    Keyless = {b2}
    MaxEntries = 2
    CompactAfter = 1
    Faults = {"accept_write", "accept_sync", "abort", "commit", "snapshot", "replace", "reopen"}
    TornTails = TRUE
    CrashPoints = {"ready", "written", "synced", "aborting", "committing", "compacting", "snapshotted"}
    MaxSequence = 3
    MaxCrashes = 2
    MaxFaults = 1
INVARIANTS
    SurvivesWhileIntact
    RestartTransparent
    AcceptedOnce
PROPERTY AcknowledgedIsStored
CHECK_DEADLOCK FALSE
