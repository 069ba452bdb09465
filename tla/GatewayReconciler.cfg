SPECIFICATION FairReconcilerSpec
CONSTANTS
    Keys = {k1, k2, k3}
    PeerAddresses = {a1, a2}
    MaxChanges = 6
INVARIANTS ConvergedWhenReported
PROPERTIES Converges
CHECK_DEADLOCK FALSE
