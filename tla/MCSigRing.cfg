SPECIFICATION Spec
CONSTANTS
    Sig <- MCSig
    Ungateable <- MCFault
    Sync <- MCFault
    Handled <- MCHandled
    SigqMin = 8
    SigqLimit = 10
    SigqGate = 3
    Masks <- MCMasks
    MaxSent <- MCSent
    None = None
INVARIANTS TypeOK InOrder CountsMatch GateHolds
CHECK_DEADLOCK FALSE
