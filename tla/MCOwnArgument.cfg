SPECIFICATION Spec
CONSTANTS
    Sig <- MCSig
    Unmaskable <- MCUnmaskable
    Stop = 3
    Sets <- MCSets
    MaxKicks = 1
    Timed = FALSE
    None = None
INVARIANT OwnArgument
