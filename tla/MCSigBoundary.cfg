SPECIFICATION FairSpec
CONSTANTS
    Sig <- MCSig
    Unmaskable <- MCUnmaskable
    Stop = 3
    Sets <- MCSets
    MaxKicks = 1
    Timed = FALSE
    None = None
INVARIANTS TypeOK FlagUp SleepCovered BlockCovered EintrHidden SavedMaskSettled
PROPERTIES Delivered KickServed
