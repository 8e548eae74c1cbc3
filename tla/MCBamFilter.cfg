CONSTANTS
    r1 = r1
    RefIds = {r1}
    Inputs <- MCInputs
    Trusted <- MCTrusted
    MaxReads <- MCMaxReads
SPECIFICATION FairSpec
INVARIANTS
    TypeOK
    KeptIffTrusted
    SideChannelsLockstep
    CountersMatchOutput
PROPERTIES
    FilterCompletes
