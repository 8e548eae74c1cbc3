CONSTANTS
    r1 = r1
    RefIds = {r1}
    Inputs <- MCInputs
    Trusted <- MCTrusted
SPECIFICATION FairSpec
INVARIANTS
    TypeOK
    ShapePreserved
PROPERTIES
    ImplementsClipMSRSpec
    ClipReturns
