CONSTANTS
    r1 = r1
    RefIds = {r1}
    Inputs <- MCInputs
    Trusted <- MCTrusted
SPECIFICATION Spec
INVARIANTS
    UntrustedJunctionsClipped
