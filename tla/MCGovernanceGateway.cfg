\* Three requests under a cap that has room for two charges.
SPECIFICATION Spec
CONSTANTS
    r1 = r1  r2 = r2  r3 = r3  s1 = s1
    Request = {r1, r2, r3}
    Secret = {s1}
    Price = 2
    HardCap = 5
SYMMETRY RequestSymmetry
INVARIANTS GatewayInv HardCapHolds LedgerMatchesOutcome
