------------------------ MODULE MCGovernanceGateway ------------------------
EXTENDS GovernanceGateway, TLC

CONSTANTS r1, r2, r3, s1

RequestSymmetry == Permutations(Request)
=============================================================================
