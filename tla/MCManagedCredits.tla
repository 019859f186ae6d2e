-------------------------- MODULE MCManagedCredits --------------------------
EXTENDS ManagedCredits, TLC

CONSTANTS r1, r2, t1, t2

RequestThreadSymmetry == Permutations(Request) \union Permutations(Thread)
=============================================================================
