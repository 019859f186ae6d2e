SPECIFICATION Spec
CONSTANTS
    r1 = r1  r2 = r2  t1 = t1  t2 = t2
    Request = {r1, r2}
    Thread = {t1, t2}
    Balance = 3
    Quote = {1, 2}
    Cost = {0, 2}
    MaxJobs = 2
    MaxCrashes = 1
SYMMETRY RequestThreadSymmetry
INVARIANTS CreditsInv CreditsConserved 
CHECK_DEADLOCK FALSE
