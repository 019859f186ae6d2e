\* Two workers, two tasks, leases that expire, move and are renewed; clocks agree.
SPECIFICATION Spec
CONSTANTS
    t1 = t1  t2 = t2  render = render
    Worker <- Workers2
    Task = {t1, t2}
    Capability = {render}
    MaxQuota = 2
    MaxFence = 2
    Duration = 1
    MaxTime = 2
    MaxLag = 0
    Zone <- Utc
SYMMETRY TaskSymmetry
INVARIANTS  LeasesIdentifyHolders
PROPERTIES  ImplementsFencedTasks
