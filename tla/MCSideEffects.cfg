\* Two handlers, a worker with two tasks, its grant and somebody else's.
SPECIFICATION SideEffectsSpec
CONSTANTS
    t1 = t1  t2 = t2  g1 = g1  g2 = g2  h1 = h1  h2 = h2  render = render
    Worker <- Worker1
    Task = {t1, t2}
    Capability = {render}
    MaxQuota = 1
    MaxFence = 2
    Duration = 1
    MaxTime = 1
    MaxLag = 0
    Zone <- Utc
    Grant = {g1, g2}
    Subject <- Workers
    Action = {"write"}
    Resource = {t1, t2}
    SubjectOf <- MCSubjectOf
    ActionsOf <- MCActionsOf
    ResourcesOf <- MCResourcesOf
    ExpiresAt <- MCExpiresAt
    MaxEffects <- MCMaxEffects
    MaxResources <- MCMaxResources
    Handler = {h1, h2}
SYMMETRY HandlerTaskSymmetry
INVARIANTS SideEffectsInv BlastRadiusBounded
PROPERTIES StoppedStaysStopped
