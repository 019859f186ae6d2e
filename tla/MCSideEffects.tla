--------------------------- MODULE MCSideEffects ---------------------------
EXTENDS SideEffects, TLC

CONSTANTS t1, t2, g1, g2, h1, h2, render

Worker1 == {1}
Workers == {1, 2}
Utc     == {0}

\* g1 covers both tasks but pays for one of them, twice; g2 belongs to
\* somebody who is no worker.
MCSubjectOf    == [g \in Grant |-> IF g = g1 THEN 1 ELSE 2]
MCActionsOf    == [g \in Grant |-> {"write"}]
MCResourcesOf  == [g \in Grant |-> Task]
MCExpiresAt    == [g \in Grant |-> IF g = g1 THEN 2 ELSE 1]
MCMaxEffects   == [g \in Grant |-> IF g = g1 THEN 2 ELSE 1]
MCMaxResources == [g \in Grant |-> 1]

HandlerTaskSymmetry == Permutations(Handler) \union Permutations(Task)
=============================================================================
