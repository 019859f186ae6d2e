SPECIFICATION Spec
CONSTANTS
    Aggregate = {a1, a2}
    Publisher = {p1, p2}
    Projection = {r1}
    MaxEvents = 5
    Digest = {d1, d2}
    Writer = {w1, w2, w3}
    MaxRecords = 3
    MaxFaults = 1
    s1 = s1
    g1 = g1
    g2 = g2
    Subscription = {s1}
    Grant = {g1, g2}
    GrantOf <- MCGrantOf
    PeriodStart <- MCPeriodStart
    PeriodEnd <- MCPeriodEnd
    Server = {h1, h2}
    MaxTime = 3
    Product = {b1}
    Order = {o1}
    Token = {t1, t2}
    Reader = {r1, r2}
    TTL = 1
    MaxDay = 2
    MaxDownloads = 1
    Identity = {i1, i2, i3}
    Account = {u1, u2}
    Session = {k1, k2}
    Handler = {q1, q2}
    Challenge = {c1, c2, c3, c4}
    Issuer = {x1, x2}
    Verifier = {v1, v2}
    MaxIssues = 2
    Package = {n1, n2}
    Poster = {y1, y2, y3}
    MaxPosts = 2
SYMMETRY Symmetry
INVARIANT CancelledIsDenied
CHECK_DEADLOCK FALSE
