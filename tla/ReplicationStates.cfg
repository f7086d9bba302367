SPECIFICATION Spec
CONSTANTS
    n1 = n1
    n2 = n2
    n3 = n3
    Node <- TwoNodes
    Notification = {k1}
    Keyed = {k1}
    Content = {1}
    PostState <- FiringOnly
    NoRow = NoRow
    NoOrigin = NoOrigin
    Authority = n1
    Provisioned = {n2}
    Peers <- Everyone
    Skew <- NoSkew
    Limit = 2
    Repost = TRUE
    MaxTime = 1
    MaxOps <- TwoEach
    MaxPrunes = 1
INVARIANT StatesConverge
