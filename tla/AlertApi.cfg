\* The key outlives the token by more than MaxAwait; Redis may raise and lose the key, and
\* tasks may be lost.
SPECIFICATION AlertSpec
CONSTANTS
    r1 = r1
    r2 = r2
    l1 = l1
    Requests = {r1, r2}
    Logouts = {l1}
    Lifetime = 2
    TTL = 4
    MaxAwait = 1
    RedisFails = TRUE
    RedisLoses = TRUE
    MaxAge = 4
    RoleSets <- SomeRoles
    Asked = {"history", "mark_false", "file_sar"}
SYMMETRY Symmetry
INVARIANTS
    TrailAgrees
    AlertInvariant
    RevokedIsRefused
