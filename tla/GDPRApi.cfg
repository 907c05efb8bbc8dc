\* Two requests through the routes; entries of the audit trail can be signed.
SPECIFICATION ApiFairSpec
CONSTANTS
    r1 = r1
    r2 = r2
    a1 = a1
    Requests = {r1, r2}
    Accounts = {a1}
    AccountOf <- OneAccount
    RetainUntil <- RetentionOfTwo
    Delay = 1
    MaxSleep = 1
    StubStore = FALSE
    MaxTime = 2
    AuditSigns = TRUE
    AuditFails = TRUE
INVARIANTS
    ApiInvariant
    RetentionHonoured
    CompletedMeansErased
PROPERTIES
    ErasurePromiseKept
    AcceptedSettles
