\* A cancellation against an executor that has already read the request.
SPECIFICATION Spec
CONSTANTS
    r1 = r1
    a1 = a1
    Requests = {r1}
    Accounts = {a1}
    AccountOf <- OneAccount
    RetainUntil <- NoRetention
    Delay = 24
    MaxSleep = 1
    StubStore = FALSE
    MaxTime = 25
PROPERTIES
    CancellationReverses
