\* The sleep of one hour against the delay of 24.
SPECIFICATION Spec
CONSTANTS
    r1 = r1
    a1 = a1
    Requests = {r1}
    Accounts = {a1}
    AccountOf <- OneAccount
    RetainUntil <- NoRetention
    Delay = 24
    MaxSleep = 1
    StubStore = FALSE
    MaxTime = 25
INVARIANTS
    CoolingOff
