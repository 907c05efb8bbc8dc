\* Overlapping, failing and dying handlers with the layers around them, and a Redis that
\* may lose the key.
SPECIFICATION HttpFairSpec
CONSTANTS
    h1 = h1
    h2 = h2
    Handlers = {h1, h2}
    Limit = 2
    Window = 2
    Faults = {"pair_broken", "key_evicted"}
    MaxCount = 5
    NoAnswer = NoAnswer
INVARIANTS
    HttpInvariant
    BurstBound
    KeyIsTimed
    AddressesStayMasked
PROPERTIES
    WholePairsRecover
