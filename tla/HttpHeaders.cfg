\* The layers of one request: which answers carry the security headers.
SPECIFICATION HttpSpec
CONSTANTS
    h1 = h1
    h2 = h2
    Handlers = {h1, h2}
    Limit = 1
    Window = 1
    Faults = {"pair_broken"}
    MaxCount = 3
    NoAnswer = NoAnswer
INVARIANTS
    AllAnswersSecured
