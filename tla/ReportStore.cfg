\* Two workers, three reports, pages of one or two.
SPECIFICATION ReportSpec
SYMMETRY WorkerSymmetry
CONSTANTS
    None = None
    NaN = NaN
    Huge = Huge
    Text = Text
    Null = Null
    w1 = w1
    w2 = w2
    officer = officer
    analyst = analyst
    Workers = {w1, w2}
    Users = {officer, analyst}
    RolesOf <- Roles
    Bodies <- SomeBodies
    Limits = {1, 2}
    Stamps = {1, 2}
    MaxReports = 3
INVARIANTS
    ReportInvariant
    PagingMissesNothing
