SPECIFICATION Spec
CONSTANTS
    Family <- MCFamily
    Order <- MCOrder
    MsalAccounts = {"drive"}
    Calls = {c1, c2}
    Operations = {"list"}
    MaxVersion = 3
    Absent = Absent
    Cut = Cut
    Unloaded = Unloaded
SYMMETRY CallSymmetry
INVARIANTS
    TypeOK
    ProbedFirst
    UsedIsKept
PROPERTIES
    BackendSpec
