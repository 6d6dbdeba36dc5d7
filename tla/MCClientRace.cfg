SPECIFICATION Spec
CONSTANTS
    Runs = {r1, r2}
    Resources = {"notes", "paper"}
    Contents = {"x", "y"}
    Stored = {"x", "y"}
    None = None
SYMMETRY RunSymmetry
INVARIANTS
    StagedIntact
