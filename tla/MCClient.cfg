SPECIFICATION Spec
CONSTANTS
    Runs = {r1, r2, r3}
    Resources = {"notes", "paper"}
    Contents = {"x", "y"}
    Stored = {"x"}
    None = None
SYMMETRY RunSymmetry
INVARIANTS
    TypeOK
    VerifiedBeforeStaged
    ExitsTruthful
    DamagedOnlyByRace
    StagedComplete
    IntactAtRest
