CONSTANTS
    Names = {"x", "y"}
    Results = {"x"}
    Params = {"x"}
    Rows = {r1, r2}
    Tables = {t1}
    Ints = {0, 1}
    Scalars = {}
    MaxLength = 2
    MaxFrames = 2
    MaxNest = 1
    MaxChanges = 2
    MaxSteps = 6
SPECIFICATION Spec
SYMMETRY Symmetry
INVARIANTS
    TypeOK
    TraceMirrorsTheFrames
    AliasesAreExact
    JournalReplays
