CONSTANTS
    Procs = {p1, p2}
    t1 = t1
    t2 = t2
    t3 = t3
    Txs = {t1, t2, t3}
    Valid <- Sound
    Inodes = {i1, i2, i3, i4}
    None = None
    MaxRuns = 3
SPECIFICATION Spec
SYMMETRY Symmetry
INVARIANTS
    TypeOK
    WholeUnlessShared
    ProposalsApplyToWhatTheySaw
