\* Two replicas pinned to one log, with crashes and one commit in doubt.
CONSTANTS
    LogId = {l1}
    NoLog = NoLog
    Record = {a, b}
    Replica = {r1, r2}
    MaxLeaves = 1
    MaxDoubt = 1
SPECIFICATION Spec
SYMMETRY Symmetric
INVARIANTS
    Contiguous
    AckedIsStored
    SignedArePrefixes
    AnchoredWereSigned
    IdleSkipIsSound
PROPERTIES
    AppendOnly
    ImplementsLog
