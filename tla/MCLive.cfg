SPECIFICATION LiveSpec
CONSTANTS
    Callers = {c1, c2, c3}
    NoJob = NoJob
    None = None
INVARIANTS
    MailboxInv
    SnapshotInv
    LedgerInv
PROPERTIES
    PostedJobReturns
    LoadReturns
    SchemaSound
    CallsReturn
    WalkEnds
    DaemonStops
