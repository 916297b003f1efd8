SPECIFICATION Spec
CONSTANTS
    s1 = s1
    s2 = s2
    p1 = p1
    p2 = p2
    Free = Free
    Worker = Worker
    NoFile = NoFile
    Session = {s1, s2}
    Process = {p1, p2}
    Home <- TwoProcesses
    Inode = {f1}
    Body = {blank, art}
    EmptyBody = blank
    NewDocument <- BlankOldOrNew
    Author = {nobody}
    NoAuthor = nobody
    MaxRevision = 2
    MaxGeneration = 1
    Previewing = {}
    QueueLimit = 1
    Faults = {"io", "memory", "crash", "notify"}
INVARIANTS
    IdleHoldsNothing
    MemoryIsCommitted
    LedgerMatchesRevision
PROPERTIES
    NoLostUpdate
    ImplementsRegister
CHECK_DEADLOCK FALSE
