SPECIFICATION Spec
CONSTANTS
    s1 = s1
    s2 = s2
    p1 = p1
    p2 = p2
    Free = Free
    Worker = Worker
    NoFile = NoFile
    Session = {s1, s2}
    Process = {p1, p2}
    Home <- OneProcess
    Inode = {f1}
    Body = {blank, art}
    EmptyBody = blank
    NewDocument <- Blank
    Author = {nobody}
    NoAuthor = nobody
    MaxRevision = 1
    MaxGeneration = 1
    Previewing = {}
    QueueLimit = 1
    Faults = {"io"}
INVARIANTS
    AcknowledgedStaysOnPath
CHECK_DEADLOCK FALSE
