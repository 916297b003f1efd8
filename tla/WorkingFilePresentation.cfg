SPECIFICATION FairSpec
CONSTANTS
    s1 = s1
    s2 = s2
    p1 = p1
    p2 = p2
    Free = Free
    Worker = Worker
    NoFile = NoFile
    Session = {s1}
    Process = {p1}
    Home <- OneProcess
    Inode = {f1}
    Body = {blank, art}
    EmptyBody = blank
    NewDocument <- Blank
    Author = {nobody, ada}
    NoAuthor = nobody
    MaxRevision = 3
    MaxGeneration = 2
    Previewing = {p1}
    QueueLimit = 1
    Faults = {"io", "remove", "foreign", "memory"}
INVARIANTS
    FreshSessionSeesTheDisk
    FailedCallLeavesNoTrace
PROPERTIES
    CallReturns
    ChangeIsPresented
CHECK_DEADLOCK FALSE
