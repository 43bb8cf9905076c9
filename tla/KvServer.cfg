SPECIFICATION Spec
CONSTANTS
    Server <- MCServer
    First = "s1"
    Clerk <- MCClerk
    Script <- MCScript
    MaxTerm = 2
    MaxLog = 3
    MaxEarly = 0
    LateNotify = FALSE
    QuickRetry = FALSE
INVARIANTS
    AppliedOnce
    CallsConsistent

    
CHECK_DEADLOCK FALSE
