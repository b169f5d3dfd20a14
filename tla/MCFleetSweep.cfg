\* Two routers, one of them known; two permits.  Two sweeps of any kinds, the one of
\* the fleet and the other of the first router, or of both; the first router may be
\* deleted or the server stopped meanwhile, and one thread may outlive its timeout.
SPECIFICATION FairSpec
CONSTANTS
    Devices = {1, 2}
    Enabled = {1, 2}
    Named = {1}
    Pinned = {2}
    Policy = "accept-new"
    Concurrency = 2
    Answers <- MCAnswers
    MaxSweeps = 2
    MaxSelected = 3
    MaxEvents = 1
    MaxOrphans = 1
    None = None
CHECK_DEADLOCK FALSE
INVARIANTS
    TypeOK
    EachOnce
    LastGoodShown
    PinsKept
    FlagIsACheck
PROPERTIES
    SweepsEnd
