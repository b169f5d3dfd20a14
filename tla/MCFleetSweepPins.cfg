\* Two routers that are connected to for the first time, at once.
SPECIFICATION Spec
CONSTANTS
    Devices = {1, 2}
    Enabled = {1, 2}
    Named = {1}
    Pinned = {}
    Policy = "accept-new"
    Concurrency = 2
    Answers <- MCAnswers
    MaxSweeps = 1
    MaxSelected = 2
    MaxEvents = 0
    MaxOrphans = 0
    None = None
CHECK_DEADLOCK FALSE
INVARIANT FirstUsePinned
