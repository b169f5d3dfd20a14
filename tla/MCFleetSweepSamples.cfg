\* Two routers are polled, and one is deleted before its sample is stored.
SPECIFICATION Spec
CONSTANTS
    Devices = {1, 2}
    Enabled = {1, 2}
    Named = {1}
    Pinned = {}
    Policy = "accept-new"
    Concurrency = 2
    Answers <- MCAnswers
    MaxSweeps = 1
    MaxSelected = 2
    MaxEvents = 1
    MaxOrphans = 0
    None = None
CHECK_DEADLOCK FALSE
INVARIANT BadRowCostsItself
