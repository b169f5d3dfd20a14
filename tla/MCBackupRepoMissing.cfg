\* Commits of an interrupted run, and a remote without the branch.
SPECIFICATION Spec
CONSTANTS
    Devices = {d1}
    Binaries = {}
    Contents = {v1, v2}
    Branches = {main, fleet}
    Main = main
    NoRemote = NoRemote
    Absent = Absent
    Torn = Torn
    MaxEvents = 1
SYMMETRY Symmetry
INVARIANT InterruptedPushMadeUp
