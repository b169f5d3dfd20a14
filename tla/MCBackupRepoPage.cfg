\* A history page opened while a run fetches.
SPECIFICATION Spec
CONSTANTS
    Devices = {d1}
    Binaries = {}
    Contents = {v1, v2}
    Branches = {main, fleet}
    Main = main
    NoRemote = NoRemote
    Absent = Absent
    Torn = Torn
    MaxEvents = 4
SYMMETRY Symmetry
PROPERTY LocalHistoryKept
