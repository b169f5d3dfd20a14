\* One device with an export and a binary backup, two branches, two events: a
\* kill can meet a foreign push, a changed device, or another kill.
SPECIFICATION Spec
CONSTANTS
    Devices = {d1}
    Binaries = {d1}
    Contents = {v1, v2}
    Branches = {main, fleet}
    Main = main
    NoRemote = NoRemote
    Absent = Absent
    Torn = Torn
    MaxEvents = 2
SYMMETRY Symmetry
INVARIANTS
    TypeOK
    NothingTornCommitted
    ReportedIsCommitted
    PushedIsOnRemote
    OnlyBinariesLeftBehind
PROPERTIES
    HistoryKept
