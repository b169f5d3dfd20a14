\* A request, the scheduler and a command-line run; two run ids, so that a run can
\* follow one whose row was left open; three faults.
SPECIFICATION FairSpec
CONSTANTS
    Handlers = {h1}
    Tickers = {s1}
    Clis = {c1}
    Runs = {r1, r2}
    Nil = Nil
    NoOne = NoOne
    MaxFaults = 3
INVARIANTS
    TypeOK
    RunsExclusive
    SlotShowsRun
    LiveMatchesRow
    RowOpenWhileRunning
PROPERTIES
    VerdictsFinal
    SlotFreed
    LockFreed
