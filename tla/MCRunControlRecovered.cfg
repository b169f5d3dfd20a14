\* A command-line run, and a server that is started meanwhile.
SPECIFICATION FairSpec
CONSTANTS
    Handlers = {h1}
    Tickers = {s1}
    Clis = {c1}
    Runs = {r1, r2}
    Nil = Nil
    NoOne = NoOne
    MaxFaults = 0
PROPERTY RecoveredNeverFinish
