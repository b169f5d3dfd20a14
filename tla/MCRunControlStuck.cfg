\* A start request whose client hangs up before the run is spawned.
SPECIFICATION FairSpec
CONSTANTS
    Handlers = {h1}
    Tickers = {s1}
    Clis = {c1}
    Runs = {r1, r2}
    Nil = Nil
    NoOne = NoOne
    MaxFaults = 1
PROPERTY SlotAlwaysFreed
