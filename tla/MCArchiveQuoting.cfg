\* A row with an apostrophe, and nothing else going on.
SPECIFICATION Spec
CONSTANTS
    Written <- MCWritten
    Texts <- MCTexts
    EnvFile <- MCEnvFile
    MaxWrites = 1
    MaxDumps = 1
    None = None
CHECK_DEADLOCK FALSE
INVARIANTS
    QuotingSidestepped
