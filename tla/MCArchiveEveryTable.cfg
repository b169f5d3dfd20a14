\* A device with a row of device_updates, and a row written after it.
SPECIFICATION Spec
CONSTANTS
    Written <- MCWritten
    Texts <- MCTexts
    EnvFile <- MCEnvFile
    MaxWrites = 4
    MaxDumps = 1
    None = None
CHECK_DEADLOCK FALSE
INVARIANTS
    EveryTableComesBack
