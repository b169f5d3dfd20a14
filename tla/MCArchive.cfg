\* A tenant, a device, its samples and its update row; a dump while they are written.
SPECIFICATION Spec
CONSTANTS
    Written <- MCWritten
    Texts <- MCTexts
    EnvFile <- MCEnvFile
    MaxWrites = 4
    MaxDumps = 1
    None = None
CHECK_DEADLOCK FALSE
INVARIANTS
    TypeOK
    QuietDumpsRestore
    RestoresTheDump
PROPERTIES
    AllOrNothing
