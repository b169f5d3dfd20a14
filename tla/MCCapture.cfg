\* Any router of three kinds; one name, two versions, configurations and tables of
\* accounts.  Two exports, or failed conversations, and one change at any time.
SPECIFICATION Spec
CONSTANTS
    Names = {"core"}
    Versions = {"7.13", "7.14"}
    Configs <- MCConfigs
    Accounts <- MCAccounts
    Kinds = {"board", "chr", "bare"}
    MaxCaptures = 2
    MaxChanges = 1
    None = None
CHECK_DEADLOCK FALSE
INVARIANTS
    TypeOK
    FileIsTheConfig
PROPERTIES
    QuietRouterSameFile
