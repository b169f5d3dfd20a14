\* Two browsers and two addresses they may give; one account, two passwords for it,
\* and two sessions.
SPECIFICATION Spec
CONSTANTS
    Browsers = {b1, b2}
    Addresses = {i1, i2}
    Names = {admin}
    Accounts = {admin}
    Passwords = {old, new}
    MaxPerUser = 2
    MaxPerIp = 2
    Window = 2
    Ttl = 1
    MaxSessions = 2
    MaxCommands = 1
    None = None
SYMMETRY Symmetry
INVARIANTS
    TypeOK
    GuessesBounded
    OldPasswordShut
    LoggedOutIsOut
PROPERTIES
    NoTakeover
    StaysSignedIn
