\* Two failures in different minutes, of which the older one leaves the window.
SPECIFICATION Spec
CONSTANTS
    Browsers = {b1, b2}
    Addresses = {i1}
    Names = {admin}
    Accounts = {admin}
    Passwords = {old, new}
    MaxPerUser = 2
    MaxPerIp = 2
    Window = 2
    Ttl = 1
    MaxSessions = 2
    MaxCommands = 1
    None = None
SYMMETRY Symmetry
PROPERTY LockedSinceMostRecent
