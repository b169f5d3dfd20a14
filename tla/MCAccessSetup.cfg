\* Two first visitors set up an account, each with a name of their own.
SPECIFICATION Spec
CONSTANTS
    Browsers = {b1, b2}
    Addresses = {i1}
    Names = {admin, root}
    Accounts = {admin, root}
    Passwords = {old, new}
    MaxPerUser = 2
    MaxPerIp = 2
    Window = 2
    Ttl = 1
    MaxSessions = 2
    MaxCommands = 1
    None = None
SYMMETRY Symmetry
INVARIANT OneAccountBySetup
