\* Two devices, two operators at once, and every pair of handlers.
SPECIFICATION Spec
CONSTANTS
    Ids = {d1, d2}
    Names <- MCNames
    Tenants = {1, 2}
    Fold <- MCFold
    Slug <- MCSlug
    Policies = {"stable", "held"}
    DefaultPolicy = "stable"
    Operators = {o1, o2}
    Forms <- MCForms
    Adds <- MCAdds
    MaxHandlers = 5
    None = None
    Gone = Gone
CHECK_DEADLOCK FALSE
SYMMETRY Symmetry
INVARIANTS
    TypeOK
    CredentialsUsable
    FactsAreTheDevices
    RunsWhatWasNamed
PROPERTIES
    TokenNeverDropped
