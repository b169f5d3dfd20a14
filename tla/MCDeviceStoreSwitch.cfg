\* A device that logs in through an agent is given a password.
SPECIFICATION Spec
CONSTANTS
    Ids = {d1, d2}
    Names <- MCNames
    Tenants = {1, 2}
    Fold <- MCFold
    Slug <- MCSlug
    Policies = {"stable", "held"}
    DefaultPolicy = "stable"
    Operators = {o1, o2}
    Forms <- MCForms
    Adds <- MCAdds
    MaxHandlers = 3
    None = None
    Gone = Gone
CHECK_DEADLOCK FALSE
INVARIANT TypedPasswordAccepted
