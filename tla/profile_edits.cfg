SPECIFICATION Spec
CONSTANTS
    Editors = {e1, e2}
    Names = {n1, n2}
    Accounts = {a1, a2}
    None = None
    NoAccount = NoAccount
    MaxEdits = 4
INVARIANTS
    SecretsAreThere
    NothingIsLeftBehind
CHECK_DEADLOCK FALSE
