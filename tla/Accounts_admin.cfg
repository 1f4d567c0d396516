SPECIFICATION Spec
CONSTANTS
    Scenarios <- Registrations
    Emails = {"a", "b"}
    MaxUsers = 2
    MaxTokens = 4
    MaxTime = 3
    Browsers = {"b1"}
    Requests = {"r1", "r2"}
    Views = {"v1", "v2"}
    LinkValidity = 1
    ChangeValidity = 2
    SessionValidity = 3
    ReissueAge = 2
    SudoAge = 1
INVARIANTS OneAdmin
