SPECIFICATION Spec
CONSTANTS
    Clients = {c1, c2}
    Outputs = {o1}
    WorkspaceCount = 2
    Workspaces <- MCWorkspaces
    OutputOf <- MCOutputOf
    FirstOf <- MCFirstOf
    Protocols = {"cosmic", "ext"}
    MaxOps = 2
CHECK_DEADLOCK FALSE
INVARIANTS
    TypeOK
    ToldAlike
    DoneComing
    SwitchesAtomically
    SessionRefers
PROPERTIES
    LastRequestWins
    CatchesUp
