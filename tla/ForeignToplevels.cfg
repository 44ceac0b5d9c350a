SPECIFICATION ForeignSpec
CONSTANTS
    Views = {v1, x1}
    Toplevels = {v1}
    Titles = {"new"}
    Hints <- MCHints
    Freed = Freed
    Outputs = {o1, o2}
    WorkspaceCount = 2
    NULL = NULL
    Headless = FALSE
    Workspaces <- MCWorkspaces
    OutputOf <- MCOutputOf
    WorkspacesOf <- MCWorkspacesOf
SYMMETRY Symmetry
CHECK_DEADLOCK FALSE
INVARIANTS
    ForeignTypeOK
    TaskbarLists
    TaskbarTells
PROPERTY UnplugSpares
