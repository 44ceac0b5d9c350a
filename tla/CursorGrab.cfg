SPECIFICATION CursorSpec
CONSTANTS
    Views = {v1, x1}
    Toplevels = {v1}
    Outputs = {o1, o2}
    WorkspaceCount = 2
    NULL = NULL
    Headless = FALSE
    Workspaces <- MCWorkspaces
    OutputOf <- MCOutputOf
    WorkspacesOf <- MCWorkspacesOf
SYMMETRY Symmetry
CHECK_DEADLOCK FALSE
INVARIANTS
    GrabbedLives
    ListsAgree
    GoneUnused
