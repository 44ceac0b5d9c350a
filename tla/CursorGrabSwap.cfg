SPECIFICATION CursorSpec
CONSTANTS
    Views = {v1, x1}
    Toplevels = {v1}
    Outputs = {o1}
    WorkspaceCount = 2
    NULL = NULL
    Headless = FALSE
    Workspaces <- MCWorkspaces
    OutputOf <- MCOutputOf
    WorkspacesOf <- MCWorkspacesOf
CHECK_DEADLOCK FALSE
INVARIANT WorkspaceOfParent
