SPECIFICATION Spec
CONSTANTS
    Views = {v1, v2}
    Outputs = {o1}
    WorkspaceCount = 2
    NULL = NULL
    Headless = FALSE
    Workspaces <- MCWorkspaces
    OutputOf <- MCOutputOf
    WorkspacesOf <- MCWorkspacesOf
INVARIANT FullscreenShown
