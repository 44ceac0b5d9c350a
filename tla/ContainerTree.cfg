SPECIFICATION Spec
CONSTANTS
    Views = {v1, v2, v3}
    Outputs = {o1, o2}
    WorkspaceCount = 2
    NULL = NULL
    Workspaces <- MCWorkspaces
    OutputOf <- MCOutputOf
    WorkspacesOf <- MCWorkspacesOf
    Headless = FALSE
SYMMETRY Symmetry
INVARIANTS
    TypeOK
    WellPlaced
    FullscreenAgrees
    DisplayAgrees
    NoStrayNode
    Settled
    NothingLeftBehind
    NoAbort
PROPERTIES
    FocusReveals
    ViewsComeAndGo
    PlacementSpec
