-------------------------- MODULE ContainerTreeOps --------------------------
(***************************************************************************)
(* The container tree of the compositor and the functions that change it   *)
(* (desktop/tree/container.c, desktop/tree/workspace.c and                 *)
(* e_output_display_workspace of desktop/output.c), one operator for each  *)
(* function of the code: an operator takes a tree and returns the tree the *)
(* function leaves behind, so that a handler which calls several functions *)
(* is written as the composition of their operators.                       *)
(*                                                                         *)
(* A tree t is a record:                                                   *)
(*   t.workspace[v]    container->workspace of v's view container, or NULL *)
(*   t.parent[v]       the workspace whose root tiling container is        *)
(*                     container->parent, or NULL (floating or unplaced)   *)
(*   t.fullscreen[v]   container->fullscreen                               *)
(*   t.node[v]         where the container's scene node hangs: <<l, w>> is *)
(*                     layer l of workspace w, Pending is server->pending  *)
(*   t.children[w]     root_tiling_container->children of w                *)
(*   t.floating[w]     floating_containers of w                            *)
(*   t.fsContainer[w]  fullscreen_container of w, or NULL                  *)
(*   t.activated[w]    active flag of w                                    *)
(*   t.enabled[w]      which scene layers of w are enabled: none, the      *)
(*                     tiling and floating ones, or the fullscreen one     *)
(*   t.displayed[o]    active_workspace of output o, or NULL               *)
(*                                                                         *)
(* A view and its view container share one name v.  The only tree          *)
(* containers the code ever makes are the root tiling containers of the    *)
(* workspaces, so a workspace names its root.  Areas and percentages are   *)
(* left to other modules.                                                  *)
(***************************************************************************)
EXTENDS ListOps, Naturals, Sequences

CONSTANTS
    Views,        \* views (xdg toplevels and managed X11 windows)
    Outputs,      \* the outputs that are ever added
    Workspaces,   \* the workspaces of all outputs
    OutputOf,     \* workspace->output
    WorkspacesOf, \* workspace_group.workspaces of each output
    NULL          \* the null pointer

ASSUME TreeAssumption ==
    /\ NULL \notin Views \cup Workspaces \cup Outputs
    /\ OutputOf \in [Workspaces -> Outputs]
    /\ WorkspacesOf \in [Outputs -> Seq(Workspaces)]
    /\ \A o \in Outputs :
          /\ WorkspacesOf[o] # <<>>
          /\ NoDuplicates(WorkspacesOf[o])
          /\ Items(WorkspacesOf[o]) = {w \in Workspaces : OutputOf[w] = o}

Pending == <<"pending", NULL>>

Layers == {"tiling", "floating", "fullscreen"}

Trees ==
    [workspace   : [Views -> Workspaces \cup {NULL}],
     parent      : [Views -> Workspaces \cup {NULL}],
     fullscreen  : [Views -> BOOLEAN],
     node        : [Views -> (Layers \X Workspaces) \cup {Pending}],
     children    : [Workspaces -> Seq(Views)],
     floating    : [Workspaces -> Seq(Views)],
     fsContainer : [Workspaces -> Views \cup {NULL}],
     activated   : [Workspaces -> BOOLEAN],
     enabled     : [Workspaces -> {"none", "desktop", "fullscreen"}],
     displayed   : [Outputs -> Workspaces \cup {NULL}]]

FirstWorkspace(o) == WorkspacesOf[o][1]

\* The workspace behind w in the list of its output, the first one after the last.
NextWorkspace(w) ==
    LET list == WorkspacesOf[OutputOf[w]]
    IN  list[(ListFind(list, w) % Len(list)) + 1]

\* The tree before the first output is there.  The workspaces of an output that
\* has not been added yet do not exist: nothing refers to them.
EmptyTree ==
    [workspace   |-> [v \in Views |-> NULL],
     parent      |-> [v \in Views |-> NULL],
     fullscreen  |-> [v \in Views |-> FALSE],
     node        |-> [v \in Views |-> Pending],
     children    |-> [w \in Workspaces |-> <<>>],
     floating    |-> [w \in Workspaces |-> <<>>],
     fsContainer |-> [w \in Workspaces |-> NULL],
     activated   |-> [w \in Workspaces |-> FALSE],
     enabled     |-> [w \in Workspaces |-> "none"],
     displayed   |-> [o \in Outputs |-> NULL]]

(***************************************************************************)
(* Containers                                                              *)
(***************************************************************************)

IsTiled(t, v) == t.parent[v] # NULL

SetFullscreen(t, v, full) == [t EXCEPT !.fullscreen[v] = full]

\* Mutant: the new container's node is created nowhere.
InitContainerNoNode(t, v) ==
    [t EXCEPT !.workspace[v] = NULL, !.parent[v] = NULL,
              !.fullscreen[v] = FALSE, !.node[v] = NULL]

\* e_container_init: a new container is nowhere, its node in server->pending.
InitContainer(t, v) ==
    [t EXCEPT !.workspace[v] = NULL, !.parent[v] = NULL,
              !.fullscreen[v] = FALSE, !.node[v] = Pending]

\* Take v out of the tree container that holds it.
LeaveParent(t, v) ==
    [t EXCEPT !.children = [w \in Workspaces |->
                               IF w = t.parent[v] THEN ListRemove(t.children[w], v)
                                                  ELSE t.children[w]],
              !.parent[v] = NULL]

\* Mutant: the container stays in the floating list.
LeaveWorkspaceKeepsFloating(t, v) ==
    [t EXCEPT
        !.fsContainer = [w \in Workspaces |->
            IF w = t.workspace[v] /\ t.fullscreen[v] THEN NULL ELSE t.fsContainer[w]],
        !.workspace[v] = NULL]

\* Take v out of its workspace; v keeps its own fullscreen flag.
LeaveWorkspace(t, v) ==
    [t EXCEPT
        !.fsContainer = [w \in Workspaces |->
            IF w = t.workspace[v] /\ t.fullscreen[v] THEN NULL ELSE t.fsContainer[w]],
        !.floating = [w \in Workspaces |->
            IF w = t.workspace[v] THEN ListRemove(t.floating[w], v) ELSE t.floating[w]],
        !.workspace[v] = NULL]

\* Mutant: the container's node stays in the layers of the old workspace.
LeaveKeepsNode(t, v) == LeaveParent(LeaveWorkspace(t, v), v)

\* e_container_leave.
Leave(t, v) == [LeaveParent(LeaveWorkspace(t, v), v) EXCEPT !.node[v] = Pending]

(***************************************************************************)
(* Workspaces                                                              *)
(***************************************************************************)

\* Mutant: the flag of the previous fullscreen container is not cleared.
ChangeFullscreenKeepsOld(t, w, v) ==
    [t EXCEPT !.fullscreen = [u \in Views |-> u = v \/ t.fullscreen[u]],
              !.fsContainer[w] = v]

\* e_workspace_change_fullscreen_container, v may be NULL.
ChangeFullscreen(t, w, v) ==
    [t EXCEPT !.fullscreen = [u \in Views |->
                                 u = v \/ (t.fullscreen[u] /\ u # t.fsContainer[w])],
              !.fsContainer[w] = v]

\* e_container_reparented_workspace, for a view container.
Reparented(t, v) ==
    IF t.fullscreen[v] THEN ChangeFullscreen(t, t.workspace[v], v) ELSE t

InsertTiled(t, w, v) ==
    [t EXCEPT !.workspace[v] = w, !.parent[v] = w,
              !.children[w] = Append(t.children[w], v)]

InsertFloating(t, w, v) ==
    [t EXCEPT !.workspace[v] = w, !.floating[w] = Append(t.floating[w], v)]

\* e_workspace_add_tiled_container, e_workspace_add_floating_container.
AddContainer(t, w, v, tiled) ==
    Reparented(IF tiled THEN InsertTiled(t, w, v) ELSE InsertFloating(t, w, v), v)

\* Mutant: whether the container was tiled is read after it has left its parent.
MoveToWorkspaceFloats(t, v, w) ==
    AddContainer(Leave(t, v), w, v, IsTiled(Leave(t, v), v))

ChangeTiling(t, v, tiled) == AddContainer(Leave(t, v), t.workspace[v], v, tiled)

MoveToWorkspace(t, v, w) == AddContainer(Leave(t, v), w, v, IsTiled(t, v))

\* Which layers e_workspace_update_tree_visibility enables.
Visibility(t, w) ==
    IF ~t.activated[w] THEN "none"
    ELSE IF t.fsContainer[w] = NULL THEN "desktop" ELSE "fullscreen"

\* e_container_arrange of the root of w: every tiled container of w is hung
\* under the root, the fullscreen one too.
ArrangeRoot(t, w) ==
    [t EXCEPT !.node = [v \in Views |->
        IF v \in Items(t.children[w]) THEN <<"tiling", w>> ELSE t.node[v]]]

\* e_workspace_arrange and e_workspace_rearrange.
Arrange(t, w) ==
    [t EXCEPT
        !.node = [v \in Views |->
            IF t.fsContainer[w] # NULL
            THEN IF v = t.fsContainer[w] THEN <<"fullscreen", w>> ELSE t.node[v]
            ELSE IF v \in Items(t.floating[w]) THEN <<"floating", w>>
            ELSE ArrangeRoot(t, w).node[v]],
        !.enabled[w] = Visibility(t, w)]

\* e_workspace_set_activated.
SetActivated(t, w, on) ==
    LET flagged == [t EXCEPT !.activated[w] = on]
    IN  [flagged EXCEPT !.enabled[w] = Visibility(flagged, w)]

\* Mutant: the workspace displayed before stays active.
DisplayKeepsOld(t, o, w) ==
    IF t.activated[w] THEN t
    ELSE Arrange(SetActivated([t EXCEPT !.displayed[o] = w], w, TRUE), w)

\* e_output_display_workspace for a workspace w of output o; refuses one that
\* is already active.
Display(t, o, w) ==
    LET hidden == IF t.displayed[o] = NULL THEN t
                  ELSE SetActivated(t, t.displayed[o], FALSE)
    IN  IF t.activated[w] THEN t
        ELSE Arrange(SetActivated([hidden EXCEPT !.displayed[o] = w], w, TRUE), w)

\* The outputs that have been added: each displays a workspace from then on.
Present(t) == {o \in Outputs : t.displayed[o] # NULL}

\* e_desktop_hovered_output: the cursor is on some output if there is one.
Hovered(t) == IF Present(t) = {} THEN {NULL} ELSE Present(t)

\* output_init_workspaces: a new output displays its first workspace.
InitWorkspaces(t, o) == Arrange(Display(t, o, FirstWorkspace(o)), FirstWorkspace(o))

\* A container is on screen when its node hangs under an enabled layer.
OnScreen(t, v) ==
    \E w \in Workspaces :
        \/ t.node[v] = <<"fullscreen", w>> /\ t.enabled[w] = "fullscreen"
        \/ t.node[v] \in {<<"tiling", w>>, <<"floating", w>>} /\ t.enabled[w] = "desktop"

(***************************************************************************)
(* What holds of a tree between two events                                 *)
(***************************************************************************)

\* A container is exactly where its own fields say, once.
PlacedOnce(t) ==
    /\ \A w \in Workspaces : NoDuplicates(t.children[w]) /\ NoDuplicates(t.floating[w])
    /\ \A v \in Views, w \in Workspaces :
          /\ v \in Items(t.children[w]) <=> t.parent[v] = w
          /\ v \in Items(t.floating[w]) <=> t.workspace[v] = w /\ t.parent[v] = NULL
    /\ \A v \in Views : t.parent[v] # NULL => t.workspace[v] = t.parent[v]

\* The fullscreen flags of containers and the fullscreen containers of
\* workspaces agree.
FullscreenMatches(t) ==
    \A v \in Views, w \in Workspaces :
        t.fsContainer[w] = v <=> t.workspace[v] = w /\ t.fullscreen[v]

\* An output displays one of its own workspaces, and that one alone is active.
OneDisplayed(t) ==
    /\ \A o \in Present(t) : OutputOf[t.displayed[o]] = o
    /\ \A w \in Workspaces : t.activated[w] <=> t.displayed[OutputOf[w]] = w

\* The enabled scene layers of w are the ones its state calls for.
LayersMatch(t, w) == t.enabled[w] = Visibility(t, w)

\* A scene node hangs in the layers of its container's workspace or nowhere.
NodesFollow(t) ==
    \A v \in Views, w \in Workspaces, l \in Layers :
        t.node[v] = <<l, w>> => t.workspace[v] = w

\* Unless w has a fullscreen container, each container of w hangs in its layer.
SettledIn(t, w) ==
    \A v \in Views :
        t.workspace[v] = w /\ t.fsContainer[w] = NULL
            => t.node[v] = <<IF IsTiled(t, v) THEN "tiling" ELSE "floating", w>>
=============================================================================
