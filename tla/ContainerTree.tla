---------------------------- MODULE ContainerTree ----------------------------
(***************************************************************************)
(* The desktop of the compositor: views and their containers, the          *)
(* workspaces of the outputs, and the container the seat holds active.     *)
(* One action for each event handler (desktop/tree/view_container.c,       *)
(* desktop/tree/workspace.c, desktop/output.c) and each keyboard command   *)
(* (commands.c) that changes this state.  The compositor is one thread: a  *)
(* handler runs to its end before the next event is read, so an action is  *)
(* a whole handler, and the interleaving is the order in which clients and *)
(* the user make events arrive.                                            *)
(*                                                                         *)
(* Left to other modules: geometry, layer surfaces and keyboard focus, the *)
(* cursor's grab, outputs that go.                                         *)
(***************************************************************************)
EXTENDS ContainerTreeOps

CONSTANT
    Headless      \* may the compositor run before its first output is there?

ASSUME HeadlessAssumption == Headless \in BOOLEAN

\* NULL is no place of a container either, see Abstract.
ASSUME PlaceAssumption == NULL \notin [workspace : Workspaces, tiled : BOOLEAN]

VARIABLES
    view,         \* view[v]: "none", "unmapped" or "mapped"
    tree,         \* the container tree, see ContainerTreeOps
    activeView,   \* seat->focus.active_view_container, or NULL
    aborted       \* an assertion failed or a null pointer was followed

vars == <<view, tree, activeView, aborted>>

TypeOK ==
    /\ view \in [Views -> {"none", "unmapped", "mapped"}]
    /\ tree \in Trees
    /\ activeView \in Views \cup {NULL}
    /\ aborted \in BOOLEAN

Init ==
    /\ view = [v \in Views |-> "none"]
    /\ IF Headless THEN tree = EmptyTree
       ELSE \E o \in Outputs : tree = InitWorkspaces(EmptyTree, o)
    /\ activeView = NULL
    /\ aborted = FALSE

(***************************************************************************)
(* Focus                                                                   *)
(***************************************************************************)

\* Mutant: the workspace of the new active container is not displayed.
RevealNothing(t, v) == t

\* The tree after seat_set_active_view_container(v): a container that becomes
\* active has its workspace displayed.
Reveal(t, v) ==
    LET w == t.workspace[v] IN
    IF v = activeView \/ w = NULL \/ t.displayed[OutputOf[w]] = w THEN t
    ELSE Display(t, OutputOf[w], w)

\* e_desktop_set_focus_view_container(v) at the end of a handler whose tree
\* is t.
Focus(t, v) == activeView' = v /\ tree' = Reveal(t, v)

\* e_cursor_set_focus_hover at the end of a handler whose tree is t: the cursor
\* is over a container on screen, or over none.
FocusHovered(t) ==
    \/ UNCHANGED activeView /\ tree' = t
    \/ \E v \in Views : OnScreen(t, v) /\ Focus(t, v)

(***************************************************************************)
(* Views                                                                   *)
(***************************************************************************)

\* A client makes a toplevel: e_view_container_create.
CreateView(v) ==
    /\ view[v] = "none"
    /\ view' = [view EXCEPT ![v] = "unmapped"]
    /\ tree' = InitContainer(tree, v)
    /\ UNCHANGED <<activeView, aborted>>

\* Mutant: views are mapped into the first workspace of the output.
MapTargetFirst(full, out, hovered) ==
    LET o == IF full /\ out # NULL THEN out ELSE hovered
    IN  IF o = NULL THEN NULL ELSE FirstWorkspace(o)

\* The workspace a view is mapped into, NULL when there is none.
MapTarget(full, out, hovered) ==
    LET o == IF full /\ out # NULL THEN out ELSE hovered
    IN  IF o = NULL THEN NULL ELSE tree.displayed[o]

\* e_view_container_handle_view_map.
MapView(v, full, out, floats, hovered) ==
    LET w == MapTarget(full, out, hovered)
        placed == AddContainer(SetFullscreen(tree, v, full), w, v, ~floats)
    IN  /\ view[v] = "unmapped"
        /\ view' = [view EXCEPT ![v] = "mapped"]
        /\ IF w = NULL THEN UNCHANGED <<tree, activeView, aborted>>
           ELSE IF tree.workspace[v] # NULL
           THEN aborted' = TRUE /\ UNCHANGED <<tree, activeView>>
           ELSE Focus(Arrange(placed, w), v) /\ UNCHANGED aborted

\* Mutant: the workspace of an unmapped container is not rearranged.
UnmappedNoRearrange(v) == Leave(tree, v)

\* Mutant: an unmapped container stays in its workspace.
UnmappedStays(v) == tree

\* The tree once v has left it.
Unmapped(v) ==
    IF tree.workspace[v] = NULL THEN Leave(tree, v)
    ELSE Arrange(Leave(tree, v), tree.workspace[v])

\* Mutant: the seat keeps an unmapped container active.
ActiveKept(v) == activeView

\* The active container once v has lost the seat's focus.
ActiveWithout(v) == IF activeView = v THEN NULL ELSE activeView

\* e_view_container_handle_view_unmap.
UnmapView(v) ==
    /\ view[v] = "mapped"
    /\ view' = [view EXCEPT ![v] = "unmapped"]
    /\ activeView' = ActiveWithout(v)
    /\ tree' = Unmapped(v)
    /\ UNCHANGED aborted

\* e_view_container_handle_view_destroy; a surface is unmapped before its view
\* is destroyed.  The freed container's fields are reset.
DestroyView(v) ==
    /\ view[v] = "unmapped"
    /\ view' = [view EXCEPT ![v] = "none"]
    /\ tree' = InitContainer(LeaveParent(tree, v), v)
    /\ UNCHANGED <<activeView, aborted>>

\* The workspace a fullscreen request for v asks for.
RequestTarget(v, full, out) ==
    IF full /\ out # NULL
    THEN tree.displayed[out] ELSE tree.workspace[v]

\* The fullscreen change of e_view_container_handle_view_request_fullscreen,
\* in a tree where v is already in its new workspace w.
ApplyRequest(t, v, w, full) ==
    IF full /\ ~t.fullscreen[v] THEN ChangeFullscreen(t, w, v)
    ELSE IF ~full /\ t.fullscreen[v] THEN ChangeFullscreen(t, w, NULL)
    ELSE t

\* e_view_container_handle_view_request_fullscreen.
RequestFullscreen(v, full, out) ==
    LET old == tree.workspace[v]
        new == RequestTarget(v, full, out)
        moved == IF old = new THEN tree ELSE MoveToWorkspace(tree, v, new)
        applied == ApplyRequest(moved, v, new, full)
    IN  /\ view[v] # "none"
        /\ IF view[v] = "unmapped" \/ new = NULL
           THEN tree' = SetFullscreen(tree, v, full) /\ UNCHANGED aborted
           ELSE IF old = NULL
           THEN aborted' = TRUE /\ UNCHANGED tree
           ELSE tree' = Arrange(Arrange(applied, old), new) /\ UNCHANGED aborted
        /\ UNCHANGED <<view, activeView>>

\* A taskbar activates a view: e_view_container_handle_view_request_activate.
RequestActivate(v) ==
    /\ view[v] = "mapped"
    /\ Focus(tree, v)
    /\ UNCHANGED <<view, aborted>>

\* The pointer moves over a container on screen, sloppy focus.
PointerMotion(v) ==
    /\ OnScreen(tree, v)
    /\ Focus(tree, v)
    /\ UNCHANGED <<view, aborted>>

(***************************************************************************)
(* Workspaces and outputs                                                  *)
(***************************************************************************)

\* An output is plugged in: server_new_output.
AddOutput(o) ==
    /\ o \notin Present(tree)
    /\ tree' = InitWorkspaces(tree, o)
    /\ UNCHANGED <<view, activeView, aborted>>

\* A pager activates a workspace: e_workspace_cosmic_request_activate and
\* e_workspace_ext_request_activate.
ActivateWorkspace(w) ==
    /\ OutputOf[w] \in Present(tree)
    /\ ~tree.activated[w]
    /\ tree' = Display(tree, OutputOf[w], w)
    /\ UNCHANGED <<view, activeView, aborted>>

\* e_output_arrange, when the output's state or a layer surface changed.
ArrangeOutput(o) ==
    /\ o \in Present(tree)
    /\ tree' = Arrange(tree, tree.displayed[o])
    /\ UNCHANGED <<view, activeView, aborted>>

(***************************************************************************)
(* Keyboard commands, on the active container                              *)
(***************************************************************************)

\* e_commands_toggle_tiled.
ToggleTiled ==
    /\ activeView # NULL
    /\ LET w == tree.workspace[activeView] IN
        /\ w # NULL
        /\ tree' = Arrange(ChangeTiling(tree, activeView, ~IsTiled(tree, activeView)), w)
    /\ UNCHANGED <<view, activeView, aborted>>

\* e_commands_switch_tiling_mode; the mode itself is geometry.
SwitchTilingMode ==
    /\ activeView # NULL
    /\ IsTiled(tree, activeView)
    /\ tree' = ArrangeRoot(tree, tree.parent[activeView])
    /\ UNCHANGED <<view, activeView, aborted>>

\* e_commands_toggle_fullscreen.
ToggleFullscreen ==
    /\ activeView # NULL
    /\ LET w == tree.workspace[activeView]
           c == IF tree.fsContainer[w] = activeView THEN NULL ELSE activeView
       IN  /\ w # NULL
           /\ tree' = Arrange(ChangeFullscreen(tree, w, c), w)
    /\ UNCHANGED <<view, activeView, aborted>>

\* next_workspace of e_commands_parse, on the hovered output.
ShowNextWorkspace(hovered) ==
    IF hovered = NULL
    THEN aborted' = TRUE /\ UNCHANGED <<view, tree, activeView>>
    ELSE /\ FocusHovered(Display(tree, hovered, NextWorkspace(tree.displayed[hovered])))
         /\ UNCHANGED <<view, aborted>>

\* move_to_next_workspace of e_commands_parse.
MoveToNextWorkspace ==
    /\ activeView # NULL
    /\ LET old == tree.workspace[activeView]
           new == NextWorkspace(old)
           moved == MoveToWorkspace(tree, activeView, new)
       IN  /\ old # NULL
           /\ FocusHovered(Arrange(Arrange(moved, old), new))
    /\ UNCHANGED <<view, aborted>>

ViewEvent(v) ==
    \/ CreateView(v)
    \/ \E full, floats \in BOOLEAN, out \in Present(tree) \cup {NULL},
          hovered \in Hovered(tree) :
          MapView(v, full, out, floats, hovered)
    \/ UnmapView(v)
    \/ DestroyView(v)
    \/ \E full \in BOOLEAN, out \in Present(tree) \cup {NULL} :
          RequestFullscreen(v, full, out)
    \/ RequestActivate(v)
    \/ PointerMotion(v)

Command ==
    \/ ToggleTiled
    \/ SwitchTilingMode
    \/ ToggleFullscreen
    \/ \E hovered \in Hovered(tree) : ShowNextWorkspace(hovered)
    \/ MoveToNextWorkspace

Next ==
    /\ ~aborted
    /\ \/ \E v \in Views : ViewEvent(v)
       \/ \E w \in Workspaces : ActivateWorkspace(w)
       \/ \E o \in Outputs : AddOutput(o) \/ ArrangeOutput(o)
       \/ Command

Spec == Init /\ [][Next]_vars

-----------------------------------------------------------------------------
(***************************************************************************)
(* Properties                                                              *)
(***************************************************************************)

\* A container is exactly where its own fields say: in the children of its
\* parent, or else in the floating list of its workspace, once, and in no other
\* list; and a tiled container has the workspace of its parent.  Every handler
\* that moves a container edits four places (workspace, parent and two lists) in
\* two functions, e_container_leave and e_workspace_add_*_container.
WellPlaced == PlacedOnce(tree)

\* The two records of "fullscreen" agree: the fullscreen container of a workspace
\* is in that workspace and has its flag set, and a container in a workspace has
\* its flag set only as that workspace's fullscreen container.  e_container_leave
\* and the request handler read one of the two to decide about the other.
FullscreenAgrees == FullscreenMatches(tree)

\* An output displays one of its own workspaces, that one alone is active, and
\* the scene layers enabled are the ones its fullscreen container calls for:
\* whatever changed fullscreen_container was followed by an arrange.
DisplayAgrees == OneDisplayed(tree) /\ \A w \in Workspaces : LayersMatch(tree, w)

\* No container's scene node hangs in the layers of a workspace the container is
\* not in: a container that left is never seen where it was.
NoStrayNode == NodesFollow(tree)

\* A workspace without a fullscreen container is settled: each of its containers
\* hangs in the layer its tiling calls for, so none stays in server->pending or
\* in the fullscreen layer once a fullscreen container has gone.
Settled == \A w \in Workspaces : SettledIn(tree, w)

\* An unmapped or destroyed view leaves nothing behind: no workspace holds its
\* container and the seat does not hold it active, so destroying it frees
\* nothing that is still in use, and mapping it again finds it without a
\* workspace, which e_workspace_add_*_container assert.
NothingLeftBehind ==
    \A v \in Views : view[v] # "mapped" =>
        tree.workspace[v] = NULL /\ tree.parent[v] = NULL /\ activeView # v

\* A container that becomes active is in a displayed workspace when the handler
\* returns.
FocusReveals ==
    [][activeView' \notin {activeView, NULL} =>
          LET w == tree'.workspace[activeView']
          IN  w # NULL => tree'.displayed[OutputOf[w]] = w]_vars

\* A view that comes or goes never switches the workspace an output displays:
\* it is mapped into a workspace that is on display.
ViewsComeAndGo ==
    [][view' # view => tree'.displayed = tree.displayed]_vars

\* The tree implements the abstract placement of views: a step places, moves or
\* withdraws one container at most, and what it keeps of that container (tiling,
\* fullscreen) is what the abstract step keeps.
Abstract == INSTANCE Placement WITH
    place <- [v \in Views |->
                 IF tree.workspace[v] = NULL THEN NULL
                 ELSE [workspace |-> tree.workspace[v], tiled |-> IsTiled(tree, v)]],
    full <- tree.fsContainer

PlacementSpec == Abstract!Spec

\* No handler runs into an assertion or a null pointer.
NoAbort == ~aborted

\* The fullscreen container of a workspace hangs in its fullscreen layer, the one
\* that is enabled while there is a fullscreen container.
FullscreenShown ==
    \A w \in Workspaces : tree.fsContainer[w] # NULL =>
        tree.node[tree.fsContainer[w]] = <<"fullscreen", w>>
=============================================================================
