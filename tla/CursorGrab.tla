----------------------------- MODULE CursorGrab -----------------------------
(***************************************************************************)
(* The desktop of ContainerTree together with the cursor (input/cursor.c): *)
(* the user drags or resizes a container while clients, pagers and         *)
(* keyboard commands go on changing the tree under the cursor.             *)
(*                                                                         *)
(* The cursor c is a record:                                               *)
(*   c.mode      "default", "move" or "resize"                             *)
(*   c.grabbed   grab_container, or NULL                                   *)
(*   c.stale     the containers whose list of destroy listeners still      *)
(*               leads to grab_container_destroy though another grab has   *)
(*               linked that one listener elsewhere since                  *)
(* Where the pointer is, areas and percentages are left out: a motion may  *)
(* hover any container on screen.                                          *)
(***************************************************************************)
EXTENDS OutputHotplug

CONSTANT Toplevels      \* the views that are xdg toplevels, the others are X11 windows

ASSUME ToplevelsAssumption == Toplevels \subseteq Views

VARIABLE cursor

allVars == <<view, tree, activeView, aborted, cursor>>

Modes == {"default", "move", "resize"}

Cursors == [mode : Modes, grabbed : Views \cup {NULL}, stale : SUBSET Views]

CursorInit ==
    /\ Init
    /\ cursor = [mode |-> "default", grabbed |-> NULL, stale |-> {}]

(***************************************************************************)
(* Starting and ending a grab                                              *)
(***************************************************************************)

\* e_cursor_reset_mode.
ResetMode(c) == [c EXCEPT !.mode = "default", !.grabbed = NULL]

\* A client asks for an interactive move or resize of its view, whatever the cursor
\* is doing, or the user presses a button with the logo key held:
\* e_cursor_start_container_move, e_cursor_start_container_resize.
StartGrab(v, mode) ==
    /\ view[v] # "none"
    /\ ~tree.fullscreen[v]
    /\ cursor' = [mode |-> mode, grabbed |-> v,
                  stale |-> cursor.stale \cup ({cursor.grabbed} \ {NULL})]
    /\ UNCHANGED vars

\* A button is released.
Release ==
    /\ cursor.mode # "default"
    /\ cursor' = ResetMode(cursor)
    /\ UNCHANGED vars

\* Mutant: the cursor does not notice that its container is destroyed.
UnnoticedDestroy(c, v) == c

\* The cursor after the destroy signal of v.
AfterDestroy(c, v) == IF c.grabbed = v THEN ResetMode(c) ELSE c

(***************************************************************************)
(* Motion while a container is grabbed                                     *)
(***************************************************************************)

\* Mutant: the containers change places in the lists and keep their parents.
SwapInListsOnly(t, a, b) ==
    [t EXCEPT !.children = [w \in Workspaces |->
        [i \in DOMAIN t.children[w] |->
            CASE t.children[w][i] = a -> b
              [] t.children[w][i] = b -> a
              [] OTHER -> t.children[w][i]]]]

\* The lists and parents after swap_tiled_containers.
SwapPlaces(t, a, b) ==
    [t EXCEPT
        !.children = [w \in Workspaces |->
            [i \in DOMAIN t.children[w] |->
                CASE t.children[w][i] = a -> b
                  [] t.children[w][i] = b -> a
                  [] OTHER -> t.children[w][i]]],
        !.parent[a] = t.parent[b],
        !.parent[b] = t.parent[a]]

\* swap_tiled_containers.
Swap(t, a, b) == ArrangeRoot(ArrangeRoot(SwapPlaces(t, a, b), t.parent[b]), t.parent[a])

\* Arranging a floating container configures its view, and a toplevel asserts that
\* it has content, which it has while it is mapped.
ArrangeFloating(v) ==
    /\ aborted' = (v \in Toplevels /\ view[v] # "mapped")
    /\ UNCHANGED <<view, tree, activeView>>

\* e_cursor_handle_mode_move for a tiled container: hovering another tiled container
\* swaps the two.
DragTiled(hovered) ==
    /\ cursor.mode = "move"
    /\ IsTiled(tree, cursor.grabbed)
    /\ OnScreen(tree, hovered)
    /\ IsTiled(tree, hovered)
    /\ hovered # cursor.grabbed
    /\ tree' = Swap(tree, hovered, cursor.grabbed)
    /\ UNCHANGED <<view, activeView, aborted, cursor>>

\* e_cursor_resize_tiled: the siblings share their percentages out anew, or there
\* is nothing to resize and the grab ends.
ResizeTiled ==
    /\ cursor.mode = "resize"
    /\ IsTiled(tree, cursor.grabbed)
    /\ \/ /\ Len(tree.children[tree.parent[cursor.grabbed]]) > 1
          /\ tree' = ArrangeRoot(tree, tree.parent[cursor.grabbed])
          /\ UNCHANGED cursor
       \/ cursor' = ResetMode(cursor) /\ UNCHANGED tree
    /\ UNCHANGED <<view, activeView, aborted>>

\* A floating container follows the cursor or grows with it.
DragFloating ==
    /\ cursor.mode # "default"
    /\ ~IsTiled(tree, cursor.grabbed)
    /\ ArrangeFloating(cursor.grabbed)
    /\ UNCHANGED cursor

(***************************************************************************)
(* The desktop, as far as the cursor matters to it                         *)
(***************************************************************************)

\* What goes on beside the cursor.  Sloppy focus and e_cursor_set_focus_hover are
\* off while a container is grabbed.
Aside ==
    /\ \/ \E v \in Views :
             \/ CreateView(v)
             \/ \E full, floats \in BOOLEAN, out \in Present(tree) \cup {NULL},
                   hovered \in Hovered(tree) :
                   MapView(v, full, out, floats, hovered)
             \/ UnmapView(v)
             \/ \E full \in BOOLEAN, out \in Present(tree) \cup {NULL} :
                   RequestFullscreen(v, full, out)
             \/ RequestActivate(v)
       \/ \E w \in Workspaces : ActivateWorkspace(w)
       \/ \E o \in Outputs : AddOutput(o) \/ ArrangeOutput(o)
       \/ ToggleTiled \/ SwitchTilingMode \/ ToggleFullscreen
    /\ UNCHANGED cursor

HoverFocus ==
    /\ \/ \E v \in Views : cursor.mode = "default" /\ PointerMotion(v)
       \/ /\ \/ \E hovered \in Hovered(tree) : ShowNextWorkspace(hovered)
             \/ MoveToNextWorkspace
          /\ cursor.mode # "default" => activeView' = activeView
    /\ UNCHANGED cursor

\* e_view_container_destroy emits the destroy signal: with a stale link to the
\* cursor's listener in the list of v, walking it is undefined.
Destroy(v) ==
    /\ IF v \in cursor.stale
       THEN /\ view[v] = "unmapped"
            /\ aborted' = TRUE
            /\ UNCHANGED <<view, tree, activeView, cursor>>
       ELSE DestroyView(v) /\ cursor' = AfterDestroy(cursor, v)

\* An output is unplugged: each container it takes along emits its destroy signal.
Unplug(o) ==
    LET freed == DestroyedWith(tree, o) IN
    IF freed \cap cursor.stale # {}
    THEN /\ o \in Present(tree)
         /\ aborted' = TRUE
         /\ UNCHANGED <<view, tree, activeView, cursor>>
    ELSE /\ RemoveOutput(o)
         /\ cursor' = IF cursor.grabbed \in freed THEN AfterDestroy(cursor, cursor.grabbed)
                      ELSE cursor

CursorEvent ==
    \/ \E v \in Views, mode \in Modes \ {"default"} : StartGrab(v, mode)
    \/ Release
    \/ \E v \in Views : DragTiled(v)
    \/ ResizeTiled
    \/ DragFloating

CursorNext ==
    /\ ~aborted
    /\ \/ CursorEvent
       \/ Aside
       \/ HoverFocus
       \/ \E v \in Views : Destroy(v)
       \/ \E o \in Outputs : Unplug(o)

CursorSpec == CursorInit /\ [][CursorNext]_allVars

-----------------------------------------------------------------------------
(***************************************************************************)
(* Properties                                                              *)
(***************************************************************************)

\* A motion never meets a mode without a container or a container that has been
\* freed: the destroy listener ends the grab, whatever other grabs began and ended
\* before, and also when an output takes the container with it.
GrabbedLives ==
    /\ cursor.mode = "default" <=> cursor.grabbed = NULL
    /\ cursor.grabbed # NULL => view[cursor.grabbed] # "none"

\* However containers are swapped under the cursor, the list a container is in is
\* the one its parent says, or else the floating list of its workspace.
ListsAgree ==
    /\ \A w \in Workspaces :
          NoDuplicates(tree.children[w]) /\ NoDuplicates(tree.floating[w])
    /\ \A v \in Views, w \in Workspaces :
          /\ v \in Items(tree.children[w]) <=> tree.parent[v] = w
          /\ v \in Items(tree.floating[w]) <=> tree.workspace[v] = w /\ tree.parent[v] = NULL

\* A tiled container is in the workspace whose tree it is in.
WorkspaceOfParent ==
    \A v \in Views : tree.parent[v] # NULL => tree.workspace[v] = tree.parent[v]
=============================================================================
