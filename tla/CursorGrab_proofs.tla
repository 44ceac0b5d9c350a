-------------------------- MODULE CursorGrab_proofs --------------------------
(***************************************************************************)
(* The cursor's grab and the desktop under it, for any views, outputs and  *)
(* workspaces.                                                             *)
(*                                                                         *)
(* That the mode and the grabbed container agree, and the container is not *)
(* freed while it is grabbed (CInv), needs nothing of the tree: only the   *)
(* handlers that destroy containers can break it, and both tell the cursor *)
(* first.                                                                  *)
(*                                                                         *)
(* Dragging one container onto another of a different workspace leaves     *)
(* each in the tree of one workspace and in the name of another, so the    *)
(* invariant of ContainerTree_proofs is lost.  What survives is that lists *)
(* and fields agree (Listed) and that nothing refers to an output that is  *)
(* gone (Consistent): both are preserved by every function on the tree,    *)
(* and so by every handler (DInv).                                         *)
(***************************************************************************)
EXTENDS CursorGrab, ContainerTree_proofs

CInv ==
    /\ view \in [Views -> {"none", "unmapped", "mapped"}]
    /\ cursor \in Cursors
    /\ GrabbedLives

\* A handler that destroys no container and leaves the cursor alone.
LEMMA GrabUntouched ==
    ASSUME CInv, UNCHANGED cursor, view' \in [Views -> {"none", "unmapped", "mapped"}],
           \A v \in Views : view[v] # "none" => view'[v] # "none"
    PROVE  CInv'
  BY TreeAssumption DEF CInv, GrabbedLives, Cursors

\* The grab ends.
LEMMA GrabEnds ==
    ASSUME CInv, cursor' = ResetMode(cursor),
           view' \in [Views -> {"none", "unmapped", "mapped"}]
    PROVE  CInv'
  BY DEF CInv, GrabbedLives, Cursors, ResetMode, Modes

LEMMA CursorInitInv == CursorInit => CInv
  BY DEF CursorInit, Init, CInv, Cursors, GrabbedLives, Modes

LEMMA CursorEventInv ==
    ASSUME CInv, CursorEvent
    PROVE  CInv'
  <1>1. ASSUME NEW v \in Views, NEW mode \in Modes \ {"default"}, StartGrab(v, mode)
        PROVE  CInv'
    <2>1. /\ view[v] # "none" /\ UNCHANGED view
          /\ cursor' = [mode |-> mode, grabbed |-> v,
                        stale |-> cursor.stale \cup ({cursor.grabbed} \ {NULL})]
      BY <1>1 DEF StartGrab, vars
    <2>2. cursor' \in Cursors
      BY <2>1 DEF CInv, Cursors
    <2> QED
      BY <2>1, <2>2, TreeAssumption DEF CInv, GrabbedLives
  <1>2. CASE Release
    BY <1>2, GrabEnds DEF Release, vars, CInv
  <1>3. ASSUME NEW v \in Views, DragTiled(v) PROVE CInv'
    BY <1>3, GrabUntouched DEF DragTiled, CInv
  <1>4. CASE ResizeTiled
    BY <1>4, GrabUntouched, GrabEnds DEF ResizeTiled, CInv
  <1>5. CASE DragFloating
    BY <1>5, GrabUntouched DEF DragFloating, ArrangeFloating, CInv
  <1> QED
    BY <1>1, <1>2, <1>3, <1>4, <1>5 DEF CursorEvent

LEMMA DesktopInv ==
    ASSUME CInv, Aside \/ HoverFocus
    PROVE  CInv'
  <1>1. UNCHANGED cursor
    BY DEF Aside, HoverFocus
  <1>2. ASSUME NEW v \in Views,
               \/ CreateView(v)
               \/ \E full, floats \in BOOLEAN, out \in Present(tree) \cup {NULL},
                     hovered \in Hovered(tree) : MapView(v, full, out, floats, hovered)
               \/ UnmapView(v)
        PROVE  CInv'
    <2>1. PICK state \in {"unmapped", "mapped"} : view' = [view EXCEPT ![v] = state]
      BY <1>2 DEF CreateView, MapView, UnmapView
    <2>2. /\ view' \in [Views -> {"none", "unmapped", "mapped"}]
          /\ \A x \in Views : view[x] # "none" => view'[x] # "none"
      BY <2>1 DEF CInv
    <2> QED
      BY <1>1, <2>2, GrabUntouched
  <1>3. CASE UNCHANGED view
    BY <1>1, <1>3, GrabUntouched DEF CInv
  <1>4. ASSUME NEW v \in Views, NEW full \in BOOLEAN, NEW out,
               RequestFullscreen(v, full, out)
        PROVE  UNCHANGED view
    BY <1>4 DEF RequestFullscreen
  <1>5. ASSUME \/ \E v \in Views : RequestActivate(v) \/ PointerMotion(v)
               \/ \E w \in Workspaces : ActivateWorkspace(w)
               \/ \E o \in Outputs : AddOutput(o) \/ ArrangeOutput(o)
               \/ ToggleTiled \/ SwitchTilingMode \/ ToggleFullscreen
               \/ \E hovered \in Hovered(tree) : ShowNextWorkspace(hovered)
               \/ MoveToNextWorkspace
        PROVE  UNCHANGED view
    BY <1>5 DEF RequestActivate, PointerMotion, ActivateWorkspace, AddOutput, ArrangeOutput,
       ToggleTiled, SwitchTilingMode, ToggleFullscreen, ShowNextWorkspace, MoveToNextWorkspace
  <1> QED
    BY <1>2, <1>3, <1>4, <1>5 DEF Aside, HoverFocus

LEMMA DestroyInv ==
    ASSUME CInv, NEW v \in Views, Destroy(v)
    PROVE  CInv'
  <1>1. CASE v \in cursor.stale
    BY <1>1, GrabUntouched DEF Destroy, CInv
  <1>2. CASE v \notin cursor.stale
    <2>1. /\ view' = [view EXCEPT ![v] = "none"]
          /\ cursor' = IF cursor.grabbed = v THEN ResetMode(cursor) ELSE cursor
      BY <1>2 DEF Destroy, DestroyView, AfterDestroy
    <2>2. view' \in [Views -> {"none", "unmapped", "mapped"}]
      BY <2>1 DEF CInv
    <2>3. CASE cursor.grabbed = v
      BY <2>1, <2>2, <2>3, GrabEnds
    <2>4. CASE cursor.grabbed # v
      BY <2>1, <2>2, <2>4 DEF CInv, GrabbedLives, Cursors
    <2> QED
      BY <2>3, <2>4
  <1> QED
    BY <1>1, <1>2

LEMMA UnplugInv ==
    ASSUME CInv, NEW o \in Outputs, Unplug(o)
    PROVE  CInv'
  <1> DEFINE freed == DestroyedWith(tree, o)
  <1>1. CASE freed \cap cursor.stale # {}
    BY <1>1, GrabUntouched DEF Unplug, CInv
  <1>2. CASE freed \cap cursor.stale = {}
    <2>1. /\ view' = [v \in Views |-> IF v \in freed THEN "none" ELSE view[v]]
          /\ cursor' = IF cursor.grabbed \in freed THEN ResetMode(cursor) ELSE cursor
      BY <1>2 DEF Unplug, RemoveOutput, AfterDestroy
    <2> HIDE DEF freed
    <2>2. view' \in [Views -> {"none", "unmapped", "mapped"}]
      BY <2>1 DEF CInv
    <2>3. CASE cursor.grabbed \in freed
      BY <2>1, <2>2, <2>3, GrabEnds
    <2>4. CASE cursor.grabbed \notin freed
      BY <2>1, <2>2, <2>4 DEF CInv, GrabbedLives, Cursors
    <2> QED
      BY <2>3, <2>4
  <1> QED
    BY <1>1, <1>2

LEMMA CursorNextInv == CInv /\ [CursorNext]_allVars => CInv'
  <1> SUFFICES ASSUME CInv, [CursorNext]_allVars PROVE CInv'
    OBVIOUS
  <1>1. CASE UNCHANGED allVars
    BY <1>1 DEF allVars, CInv, GrabbedLives
  <1>2. CASE CursorNext
    BY <1>2, CursorEventInv, DesktopInv, DestroyInv, UnplugInv DEF CursorNext
  <1> QED
    BY <1>1, <1>2

\* The cursor is never in a mode without a container, and the container it has grabbed
\* is never one that was freed, whoever destroys it.
THEOREM GrabbedNeverFreed == CursorSpec => []GrabbedLives
  <1>1. CInv => GrabbedLives
    BY DEF CInv
  <1> QED
    BY <1>1, CursorInitInv, CursorNextInv, PTL DEF CursorSpec

-----------------------------------------------------------------------------
(***************************************************************************)
(* The desktop under the cursor                                            *)
(***************************************************************************)

\* The lists of t and the fields of its containers agree.
Listed(t) ==
    /\ \A w \in Workspaces : NoDuplicates(t.children[w]) /\ NoDuplicates(t.floating[w])
    /\ \A v \in Views, w \in Workspaces :
          /\ v \in Items(t.children[w]) <=> t.parent[v] = w
          /\ v \in Items(t.floating[w]) <=> t.workspace[v] = w /\ t.parent[v] = NULL

\* What each function on the tree preserves when a tiled container may be in the
\* tree of another workspace than its own.
Consistent(t) ==
    /\ t \in Trees
    /\ Listed(t)
    /\ \A v \in Views :
          /\ t.workspace[v] = NULL => t.parent[v] = NULL /\ t.node[v] = Pending
          /\ t.workspace[v] # NULL => t.displayed[OutputOf[t.workspace[v]]] # NULL
          /\ t.parent[v] # NULL => t.displayed[OutputOf[t.parent[v]]] # NULL
    /\ \A w \in Workspaces :
          /\ t.fsContainer[w] # NULL =>
                t.workspace[t.fsContainer[w]] = w /\ t.fullscreen[t.fsContainer[w]]
          /\ t.activated[w] => t.displayed[OutputOf[w]] = w
    /\ \A o \in Outputs : t.displayed[o] # NULL => OutputOf[t.displayed[o]] = o

DesktopOK ==
    /\ Consistent(tree)
    /\ \A v \in Views : view[v] # "mapped" => tree.workspace[v] = NULL
    /\ activeView # NULL => activeView \in Views /\ view[activeView] = "mapped"

\* The inductive invariant: after an abort only the lists are still right.
DInv ==
    /\ CInv
    /\ ListsAgree
    /\ ~aborted => DesktopOK

(***************************************************************************)
(* The functions on the tree                                               *)
(***************************************************************************)

\* e_container_leave takes v, and nothing else, out of the lists.
LEMMA LeaveKeeps ==
    ASSUME NEW t, Consistent(t), NEW v \in Views
    PROVE  LET u == Leave(t, v) IN
           /\ Consistent(u)
           /\ u.workspace = [t.workspace EXCEPT ![v] = NULL]
           /\ u.displayed = t.displayed
  <1> DEFINE a == LeaveWorkspace(t, v)
             b == LeaveParent(a, v)
             u == Leave(t, v)
  <1>1. t \in Trees /\ Listed(t) /\ NULL \notin Workspaces /\ NULL \notin Views
    BY TreeAssumption DEF Consistent
  <1>2. \A w \in Workspaces :
            /\ ListRemove(t.floating[w], v) \in Seq(Views)
            /\ Items(ListRemove(t.floating[w], v)) = Items(t.floating[w]) \ {v}
            /\ NoDuplicates(ListRemove(t.floating[w], v))
            /\ ListRemove(t.children[w], v) \in Seq(Views)
            /\ Items(ListRemove(t.children[w], v)) = Items(t.children[w]) \ {v}
            /\ NoDuplicates(ListRemove(t.children[w], v))
    <2>1. \A w \in Workspaces :
              /\ t.floating[w] \in Seq(Views) /\ t.children[w] \in Seq(Views)
              /\ NoDuplicates(t.floating[w]) /\ NoDuplicates(t.children[w])
      BY <1>1 DEF Trees, Listed
    <2> QED
      BY <2>1, RemoveItems
  <1>3. /\ a \in Trees
        /\ a.workspace = [t.workspace EXCEPT ![v] = NULL]
        /\ a.floating = [w \in Workspaces |->
              IF w = t.workspace[v] THEN ListRemove(t.floating[w], v) ELSE t.floating[w]]
        /\ a.fsContainer = [w \in Workspaces |->
              IF w = t.workspace[v] /\ t.fullscreen[v] THEN NULL ELSE t.fsContainer[w]]
        /\ a.parent = t.parent /\ a.fullscreen = t.fullscreen /\ a.node = t.node
        /\ a.children = t.children /\ a.activated = t.activated
        /\ a.displayed = t.displayed
    <2>1. a \in Trees
      BY <1>1, <1>2 DEF LeaveWorkspace, Trees
    <2> QED
      BY <1>1, <2>1, LeaveWorkspaceFields
  <1> HIDE DEF a
  <1>4. /\ b \in Trees
        /\ b.parent = [t.parent EXCEPT ![v] = NULL]
        /\ b.children = [w \in Workspaces |->
              IF w = t.parent[v] THEN ListRemove(t.children[w], v) ELSE t.children[w]]
        /\ b.workspace = a.workspace /\ b.fullscreen = a.fullscreen /\ b.node = a.node
        /\ b.floating = a.floating /\ b.fsContainer = a.fsContainer
        /\ b.activated = a.activated /\ b.displayed = a.displayed
    <2>1. \A w \in Workspaces : NoDuplicates(a.children[w])
      BY <1>1, <1>3 DEF Listed
    <2>2. b \in Trees
      BY <1>3, <2>1, LeaveParentType
    <2>3. /\ b.parent = [a.parent EXCEPT ![v] = NULL]
          /\ b.children = [w \in Workspaces |->
                IF w = a.parent[v] THEN ListRemove(a.children[w], v) ELSE a.children[w]]
          /\ b.workspace = a.workspace /\ b.fullscreen = a.fullscreen /\ b.node = a.node
          /\ b.floating = a.floating /\ b.fsContainer = a.fsContainer
          /\ b.activated = a.activated /\ b.enabled = a.enabled /\ b.displayed = a.displayed
      BY <1>3, LeaveParentFields
    <2> HIDE DEF b
    <2> QED
      BY <1>3, <2>2, <2>3
  <1> HIDE DEF b
  <1>5. u = [b EXCEPT !.node[v] = Pending]
    BY DEF Leave, a, b
  <1> HIDE DEF u
  <1>6. /\ u \in Trees
        /\ u.node = [t.node EXCEPT ![v] = Pending]
        /\ u.workspace = [t.workspace EXCEPT ![v] = NULL]
        /\ u.parent = [t.parent EXCEPT ![v] = NULL]
        /\ u.fullscreen = t.fullscreen
        /\ u.children = b.children /\ u.floating = a.floating
        /\ u.fsContainer = a.fsContainer
        /\ u.activated = t.activated /\ u.displayed = t.displayed
    BY <1>3, <1>4, <1>5, PendingNodeType DEF Trees
  <1>7. \A w \in Workspaces :
            /\ NoDuplicates(u.children[w]) /\ NoDuplicates(u.floating[w])
            /\ Items(u.children[w]) = Items(t.children[w]) \ {v}
            /\ Items(u.floating[w]) = Items(t.floating[w]) \ {v}
    <2> SUFFICES ASSUME NEW w \in Workspaces
                 PROVE  /\ NoDuplicates(u.children[w]) /\ NoDuplicates(u.floating[w])
                        /\ Items(u.children[w]) = Items(t.children[w]) \ {v}
                        /\ Items(u.floating[w]) = Items(t.floating[w]) \ {v}
      OBVIOUS
    <2>1. w # t.parent[v] => v \notin Items(t.children[w])
      BY <1>1 DEF Listed
    <2>2. w # t.workspace[v] => v \notin Items(t.floating[w])
      BY <1>1 DEF Listed
    <2>3. NoDuplicates(t.children[w]) /\ NoDuplicates(t.floating[w])
      BY <1>1 DEF Listed
    <2>4. /\ u.children[w] =
                IF w = t.parent[v] THEN ListRemove(t.children[w], v) ELSE t.children[w]
          /\ u.floating[w] =
                IF w = t.workspace[v] THEN ListRemove(t.floating[w], v) ELSE t.floating[w]
      BY <1>3, <1>4, <1>6
    <2> QED
      BY <1>2, <2>1, <2>2, <2>3, <2>4
  <1>8. \A x \in Views :
            /\ u.workspace[x] = IF x = v THEN NULL ELSE t.workspace[x]
            /\ u.parent[x] = IF x = v THEN NULL ELSE t.parent[x]
            /\ u.node[x] = IF x = v THEN Pending ELSE t.node[x]
    BY <1>1, <1>6 DEF Trees
  <1>9. Listed(u)
    BY <1>1, <1>7, <1>8 DEF Listed
  <1>10. ASSUME NEW w \in Workspaces, u.fsContainer[w] # NULL
         PROVE  u.workspace[u.fsContainer[w]] = w /\ u.fullscreen[u.fsContainer[w]]
    <2> DEFINE f == t.fsContainer[w]
    <2>1. u.fsContainer[w] = f /\ ~(w = t.workspace[v] /\ t.fullscreen[v])
      BY <1>3, <1>6, <1>10
    <2>2. f \in Views /\ t.workspace[f] = w /\ t.fullscreen[f]
      BY <1>1, <1>10, <2>1 DEF Consistent, Trees
    <2> QED
      BY <1>6, <1>8, <2>1, <2>2
  <1>11. Consistent(u)
    BY <1>6, <1>8, <1>9, <1>10 DEF Consistent
  <1> QED
    BY <1>6, <1>11 DEF u

\* A new or freed container is in no list.
LEMMA InitContainerKeeps ==
    ASSUME NEW t, Consistent(t), NEW v \in Views, t.workspace[v] = NULL
    PROVE  LET u == InitContainer(t, v) IN
           Consistent(u) /\ u.workspace = t.workspace
  <1> DEFINE u == InitContainer(t, v)
  <1>1. t \in Trees /\ t.parent[v] = NULL /\ t.node[v] = Pending
    BY DEF Consistent
  <1>2. /\ u \in Trees
        /\ u.workspace = t.workspace /\ u.parent = t.parent /\ u.node = t.node
        /\ u.fullscreen = [t.fullscreen EXCEPT ![v] = FALSE]
        /\ u.children = t.children /\ u.floating = t.floating
        /\ u.fsContainer = t.fsContainer
        /\ u.activated = t.activated /\ u.displayed = t.displayed
    <2>1. /\ [t.workspace EXCEPT ![v] = NULL] = t.workspace
          /\ [t.parent EXCEPT ![v] = NULL] = t.parent
          /\ [t.node EXCEPT ![v] = Pending] = t.node
      BY <1>1 DEF Trees
    <2>2. u = [t EXCEPT !.workspace = t.workspace, !.parent = t.parent,
                        !.fullscreen[v] = FALSE, !.node = t.node]
      BY <1>1, <2>1 DEF InitContainer, Trees
    <2> HIDE DEF u
    <2> QED
      BY <1>1, <2>2 DEF Trees
  <1> HIDE DEF u
  <1>3. \A w \in Workspaces : t.fsContainer[w] # NULL =>
            t.workspace[t.fsContainer[w]] = w /\ u.fullscreen[t.fsContainer[w]]
    <2> SUFFICES ASSUME NEW w \in Workspaces, t.fsContainer[w] # NULL
                 PROVE  /\ t.workspace[t.fsContainer[w]] = w
                        /\ u.fullscreen[t.fsContainer[w]]
      OBVIOUS
    <2>1. /\ t.fsContainer[w] \in Views
          /\ t.workspace[t.fsContainer[w]] = w /\ t.fullscreen[t.fsContainer[w]]
      BY <1>1 DEF Consistent, Trees
    <2>2. t.fsContainer[w] # v
      BY <2>1, TreeAssumption
    <2> QED
      BY <1>1, <1>2, <2>1, <2>2 DEF Trees
  <1>4. Consistent(u)
    BY <1>2, <1>3 DEF Consistent, Listed
  <1> QED
    BY <1>2, <1>4 DEF u

\* The flag of a container without a workspace is nobody else's business.
LEMMA SetFullscreenKeeps ==
    ASSUME NEW t, Consistent(t), NEW v \in Views, NEW full \in BOOLEAN,
           t.workspace[v] = NULL
    PROVE  LET u == SetFullscreen(t, v, full) IN
           Consistent(u) /\ u.workspace = t.workspace /\ u.displayed = t.displayed
  <1> DEFINE u == SetFullscreen(t, v, full)
  <1>1. t \in Trees
    BY DEF Consistent
  <1>2. /\ u \in Trees
        /\ u.workspace = t.workspace /\ u.parent = t.parent /\ u.node = t.node
        /\ u.fullscreen = [t.fullscreen EXCEPT ![v] = full]
        /\ u.children = t.children /\ u.floating = t.floating
        /\ u.fsContainer = t.fsContainer
        /\ u.activated = t.activated /\ u.displayed = t.displayed
    BY <1>1 DEF SetFullscreen, Trees
  <1> HIDE DEF u
  <1>3. \A w \in Workspaces : t.fsContainer[w] # NULL =>
            t.workspace[t.fsContainer[w]] = w /\ u.fullscreen[t.fsContainer[w]]
    <2> SUFFICES ASSUME NEW w \in Workspaces, t.fsContainer[w] # NULL
                 PROVE  /\ t.workspace[t.fsContainer[w]] = w
                        /\ u.fullscreen[t.fsContainer[w]]
      OBVIOUS
    <2>1. /\ t.fsContainer[w] \in Views
          /\ t.workspace[t.fsContainer[w]] = w /\ t.fullscreen[t.fsContainer[w]]
      BY <1>1 DEF Consistent, Trees
    <2>2. t.fsContainer[w] # v
      BY <2>1, TreeAssumption
    <2> QED
      BY <1>1, <1>2, <2>1, <2>2 DEF Trees
  <1>4. Consistent(u)
    BY <1>2, <1>3 DEF Consistent, Listed
  <1> QED
    BY <1>2, <1>4 DEF u

\* e_workspace_change_fullscreen_container for a container of the workspace.
LEMMA ChangeFullscreenKeeps ==
    ASSUME NEW t, Consistent(t), NEW w \in Workspaces, NEW v \in Views \cup {NULL},
           v # NULL => t.workspace[v] = w
    PROVE  LET u == ChangeFullscreen(t, w, v) IN
           Consistent(u) /\ u.workspace = t.workspace /\ u.displayed = t.displayed
  <1> DEFINE u == ChangeFullscreen(t, w, v)
  <1>1. t \in Trees /\ NULL \notin Views /\ NULL \notin Workspaces
    BY TreeAssumption DEF Consistent
  <1>2. /\ u \in Trees
        /\ u.workspace = t.workspace /\ u.parent = t.parent /\ u.node = t.node
        /\ u.fullscreen = [x \in Views |->
              x = v \/ (t.fullscreen[x] /\ x # t.fsContainer[w])]
        /\ u.fsContainer = [t.fsContainer EXCEPT ![w] = v]
        /\ u.children = t.children /\ u.floating = t.floating
        /\ u.activated = t.activated /\ u.displayed = t.displayed
    BY <1>1 DEF ChangeFullscreen, Trees
  <1> HIDE DEF u
  <1>3. ASSUME NEW y \in Workspaces, u.fsContainer[y] # NULL
        PROVE  u.workspace[u.fsContainer[y]] = y /\ u.fullscreen[u.fsContainer[y]]
    <2>1. CASE y = w
      <3>1. u.fsContainer[y] = v
        BY <1>1, <1>2, <2>1 DEF Trees
      <3>2. v \in Views /\ t.workspace[v] = y
        BY <1>3, <2>1, <3>1
      <3> QED
        BY <1>2, <3>1, <3>2
    <2>2. CASE y # w
      <3> DEFINE f == t.fsContainer[y]
      <3>1. u.fsContainer[y] = f /\ f \in Views /\ t.workspace[f] = y /\ t.fullscreen[f]
        BY <1>1, <1>2, <1>3, <2>2 DEF Consistent, Trees
      <3>2. f # t.fsContainer[w]
        BY <1>1, <2>2, <3>1 DEF Consistent
      <3> QED
        BY <1>2, <3>1, <3>2
    <2> QED
      BY <2>1, <2>2
  <1>4. Consistent(u)
    BY <1>2, <1>3 DEF Consistent, Listed
  <1> QED
    BY <1>2, <1>4 DEF u

\* A container that is in no workspace can be added to one on display's output.
LEMMA InsertKeeps ==
    ASSUME NEW t, Consistent(t), NEW v \in Views, t.workspace[v] = NULL,
           NEW w \in Workspaces, t.displayed[OutputOf[w]] # NULL, NEW tiled \in BOOLEAN
    PROVE  LET u == IF tiled THEN InsertTiled(t, w, v) ELSE InsertFloating(t, w, v) IN
           /\ Consistent(u)
           /\ u.workspace = [t.workspace EXCEPT ![v] = w]
           /\ u.displayed = t.displayed
  <1> DEFINE u == IF tiled THEN InsertTiled(t, w, v) ELSE InsertFloating(t, w, v)
             parent == IF tiled THEN w ELSE NULL
  <1>1. /\ t \in Trees /\ Listed(t) /\ NULL \notin Workspaces /\ NULL \notin Views
        /\ t.parent[v] = NULL /\ t.node[v] = Pending
    BY TreeAssumption DEF Consistent
  <1>2. \A y \in Workspaces :
            /\ t.children[y] \in Seq(Views) /\ t.floating[y] \in Seq(Views)
            /\ NoDuplicates(t.children[y]) /\ NoDuplicates(t.floating[y])
            /\ v \notin Items(t.children[y]) /\ v \notin Items(t.floating[y])
    BY <1>1 DEF Trees, Listed
  <1>3. /\ Items(Append(t.children[w], v)) = Items(t.children[w]) \cup {v}
        /\ NoDuplicates(Append(t.children[w], v))
        /\ Items(Append(t.floating[w], v)) = Items(t.floating[w]) \cup {v}
        /\ NoDuplicates(Append(t.floating[w], v))
    BY <1>2, AppendItems
  <1>4. /\ u \in Trees
        /\ u.workspace = [t.workspace EXCEPT ![v] = w]
        /\ u.parent = [t.parent EXCEPT ![v] = parent]
        /\ u.fullscreen = t.fullscreen /\ u.node = t.node
        /\ u.fsContainer = t.fsContainer
        /\ u.activated = t.activated /\ u.displayed = t.displayed
        /\ u.children = IF tiled THEN [t.children EXCEPT ![w] = Append(t.children[w], v)]
                        ELSE t.children
        /\ u.floating = IF tiled THEN t.floating
                        ELSE [t.floating EXCEPT ![w] = Append(t.floating[w], v)]
    <2>1. CASE tiled
      <3> DEFINE a == InsertTiled(t, w, v)
      <3>1. /\ a \in Trees
            /\ a.workspace = [t.workspace EXCEPT ![v] = w]
            /\ a.parent = [t.parent EXCEPT ![v] = w]
            /\ a.children = [t.children EXCEPT ![w] = Append(t.children[w], v)]
            /\ a.floating = t.floating /\ a.fsContainer = t.fsContainer
            /\ a.fullscreen = t.fullscreen /\ a.node = t.node
            /\ a.activated = t.activated /\ a.enabled = t.enabled
            /\ a.displayed = t.displayed
        BY <1>1, InsertTiledFields
      <3> HIDE DEF a
      <3>2. u = a
        BY <2>1 DEF a
      <3> QED
        BY <2>1, <3>1, <3>2
    <2>2. CASE ~tiled
      <3> DEFINE a == InsertFloating(t, w, v)
      <3>1. /\ a \in Trees
            /\ a.workspace = [t.workspace EXCEPT ![v] = w]
            /\ a.floating = [t.floating EXCEPT ![w] = Append(t.floating[w], v)]
            /\ a.parent = t.parent /\ a.children = t.children
            /\ a.fsContainer = t.fsContainer
            /\ a.fullscreen = t.fullscreen /\ a.node = t.node
            /\ a.activated = t.activated /\ a.enabled = t.enabled
            /\ a.displayed = t.displayed
        BY <1>1, InsertFloatingFields
      <3> HIDE DEF a
      <3>2. u = a
        BY <2>2 DEF a
      <3>3. t.parent = [t.parent EXCEPT ![v] = NULL]
        BY <1>1 DEF Trees
      <3> QED
        BY <2>2, <3>1, <3>2, <3>3
    <2> QED
      BY <2>1, <2>2
  <1> HIDE DEF u
  <1>5. \A x \in Views :
            /\ u.workspace[x] = IF x = v THEN w ELSE t.workspace[x]
            /\ u.parent[x] = IF x = v THEN parent ELSE t.parent[x]
    BY <1>1, <1>4 DEF Trees
  <1>6. \A y \in Workspaces :
            /\ NoDuplicates(u.children[y])
            /\ Items(u.children[y]) =
                  IF tiled /\ y = w THEN Items(t.children[y]) \cup {v}
                                    ELSE Items(t.children[y])
    BY <1>1, <1>2, <1>3, <1>4 DEF Trees
  <1>7. \A y \in Workspaces :
            /\ NoDuplicates(u.floating[y])
            /\ Items(u.floating[y]) =
                  IF ~tiled /\ y = w THEN Items(t.floating[y]) \cup {v}
                                     ELSE Items(t.floating[y])
    BY <1>1, <1>2, <1>3, <1>4 DEF Trees
  <1>8. Listed(u)
    <2>1. \A x \in Views, y \in Workspaces :
              /\ x \in Items(u.children[y]) <=> u.parent[x] = y
              /\ x \in Items(u.floating[y]) <=> u.workspace[x] = y /\ u.parent[x] = NULL
      <3> SUFFICES ASSUME NEW x \in Views, NEW y \in Workspaces
                   PROVE  /\ x \in Items(u.children[y]) <=> u.parent[x] = y
                          /\ x \in Items(u.floating[y]) <=>
                                u.workspace[x] = y /\ u.parent[x] = NULL
        OBVIOUS
      <3>1. CASE x = v
        BY <1>1, <1>2, <1>5, <1>6, <1>7, <3>1
      <3>2. CASE x # v
        <4>1. /\ x \in Items(t.children[y]) <=> t.parent[x] = y
              /\ x \in Items(t.floating[y]) <=> t.workspace[x] = y /\ t.parent[x] = NULL
          BY <1>1 DEF Listed
        <4> QED
          BY <1>5, <1>6, <1>7, <3>2, <4>1
      <3> QED
        BY <3>1, <3>2
    <2> QED
      BY <1>6, <1>7, <2>1 DEF Listed
  <1>9. ASSUME NEW y \in Workspaces, u.fsContainer[y] # NULL
        PROVE  u.workspace[u.fsContainer[y]] = y /\ u.fullscreen[u.fsContainer[y]]
    <2> DEFINE f == t.fsContainer[y]
    <2>1. f \in Views /\ t.workspace[f] = y /\ t.fullscreen[f]
      BY <1>1, <1>4, <1>9 DEF Consistent, Trees
    <2>2. f # v
      BY <1>1, <2>1
    <2> QED
      BY <1>4, <1>5, <2>1, <2>2
  <1>10. Consistent(u)
    BY <1>1, <1>4, <1>5, <1>8, <1>9 DEF Consistent
  <1> QED
    BY <1>4, <1>10 DEF u

LEMMA AddKeeps ==
    ASSUME NEW t, Consistent(t), NEW v \in Views, t.workspace[v] = NULL,
           NEW w \in Workspaces, t.displayed[OutputOf[w]] # NULL, NEW tiled \in BOOLEAN
    PROVE  LET u == AddContainer(t, w, v, tiled) IN
           /\ Consistent(u)
           /\ u.workspace = [t.workspace EXCEPT ![v] = w]
           /\ u.displayed = t.displayed
  <1> DEFINE a == IF tiled THEN InsertTiled(t, w, v) ELSE InsertFloating(t, w, v)
  <1>1. /\ Consistent(a)
        /\ a.workspace = [t.workspace EXCEPT ![v] = w]
        /\ a.displayed = t.displayed
    BY InsertKeeps
  <1>2. AddContainer(t, w, v, tiled) =
            IF a.fullscreen[v] THEN ChangeFullscreen(a, a.workspace[v], v) ELSE a
    BY DEF AddContainer, Reparented
  <1> HIDE DEF a
  <1>3. a.workspace[v] = w
    BY <1>1 DEF Consistent, Trees
  <1>4. CASE a.fullscreen[v]
    <2> DEFINE c == ChangeFullscreen(a, w, v)
    <2>0. Consistent(a) /\ v \in Views \cup {NULL} /\ (v # NULL => a.workspace[v] = w)
      BY <1>1, <1>3
    <2>1. Consistent(c) /\ c.workspace = a.workspace /\ c.displayed = a.displayed
      BY <2>0, ChangeFullscreenKeeps
    <2>2. AddContainer(t, w, v, tiled) = c
      BY <1>2, <1>3, <1>4
    <2> HIDE DEF c
    <2> QED
      BY <1>1, <2>1, <2>2
  <1>5. CASE ~a.fullscreen[v]
    BY <1>1, <1>2, <1>5
  <1> QED
    BY <1>4, <1>5

LEMMA MoveKeeps ==
    ASSUME NEW t, Consistent(t), NEW v \in Views,
           NEW w \in Workspaces, t.displayed[OutputOf[w]] # NULL, NEW tiled \in BOOLEAN
    PROVE  LET u == AddContainer(Leave(t, v), w, v, tiled) IN
           /\ Consistent(u)
           /\ u.workspace = [t.workspace EXCEPT ![v] = w]
           /\ u.displayed = t.displayed
  <1> DEFINE a == Leave(t, v)
  <1>1. /\ Consistent(a)
        /\ a.workspace = [t.workspace EXCEPT ![v] = NULL]
        /\ a.displayed = t.displayed
    BY LeaveKeeps
  <1> HIDE DEF a
  <1>2. t \in Trees /\ a.workspace[v] = NULL /\ a.displayed[OutputOf[w]] # NULL
    BY <1>1 DEF Consistent, Trees
  <1>3. /\ Consistent(AddContainer(a, w, v, tiled))
        /\ AddContainer(a, w, v, tiled).workspace = [a.workspace EXCEPT ![v] = w]
        /\ AddContainer(a, w, v, tiled).displayed = a.displayed
    <2>1. Consistent(a) /\ a.workspace[v] = NULL /\ a.displayed[OutputOf[w]] # NULL
      BY <1>1, <1>2
    <2> QED
      BY <2>1, AddKeeps
  <1>4. [a.workspace EXCEPT ![v] = w] = [t.workspace EXCEPT ![v] = w]
    BY <1>1, <1>2 DEF Trees
  <1> QED
    BY <1>1, <1>3, <1>4 DEF a

\* Arranging hangs the nodes of containers in lists and of fullscreen containers.
LEMMA ArrangeKeeps ==
    ASSUME NEW t, Consistent(t), NEW w \in Workspaces
    PROVE  LET u == Arrange(t, w) IN
           Consistent(u) /\ u.workspace = t.workspace /\ u.displayed = t.displayed
  <1> DEFINE u == Arrange(t, w)
  <1>1. t \in Trees /\ NULL \notin Workspaces /\ NULL \notin Views
    BY TreeAssumption DEF Consistent
  <1>2. /\ u \in Trees
        /\ \A v \in Views : u.node[v] # t.node[v] =>
              v = t.fsContainer[w] \/ v \in Items(t.floating[w]) \/ v \in Items(t.children[w])
        /\ u.workspace = t.workspace /\ u.parent = t.parent
        /\ u.fullscreen = t.fullscreen /\ u.fsContainer = t.fsContainer
        /\ u.children = t.children /\ u.floating = t.floating
        /\ u.activated = t.activated /\ u.displayed = t.displayed
    <2>1. /\ u \in Trees
          /\ u.node = [v \in Views |->
                IF t.fsContainer[w] # NULL
                THEN IF v = t.fsContainer[w] THEN <<"fullscreen", w>> ELSE t.node[v]
                ELSE IF v \in Items(t.floating[w]) THEN <<"floating", w>>
                ELSE IF v \in Items(t.children[w]) THEN <<"tiling", w>> ELSE t.node[v]]
          /\ u.enabled = [t.enabled EXCEPT ![w] = Visibility(t, w)]
          /\ u.workspace = t.workspace /\ u.parent = t.parent
          /\ u.fullscreen = t.fullscreen /\ u.fsContainer = t.fsContainer
          /\ u.children = t.children /\ u.floating = t.floating
          /\ u.activated = t.activated /\ u.displayed = t.displayed
      BY <1>1, ArrangeFields
    <2> HIDE DEF u
    <2> QED
      BY <2>1
  <1> HIDE DEF u
  <1>3. ASSUME NEW v \in Views, t.workspace[v] = NULL PROVE u.node[v] = Pending
    <2>1. t.parent[v] = NULL /\ t.node[v] = Pending
      BY <1>3 DEF Consistent
    <2>2. v # t.fsContainer[w]
      BY <1>1, <1>3 DEF Consistent
    <2>3. v \notin Items(t.floating[w]) /\ v \notin Items(t.children[w])
      BY <1>1, <1>3, <2>1 DEF Consistent, Listed
    <2> QED
      BY <1>2, <2>1, <2>2, <2>3
  <1>4. Consistent(u)
    BY <1>2, <1>3 DEF Consistent, Listed
  <1> QED
    BY <1>2, <1>4 DEF u

LEMMA ArrangeRootKeeps ==
    ASSUME NEW t, Consistent(t), NEW w \in Workspaces
    PROVE  LET u == ArrangeRoot(t, w) IN
           /\ Consistent(u)
           /\ u.workspace = t.workspace /\ u.displayed = t.displayed
  <1> DEFINE u == ArrangeRoot(t, w)
  <1>1. t \in Trees /\ NULL \notin Workspaces
    BY TreeAssumption DEF Consistent
  <1>2. /\ u \in Trees
        /\ u.node = [v \in Views |->
              IF v \in Items(t.children[w]) THEN <<"tiling", w>> ELSE t.node[v]]
        /\ u.workspace = t.workspace /\ u.parent = t.parent
        /\ u.fullscreen = t.fullscreen /\ u.fsContainer = t.fsContainer
        /\ u.children = t.children /\ u.floating = t.floating
        /\ u.activated = t.activated /\ u.displayed = t.displayed
    <2> DEFINE n == [v \in Views |->
                       IF v \in Items(t.children[w]) THEN <<"tiling", w>> ELSE t.node[v]]
    <2>1. n \in [Views -> (Layers \X Workspaces) \cup {Pending}]
      BY <1>1 DEF Trees, Layers
    <2>2. u = [t EXCEPT !.node = n]
      BY DEF ArrangeRoot
    <2> HIDE DEF n, u
    <2>3. /\ u \in Trees /\ u.node = n
          /\ u.workspace = t.workspace /\ u.parent = t.parent
          /\ u.fullscreen = t.fullscreen /\ u.fsContainer = t.fsContainer
          /\ u.children = t.children /\ u.floating = t.floating
          /\ u.activated = t.activated /\ u.displayed = t.displayed
      BY <1>1, <2>1, <2>2 DEF Trees
    <2> QED
      BY <2>3 DEF n
  <1> HIDE DEF u
  <1>3. ASSUME NEW v \in Views, t.workspace[v] = NULL PROVE u.node[v] = Pending
    <2>1. t.parent[v] = NULL /\ t.node[v] = Pending
      BY <1>3 DEF Consistent
    <2>2. v \notin Items(t.children[w])
      BY <1>1, <1>3, <2>1 DEF Consistent, Listed
    <2> QED
      BY <1>2, <2>1, <2>2
  <1>4. Consistent(u)
    BY <1>2, <1>3 DEF Consistent, Listed
  <1> QED
    BY <1>2, <1>4 DEF u

\* e_output_display_workspace shows one workspace in place of another.
LEMMA DisplayKeeps ==
    ASSUME NEW t, Consistent(t), NEW w \in Workspaces
    PROVE  LET u == Display(t, OutputOf[w], w) IN
           Consistent(u) /\ u.workspace = t.workspace
  <1> DEFINE o == OutputOf[w]
             h == IF t.displayed[o] = NULL THEN t
                  ELSE SetActivated(t, t.displayed[o], FALSE)
             d == [h EXCEPT !.displayed[o] = w]
             s == SetActivated(d, w, TRUE)
             u == Display(t, o, w)
  <1>1. /\ t \in Trees /\ o \in Outputs /\ NULL \notin Workspaces
        /\ t.displayed[o] \in Workspaces \cup {NULL}
    BY TreeAssumption DEF Consistent, Trees
  <1>2. CASE t.activated[w]
    BY <1>2 DEF Display
  <1>3. CASE ~t.activated[w]
    <2>1. u = Arrange(s, w)
      BY <1>3 DEF Display
    <2> HIDE DEF u
    <2>2. /\ h \in Trees
          /\ \A y \in Workspaces : h.activated[y] => t.activated[y] /\ y # t.displayed[o]
          /\ h.workspace = t.workspace /\ h.parent = t.parent
          /\ h.fullscreen = t.fullscreen /\ h.fsContainer = t.fsContainer
          /\ h.children = t.children /\ h.floating = t.floating
          /\ h.node = t.node /\ h.displayed = t.displayed
      <3>1. CASE t.displayed[o] = NULL
        BY <1>1, <3>1
      <3>2. CASE t.displayed[o] # NULL
        <4> DEFINE q == t.displayed[o]
                   a == SetActivated(t, q, FALSE)
        <4>1. q \in Workspaces
          BY <1>1, <3>2
        <4>2. h = a
          BY <3>2
        <4> HIDE DEF q
        <4>3. /\ a \in Trees
              /\ a.activated = [t.activated EXCEPT ![q] = FALSE]
              /\ a.workspace = t.workspace /\ a.parent = t.parent
              /\ a.fullscreen = t.fullscreen /\ a.fsContainer = t.fsContainer
              /\ a.children = t.children /\ a.floating = t.floating
              /\ a.node = t.node /\ a.displayed = t.displayed
          BY <1>1, <4>1, SetActivatedFields
        <4> HIDE DEF a, h
        <4>4. \A y \in Workspaces : a.activated[y] => t.activated[y] /\ y # q
          BY <1>1, <4>1, <4>3 DEF Trees
        <4> QED
          BY <4>2, <4>3, <4>4 DEF q
      <3> QED
        BY <3>1, <3>2
    <2> HIDE DEF h
    <2>3. /\ d \in Trees
          /\ d.activated = h.activated
          /\ d.displayed = [t.displayed EXCEPT ![o] = w]
          /\ d.workspace = t.workspace /\ d.parent = t.parent
          /\ d.fullscreen = t.fullscreen /\ d.fsContainer = t.fsContainer
          /\ d.children = t.children /\ d.floating = t.floating
          /\ d.node = t.node
      BY <1>1, <2>2 DEF Trees
    <2> HIDE DEF d
    <2>4. /\ s \in Trees
          /\ s.activated = [d.activated EXCEPT ![w] = TRUE]
          /\ s.workspace = d.workspace /\ s.parent = d.parent
          /\ s.fullscreen = d.fullscreen /\ s.fsContainer = d.fsContainer
          /\ s.children = d.children /\ s.floating = d.floating
          /\ s.node = d.node /\ s.displayed = d.displayed
      BY <2>3, SetActivatedFields
    <2> HIDE DEF s
    <2>5. \A p \in Outputs : s.displayed[p] = IF p = o THEN w ELSE t.displayed[p]
      BY <1>1, <2>3, <2>4 DEF Trees
    <2>6. ASSUME NEW y \in Workspaces, s.activated[y] PROVE s.displayed[OutputOf[y]] = y
      <3>1. y = w \/ h.activated[y]
        BY <2>3, <2>4, <2>6 DEF Trees
      <3>2. CASE y = w
        BY <1>1, <2>5, <3>2
      <3>3. CASE h.activated[y]
        <4>1. t.activated[y] /\ y # t.displayed[o]
          BY <2>2, <3>3
        <4>2. t.displayed[OutputOf[y]] = y
          BY <4>1 DEF Consistent
        <4>3. OutputOf[y] # o /\ OutputOf[y] \in Outputs
          BY <4>1, <4>2, TreeAssumption
        <4> QED
          BY <2>5, <4>2, <4>3
      <3> QED
        BY <3>1, <3>2, <3>3
    <2>7. \A y \in Workspaces : t.displayed[OutputOf[y]] # NULL => s.displayed[OutputOf[y]] # NULL
      <3>1. \A y \in Workspaces : OutputOf[y] \in Outputs
        BY TreeAssumption
      <3> QED
        BY <1>1, <2>5, <3>1
    <2>8. \A v \in Views :
              /\ t.workspace[v] = NULL => t.parent[v] = NULL /\ t.node[v] = Pending
              /\ t.workspace[v] # NULL => s.displayed[OutputOf[t.workspace[v]]] # NULL
              /\ t.parent[v] # NULL => s.displayed[OutputOf[t.parent[v]]] # NULL
      <3>1. \A v \in Views :
                /\ t.workspace[v] \in Workspaces \cup {NULL}
                /\ t.parent[v] \in Workspaces \cup {NULL}
        BY <1>1 DEF Trees
      <3> QED
        BY <2>7, <3>1 DEF Consistent
    <2>9. \A p \in Outputs : s.displayed[p] # NULL => OutputOf[s.displayed[p]] = p
      BY <2>5 DEF Consistent
    <2>10. Consistent(s)
      BY <2>3, <2>4, <2>6, <2>8, <2>9 DEF Consistent, Listed
    <2>11. Consistent(u) /\ u.workspace = s.workspace
      BY <2>1, <2>10, ArrangeKeeps
    <2> QED
      BY <2>3, <2>4, <2>11 DEF u
  <1> QED
    BY <1>2, <1>3

LEMMA InitWorkspacesKeeps ==
    ASSUME NEW t, Consistent(t), NEW o \in Outputs
    PROVE  LET u == InitWorkspaces(t, o) IN
           Consistent(u) /\ u.workspace = t.workspace
  <1> DEFINE w == FirstWorkspace(o)
             d == Display(t, OutputOf[w], w)
  <1>1. w \in Workspaces /\ OutputOf[w] = o
    BY FirstWorkspaceIn
  <1>2. InitWorkspaces(t, o) = Arrange(d, w)
    BY <1>1 DEF InitWorkspaces
  <1> HIDE DEF w
  <1>3. Consistent(d) /\ d.workspace = t.workspace
    BY <1>1, DisplayKeeps
  <1> HIDE DEF d
  <1>4. Consistent(Arrange(d, w)) /\ Arrange(d, w).workspace = d.workspace
    BY <1>1, <1>3, ArrangeKeeps
  <1> QED
    BY <1>2, <1>3, <1>4

LEMMA EmptyKeeps == Consistent(EmptyTree)
  <1>1. EmptyTree \in Trees /\ NULL \notin Workspaces
    BY TreeAssumption DEF EmptyTree, Trees
  <1>2. Listed(EmptyTree)
    BY <1>1 DEF EmptyTree, Listed, Items, NoDuplicates
  <1> QED
    BY <1>1, <1>2 DEF Consistent, EmptyTree

\* The list s with a and b in each other's place.
Exchanged(s, a, b) ==
    [i \in DOMAIN s |-> CASE s[i] = a -> b [] s[i] = b -> a [] OTHER -> s[i]]

LEMMA ExchangedItems ==
    ASSUME NEW s \in Seq(Views), NoDuplicates(s), NEW a \in Views, NEW b \in Views, a # b
    PROVE  /\ Exchanged(s, a, b) \in Seq(Views)
           /\ NoDuplicates(Exchanged(s, a, b))
           /\ a \in Items(Exchanged(s, a, b)) <=> b \in Items(s)
           /\ b \in Items(Exchanged(s, a, b)) <=> a \in Items(s)
           /\ \A x \in Views \ {a, b} : x \in Items(Exchanged(s, a, b)) <=> x \in Items(s)
  <1> DEFINE r(x) == IF x = a THEN b ELSE IF x = b THEN a ELSE x
             new == Exchanged(s, a, b)
  <1>1. /\ DOMAIN new = DOMAIN s /\ DOMAIN s = 1..Len(s) /\ Len(s) \in Nat
        /\ \A i \in DOMAIN s : s[i] \in Views /\ new[i] = r(s[i])
    BY DEF Exchanged
  <1>2. new \in Seq(Views)
    <2>1. \A i \in 1..Len(s) : new[i] \in Views
      BY <1>1
    <2>2. new = [i \in 1..Len(s) |-> new[i]]
      BY <1>1 DEF Exchanged
    <2> HIDE DEF new
    <2> QED
      BY <1>1, <2>1, <2>2
  <1> HIDE DEF new
  <1>3. NoDuplicates(new)
    BY <1>1 DEF NoDuplicates
  <1>4. \A x \in Views : r(x) \in Items(new) <=> x \in Items(s)
    BY <1>1 DEF Items
  <1>5. \A x \in Views : r(r(x)) = x /\ r(x) \in Views
    OBVIOUS
  <1>6. \A x \in Views : x \in Items(new) <=> r(x) \in Items(s)
    BY <1>4, <1>5
  <1>7. /\ a \in Items(new) <=> b \in Items(s)
        /\ b \in Items(new) <=> a \in Items(s)
        /\ \A x \in Views \ {a, b} : x \in Items(new) <=> x \in Items(s)
    BY <1>6
  <1> QED
    BY <1>2, <1>3, <1>7 DEF new

\* swap_tiled_containers: each of the two takes the place of the other, and keeps
\* its own workspace.
LEMMA SwapKeeps ==
    ASSUME NEW t, Consistent(t), NEW a \in Views, NEW b \in Views, a # b,
           t.parent[a] # NULL, t.parent[b] # NULL
    PROVE  Consistent(Swap(t, a, b)) /\ Swap(t, a, b).workspace = t.workspace
  <1>1. /\ t \in Trees /\ Listed(t) /\ NULL \notin Workspaces
        /\ t.parent[a] \in Workspaces /\ t.parent[b] \in Workspaces
    <2>1. t \in Trees /\ Listed(t) /\ NULL \notin Workspaces
      BY TreeAssumption DEF Consistent
    <2>2. t.parent \in [Views -> Workspaces \cup {NULL}]
      BY <2>1 DEF Trees
    <2> QED
      BY <2>1, <2>2
  <1> DEFINE u == SwapPlaces(t, a, b)
  <1>2. \A w \in Workspaces :
            /\ Exchanged(t.children[w], a, b) \in Seq(Views)
            /\ NoDuplicates(Exchanged(t.children[w], a, b))
            /\ a \in Items(Exchanged(t.children[w], a, b)) <=> b \in Items(t.children[w])
            /\ b \in Items(Exchanged(t.children[w], a, b)) <=> a \in Items(t.children[w])
            /\ \A x \in Views \ {a, b} :
                  x \in Items(Exchanged(t.children[w], a, b)) <=> x \in Items(t.children[w])
    <2> SUFFICES ASSUME NEW w \in Workspaces
                 PROVE  /\ Exchanged(t.children[w], a, b) \in Seq(Views)
                        /\ NoDuplicates(Exchanged(t.children[w], a, b))
                        /\ a \in Items(Exchanged(t.children[w], a, b)) <=> b \in Items(t.children[w])
                        /\ b \in Items(Exchanged(t.children[w], a, b)) <=> a \in Items(t.children[w])
                        /\ \A x \in Views \ {a, b} :
                              x \in Items(Exchanged(t.children[w], a, b)) <=> x \in Items(t.children[w])
      OBVIOUS
    <2>1. t.children[w] \in Seq(Views) /\ NoDuplicates(t.children[w])
      BY <1>1 DEF Trees, Listed
    <2> QED
      BY <2>1, ExchangedItems
  <1>3. u = [t EXCEPT !.children = [w \in Workspaces |-> Exchanged(t.children[w], a, b)],
                      !.parent[a] = t.parent[b], !.parent[b] = t.parent[a]]
    BY DEF SwapPlaces, Exchanged
  <1> HIDE DEF u
  <1>4. /\ u \in Trees
        /\ u.children = [w \in Workspaces |-> Exchanged(t.children[w], a, b)]
        /\ u.parent = [t.parent EXCEPT ![a] = t.parent[b], ![b] = t.parent[a]]
        /\ u.workspace = t.workspace /\ u.fullscreen = t.fullscreen
        /\ u.fsContainer = t.fsContainer /\ u.floating = t.floating /\ u.node = t.node
        /\ u.activated = t.activated /\ u.displayed = t.displayed
    BY <1>1, <1>2, <1>3 DEF Trees
  <1>5. \A x \in Views : u.parent[x] = IF x = b THEN t.parent[a]
                                       ELSE IF x = a THEN t.parent[b] ELSE t.parent[x]
    BY <1>1, <1>4 DEF Trees
  <1>6. Listed(u)
    <2>1. ASSUME NEW x \in Views, NEW w \in Workspaces
          PROVE  x \in Items(u.children[w]) <=> u.parent[x] = w
      <3>1. \A y \in Views : y \in Items(t.children[w]) <=> t.parent[y] = w
        BY <1>1 DEF Listed
      <3>2. u.children[w] = Exchanged(t.children[w], a, b)
        BY <1>4
      <3> QED
        BY <1>2, <1>5, <3>1, <3>2
    <2>2. \A x \in Views : u.parent[x] = NULL <=> t.parent[x] = NULL
      BY <1>5
    <2>3. \A w \in Workspaces : NoDuplicates(u.children[w])
      BY <1>2, <1>4
    <2> QED
      BY <1>1, <1>4, <2>1, <2>2, <2>3 DEF Listed
  <1>7. \A x \in Views :
            /\ t.workspace[x] = NULL => u.parent[x] = NULL
            /\ u.parent[x] # NULL => t.displayed[OutputOf[u.parent[x]]] # NULL
    BY <1>5 DEF Consistent
  <1>8. Consistent(u)
    BY <1>4, <1>6, <1>7 DEF Consistent
  <1> DEFINE q == ArrangeRoot(u, t.parent[b])
  <1>9. Consistent(q) /\ q.workspace = u.workspace
    BY <1>1, <1>8, ArrangeRootKeeps
  <1>10. Swap(t, a, b) = ArrangeRoot(q, t.parent[a])
    BY DEF Swap, u
  <1> HIDE DEF q
  <1>11. /\ Consistent(ArrangeRoot(q, t.parent[a]))
         /\ ArrangeRoot(q, t.parent[a]).workspace = q.workspace
    BY <1>1, <1>9, ArrangeRootKeeps
  <1> QED
    BY <1>4, <1>9, <1>10, <1>11

(***************************************************************************)
(* The handlers                                                            *)
(***************************************************************************)

\* A handler that maps and unmaps nothing keeps the desktop right when it keeps the
\* tree consistent, places and withdraws no container, and makes only mapped views
\* active.
LEMMA DesktopStep ==
    ASSUME DesktopOK, Consistent(tree)', UNCHANGED view,
           \A v \in Views : tree.workspace[v] = NULL => tree'.workspace[v] = NULL,
           activeView' # activeView =>
               activeView' \in Views /\ view[activeView'] = "mapped"
    PROVE  DesktopOK'
  <1>1. \A v \in Views : view'[v] # "mapped" => tree'.workspace[v] = NULL
    BY DEF DesktopOK
  <1>2. activeView' # NULL => activeView' \in Views /\ view'[activeView'] = "mapped"
    BY DEF DesktopOK
  <1> QED
    BY <1>1, <1>2 DEF DesktopOK

\* A container on screen has a workspace.
LEMMA OnScreenThere ==
    ASSUME NEW t, Consistent(t), NEW v \in Views, OnScreen(t, v)
    PROVE  t.workspace[v] # NULL
  <1>1. t.node[v] # Pending
    BY DEF OnScreen, Pending
  <1> QED
    BY <1>1 DEF Consistent

LEMMA RevealKeeps ==
    ASSUME NEW t, Consistent(t), NEW v \in Views
    PROVE  Consistent(Reveal(t, v)) /\ Reveal(t, v).workspace = t.workspace
  <1> DEFINE w == t.workspace[v]
             d == Display(t, OutputOf[w], w)
  <1>1. w \in Workspaces \cup {NULL}
    BY DEF Consistent, Trees
  <1>2. Reveal(t, v) = t \/ (w # NULL /\ Reveal(t, v) = d)
    BY DEF Reveal
  <1> HIDE DEF w
  <1>3. w # NULL => Consistent(d) /\ d.workspace = t.workspace
    BY <1>1, DisplayKeeps
  <1> QED
    BY <1>2, <1>3

LEMMA FocusHoveredKeeps ==
    ASSUME DesktopOK, NEW t, Consistent(t), FocusHovered(t), UNCHANGED view,
           \A v \in Views : tree.workspace[v] = NULL => t.workspace[v] = NULL
    PROVE  DesktopOK'
  <1>1. CASE UNCHANGED activeView /\ tree' = t
    BY <1>1, DesktopStep
  <1>2. ASSUME NEW v \in Views, OnScreen(t, v), Focus(t, v)
        PROVE  DesktopOK'
    <2>1. tree' = Reveal(t, v) /\ activeView' = v
      BY <1>2 DEF Focus
    <2>2. Consistent(tree)' /\ tree'.workspace = t.workspace
      BY <2>1, RevealKeeps
    <2>3. t.workspace[v] # NULL
      BY <1>2, OnScreenThere
    <2>4. view[v] = "mapped"
      BY <2>3 DEF DesktopOK
    <2> QED
      BY <2>1, <2>2, <2>4, DesktopStep
  <1> QED
    BY <1>1, <1>2 DEF FocusHovered

\* The workspaces that are there: those of containers, the displayed ones, and the
\* next one on the same output.
LEMMA PlacesThere ==
    ASSUME DesktopOK
    PROVE  /\ tree \in Trees /\ NULL \notin Workspaces /\ NULL \notin Views
           /\ \A v \in Views : tree.workspace[v] # NULL =>
                 /\ tree.workspace[v] \in Workspaces
                 /\ tree.displayed[OutputOf[tree.workspace[v]]] # NULL
           /\ \A o \in Present(tree) :
                 /\ tree.displayed[o] \in Workspaces /\ OutputOf[tree.displayed[o]] = o
                 /\ tree.displayed[OutputOf[tree.displayed[o]]] # NULL
  <1>1. tree \in Trees /\ NULL \notin Workspaces /\ NULL \notin Views
    BY TreeAssumption DEF DesktopOK, Consistent
  <1>2. /\ tree.workspace \in [Views -> Workspaces \cup {NULL}]
        /\ tree.displayed \in [Outputs -> Workspaces \cup {NULL}]
    BY <1>1 DEF Trees
  <1> QED
    BY <1>1, <1>2 DEF DesktopOK, Consistent, Present

LEMMA CreateViewOK ==
    ASSUME DesktopOK, view \in [Views -> {"none", "unmapped", "mapped"}],
           NEW v \in Views, CreateView(v)
    PROVE  DesktopOK'
  <1>1. /\ view[v] = "none" /\ view' = [view EXCEPT ![v] = "unmapped"]
        /\ tree' = InitContainer(tree, v) /\ activeView' = activeView
    BY DEF CreateView
  <1>2. tree.workspace[v] = NULL
    BY <1>1 DEF DesktopOK
  <1>3. Consistent(tree)' /\ tree'.workspace = tree.workspace
    BY <1>1, <1>2, InitContainerKeeps DEF DesktopOK
  <1>4. \A x \in Views : view'[x] = IF x = v THEN "unmapped" ELSE view[x]
    BY <1>1
  <1> QED
    BY <1>1, <1>2, <1>3, <1>4 DEF DesktopOK

LEMMA MapViewOK ==
    ASSUME DesktopOK, view \in [Views -> {"none", "unmapped", "mapped"}],
           NEW v \in Views, NEW full \in BOOLEAN, NEW floats \in BOOLEAN,
           NEW out \in Present(tree) \cup {NULL}, NEW hovered \in Hovered(tree),
           MapView(v, full, out, floats, hovered)
    PROVE  DesktopOK' /\ (aborted' \/ aborted' = aborted)
  <1> DEFINE w == MapTarget(full, out, hovered)
             set == SetFullscreen(tree, v, full)
             added == AddContainer(set, w, v, ~floats)
             arranged == Arrange(added, w)
  <1>1. view[v] = "unmapped" /\ view' = [view EXCEPT ![v] = "mapped"]
    BY DEF MapView
  <1>2. tree.workspace[v] = NULL /\ activeView # v
    BY <1>1, TreeAssumption DEF DesktopOK
  <1>3. \A x \in Views : view'[x] = IF x = v THEN "mapped" ELSE view[x]
    BY <1>1
  <1>4. CASE w = NULL
    <2>1. UNCHANGED <<tree, activeView, aborted>>
      BY <1>4 DEF MapView
    <2> QED
      BY <1>2, <1>3, <2>1 DEF DesktopOK
  <1>5. CASE w # NULL
    <2>1. w \in Workspaces /\ tree.displayed[OutputOf[w]] # NULL
      <3> DEFINE o == IF full /\ out # NULL THEN out ELSE hovered
      <3>1. o # NULL /\ w = tree.displayed[o]
        BY <1>5 DEF MapTarget
      <3>2. o \in Present(tree)
        BY <3>1 DEF Hovered
      <3> QED
        BY <3>1, <3>2, PlacesThere
    <2>2. tree' = Reveal(arranged, v) /\ activeView' = v /\ aborted' = aborted
      BY <1>2, <1>5 DEF MapView, Focus
    <2>0. w \in Workspaces
      BY <2>1
    <2> HIDE DEF w
    <2>3. Consistent(set) /\ set.workspace[v] = NULL
          /\ set.workspace = tree.workspace /\ set.displayed = tree.displayed
      BY <1>2, SetFullscreenKeeps DEF DesktopOK
    <2> HIDE DEF set
    <2>4. Consistent(added) /\ added.workspace = [set.workspace EXCEPT ![v] = w]
      <3>1. Consistent(set) /\ set.workspace[v] = NULL /\ set.displayed[OutputOf[w]] # NULL
        BY <2>1, <2>3
      <3>2. ASSUME NEW tiled \in BOOLEAN
            PROVE  /\ Consistent(AddContainer(set, w, v, tiled))
                   /\ AddContainer(set, w, v, tiled).workspace = [set.workspace EXCEPT ![v] = w]
        BY <2>0, <3>1, AddKeeps
      <3>3. PICK tiled \in BOOLEAN : tiled = ~floats
        OBVIOUS
      <3> QED
        BY <3>2, <3>3
    <2> HIDE DEF added
    <2>5. Consistent(arranged) /\ arranged.workspace = added.workspace
      BY <2>1, <2>4, ArrangeKeeps
    <2> HIDE DEF arranged
    <2>6. Consistent(tree)' /\ tree'.workspace = arranged.workspace
      BY <2>2, <2>5, RevealKeeps
    <2>7. \A x \in Views : x # v => tree'.workspace[x] = tree.workspace[x]
      BY <2>3, <2>4, <2>5, <2>6 DEF Consistent, Trees
    <2> QED
      BY <1>3, <2>2, <2>6, <2>7 DEF DesktopOK
  <1> QED
    BY <1>4, <1>5

LEMMA UnmapViewOK ==
    ASSUME DesktopOK, view \in [Views -> {"none", "unmapped", "mapped"}],
           NEW v \in Views, UnmapView(v)
    PROVE  DesktopOK'
  <1> DEFINE a == Leave(tree, v)
  <1>1. /\ view' = [view EXCEPT ![v] = "unmapped"]
        /\ activeView' = IF activeView = v THEN NULL ELSE activeView
        /\ tree' = IF tree.workspace[v] = NULL THEN a ELSE Arrange(a, tree.workspace[v])
    BY DEF UnmapView, ActiveWithout, Unmapped
  <1>2. Consistent(a) /\ a.workspace = [tree.workspace EXCEPT ![v] = NULL]
    BY LeaveKeeps DEF DesktopOK
  <1> HIDE DEF a
  <1>3. Consistent(tree)' /\ tree'.workspace = a.workspace
    <2>1. CASE tree.workspace[v] = NULL
      BY <1>1, <1>2, <2>1
    <2>2. CASE tree.workspace[v] # NULL
      <3>1. tree.workspace[v] \in Workspaces
        BY <2>2, PlacesThere
      <3> QED
        BY <1>1, <1>2, <2>2, <3>1, ArrangeKeeps
    <2> QED
      BY <2>1, <2>2
  <1>4. \A x \in Views : /\ tree'.workspace[x] = IF x = v THEN NULL ELSE tree.workspace[x]
                         /\ view'[x] = IF x = v THEN "unmapped" ELSE view[x]
    BY <1>1, <1>2, <1>3, PlacesThere DEF Trees
  <1> QED
    BY <1>1, <1>3, <1>4 DEF DesktopOK

LEMMA RequestFullscreenOK ==
    ASSUME DesktopOK, view \in [Views -> {"none", "unmapped", "mapped"}],
           NEW v \in Views, NEW full \in BOOLEAN, NEW out \in Present(tree) \cup {NULL},
           RequestFullscreen(v, full, out)
    PROVE  DesktopOK'
  <1> DEFINE old == tree.workspace[v]
             new == RequestTarget(v, full, out)
             moved == IF old = new THEN tree ELSE MoveToWorkspace(tree, v, new)
             applied == ApplyRequest(moved, v, new, full)
             first == Arrange(applied, old)
  <1>1. UNCHANGED <<view, activeView>>
    BY DEF RequestFullscreen
  <1>2. CASE view[v] = "unmapped" \/ new = NULL
    <2>1. tree' = SetFullscreen(tree, v, full)
      BY <1>2 DEF RequestFullscreen
    <2>2. tree.workspace[v] = NULL
      <3>1. new = NULL => old = NULL
        BY PlacesThere DEF RequestTarget
      <3> QED
        BY <1>2, <3>1 DEF DesktopOK
    <2>3. Consistent(tree)' /\ tree'.workspace = tree.workspace
      BY <2>1, <2>2, SetFullscreenKeeps DEF DesktopOK
    <2> QED
      BY <1>1, <2>3, DesktopStep
  <1>3. CASE ~(view[v] = "unmapped" \/ new = NULL) /\ old = NULL
    <2>1. tree' = tree
      BY <1>3 DEF RequestFullscreen
    <2> QED
      BY <1>1, <2>1 DEF DesktopOK
  <1>4. CASE ~(view[v] = "unmapped" \/ new = NULL) /\ old # NULL
    <2>1. tree' = Arrange(first, new)
      BY <1>4 DEF RequestFullscreen
    <2>2. /\ new \in Workspaces /\ tree.displayed[OutputOf[new]] # NULL
          /\ old \in Workspaces
      BY <1>4, PlacesThere DEF RequestTarget
    <2> HIDE DEF new
    <2>3. /\ Consistent(moved) /\ moved.workspace[v] = new
          /\ \A x \in Views \ {v} : moved.workspace[x] = tree.workspace[x]
      <3>1. CASE old = new
        BY <3>1 DEF DesktopOK
      <3>2. CASE old # new
        <4> DEFINE m == AddContainer(Leave(tree, v), new, v, IsTiled(tree, v))
        <4>1. moved = m
          BY <3>2 DEF MoveToWorkspace
        <4>2. IsTiled(tree, v) \in BOOLEAN /\ Consistent(tree)
          BY DEF IsTiled, DesktopOK
        <4>3. Consistent(m) /\ m.workspace = [tree.workspace EXCEPT ![v] = new]
          BY <2>2, <4>2, MoveKeeps
        <4> HIDE DEF m, moved
        <4> QED
          BY <4>1, <4>3, PlacesThere DEF Trees
      <3> QED
        BY <3>1, <3>2
    <2> HIDE DEF moved
    <2>4. Consistent(applied) /\ applied.workspace = moved.workspace
      <3> DEFINE to(c) == ChangeFullscreen(moved, new, c)
      <3>1. applied \in {moved, to(v), to(NULL)}
        BY DEF ApplyRequest
      <3>2. Consistent(to(v)) /\ to(v).workspace = moved.workspace
        <4>1. v \in Views \cup {NULL} /\ (v # NULL => moved.workspace[v] = new)
          BY <2>3
        <4> QED
          BY <2>2, <2>3, <4>1, ChangeFullscreenKeeps
      <3>3. Consistent(to(NULL)) /\ to(NULL).workspace = moved.workspace
        <4>1. NULL \in Views \cup {NULL} /\ (NULL # NULL => moved.workspace[NULL] = new)
          OBVIOUS
        <4> QED
          BY <2>2, <2>3, <4>1, ChangeFullscreenKeeps
      <3> HIDE DEF applied, to
      <3> QED
        BY <2>3, <3>1, <3>2, <3>3
    <2> HIDE DEF applied, old
    <2>5. Consistent(first) /\ first.workspace = applied.workspace
      BY <2>2, <2>4, ArrangeKeeps
    <2> HIDE DEF first
    <2>6. Consistent(tree)' /\ tree'.workspace = first.workspace
      BY <2>1, <2>2, <2>5, ArrangeKeeps
    <2>7. \A x \in Views : tree.workspace[x] = NULL => tree'.workspace[x] = NULL
      BY <1>4, <2>3, <2>4, <2>5, <2>6 DEF old
    <2> QED
      BY <1>1, <2>6, <2>7, DesktopStep
  <1> QED
    BY <1>2, <1>3, <1>4

\* Views that go, workspaces and outputs that come, and the keyboard commands.
LEMMA DestroyViewOK ==
    ASSUME DesktopOK, view \in [Views -> {"none", "unmapped", "mapped"}],
           NEW v \in Views, DestroyView(v)
    PROVE  DesktopOK'
  <1> DEFINE a == LeaveParent(tree, v)
  <1>1. /\ view[v] = "unmapped" /\ view' = [view EXCEPT ![v] = "none"]
        /\ tree' = InitContainer(a, v) /\ activeView' = activeView
    BY DEF DestroyView
  <1>2. tree.workspace[v] = NULL /\ activeView # v
    BY <1>1, TreeAssumption DEF DesktopOK
  <1>3. Consistent(a) /\ a.workspace = tree.workspace
    <2>1. /\ tree \in Trees /\ NULL \notin Workspaces /\ tree.parent[v] = NULL
          /\ \A w \in Workspaces : NoDuplicates(tree.children[w])
      BY <1>2, PlacesThere DEF DesktopOK, Consistent, Listed
    <2>2. a \in Trees
      BY <2>1, LeaveParentType
    <2>3. /\ a.parent = [tree.parent EXCEPT ![v] = NULL]
          /\ a.children = [w \in Workspaces |->
                IF w = tree.parent[v] THEN ListRemove(tree.children[w], v)
                                      ELSE tree.children[w]]
          /\ a.workspace = tree.workspace /\ a.fullscreen = tree.fullscreen
          /\ a.node = tree.node
          /\ a.floating = tree.floating /\ a.fsContainer = tree.fsContainer
          /\ a.activated = tree.activated /\ a.enabled = tree.enabled
          /\ a.displayed = tree.displayed
      BY <2>1, LeaveParentFields
    <2> HIDE DEF a
    <2>4. a.parent = tree.parent /\ a.children = tree.children
      BY <2>1, <2>3 DEF Trees
    <2> QED
      BY <2>2, <2>3, <2>4 DEF DesktopOK, Consistent, Listed
  <1> HIDE DEF a
  <1>4. Consistent(tree)' /\ tree'.workspace = tree.workspace
    <2>1. a.workspace[v] = NULL
      BY <1>2, <1>3
    <2> QED
      BY <1>1, <1>3, <2>1, InitContainerKeeps
  <1>5. \A x \in Views : view'[x] = IF x = v THEN "none" ELSE view[x]
    BY <1>1
  <1> QED
    BY <1>1, <1>2, <1>4, <1>5 DEF DesktopOK

LEMMA FocusOK ==
    ASSUME DesktopOK, NEW v \in Views, RequestActivate(v) \/ PointerMotion(v)
    PROVE  DesktopOK'
  <1>1. tree' = Reveal(tree, v) /\ activeView' = v /\ view' = view
    BY DEF RequestActivate, PointerMotion, Focus
  <1>2. view[v] = "mapped"
    <2>1. CASE RequestActivate(v)
      BY <2>1 DEF RequestActivate
    <2>2. CASE PointerMotion(v)
      <3>1. tree.workspace[v] # NULL
        BY <2>2, OnScreenThere DEF PointerMotion, DesktopOK
      <3> QED
        BY <3>1 DEF DesktopOK
    <2> QED
      BY <2>1, <2>2
  <1>3. Consistent(tree)' /\ tree'.workspace = tree.workspace
    BY <1>1, RevealKeeps DEF DesktopOK
  <1> QED
    BY <1>1, <1>2, <1>3, DesktopStep

LEMMA DisplaysOK ==
    ASSUME DesktopOK,
           \/ \E w \in Workspaces : ActivateWorkspace(w)
           \/ \E o \in Outputs : AddOutput(o) \/ ArrangeOutput(o)
           \/ SwitchTilingMode
    PROVE  DesktopOK'
  <1>1. Consistent(tree)
    BY DEF DesktopOK
  <1>2. UNCHANGED <<view, activeView>>
    BY DEF ActivateWorkspace, AddOutput, ArrangeOutput, SwitchTilingMode
  <1>3. Consistent(tree)' /\ tree'.workspace = tree.workspace
    <2>1. ASSUME NEW w \in Workspaces, ActivateWorkspace(w)
          PROVE  Consistent(tree)' /\ tree'.workspace = tree.workspace
      BY <1>1, <2>1, DisplayKeeps DEF ActivateWorkspace
    <2>2. ASSUME NEW o \in Outputs, AddOutput(o)
          PROVE  Consistent(tree)' /\ tree'.workspace = tree.workspace
      BY <1>1, <2>2, InitWorkspacesKeeps DEF AddOutput
    <2>3. ASSUME NEW o \in Outputs, ArrangeOutput(o)
          PROVE  Consistent(tree)' /\ tree'.workspace = tree.workspace
      <3>1. tree.displayed[o] \in Workspaces
        BY <2>3, PlacesThere DEF ArrangeOutput
      <3> QED
        BY <1>1, <2>3, <3>1, ArrangeKeeps DEF ArrangeOutput
    <2>4. CASE SwitchTilingMode
      <3>1. activeView \in Views /\ tree.parent[activeView] # NULL
        BY <2>4 DEF SwitchTilingMode, IsTiled, DesktopOK
      <3>2. tree.parent[activeView] \in Workspaces
        BY <3>1, PlacesThere DEF Trees
      <3> QED
        BY <1>1, <2>4, <3>2, ArrangeRootKeeps DEF SwitchTilingMode
    <2> QED
      BY <2>1, <2>2, <2>3, <2>4
  <1> QED
    BY <1>2, <1>3, DesktopStep

LEMMA ToggleTiledOK ==
    ASSUME DesktopOK, ToggleTiled
    PROVE  DesktopOK'
  <1> DEFINE v == activeView
             w == tree.workspace[v]
             tiled == ~IsTiled(tree, v)
             m == AddContainer(Leave(tree, v), w, v, tiled)
  <1>1. /\ activeView # NULL /\ w # NULL /\ UNCHANGED <<view, activeView>>
        /\ tree' = Arrange(m, w)
    BY DEF ToggleTiled, ChangeTiling
  <1>2. /\ v \in Views /\ w \in Workspaces /\ tree.displayed[OutputOf[w]] # NULL
        /\ tree \in Trees /\ Consistent(tree)
    BY <1>1, PlacesThere DEF DesktopOK
  <1>3. tiled \in BOOLEAN
    BY DEF IsTiled
  <1> HIDE DEF w, v, tiled
  <1>4. Consistent(m) /\ m.workspace = [tree.workspace EXCEPT ![v] = w]
    BY <1>2, <1>3, MoveKeeps
  <1> HIDE DEF m
  <1>5. Consistent(tree)' /\ tree'.workspace = m.workspace
    BY <1>1, <1>2, <1>4, ArrangeKeeps
  <1>6. \A x \in Views : tree.workspace[x] = NULL => tree'.workspace[x] = NULL
    BY <1>1, <1>2, <1>4, <1>5 DEF w, Trees
  <1> QED
    BY <1>1, <1>5, <1>6, DesktopStep

LEMMA ToggleFullscreenOK ==
    ASSUME DesktopOK, ToggleFullscreen
    PROVE  DesktopOK'
  <1> DEFINE w == tree.workspace[activeView]
             c == IF tree.fsContainer[w] = activeView THEN NULL ELSE activeView
             m == ChangeFullscreen(tree, w, c)
  <1>1. /\ activeView # NULL /\ w # NULL /\ UNCHANGED <<view, activeView>>
        /\ tree' = Arrange(m, w)
    BY DEF ToggleFullscreen
  <1>2. activeView \in Views /\ w \in Workspaces /\ Consistent(tree)
    BY <1>1, PlacesThere DEF DesktopOK
  <1>3. c \in Views \cup {NULL} /\ (c # NULL => tree.workspace[c] = w)
    BY <1>2
  <1> HIDE DEF w, c
  <1>4. Consistent(m) /\ m.workspace = tree.workspace
    BY <1>2, <1>3, ChangeFullscreenKeeps
  <1> HIDE DEF m
  <1>5. Consistent(tree)' /\ tree'.workspace = m.workspace
    BY <1>1, <1>2, <1>4, ArrangeKeeps
  <1> QED
    BY <1>1, <1>4, <1>5, DesktopStep

LEMMA ShowNextWorkspaceOK ==
    ASSUME DesktopOK, NEW hovered \in Hovered(tree), hovered # NULL, ShowNextWorkspace(hovered)
    PROVE  DesktopOK' /\ aborted' = aborted
  <1> DEFINE w == NextWorkspace(tree.displayed[hovered])
             t == Display(tree, hovered, w)
  <1>1. FocusHovered(t) /\ UNCHANGED <<view, aborted>>
    BY DEF ShowNextWorkspace
  <1>2. hovered \in Present(tree)
    BY DEF Hovered
  <1>3. w \in Workspaces /\ OutputOf[w] = hovered
    BY <1>2, PlacesThere, NextWorkspaceIn
  <1> HIDE DEF w
  <1>4. Consistent(t) /\ t.workspace = tree.workspace
    BY <1>3, DisplayKeeps DEF DesktopOK
  <1> HIDE DEF t
  <1> QED
    BY <1>1, <1>4, FocusHoveredKeeps

LEMMA MoveToNextWorkspaceOK ==
    ASSUME DesktopOK, MoveToNextWorkspace
    PROVE  DesktopOK' /\ aborted' = aborted
  <1> DEFINE v == activeView
             old == tree.workspace[v]
             new == NextWorkspace(old)
             tiled == IsTiled(tree, v)
             m == AddContainer(Leave(tree, v), new, v, tiled)
             first == Arrange(m, old)
             t == Arrange(first, new)
  <1>1. /\ activeView # NULL /\ old # NULL /\ UNCHANGED <<view, aborted>>
        /\ FocusHovered(t)
    BY DEF MoveToNextWorkspace, MoveToWorkspace
  <1>2. /\ v \in Views /\ old \in Workspaces /\ tree.displayed[OutputOf[old]] # NULL
        /\ tree \in Trees /\ Consistent(tree)
    BY <1>1, PlacesThere DEF DesktopOK
  <1>3. tiled \in BOOLEAN
    BY DEF IsTiled
  <1>4. new \in Workspaces /\ tree.displayed[OutputOf[new]] # NULL
    BY <1>2, NextWorkspaceIn
  <1> HIDE DEF v, old, new, tiled
  <1>5. Consistent(m) /\ m.workspace = [tree.workspace EXCEPT ![v] = new]
    BY <1>2, <1>3, <1>4, MoveKeeps
  <1> HIDE DEF m
  <1>6. Consistent(first) /\ first.workspace = m.workspace
    BY <1>2, <1>5, ArrangeKeeps
  <1> HIDE DEF first
  <1>7. Consistent(t) /\ t.workspace = first.workspace
    BY <1>4, <1>6, ArrangeKeeps
  <1> HIDE DEF t
  <1>8. \A x \in Views : tree.workspace[x] = NULL => t.workspace[x] = NULL
    BY <1>1, <1>2, <1>5, <1>6, <1>7 DEF old, Trees
  <1> QED
    BY <1>1, <1>7, <1>8, FocusHoveredKeeps

(***************************************************************************)
(* Outputs that are unplugged                                              *)
(***************************************************************************)

\* The lists agree whatever is left pointing to freed memory; the rest of what is
\* consistent needs that nothing is.
LEMMA UnplugOK ==
    ASSUME DesktopOK, view \in [Views -> {"none", "unmapped", "mapped"}],
           NEW o \in Outputs, RemoveOutput(o)
    PROVE  Listed(tree)' /\ (~aborted' => DesktopOK')
  <1> DEFINE freed == DestroyedWith(tree, o)
             there == WorkspacesOn(o)
             u == WithoutOutput(tree, o)
  <1>1. /\ tree' = u /\ activeView' = activeView
        /\ view' = [v \in Views |-> IF v \in freed THEN "none" ELSE view[v]]
        /\ aborted' = LeavesDangling(tree, activeView, o)
    BY DEF RemoveOutput
  <1>2. /\ tree \in Trees /\ Listed(tree) /\ Consistent(tree)
        /\ NULL \notin Workspaces /\ NULL \notin Views
    BY PlacesThere DEF DesktopOK, Consistent
  <1>3. \A v \in Views :
            v \in freed <=> \E w \in there : v \in Items(tree.children[w])
                                              \/ v \in Items(tree.floating[w])
    BY DEF DestroyedWith
  <1>4. there \subseteq Workspaces /\ \A w \in Workspaces : w \in there <=> OutputOf[w] = o
    BY DEF WorkspacesOn
  <1> HIDE DEF freed, u, there
  <1>5. /\ u \in Trees
        /\ \A v \in Views :
              IF v \in freed
              THEN u.workspace[v] = NULL /\ u.parent[v] = NULL /\ u.node[v] = Pending
              ELSE /\ u.workspace[v] = tree.workspace[v] /\ u.parent[v] = tree.parent[v]
                   /\ u.fullscreen[v] = tree.fullscreen[v] /\ u.node[v] = tree.node[v]
        /\ \A w \in there :
              /\ u.children[w] = <<>> /\ u.floating[w] = <<>>
              /\ u.fsContainer[w] = NULL /\ ~u.activated[w]
        /\ \A w \in Workspaces \ there :
              /\ u.children[w] = tree.children[w] /\ u.floating[w] = tree.floating[w]
              /\ u.fsContainer[w] = tree.fsContainer[w]
              /\ u.activated[w] = tree.activated[w]
        /\ \A p \in Outputs : u.displayed[p] = IF p = o THEN NULL ELSE tree.displayed[p]
    <2>1. /\ u \in Trees
          /\ \A v \in freed \cap Views :
                /\ u.workspace[v] = NULL /\ u.parent[v] = NULL
                /\ ~u.fullscreen[v] /\ u.node[v] = Pending
          /\ \A v \in Views \ freed :
                /\ u.workspace[v] = tree.workspace[v] /\ u.parent[v] = tree.parent[v]
                /\ u.fullscreen[v] = tree.fullscreen[v] /\ u.node[v] = tree.node[v]
          /\ \A w \in there \cap Workspaces :
                /\ u.children[w] = <<>> /\ u.floating[w] = <<>> /\ u.fsContainer[w] = NULL
                /\ ~u.activated[w]
          /\ \A w \in Workspaces \ there :
                /\ u.children[w] = tree.children[w] /\ u.floating[w] = tree.floating[w]
                /\ u.fsContainer[w] = tree.fsContainer[w]
                /\ u.activated[w] = tree.activated[w]
          /\ u.displayed = [tree.displayed EXCEPT ![o] = NULL]
      BY <1>2, WithoutOutputFields DEF u, freed, there
    <2>2. \A p \in Outputs : u.displayed[p] = IF p = o THEN NULL ELSE tree.displayed[p]
      BY <1>2, <2>1 DEF Trees
    <2> QED
      BY <1>4, <2>1, <2>2
  <1>6. \A v \in Views, w \in Workspaces :
            /\ v \in Items(tree.children[w]) <=> tree.parent[v] = w
            /\ v \in Items(tree.floating[w]) <=> tree.workspace[v] = w /\ tree.parent[v] = NULL
    BY <1>2 DEF Listed
  <1>7. \A v \in Views : v \in freed <=>
            tree.parent[v] \in there \/ (tree.parent[v] = NULL /\ tree.workspace[v] \in there)
    BY <1>3, <1>4, <1>6
  <1>8. Listed(u)
    <2>1. ASSUME NEW w \in Workspaces
          PROVE  /\ NoDuplicates(u.children[w]) /\ NoDuplicates(u.floating[w])
                 /\ \A v \in Views :
                       /\ v \in Items(u.children[w]) <=> u.parent[v] = w
                       /\ v \in Items(u.floating[w]) <=>
                             u.workspace[v] = w /\ u.parent[v] = NULL
      <3>1. CASE w \in there
        <4>1. NoDuplicates(<<>>) /\ Items(<<>>) = {}
          BY DEF NoDuplicates, Items
        <4>2. ASSUME NEW v \in Views
              PROVE  u.parent[v] # w /\ ~(u.workspace[v] = w /\ u.parent[v] = NULL)
          <5>1. CASE v \in freed
            BY <1>2, <1>5, <5>1
          <5>2. CASE v \notin freed
            <6>1. u.parent[v] = tree.parent[v] /\ u.workspace[v] = tree.workspace[v]
              BY <1>5, <5>2
            <6> QED
              BY <1>7, <3>1, <5>2, <6>1
          <5> QED
            BY <5>1, <5>2
        <4> QED
          BY <1>5, <3>1, <4>1, <4>2
      <3>2. CASE w \notin there
        <4>1. u.children[w] = tree.children[w] /\ u.floating[w] = tree.floating[w]
          BY <1>5, <3>2
        <4>2. NoDuplicates(tree.children[w]) /\ NoDuplicates(tree.floating[w])
          BY <1>2 DEF Listed
        <4>3. ASSUME NEW v \in Views
              PROVE  /\ tree.parent[v] = w <=> u.parent[v] = w
                     /\ tree.workspace[v] = w /\ tree.parent[v] = NULL <=>
                           u.workspace[v] = w /\ u.parent[v] = NULL
          <5>1. CASE v \in freed
            <6>1. u.parent[v] = NULL /\ u.workspace[v] = NULL
              BY <1>5, <5>1
            <6> QED
              BY <1>2, <1>4, <1>7, <3>2, <5>1, <6>1
          <5>2. CASE v \notin freed
            BY <1>5, <5>2
          <5> QED
            BY <5>1, <5>2
        <4> QED
          BY <1>6, <4>1, <4>2, <4>3
      <3> QED
        BY <3>1, <3>2
    <2> QED
      BY <2>1 DEF Listed
  <1>9. ASSUME ~aborted' PROVE DesktopOK'
    <2>1. /\ activeView \notin freed
          /\ \A v \in Views \ freed : tree.workspace[v] \notin there
          /\ \A w \in Workspaces \ there : tree.fsContainer[w] \notin freed
      BY <1>1, <1>9 DEF LeavesDangling, freed, there
    <2>2. ASSUME NEW v \in Views
          PROVE  /\ u.workspace[v] = NULL => u.parent[v] = NULL /\ u.node[v] = Pending
                 /\ u.workspace[v] # NULL => u.displayed[OutputOf[u.workspace[v]]] # NULL
                 /\ u.parent[v] # NULL => u.displayed[OutputOf[u.parent[v]]] # NULL
      <3>1. CASE v \in freed
        BY <1>5, <3>1
      <3>2. CASE v \notin freed
        <4>1. /\ u.workspace[v] = tree.workspace[v] /\ u.parent[v] = tree.parent[v]
              /\ u.node[v] = tree.node[v]
              /\ tree.workspace[v] \in Workspaces \cup {NULL}
              /\ tree.parent[v] \in Workspaces \cup {NULL}
          BY <1>2, <1>5, <3>2 DEF Trees
        <4>2. tree.workspace[v] \notin there /\ tree.parent[v] \notin there
          BY <1>7, <2>1, <3>2
        <4>3. \A w \in Workspaces : OutputOf[w] \in Outputs
          BY TreeAssumption
        <4>4. /\ tree.workspace[v] # NULL => OutputOf[tree.workspace[v]] # o
              /\ tree.parent[v] # NULL => OutputOf[tree.parent[v]] # o
          BY <1>4, <4>1, <4>2
        <4> QED
          BY <1>2, <1>5, <4>1, <4>3, <4>4 DEF Consistent
      <3> QED
        BY <3>1, <3>2
    <2>3. ASSUME NEW w \in Workspaces
          PROVE  /\ u.fsContainer[w] # NULL =>
                       u.workspace[u.fsContainer[w]] = w /\ u.fullscreen[u.fsContainer[w]]
                 /\ u.activated[w] => u.displayed[OutputOf[w]] = w
      <3>1. CASE w \in there
        BY <1>5, <3>1
      <3>2. CASE w \notin there
        <4>1. /\ u.fsContainer[w] = tree.fsContainer[w] /\ u.activated[w] = tree.activated[w]
              /\ tree.fsContainer[w] \in Views \cup {NULL}
              /\ tree.fsContainer[w] \notin freed
          BY <1>2, <1>5, <2>1, <3>2 DEF Trees
        <4>2. OutputOf[w] \in Outputs /\ OutputOf[w] # o
          BY <1>4, <3>2, TreeAssumption
        <4>3. u.displayed[OutputOf[w]] = tree.displayed[OutputOf[w]]
          BY <1>5, <4>2
        <4>4. tree.fsContainer[w] # NULL =>
                  /\ tree.workspace[tree.fsContainer[w]] = w
                  /\ tree.fullscreen[tree.fsContainer[w]]
          BY <1>2 DEF Consistent
        <4>5. tree.activated[w] => tree.displayed[OutputOf[w]] = w
          BY <1>2 DEF Consistent
        <4> QED
          BY <1>5, <4>1, <4>3, <4>4, <4>5
      <3> QED
        BY <3>1, <3>2
    <2>4. \A p \in Outputs : u.displayed[p] # NULL => OutputOf[u.displayed[p]] = p
      BY <1>2, <1>5 DEF Consistent
    <2>5. Consistent(u)
      BY <1>5, <1>8, <2>2, <2>3, <2>4 DEF Consistent
    <2>6. \A v \in Views : view'[v] # "mapped" => u.workspace[v] = NULL
      BY <1>1, <1>5 DEF DesktopOK
    <2>7. activeView # NULL => activeView \in Views /\ view'[activeView] = "mapped"
      BY <1>1, <2>1 DEF DesktopOK
    <2> QED
      BY <1>1, <2>5, <2>6, <2>7 DEF DesktopOK
  <1> QED
    BY <1>1, <1>8, <1>9

(***************************************************************************)
(* All together                                                            *)
(***************************************************************************)

LEMMA CursorEventOK ==
    ASSUME CInv, DesktopOK, CursorEvent
    PROVE  DesktopOK'
  <1>1. CASE UNCHANGED <<view, tree, activeView>>
    BY <1>1 DEF DesktopOK
  <1>2. CASE Release \/ DragFloating \/ \E v \in Views, mode \in Modes : StartGrab(v, mode)
    BY <1>1, <1>2 DEF Release, StartGrab, DragFloating, ArrangeFloating, vars
  <1>3. ASSUME NEW v \in Views, DragTiled(v) PROVE DesktopOK'
    <2> DEFINE g == cursor.grabbed
    <2>1. /\ tree.parent[g] # NULL /\ tree.parent[v] # NULL /\ v # g
          /\ tree' = Swap(tree, v, g) /\ UNCHANGED <<view, activeView>>
          /\ cursor.mode = "move"
      BY <1>3 DEF DragTiled, IsTiled
    <2>2. g \in Views
      BY <2>1 DEF CInv, GrabbedLives, Cursors
    <2> HIDE DEF g
    <2>3. Consistent(tree)' /\ tree'.workspace = tree.workspace
      BY <2>1, <2>2, SwapKeeps DEF DesktopOK
    <2> QED
      BY <2>1, <2>3, DesktopStep
  <1>4. CASE ResizeTiled
    <2> DEFINE g == cursor.grabbed
               w == tree.parent[g]
    <2>1. /\ w # NULL /\ cursor.mode = "resize" /\ UNCHANGED <<view, activeView>>
          /\ tree' = ArrangeRoot(tree, w) \/ tree' = tree
      BY <1>4 DEF ResizeTiled, IsTiled
    <2>2. g \in Views
      BY <2>1 DEF CInv, GrabbedLives, Cursors
    <2>3. w \in Workspaces
      BY <2>1, <2>2, PlacesThere DEF Trees
    <2> HIDE DEF w
    <2>4. Consistent(tree)' /\ tree'.workspace = tree.workspace
      BY <2>1, <2>3, ArrangeRootKeeps DEF DesktopOK
    <2> QED
      BY <2>1, <2>4, DesktopStep
  <1> QED
    BY <1>2, <1>3, <1>4 DEF CursorEvent

LEMMA AsideOK ==
    ASSUME CInv, DesktopOK, Aside \/ HoverFocus
    PROVE  DesktopOK'
  <1>1. view \in [Views -> {"none", "unmapped", "mapped"}]
    BY DEF CInv
  <1>2. ASSUME NEW v \in Views,
               \/ CreateView(v) \/ UnmapView(v)
               \/ RequestActivate(v) \/ PointerMotion(v)
        PROVE  DesktopOK'
    BY <1>1, <1>2, CreateViewOK, UnmapViewOK, FocusOK
  <1>3. ASSUME NEW v \in Views, NEW full \in BOOLEAN, NEW floats \in BOOLEAN,
               NEW out \in Present(tree) \cup {NULL}, NEW hovered \in Hovered(tree),
               MapView(v, full, out, floats, hovered)
        PROVE  DesktopOK'
    BY <1>1, <1>3, MapViewOK
  <1>4. ASSUME NEW v \in Views, NEW full \in BOOLEAN, NEW out \in Present(tree) \cup {NULL},
               RequestFullscreen(v, full, out)
        PROVE  DesktopOK'
    BY <1>1, <1>4, RequestFullscreenOK
  <1>5. CASE \/ \E w \in Workspaces : ActivateWorkspace(w)
             \/ \E o \in Outputs : AddOutput(o) \/ ArrangeOutput(o)
             \/ SwitchTilingMode
    BY <1>5, DisplaysOK
  <1>6. ASSUME NEW hovered \in Hovered(tree), ShowNextWorkspace(hovered)
        PROVE  DesktopOK'
    <2>1. CASE hovered = NULL
      BY <1>6, <2>1 DEF ShowNextWorkspace, DesktopOK
    <2>2. CASE hovered # NULL
      BY <1>6, <2>2, ShowNextWorkspaceOK
    <2> QED
      BY <2>1, <2>2
  <1>7. CASE ToggleTiled \/ ToggleFullscreen \/ MoveToNextWorkspace
    BY <1>7, ToggleTiledOK, ToggleFullscreenOK, MoveToNextWorkspaceOK
  <1> QED
    BY <1>2, <1>3, <1>4, <1>5, <1>6, <1>7 DEF Aside, HoverFocus

LEMMA DestroyOK ==
    ASSUME CInv, DesktopOK, NEW v \in Views, Destroy(v)
    PROVE  DesktopOK'
  <1>1. CASE v \in cursor.stale
    BY <1>1 DEF Destroy, DesktopOK
  <1>2. CASE v \notin cursor.stale
    BY <1>2, DestroyViewOK DEF Destroy, CInv
  <1> QED
    BY <1>1, <1>2

LEMMA CursorUnplugOK ==
    ASSUME CInv, DesktopOK, NEW o \in Outputs, Unplug(o)
    PROVE  Listed(tree)' /\ (~aborted' => DesktopOK')
  <1>1. CASE DestroyedWith(tree, o) \cap cursor.stale # {}
    BY <1>1 DEF Unplug, DesktopOK, Consistent
  <1>2. CASE DestroyedWith(tree, o) \cap cursor.stale = {}
    BY <1>2, UnplugOK DEF Unplug, CInv
  <1> QED
    BY <1>1, <1>2

LEMMA DInitInv == CursorInit => DInv
  <1> SUFFICES ASSUME CursorInit PROVE DInv
    OBVIOUS
  <1>1. /\ view = [v \in Views |-> "none"] /\ activeView = NULL
        /\ tree = EmptyTree \/ \E o \in Outputs : tree = InitWorkspaces(EmptyTree, o)
    BY DEF CursorInit, Init
  <1>2. EmptyTree.workspace = [v \in Views |-> NULL]
    BY DEF EmptyTree
  <1>3. Consistent(tree) /\ tree.workspace = [v \in Views |-> NULL]
    BY <1>1, <1>2, EmptyKeeps, InitWorkspacesKeeps
  <1>4. DesktopOK
    BY <1>1, <1>3 DEF DesktopOK
  <1> QED
    BY <1>4, CursorInitInv DEF DInv, DesktopOK, Consistent, Listed, ListsAgree

LEMMA DNextInv == DInv /\ [CursorNext]_allVars => DInv'
  <1> SUFFICES ASSUME DInv, [CursorNext]_allVars PROVE DInv'
    OBVIOUS
  <1>1. CInv'
    BY CursorNextInv DEF DInv
  <1>2. CASE UNCHANGED allVars
    BY <1>1, <1>2 DEF DInv, allVars, ListsAgree, DesktopOK
  <1>3. CASE CursorNext
    <2>1. CInv /\ DesktopOK
      BY <1>3 DEF CursorNext, DInv
    <2>2. DesktopOK' \/ (Listed(tree)' /\ (~aborted' => DesktopOK'))
      BY <1>3, <2>1, CursorEventOK, AsideOK, DestroyOK, CursorUnplugOK DEF CursorNext
    <2>3. Listed(tree)'
      BY <2>2 DEF DesktopOK, Consistent
    <2> QED
      BY <1>1, <2>2, <2>3 DEF DInv, Listed, ListsAgree
  <1> QED
    BY <1>2, <1>3

\* However containers are dragged about, and whatever clients, pagers, commands and
\* outputs do meanwhile, lists and parents agree.
THEOREM ListsAgreeAlways == CursorSpec => []ListsAgree
  <1>1. DInv => ListsAgree
    BY DEF DInv
  <1> QED
    BY <1>1, DInitInv, DNextInv, PTL DEF CursorSpec

\* Unless it ran into freed memory, the desktop holds nothing of an output that is gone
\* or of a container that does not exist.
THEOREM GoneUnusedAlways == CursorSpec => []GoneUnused
  <1>1. DInv => GoneUnused
    <2> SUFFICES ASSUME DInv, ~aborted PROVE GoneUnused
      BY DEF GoneUnused
    <2>1. DesktopOK
      BY DEF DInv
    <2>2. /\ tree \in Trees /\ Listed(tree) /\ NULL \notin Workspaces /\ NULL \notin Views
          /\ \A w \in Workspaces : OutputOf[w] \in Outputs
      BY <2>1, PlacesThere, TreeAssumption DEF DesktopOK, Consistent
    <2>3. \A v \in Views : tree.workspace[v] # NULL => OutputOf[tree.workspace[v]] \in Present(tree)
      BY <2>1, <2>2, PlacesThere DEF Present
    <2>4. ASSUME NEW w \in Workspaces, OutputOf[w] \notin Present(tree)
          PROVE  /\ tree.children[w] = <<>> /\ tree.floating[w] = <<>>
                 /\ tree.fsContainer[w] = NULL /\ ~tree.activated[w]
      <3>1. tree.displayed[OutputOf[w]] = NULL
        BY <2>2, <2>4 DEF Present
      <3>2. \A v \in Views : tree.workspace[v] # w /\ tree.parent[v] # w
        BY <2>1, <2>2, <3>1 DEF DesktopOK, Consistent
      <3>3. /\ tree.children[w] \in Seq(Views) /\ tree.floating[w] \in Seq(Views)
            /\ tree.fsContainer[w] \in Views \cup {NULL}
        BY <2>2 DEF Trees
      <3>4. \A v \in Views : v \notin Items(tree.children[w]) /\ v \notin Items(tree.floating[w])
        BY <2>2, <3>2 DEF Listed
      <3>5. \A s \in Seq(Views) : (\A v \in Views : v \notin Items(s)) => s = <<>>
        BY DEF Items
      <3>6. tree.fsContainer[w] = NULL /\ ~tree.activated[w]
        BY <2>1, <2>2, <3>1, <3>2, <3>3 DEF DesktopOK, Consistent
      <3> QED
        BY <3>3, <3>4, <3>5, <3>6
    <2>5. ASSUME NEW v \in Views, view[v] = "none"
          PROVE  /\ activeView # v
                 /\ \A w \in Workspaces :
                       v \notin Items(tree.children[w]) \cup Items(tree.floating[w])
      <3>1. tree.workspace[v] = NULL /\ tree.parent[v] = NULL /\ activeView # v
        BY <2>1, <2>2, <2>5 DEF DesktopOK, Consistent
      <3> QED
        BY <2>2, <3>1 DEF Listed
    <2> QED
      BY <2>3, <2>4, <2>5 DEF GoneUnused
  <1> QED
    BY <1>1, DInitInv, DNextInv, PTL DEF CursorSpec
=============================================================================
