------------------------ MODULE ContainerTree_proofs ------------------------
(***************************************************************************)
(* The invariants of ContainerTree, for any views, outputs and workspaces. *)
(*                                                                         *)
(* The inductive invariant Inv says that the tree is good (placed once,    *)
(* the records of fullscreen agree, nodes, enabled layers and displayed    *)
(* workspaces as they should be) whenever no handler is running, that an   *)
(* unmapped view has no workspace and is not active, and, where the        *)
(* compositor never runs without an output, that every mapped view has a   *)
(* workspace.                                                              *)
(*                                                                         *)
(* The first part says what the functions on the tree (ContainerTreeOps)   *)
(* preserve and establish.  A tree is sound when it has its type, every    *)
(* container is placed once and the two records of fullscreen agree: each  *)
(* function preserves that.  Scene nodes and enabled layers are brought up *)
(* to date by a later call of e_workspace_arrange ("Workspace must be      *)
(* arranged after", say the comments of the code), so a tree is good but   *)
(* for the workspaces W when only those are still to be arranged: leaving  *)
(* and adding put a workspace into W, arranging takes it out.              *)
(*                                                                         *)
(* The second part shows that a handler keeps the tree good: each function *)
(* that unsettles a workspace is followed, in the same handler, by an      *)
(* arrange of that workspace.  The invariant and the lemmas of the actions *)
(* say whether there may be no output in a parameter, so that they also    *)
(* serve where outputs go (ForeignToplevels_proofs).                       *)
(*                                                                         *)
(* The last part shows that the tree implements Placement.                 *)
(***************************************************************************)
EXTENDS OutputHotplug, ListOps_proofs

Sound(t) == t \in Trees /\ PlacedOnce(t) /\ FullscreenMatches(t)

GoodBut(t, W) ==
    /\ Sound(t)
    /\ NodesFollow(t)
    /\ OneDisplayed(t)
    /\ \A w \in Workspaces \ W : SettledIn(t, w) /\ LayersMatch(t, w)

(***************************************************************************)
(* Leaving                                                                 *)
(***************************************************************************)

\* The first half of e_container_leave: the workspace, its fullscreen container
\* and its floating list.
LEMMA LeaveWorkspaceFields ==
    ASSUME NEW t \in Trees, NEW v \in Views
    PROVE  LET u == LeaveWorkspace(t, v) IN
           /\ u.workspace = [t.workspace EXCEPT ![v] = NULL]
           /\ u.floating = [w \in Workspaces |->
                 IF w = t.workspace[v] THEN ListRemove(t.floating[w], v) ELSE t.floating[w]]
           /\ u.fsContainer = [w \in Workspaces |->
                 IF w = t.workspace[v] /\ t.fullscreen[v] THEN NULL ELSE t.fsContainer[w]]
           /\ u.parent = t.parent /\ u.fullscreen = t.fullscreen /\ u.node = t.node
           /\ u.children = t.children /\ u.activated = t.activated
           /\ u.enabled = t.enabled /\ u.displayed = t.displayed
  BY DEF LeaveWorkspace, Trees

\* The second half: the parent and its children (e_container_set_parent).
LEMMA LeaveParentFields ==
    ASSUME NEW t \in Trees, NEW v \in Views
    PROVE  LET u == LeaveParent(t, v) IN
           /\ u.parent = [t.parent EXCEPT ![v] = NULL]
           /\ u.children = [w \in Workspaces |->
                 IF w = t.parent[v] THEN ListRemove(t.children[w], v) ELSE t.children[w]]
           /\ u.workspace = t.workspace /\ u.fullscreen = t.fullscreen /\ u.node = t.node
           /\ u.floating = t.floating /\ u.fsContainer = t.fsContainer
           /\ u.activated = t.activated /\ u.enabled = t.enabled /\ u.displayed = t.displayed
  BY DEF LeaveParent, Trees

LEMMA LeaveWorkspaceType ==
    ASSUME NEW t \in Trees, NEW v \in Views, PlacedOnce(t)
    PROVE  LeaveWorkspace(t, v) \in Trees
  <1>1. \A w \in Workspaces : ListRemove(t.floating[w], v) \in Seq(Views)
    BY RemoveItems DEF PlacedOnce, Trees
  <1> QED
    BY <1>1 DEF LeaveWorkspace, Trees

LEMMA LeaveParentType ==
    ASSUME NEW t \in Trees, NEW v \in Views, \A w \in Workspaces : NoDuplicates(t.children[w])
    PROVE  LeaveParent(t, v) \in Trees
  <1>1. \A w \in Workspaces : ListRemove(t.children[w], v) \in Seq(Views)
    BY RemoveItems DEF Trees
  <1> QED
    BY <1>1 DEF LeaveParent, Trees

\* A container whose node goes back to server->pending.
LEMMA PendingNodeType ==
    ASSUME NEW t \in Trees, NEW v \in Views
    PROVE  [t EXCEPT !.node[v] = Pending] \in Trees
  BY DEF Trees

\* The tree v has left with e_container_leave: only v's own fields change, v is
\* taken out of every list, and its workspace has no fullscreen container any
\* more if that was v.
LEMMA LeaveFields ==
    ASSUME NEW t \in Trees, NEW v \in Views, PlacedOnce(t)
    PROVE  LET u == Leave(t, v) IN
           /\ u \in Trees
           /\ u.workspace = [t.workspace EXCEPT ![v] = NULL]
           /\ u.parent = [t.parent EXCEPT ![v] = NULL]
           /\ u.node = [t.node EXCEPT ![v] = Pending]
           /\ u.fsContainer = [w \in Workspaces |->
                 IF w = t.workspace[v] /\ t.fullscreen[v] THEN NULL ELSE t.fsContainer[w]]
           /\ u.fullscreen = t.fullscreen /\ u.activated = t.activated
           /\ u.enabled = t.enabled /\ u.displayed = t.displayed
           /\ \A w \in Workspaces :
                 /\ NoDuplicates(u.children[w]) /\ NoDuplicates(u.floating[w])
                 /\ Items(u.children[w]) = Items(t.children[w]) \ {v}
                 /\ Items(u.floating[w]) = Items(t.floating[w]) \ {v}
  <1> DEFINE a == LeaveWorkspace(t, v)
             b == LeaveParent(a, v)
             u == Leave(t, v)
  <1>1. a \in Trees /\ \A w \in Workspaces : NoDuplicates(a.children[w])
    BY LeaveWorkspaceType, LeaveWorkspaceFields DEF PlacedOnce
  <1>2. b \in Trees
    BY <1>1, LeaveParentType
  <1>3. u = [b EXCEPT !.node[v] = Pending]
    BY DEF Leave
  <1>4. /\ b.workspace = [t.workspace EXCEPT ![v] = NULL]
        /\ b.parent = [t.parent EXCEPT ![v] = NULL]
        /\ b.node = t.node
        /\ b.fsContainer = [w \in Workspaces |->
              IF w = t.workspace[v] /\ t.fullscreen[v] THEN NULL ELSE t.fsContainer[w]]
        /\ b.fullscreen = t.fullscreen /\ b.activated = t.activated
        /\ b.enabled = t.enabled /\ b.displayed = t.displayed
        /\ b.floating = [w \in Workspaces |->
              IF w = t.workspace[v] THEN ListRemove(t.floating[w], v) ELSE t.floating[w]]
        /\ b.children = [w \in Workspaces |->
              IF w = t.parent[v] THEN ListRemove(t.children[w], v) ELSE t.children[w]]
    <2>1. /\ a.workspace = [t.workspace EXCEPT ![v] = NULL]
          /\ a.floating = [w \in Workspaces |->
                IF w = t.workspace[v] THEN ListRemove(t.floating[w], v) ELSE t.floating[w]]
          /\ a.fsContainer = [w \in Workspaces |->
                IF w = t.workspace[v] /\ t.fullscreen[v] THEN NULL ELSE t.fsContainer[w]]
          /\ a.parent = t.parent /\ a.fullscreen = t.fullscreen /\ a.node = t.node
          /\ a.children = t.children /\ a.activated = t.activated
          /\ a.enabled = t.enabled /\ a.displayed = t.displayed
      BY LeaveWorkspaceFields
    <2>2. /\ b.parent = [a.parent EXCEPT ![v] = NULL]
          /\ b.children = [w \in Workspaces |->
                IF w = a.parent[v] THEN ListRemove(a.children[w], v) ELSE a.children[w]]
          /\ b.workspace = a.workspace /\ b.fullscreen = a.fullscreen /\ b.node = a.node
          /\ b.floating = a.floating /\ b.fsContainer = a.fsContainer
          /\ b.activated = a.activated /\ b.enabled = a.enabled /\ b.displayed = a.displayed
      BY <1>1, LeaveParentFields
    <2> HIDE DEF a, b
    <2> QED
      BY <2>1, <2>2
  <1> HIDE DEF a, b
  <1>5. u \in Trees
    BY <1>2, <1>3, PendingNodeType
  <1>6. /\ u.node = [t.node EXCEPT ![v] = Pending]
        /\ u.workspace = b.workspace /\ u.parent = b.parent /\ u.fsContainer = b.fsContainer
        /\ u.fullscreen = b.fullscreen /\ u.activated = b.activated
        /\ u.enabled = b.enabled /\ u.displayed = b.displayed
        /\ u.floating = b.floating /\ u.children = b.children
    BY <1>2, <1>3, <1>4 DEF Trees
  <1> HIDE DEF u
  <1>7. ASSUME NEW w \in Workspaces
        PROVE  /\ NoDuplicates(u.children[w]) /\ NoDuplicates(u.floating[w])
               /\ Items(u.children[w]) = Items(t.children[w]) \ {v}
               /\ Items(u.floating[w]) = Items(t.floating[w]) \ {v}
    <2>1. /\ t.children[w] \in Seq(Views) /\ NoDuplicates(t.children[w])
          /\ t.floating[w] \in Seq(Views) /\ NoDuplicates(t.floating[w])
      BY DEF Trees, PlacedOnce
    <2>2. /\ NoDuplicates(ListRemove(t.children[w], v))
          /\ Items(ListRemove(t.children[w], v)) = Items(t.children[w]) \ {v}
          /\ NoDuplicates(ListRemove(t.floating[w], v))
          /\ Items(ListRemove(t.floating[w], v)) = Items(t.floating[w]) \ {v}
      BY <2>1, RemoveItems
    <2>3. /\ v \in Items(t.children[w]) <=> t.parent[v] = w
          /\ v \in Items(t.floating[w]) => t.workspace[v] = w
      BY DEF PlacedOnce
    <2> QED
      BY <1>4, <1>6, <2>1, <2>2, <2>3
  <1>8. /\ u.workspace = [t.workspace EXCEPT ![v] = NULL]
        /\ u.parent = [t.parent EXCEPT ![v] = NULL]
        /\ u.fsContainer = [w \in Workspaces |->
              IF w = t.workspace[v] /\ t.fullscreen[v] THEN NULL ELSE t.fsContainer[w]]
        /\ u.fullscreen = t.fullscreen /\ u.activated = t.activated
        /\ u.enabled = t.enabled /\ u.displayed = t.displayed
    BY <1>4, <1>6
  <1> QED
    BY <1>5, <1>6, <1>7, <1>8 DEF u

\* e_container_leave keeps a tree good but for the workspace it left, which must
\* be arranged after.
LEMMA LeaveGood ==
    ASSUME NEW t, NEW W, GoodBut(t, W), NEW v \in Views
    PROVE  GoodBut(Leave(t, v), W \cup {t.workspace[v]})
  <1> DEFINE u == Leave(t, v)
  <1>1. t \in Trees /\ PlacedOnce(t) /\ FullscreenMatches(t)
    BY DEF GoodBut, Sound
  <1>2. NULL \notin Workspaces /\ NULL \notin Views
    BY TreeAssumption
  <1>3. /\ u \in Trees
        /\ u.workspace = [t.workspace EXCEPT ![v] = NULL]
        /\ u.parent = [t.parent EXCEPT ![v] = NULL]
        /\ u.node = [t.node EXCEPT ![v] = Pending]
        /\ u.fsContainer = [w \in Workspaces |->
              IF w = t.workspace[v] /\ t.fullscreen[v] THEN NULL ELSE t.fsContainer[w]]
        /\ u.fullscreen = t.fullscreen /\ u.activated = t.activated
        /\ u.enabled = t.enabled /\ u.displayed = t.displayed
    BY <1>1, LeaveFields
  <1>4. \A w \in Workspaces :
            /\ NoDuplicates(u.children[w]) /\ NoDuplicates(u.floating[w])
            /\ Items(u.children[w]) = Items(t.children[w]) \ {v}
            /\ Items(u.floating[w]) = Items(t.floating[w]) \ {v}
    BY <1>1, LeaveFields
  <1> HIDE DEF u
  <1>5. \A x \in Views :
            /\ u.workspace[x] = IF x = v THEN NULL ELSE t.workspace[x]
            /\ u.parent[x] = IF x = v THEN NULL ELSE t.parent[x]
            /\ u.node[x] = IF x = v THEN Pending ELSE t.node[x]
    BY <1>1, <1>3 DEF Trees
  <1>6. PlacedOnce(u)
    BY <1>1, <1>2, <1>4, <1>5 DEF PlacedOnce
  <1>7. FullscreenMatches(u)
    BY <1>1, <1>2, <1>3, <1>5 DEF FullscreenMatches, Trees
  <1>8. NodesFollow(u)
    BY <1>2, <1>5 DEF GoodBut, NodesFollow, Pending, Layers
  <1>9. OneDisplayed(u)
    BY <1>3 DEF GoodBut, OneDisplayed, Present
  <1>10. ASSUME NEW w \in Workspaces \ (W \cup {t.workspace[v]})
         PROVE  SettledIn(u, w) /\ LayersMatch(u, w)
    <2>1. SettledIn(t, w) /\ LayersMatch(t, w) /\ u.fsContainer[w] = t.fsContainer[w]
      BY <1>3 DEF GoodBut
    <2>2. SettledIn(u, w)
      BY <1>2, <1>5, <2>1 DEF SettledIn, IsTiled
    <2>3. LayersMatch(u, w)
      BY <1>3, <2>1 DEF LayersMatch, Visibility
    <2> QED
      BY <2>2, <2>3
  <1> QED
    BY <1>3, <1>6, <1>7, <1>8, <1>9, <1>10 DEF GoodBut, Sound, u

(***************************************************************************)
(* Fullscreen                                                              *)
(***************************************************************************)

\* e_workspace_change_fullscreen_container makes v (or nothing) the fullscreen
\* container of w, whatever the two records said of v before, as long as they
\* agree about every other container and w is the workspace of v.
LEMMA ChangeFullscreenMatches ==
    ASSUME NEW t \in Trees, NEW w \in Workspaces, NEW v \in Views \cup {NULL},
           v \in Views => t.workspace[v] = w,
           \A x \in Views \ {v}, y \in Workspaces :
               t.fsContainer[y] = x <=> t.workspace[x] = y /\ t.fullscreen[x],
           v \in Views => \A y \in Workspaces \ {w} : t.fsContainer[y] # v
    PROVE  LET u == ChangeFullscreen(t, w, v) IN
           /\ u \in Trees
           /\ FullscreenMatches(u)
           /\ u.fsContainer = [t.fsContainer EXCEPT ![w] = v]
           /\ u.workspace = t.workspace /\ u.parent = t.parent /\ u.node = t.node
           /\ u.children = t.children /\ u.floating = t.floating
           /\ u.activated = t.activated /\ u.enabled = t.enabled
           /\ u.displayed = t.displayed
  <1> DEFINE u == ChangeFullscreen(t, w, v)
  <1>1. u \in Trees
    BY DEF ChangeFullscreen, Trees
  <1>2. /\ u.fsContainer = [t.fsContainer EXCEPT ![w] = v]
        /\ u.fullscreen = [x \in Views |-> x = v \/ (t.fullscreen[x] /\ x # t.fsContainer[w])]
        /\ u.workspace = t.workspace /\ u.parent = t.parent /\ u.node = t.node
        /\ u.children = t.children /\ u.floating = t.floating
        /\ u.activated = t.activated /\ u.enabled = t.enabled
        /\ u.displayed = t.displayed
    BY DEF ChangeFullscreen, Trees
  <1> HIDE DEF u
  <1>3. \A y \in Workspaces : u.fsContainer[y] = IF y = w THEN v ELSE t.fsContainer[y]
    BY <1>2 DEF Trees
  <1>4. ASSUME NEW x \in Views, NEW y \in Workspaces
        PROVE  u.fsContainer[y] = x <=> u.workspace[x] = y /\ u.fullscreen[x]
    <2> DEFINE flag == t.fullscreen[x]
    <2>a. flag \in BOOLEAN
      BY DEF Trees
    <2>b. u.fullscreen[x] = (x = v \/ (flag /\ x # t.fsContainer[w]))
      BY <1>2
    <2>c. u.workspace[x] = t.workspace[x]
      BY <1>2
    <2>d. x # v => \A z \in Workspaces :
                       t.fsContainer[z] = x <=> t.workspace[x] = z /\ flag
      OBVIOUS
    <2>e. x = v => t.workspace[x] = w /\ (y # w => t.fsContainer[y] # x)
      OBVIOUS
    <2> HIDE DEF flag
    <2>1. CASE x = v
      <3>1. u.workspace[x] = w /\ u.fullscreen[x] = TRUE
        BY <2>a, <2>b, <2>c, <2>e, <2>1
      <3>2. u.fsContainer[y] = x <=> y = w
        BY <1>3, <2>e, <2>1
      <3> QED
        BY <3>1, <3>2
    <2>2. CASE x # v
      <3>1. /\ t.fsContainer[w] = x <=> t.workspace[x] = w /\ flag
            /\ t.fsContainer[y] = x <=> t.workspace[x] = y /\ flag
        BY <2>d, <2>2
      <3>2. u.fullscreen[x] = (flag /\ x # t.fsContainer[w])
        BY <2>b, <2>2
      <3>3. u.fsContainer[y] = x <=> y # w /\ t.fsContainer[y] = x
        BY <1>3, <2>2
      <3> QED
        BY <2>a, <2>c, <3>1, <3>2, <3>3
    <2> QED
      BY <2>1, <2>2
  <1> QED
    BY <1>1, <1>2, <1>4 DEF u, FullscreenMatches

\* Changing the fullscreen container of w to one of its own containers, or to
\* none, keeps a tree good but for w.
LEMMA ChangeFullscreenGood ==
    ASSUME NEW t, NEW W, GoodBut(t, W), NEW w \in Workspaces,
           NEW v \in Views \cup {NULL}, v \in Views => t.workspace[v] = w
    PROVE  /\ GoodBut(ChangeFullscreen(t, w, v), W \cup {w})
           /\ ChangeFullscreen(t, w, v).workspace = t.workspace
           /\ ChangeFullscreen(t, w, v).displayed = t.displayed
  <1> DEFINE u == ChangeFullscreen(t, w, v)
  <1>1. t \in Trees /\ PlacedOnce(t) /\ FullscreenMatches(t)
    BY DEF GoodBut, Sound
  <1>2. /\ u \in Trees
        /\ FullscreenMatches(u)
        /\ u.fsContainer = [t.fsContainer EXCEPT ![w] = v]
        /\ u.workspace = t.workspace /\ u.parent = t.parent /\ u.node = t.node
        /\ u.children = t.children /\ u.floating = t.floating
        /\ u.activated = t.activated /\ u.enabled = t.enabled
        /\ u.displayed = t.displayed
    BY <1>1, ChangeFullscreenMatches DEF FullscreenMatches
  <1> HIDE DEF u
  <1>3. PlacedOnce(u) /\ NodesFollow(u) /\ OneDisplayed(u)
    BY <1>1, <1>2 DEF GoodBut, PlacedOnce, NodesFollow, OneDisplayed, Present
  <1>4. ASSUME NEW x \in Workspaces \ (W \cup {w})
        PROVE  SettledIn(u, x) /\ LayersMatch(u, x)
    <2>1. SettledIn(t, x) /\ LayersMatch(t, x) /\ u.fsContainer[x] = t.fsContainer[x]
      BY <1>1, <1>2 DEF GoodBut, Trees
    <2> QED
      BY <1>2, <2>1 DEF SettledIn, LayersMatch, Visibility, IsTiled
  <1> QED
    BY <1>2, <1>3, <1>4 DEF GoodBut, Sound, u

(***************************************************************************)
(* Adding                                                                  *)
(***************************************************************************)

LEMMA InsertTiledFields ==
    ASSUME NEW t \in Trees, NEW v \in Views, NEW w \in Workspaces
    PROVE  LET u == InsertTiled(t, w, v) IN
           /\ u \in Trees
           /\ u.workspace = [t.workspace EXCEPT ![v] = w]
           /\ u.parent = [t.parent EXCEPT ![v] = w]
           /\ u.children = [t.children EXCEPT ![w] = Append(t.children[w], v)]
           /\ u.floating = t.floating /\ u.fsContainer = t.fsContainer
           /\ u.fullscreen = t.fullscreen /\ u.node = t.node
           /\ u.activated = t.activated /\ u.enabled = t.enabled
           /\ u.displayed = t.displayed
  <1>1. Append(t.children[w], v) \in Seq(Views)
    BY DEF Trees
  <1> QED
    BY <1>1 DEF InsertTiled, Trees

LEMMA InsertFloatingFields ==
    ASSUME NEW t \in Trees, NEW v \in Views, NEW w \in Workspaces
    PROVE  LET u == InsertFloating(t, w, v) IN
           /\ u \in Trees
           /\ u.workspace = [t.workspace EXCEPT ![v] = w]
           /\ u.floating = [t.floating EXCEPT ![w] = Append(t.floating[w], v)]
           /\ u.parent = t.parent /\ u.children = t.children
           /\ u.fsContainer = t.fsContainer
           /\ u.fullscreen = t.fullscreen /\ u.node = t.node
           /\ u.activated = t.activated /\ u.enabled = t.enabled
           /\ u.displayed = t.displayed
  <1>1. Append(t.floating[w], v) \in Seq(Views)
    BY DEF Trees
  <1> QED
    BY <1>1 DEF InsertFloating, Trees

\* A container without a workspace is in no list, hangs in no layer and is not
\* the fullscreen container of any workspace.
LEMMA NowhereNothing ==
    ASSUME NEW t \in Trees, PlacedOnce(t), FullscreenMatches(t), NodesFollow(t),
           NEW v \in Views, t.workspace[v] = NULL
    PROVE  /\ t.parent[v] = NULL
           /\ \A y \in Workspaces :
                 /\ v \notin Items(t.children[y]) /\ v \notin Items(t.floating[y])
                 /\ t.fsContainer[y] # v
                 /\ \A l \in Layers : t.node[v] # <<l, y>>
  <1>1. NULL \notin Workspaces
    BY TreeAssumption
  <1>2. t.parent[v] = NULL
    BY DEF PlacedOnce
  <1> QED
    BY <1>1, <1>2 DEF PlacedOnce, FullscreenMatches, NodesFollow

\* Putting a container that was nowhere into one list of w, and recording w and
\* the list in the container, places it once.
LEMMA InsertPlaces ==
    ASSUME NEW t \in Trees, PlacedOnce(t), FullscreenMatches(t), NodesFollow(t),
           NEW v \in Views, t.workspace[v] = NULL, NEW w \in Workspaces,
           NEW tiled \in BOOLEAN
    PROVE  LET u == IF tiled THEN InsertTiled(t, w, v) ELSE InsertFloating(t, w, v) IN
           /\ u \in Trees
           /\ PlacedOnce(u)
           /\ u.workspace = [t.workspace EXCEPT ![v] = w]
           /\ u.parent = [t.parent EXCEPT ![v] = IF tiled THEN w ELSE NULL]
           /\ u.fsContainer = t.fsContainer /\ u.fullscreen = t.fullscreen
           /\ u.node = t.node /\ u.activated = t.activated
           /\ u.enabled = t.enabled /\ u.displayed = t.displayed
  <1> DEFINE a == InsertTiled(t, w, v)
             b == InsertFloating(t, w, v)
  <1>1. NULL \notin Workspaces
    BY TreeAssumption
  <1>2. /\ t.parent[v] = NULL
        /\ \A y \in Workspaces :
              v \notin Items(t.children[y]) /\ v \notin Items(t.floating[y])
    BY NowhereNothing
  <1>3. \A y \in Workspaces :
           /\ t.children[y] \in Seq(Views) /\ NoDuplicates(t.children[y])
           /\ t.floating[y] \in Seq(Views) /\ NoDuplicates(t.floating[y])
    BY DEF Trees, PlacedOnce
  <1>4. /\ Items(Append(t.children[w], v)) = Items(t.children[w]) \cup {v}
        /\ NoDuplicates(Append(t.children[w], v))
        /\ Items(Append(t.floating[w], v)) = Items(t.floating[w]) \cup {v}
        /\ NoDuplicates(Append(t.floating[w], v))
    BY <1>2, <1>3, AppendItems
  <1>5. CASE tiled
    <2>1. /\ a \in Trees
          /\ a.workspace = [t.workspace EXCEPT ![v] = w]
          /\ a.parent = [t.parent EXCEPT ![v] = w]
          /\ a.children = [t.children EXCEPT ![w] = Append(t.children[w], v)]
          /\ a.floating = t.floating /\ a.fsContainer = t.fsContainer
          /\ a.fullscreen = t.fullscreen /\ a.node = t.node
          /\ a.activated = t.activated /\ a.enabled = t.enabled
          /\ a.displayed = t.displayed
      BY InsertTiledFields
    <2> HIDE DEF a
    <2>2. \A x \in Views : /\ a.workspace[x] = IF x = v THEN w ELSE t.workspace[x]
                           /\ a.parent[x] = IF x = v THEN w ELSE t.parent[x]
      BY <2>1 DEF Trees
    <2>3. \A y \in Workspaces :
             /\ NoDuplicates(a.children[y])
             /\ Items(a.children[y]) =
                   IF y = w THEN Items(t.children[y]) \cup {v} ELSE Items(t.children[y])
      BY <2>1, <1>3, <1>4 DEF Trees
    <2>4. PlacedOnce(a)
      <3>1. \A y \in Workspaces : NoDuplicates(a.children[y]) /\ NoDuplicates(a.floating[y])
        BY <1>3, <2>1, <2>3
      <3>2. ASSUME NEW x \in Views, NEW y \in Workspaces
            PROVE  /\ x \in Items(a.children[y]) <=> a.parent[x] = y
                   /\ x \in Items(a.floating[y])
                         <=> a.workspace[x] = y /\ a.parent[x] = NULL
        <4>1. /\ x \in Items(t.children[y]) <=> t.parent[x] = y
              /\ x \in Items(t.floating[y]) <=> t.workspace[x] = y /\ t.parent[x] = NULL
          BY DEF PlacedOnce
        <4> QED
          BY <1>1, <1>2, <2>1, <2>2, <2>3, <4>1
      <3>3. \A x \in Views : a.parent[x] # NULL => a.workspace[x] = a.parent[x]
        BY <1>2, <2>1, <2>2 DEF PlacedOnce
      <3> QED
        BY <3>1, <3>2, <3>3 DEF PlacedOnce
    <2> QED
      BY <1>5, <2>1, <2>4 DEF a
  <1>6. CASE ~tiled
    <2>1. /\ b \in Trees
          /\ b.workspace = [t.workspace EXCEPT ![v] = w]
          /\ b.floating = [t.floating EXCEPT ![w] = Append(t.floating[w], v)]
          /\ b.parent = t.parent /\ b.children = t.children
          /\ b.fsContainer = t.fsContainer
          /\ b.fullscreen = t.fullscreen /\ b.node = t.node
          /\ b.activated = t.activated /\ b.enabled = t.enabled
          /\ b.displayed = t.displayed
      BY InsertFloatingFields
    <2> HIDE DEF b
    <2>2. /\ \A x \in Views : b.workspace[x] = IF x = v THEN w ELSE t.workspace[x]
          /\ b.parent = [t.parent EXCEPT ![v] = NULL]
      BY <2>1, <1>2 DEF Trees
    <2>3. \A y \in Workspaces :
             /\ NoDuplicates(b.floating[y])
             /\ Items(b.floating[y]) =
                   IF y = w THEN Items(t.floating[y]) \cup {v} ELSE Items(t.floating[y])
      BY <2>1, <1>3, <1>4 DEF Trees
    <2>4. PlacedOnce(b)
      <3>1. \A y \in Workspaces : NoDuplicates(b.children[y]) /\ NoDuplicates(b.floating[y])
        BY <1>3, <2>1, <2>3
      <3>2. ASSUME NEW x \in Views, NEW y \in Workspaces
            PROVE  /\ x \in Items(b.children[y]) <=> b.parent[x] = y
                   /\ x \in Items(b.floating[y])
                         <=> b.workspace[x] = y /\ b.parent[x] = NULL
        <4>1. /\ x \in Items(t.children[y]) <=> t.parent[x] = y
              /\ x \in Items(t.floating[y]) <=> t.workspace[x] = y /\ t.parent[x] = NULL
          BY DEF PlacedOnce
        <4> QED
          BY <1>1, <1>2, <2>1, <2>2, <2>3, <4>1
      <3>3. \A x \in Views : b.parent[x] # NULL => b.workspace[x] = b.parent[x]
        BY <1>2, <2>1, <2>2 DEF PlacedOnce
      <3> QED
        BY <3>1, <3>2, <3>3 DEF PlacedOnce
    <2> QED
      BY <1>6, <2>1, <2>2, <2>4 DEF b
  <1> QED
    BY <1>5, <1>6

\* e_workspace_add_tiled_container and e_workspace_add_floating_container, of a
\* container that has no workspace: the tree stays good but for w, which must be
\* arranged after.
LEMMA AddGood ==
    ASSUME NEW t, NEW W, GoodBut(t, W), NEW v \in Views, t.workspace[v] = NULL,
           NEW w \in Workspaces, NEW tiled \in BOOLEAN
    PROVE  LET u == AddContainer(t, w, v, tiled) IN
           /\ GoodBut(u, W \cup {w})
           /\ u.workspace = [t.workspace EXCEPT ![v] = w]
           /\ u.displayed = t.displayed
  <1> DEFINE a == IF tiled THEN InsertTiled(t, w, v) ELSE InsertFloating(t, w, v)
             u == AddContainer(t, w, v, tiled)
  <1>1. t \in Trees /\ PlacedOnce(t) /\ FullscreenMatches(t) /\ NodesFollow(t)
    BY DEF GoodBut, Sound
  <1>2. /\ t.parent[v] = NULL
        /\ \A y \in Workspaces : t.fsContainer[y] # v /\ \A l \in Layers : t.node[v] # <<l, y>>
    BY <1>1, NowhereNothing
  <1>3. /\ a \in Trees
        /\ PlacedOnce(a)
        /\ a.workspace = [t.workspace EXCEPT ![v] = w]
        /\ a.parent = [t.parent EXCEPT ![v] = IF tiled THEN w ELSE NULL]
        /\ a.fsContainer = t.fsContainer /\ a.fullscreen = t.fullscreen
        /\ a.node = t.node /\ a.activated = t.activated
        /\ a.enabled = t.enabled /\ a.displayed = t.displayed
    BY <1>1, InsertPlaces
  <1>4. u = IF a.fullscreen[v] THEN ChangeFullscreen(a, a.workspace[v], v) ELSE a
    BY DEF AddContainer, Reparented
  <1> HIDE DEF a, u
  <1>5. \A x \in Views : /\ a.workspace[x] = IF x = v THEN w ELSE t.workspace[x]
                         /\ x # v => a.parent[x] = t.parent[x]
    BY <1>1, <1>3 DEF Trees
  <1>6. \A x \in Views \ {v}, y \in Workspaces :
           a.fsContainer[y] = x <=> a.workspace[x] = y /\ a.fullscreen[x]
    BY <1>1, <1>3, <1>5 DEF FullscreenMatches
  <1>7. /\ u \in Trees
        /\ FullscreenMatches(u)
        /\ \A y \in Workspaces \ {w} : u.fsContainer[y] = t.fsContainer[y]
        /\ u.workspace = a.workspace /\ u.parent = a.parent /\ u.node = a.node
        /\ u.children = a.children /\ u.floating = a.floating
        /\ u.activated = a.activated /\ u.enabled = a.enabled
        /\ u.displayed = a.displayed
    <2>1. CASE a.fullscreen[v]
      <3> DEFINE c == ChangeFullscreen(a, w, v)
      <3>0. /\ a \in Trees /\ a.workspace[v] = w
            /\ \A y \in Workspaces \ {w} : a.fsContainer[y] # v
        BY <1>2, <1>3, <1>5
      <3>1. /\ c \in Trees
            /\ FullscreenMatches(c)
            /\ c.fsContainer = [a.fsContainer EXCEPT ![w] = v]
            /\ c.workspace = a.workspace /\ c.parent = a.parent /\ c.node = a.node
            /\ c.children = a.children /\ c.floating = a.floating
            /\ c.activated = a.activated /\ c.enabled = a.enabled
            /\ c.displayed = a.displayed
        BY <1>6, <3>0, ChangeFullscreenMatches
      <3>2. u = c
        BY <1>4, <1>5, <2>1
      <3> HIDE DEF c
      <3>3. \A y \in Workspaces \ {w} : u.fsContainer[y] = t.fsContainer[y]
        BY <1>3, <3>1, <3>2 DEF Trees
      <3> QED
        BY <3>1, <3>2, <3>3
    <2>2. CASE ~a.fullscreen[v]
      <3>1. u = a
        BY <1>4, <2>2
      <3>2. FullscreenMatches(a)
        BY <1>2, <1>3, <1>6, <2>2 DEF FullscreenMatches
      <3> QED
        BY <1>3, <3>1, <3>2
    <2> QED
      BY <2>1, <2>2
  <1>8. PlacedOnce(u)
    BY <1>3, <1>7 DEF PlacedOnce
  <1>9. NodesFollow(u)
    BY <1>1, <1>2, <1>3, <1>5, <1>7 DEF NodesFollow
  <1>10. OneDisplayed(u)
    BY <1>3, <1>7 DEF GoodBut, OneDisplayed, Present
  <1>11. ASSUME NEW y \in Workspaces \ (W \cup {w})
         PROVE  SettledIn(u, y) /\ LayersMatch(u, y)
    <2>1. SettledIn(t, y) /\ LayersMatch(t, y) /\ u.fsContainer[y] = t.fsContainer[y]
      BY <1>7 DEF GoodBut
    <2>2. SettledIn(u, y)
      BY <1>3, <1>5, <1>7, <2>1 DEF SettledIn, IsTiled
    <2>3. LayersMatch(u, y)
      BY <1>3, <1>7, <2>1 DEF LayersMatch, Visibility
    <2> QED
      BY <2>2, <2>3
  <1> QED
    BY <1>3, <1>7, <1>8, <1>9, <1>10, <1>11 DEF GoodBut, Sound, u

(***************************************************************************)
(* Moving                                                                  *)
(***************************************************************************)

\* e_container_move_to_workspace puts v into w; both its workspaces are to be
\* arranged after.
LEMMA MoveGood ==
    ASSUME NEW t, NEW W, GoodBut(t, W), NEW v \in Views, NEW w \in Workspaces
    PROVE  LET u == MoveToWorkspace(t, v, w) IN
           /\ GoodBut(u, W \cup {t.workspace[v], w})
           /\ u.workspace = [t.workspace EXCEPT ![v] = w]
           /\ u.displayed = t.displayed
  <1> DEFINE a == Leave(t, v)
  <1>1. t \in Trees /\ PlacedOnce(t)
    BY DEF GoodBut, Sound
  <1>2. GoodBut(a, W \cup {t.workspace[v]})
    BY LeaveGood
  <1>3. a.workspace = [t.workspace EXCEPT ![v] = NULL] /\ a.displayed = t.displayed
    BY <1>1, LeaveFields
  <1> HIDE DEF a
  <1>4. a.workspace[v] = NULL
    BY <1>1, <1>3 DEF Trees
  <1>5. IsTiled(t, v) \in BOOLEAN
    BY DEF IsTiled
  <1>6. /\ GoodBut(AddContainer(a, w, v, IsTiled(t, v)), (W \cup {t.workspace[v]}) \cup {w})
        /\ AddContainer(a, w, v, IsTiled(t, v)).workspace = [a.workspace EXCEPT ![v] = w]
        /\ AddContainer(a, w, v, IsTiled(t, v)).displayed = a.displayed
    BY <1>2, <1>4, <1>5, AddGood
  <1>7. (W \cup {t.workspace[v]}) \cup {w} = W \cup {t.workspace[v], w}
    OBVIOUS
  <1>8. MoveToWorkspace(t, v, w) = AddContainer(a, w, v, IsTiled(t, v))
    BY DEF MoveToWorkspace, a
  <1>9. [a.workspace EXCEPT ![v] = w] = [t.workspace EXCEPT ![v] = w]
    BY <1>1, <1>3 DEF Trees
  <1> QED
    BY <1>3, <1>6, <1>7, <1>8, <1>9

\* e_container_change_tiling takes v out of its workspace and adds it again.
LEMMA ChangeTilingGood ==
    ASSUME NEW t, NEW W, GoodBut(t, W), NEW v \in Views, NEW tiled \in BOOLEAN,
           t.workspace[v] \in Workspaces
    PROVE  LET u == ChangeTiling(t, v, tiled) IN
           /\ GoodBut(u, W \cup {t.workspace[v]})
           /\ u.workspace = t.workspace
           /\ u.displayed = t.displayed
  <1> DEFINE a == Leave(t, v)
             w == t.workspace[v]
  <1>1. t \in Trees /\ PlacedOnce(t)
    BY DEF GoodBut, Sound
  <1>2. GoodBut(a, W \cup {w})
    BY LeaveGood
  <1>3. a.workspace = [t.workspace EXCEPT ![v] = NULL] /\ a.displayed = t.displayed
    BY <1>1, LeaveFields
  <1>8. ChangeTiling(t, v, tiled) = AddContainer(a, w, v, tiled)
    BY DEF ChangeTiling
  <1> HIDE DEF a
  <1>4. a.workspace[v] = NULL
    BY <1>1, <1>3 DEF Trees
  <1>9. [a.workspace EXCEPT ![v] = w] = t.workspace
    BY <1>1, <1>3 DEF Trees
  <1> HIDE DEF w
  <1>6. /\ GoodBut(AddContainer(a, w, v, tiled), (W \cup {w}) \cup {w})
        /\ AddContainer(a, w, v, tiled).workspace = [a.workspace EXCEPT ![v] = w]
        /\ AddContainer(a, w, v, tiled).displayed = a.displayed
    BY <1>2, <1>4, AddGood DEF w
  <1>7. (W \cup {w}) \cup {w} = W \cup {w}
    OBVIOUS
  <1> QED
    BY <1>3, <1>6, <1>7, <1>8, <1>9 DEF w

(***************************************************************************)
(* Arranging                                                               *)
(***************************************************************************)

LEMMA ArrangeFields ==
    ASSUME NEW t \in Trees, NEW w \in Workspaces
    PROVE  LET u == Arrange(t, w) IN
           /\ u \in Trees
           /\ u.node = [v \in Views |->
                 IF t.fsContainer[w] # NULL
                 THEN IF v = t.fsContainer[w] THEN <<"fullscreen", w>> ELSE t.node[v]
                 ELSE IF v \in Items(t.floating[w]) THEN <<"floating", w>>
                 ELSE IF v \in Items(t.children[w]) THEN <<"tiling", w>> ELSE t.node[v]]
           /\ u.enabled = [t.enabled EXCEPT ![w] = Visibility(t, w)]
           /\ u.workspace = t.workspace /\ u.parent = t.parent
           /\ u.fullscreen = t.fullscreen /\ u.fsContainer = t.fsContainer
           /\ u.children = t.children /\ u.floating = t.floating
           /\ u.activated = t.activated /\ u.displayed = t.displayed
  <1> DEFINE n == [v \in Views |->
                     IF t.fsContainer[w] # NULL
                     THEN IF v = t.fsContainer[w] THEN <<"fullscreen", w>> ELSE t.node[v]
                     ELSE IF v \in Items(t.floating[w]) THEN <<"floating", w>>
                     ELSE IF v \in Items(t.children[w]) THEN <<"tiling", w>> ELSE t.node[v]]
             e == Visibility(t, w)
  <1>1. Arrange(t, w) = [t EXCEPT !.node = n, !.enabled[w] = e]
    <2>1. \A v \in Views : ArrangeRoot(t, w).node[v] =
             IF v \in Items(t.children[w]) THEN <<"tiling", w>> ELSE t.node[v]
      BY DEF ArrangeRoot, Trees
    <2> QED
      BY <2>1 DEF Arrange
  <1>2. n \in [Views -> (Layers \X Workspaces) \cup {Pending}]
    BY DEF Trees, Layers
  <1>3. e \in {"none", "desktop", "fullscreen"}
    BY DEF Visibility
  <1> HIDE DEF n, e
  <1>4. [t EXCEPT !.node = n, !.enabled[w] = e] \in Trees
    BY <1>2, <1>3 DEF Trees
  <1> QED
    BY <1>1, <1>4 DEF Trees, n, e

\* e_workspace_arrange settles w: its containers hang in their layers and the
\* enabled layers are the right ones.
LEMMA ArrangeGood ==
    ASSUME NEW t, NEW W, GoodBut(t, W), NEW w \in Workspaces
    PROVE  LET u == Arrange(t, w) IN
           /\ GoodBut(u, W \ {w})
           /\ u.workspace = t.workspace
           /\ u.displayed = t.displayed
  <1> DEFINE u == Arrange(t, w)
  <1>1. t \in Trees /\ PlacedOnce(t) /\ FullscreenMatches(t)
    BY DEF GoodBut, Sound
  <1>2. NULL \notin Workspaces /\ NULL \notin Views
    BY TreeAssumption
  <1>3. /\ u \in Trees
        /\ u.node = [v \in Views |->
              IF t.fsContainer[w] # NULL
              THEN IF v = t.fsContainer[w] THEN <<"fullscreen", w>> ELSE t.node[v]
              ELSE IF v \in Items(t.floating[w]) THEN <<"floating", w>>
              ELSE IF v \in Items(t.children[w]) THEN <<"tiling", w>> ELSE t.node[v]]
        /\ u.enabled = [t.enabled EXCEPT ![w] = Visibility(t, w)]
        /\ u.workspace = t.workspace /\ u.parent = t.parent
        /\ u.fullscreen = t.fullscreen /\ u.fsContainer = t.fsContainer
        /\ u.children = t.children /\ u.floating = t.floating
        /\ u.activated = t.activated /\ u.displayed = t.displayed
    BY <1>1, ArrangeFields
  <1> HIDE DEF u
  <1>4. Sound(u) /\ OneDisplayed(u)
    BY <1>1, <1>3 DEF GoodBut, Sound, PlacedOnce, FullscreenMatches, OneDisplayed, Present
  <1>5. ASSUME NEW x \in Views
        PROVE  /\ t.workspace[x] # w => u.node[x] = t.node[x]
               /\ t.workspace[x] = w /\ t.fsContainer[w] = NULL =>
                     u.node[x] = <<IF IsTiled(t, x) THEN "tiling" ELSE "floating", w>>
               /\ \/ u.node[x] = t.node[x]
                  \/ t.workspace[x] = w /\ \E l \in Layers : u.node[x] = <<l, w>>
    <2>1. /\ x \in Items(t.children[w]) <=> t.parent[x] = w
          /\ x \in Items(t.floating[w]) <=> t.workspace[x] = w /\ t.parent[x] = NULL
          /\ t.parent[x] # NULL => t.workspace[x] = t.parent[x]
          /\ t.fsContainer[w] = x => t.workspace[x] = w
      BY <1>1 DEF PlacedOnce, FullscreenMatches
    <2> QED
      BY <1>2, <1>3, <2>1 DEF IsTiled, Layers
  <1>6. NodesFollow(u)
    <2> SUFFICES ASSUME NEW x \in Views, NEW y \in Workspaces, NEW l \in Layers,
                        u.node[x] = <<l, y>>
                 PROVE  u.workspace[x] = y
      BY DEF NodesFollow
    <2>1. CASE u.node[x] = t.node[x]
      BY <1>3, <2>1 DEF GoodBut, NodesFollow
    <2>2. CASE t.workspace[x] = w /\ \E k \in Layers : u.node[x] = <<k, w>>
      BY <1>3, <2>2
    <2> QED
      BY <1>5, <2>1, <2>2
  <1>7. ASSUME NEW y \in Workspaces \ (W \ {w})
        PROVE  SettledIn(u, y) /\ LayersMatch(u, y)
    <2>1. CASE y = w
      <3>1. SettledIn(u, w)
        BY <1>3, <1>5 DEF SettledIn, IsTiled
      <3>2. u.enabled[w] = Visibility(t, w)
        BY <1>1, <1>3 DEF Trees
      <3>3. LayersMatch(u, w)
        BY <1>3, <3>2 DEF LayersMatch, Visibility
      <3> QED
        BY <2>1, <3>1, <3>3
    <2>2. CASE y # w
      <3>1. SettledIn(t, y) /\ LayersMatch(t, y)
        BY <2>2 DEF GoodBut
      <3>2. SettledIn(u, y)
        BY <1>3, <1>5, <2>2, <3>1 DEF SettledIn, IsTiled
      <3>3. u.enabled[y] = t.enabled[y]
        BY <1>1, <1>3, <2>2 DEF Trees
      <3>4. LayersMatch(u, y)
        BY <1>3, <3>1, <3>3 DEF LayersMatch, Visibility
      <3> QED
        BY <3>2, <3>4
    <2> QED
      BY <2>1, <2>2
  <1> QED
    BY <1>3, <1>4, <1>6, <1>7 DEF GoodBut, u

\* e_container_arrange of the root of w, which a change of the tiling mode calls
\* on its own, keeps a tree good.
LEMMA ArrangeRootGood ==
    ASSUME NEW t, NEW W, GoodBut(t, W), NEW w \in Workspaces
    PROVE  LET u == ArrangeRoot(t, w) IN
           /\ GoodBut(u, W)
           /\ u.workspace = t.workspace
           /\ u.displayed = t.displayed
  <1> DEFINE u == ArrangeRoot(t, w)
  <1>1. t \in Trees /\ PlacedOnce(t) /\ FullscreenMatches(t)
    BY DEF GoodBut, Sound
  <1>2. NULL \notin Workspaces
    BY TreeAssumption
  <1>3. /\ u \in Trees
        /\ u.node = [v \in Views |->
              IF v \in Items(t.children[w]) THEN <<"tiling", w>> ELSE t.node[v]]
        /\ u.workspace = t.workspace /\ u.parent = t.parent
        /\ u.fullscreen = t.fullscreen /\ u.fsContainer = t.fsContainer
        /\ u.children = t.children /\ u.floating = t.floating
        /\ u.activated = t.activated /\ u.displayed = t.displayed
        /\ u.enabled = t.enabled
    <2>1. [v \in Views |-> IF v \in Items(t.children[w]) THEN <<"tiling", w>> ELSE t.node[v]]
             \in [Views -> (Layers \X Workspaces) \cup {Pending}]
      BY <1>1 DEF Trees, Layers
    <2> QED
      BY <1>1, <2>1 DEF ArrangeRoot, Trees
  <1> HIDE DEF u
  <1>4. Sound(u) /\ OneDisplayed(u)
    BY <1>1, <1>3 DEF GoodBut, Sound, PlacedOnce, FullscreenMatches, OneDisplayed, Present
  <1>5. ASSUME NEW x \in Views
        PROVE  \/ u.node[x] = t.node[x]
               \/ t.workspace[x] = w /\ IsTiled(t, x) /\ u.node[x] = <<"tiling", w>>
    <2>1. x \in Items(t.children[w]) => t.parent[x] = w /\ t.workspace[x] = w
      BY <1>1, <1>2 DEF PlacedOnce
    <2> QED
      BY <1>2, <1>3, <2>1 DEF IsTiled
  <1>6. NodesFollow(u)
    BY <1>3, <1>5 DEF GoodBut, NodesFollow
  <1>7. ASSUME NEW y \in Workspaces \ W
        PROVE  SettledIn(u, y) /\ LayersMatch(u, y)
    <2>1. SettledIn(t, y) /\ LayersMatch(t, y)
      BY DEF GoodBut
    <2>2. SettledIn(u, y)
      BY <1>3, <1>5, <2>1 DEF SettledIn, IsTiled
    <2>3. LayersMatch(u, y)
      BY <1>3, <2>1 DEF LayersMatch, Visibility
    <2> QED
      BY <2>2, <2>3
  <1> QED
    BY <1>3, <1>4, <1>6, <1>7 DEF GoodBut, u

(***************************************************************************)
(* Displaying                                                              *)
(***************************************************************************)

LEMMA SetActivatedFields ==
    ASSUME NEW t \in Trees, NEW w \in Workspaces, NEW on \in BOOLEAN
    PROVE  LET u == SetActivated(t, w, on) IN
           /\ u \in Trees
           /\ u.activated = [t.activated EXCEPT ![w] = on]
           /\ \A y \in Workspaces \ {w} : u.enabled[y] = t.enabled[y]
           /\ LayersMatch(u, w)
           /\ u.workspace = t.workspace /\ u.parent = t.parent
           /\ u.fullscreen = t.fullscreen /\ u.fsContainer = t.fsContainer
           /\ u.children = t.children /\ u.floating = t.floating
           /\ u.node = t.node /\ u.displayed = t.displayed
  <1> DEFINE a == [t EXCEPT !.activated[w] = on]
             e == Visibility(a, w)
             u == [a EXCEPT !.enabled[w] = e]
  <1>1. /\ a \in Trees
        /\ a.activated = [t.activated EXCEPT ![w] = on]
        /\ a.workspace = t.workspace /\ a.parent = t.parent
        /\ a.fullscreen = t.fullscreen /\ a.fsContainer = t.fsContainer
        /\ a.children = t.children /\ a.floating = t.floating
        /\ a.node = t.node /\ a.displayed = t.displayed /\ a.enabled = t.enabled
    BY DEF Trees
  <1>2. e \in {"none", "desktop", "fullscreen"}
    BY DEF Visibility
  <1>3. SetActivated(t, w, on) = u
    BY DEF SetActivated
  <1> HIDE DEF a
  <1>4. /\ u \in Trees
        /\ u.enabled = [a.enabled EXCEPT ![w] = e]
        /\ u.activated = a.activated
        /\ u.workspace = a.workspace /\ u.parent = a.parent
        /\ u.fullscreen = a.fullscreen /\ u.fsContainer = a.fsContainer
        /\ u.children = a.children /\ u.floating = a.floating
        /\ u.node = a.node /\ u.displayed = a.displayed
    <2> HIDE DEF e
    <2> QED
      BY <1>1, <1>2 DEF Trees
  <1> HIDE DEF u
  <1>5. u.enabled[w] = e /\ \A y \in Workspaces \ {w} : u.enabled[y] = t.enabled[y]
    <2> HIDE DEF e
    <2> QED
      BY <1>1, <1>4 DEF Trees
  <1>6. LayersMatch(u, w)
    BY <1>4, <1>5 DEF LayersMatch, Visibility
  <1> QED
    BY <1>1, <1>3, <1>4, <1>5, <1>6

\* e_output_display_workspace shows w, and only w, on the output of w.
LEMMA DisplayGood ==
    ASSUME NEW t, GoodBut(t, {}), NEW w \in Workspaces
    PROVE  LET u == Display(t, OutputOf[w], w) IN
           /\ GoodBut(u, {})
           /\ u.workspace = t.workspace
           /\ u.displayed = [t.displayed EXCEPT ![OutputOf[w]] = w]
  <1> DEFINE o == OutputOf[w]
             old == t.displayed[o]
             h == IF old = NULL THEN t ELSE SetActivated(t, old, FALSE)
             d == [h EXCEPT !.displayed[o] = w]
             s == SetActivated(d, w, TRUE)
  <1>1. t \in Trees /\ Sound(t) /\ OneDisplayed(t) /\ NodesFollow(t)
    BY DEF GoodBut, Sound
  <1>2. o \in Outputs /\ NULL \notin Workspaces /\ NULL \notin Outputs
    BY TreeAssumption
  <1>3. old \in Workspaces \cup {NULL} /\ (old # NULL => OutputOf[old] = o)
    BY <1>1, <1>2 DEF Trees, OneDisplayed, Present
  <1>4. \A y \in Workspaces : OutputOf[y] \in Outputs
    BY TreeAssumption
  <1>5. CASE t.activated[w]
    <2>1. Display(t, o, w) = t
      BY <1>5 DEF Display
    <2>2. old = w
      BY <1>1, <1>5 DEF OneDisplayed
    <2>3. t.displayed = [t.displayed EXCEPT ![o] = w]
      BY <1>1, <2>2 DEF Trees
    <2> QED
      BY <2>1, <2>3
  <1>6. CASE ~t.activated[w]
    <2>1. Display(t, o, w) = Arrange(s, w)
      BY <1>6 DEF Display
    <2>2. old # w
      BY <1>1, <1>6 DEF OneDisplayed
    <2>3. /\ h \in Trees
          /\ \A y \in Workspaces :
                /\ h.activated[y] <=> t.activated[y] /\ y # old
                /\ LayersMatch(h, y)
          /\ h.workspace = t.workspace /\ h.parent = t.parent
          /\ h.fullscreen = t.fullscreen /\ h.fsContainer = t.fsContainer
          /\ h.children = t.children /\ h.floating = t.floating
          /\ h.node = t.node /\ h.displayed = t.displayed
      <3>1. CASE old = NULL
        BY <1>1, <1>2, <3>1 DEF GoodBut
      <3>2. CASE old # NULL
        <4> DEFINE a == SetActivated(t, old, FALSE)
        <4>1. /\ a \in Trees
              /\ a.activated = [t.activated EXCEPT ![old] = FALSE]
              /\ \A y \in Workspaces \ {old} : a.enabled[y] = t.enabled[y]
              /\ LayersMatch(a, old)
              /\ a.workspace = t.workspace /\ a.parent = t.parent
              /\ a.fullscreen = t.fullscreen /\ a.fsContainer = t.fsContainer
              /\ a.children = t.children /\ a.floating = t.floating
              /\ a.node = t.node /\ a.displayed = t.displayed
          BY <1>1, <1>3, <3>2, SetActivatedFields
        <4>2. h = a
          BY <3>2
        <4> HIDE DEF a, h, old
        <4>3. ASSUME NEW y \in Workspaces
              PROVE  a.activated[y] = IF y = old THEN FALSE ELSE t.activated[y]
          BY <1>1, <4>1 DEF Trees
        <4>4. ASSUME NEW y \in Workspaces \ {old} PROVE LayersMatch(a, y)
          <5>1. LayersMatch(t, y)
            BY DEF GoodBut
          <5> QED
            BY <4>1, <4>3, <5>1 DEF LayersMatch, Visibility
        <4>5. ASSUME NEW y \in Workspaces
              PROVE  a.activated[y] <=> t.activated[y] /\ y # old
          BY <4>3
        <4> QED
          BY <4>1, <4>2, <4>4, <4>5
      <3> QED
        BY <3>1, <3>2
    <2> HIDE DEF h
    <2>4. /\ d \in Trees
          /\ d.displayed = [t.displayed EXCEPT ![o] = w]
          /\ d.activated = h.activated /\ d.enabled = h.enabled
          /\ d.workspace = t.workspace /\ d.parent = t.parent
          /\ d.fullscreen = t.fullscreen /\ d.fsContainer = t.fsContainer
          /\ d.children = t.children /\ d.floating = t.floating
          /\ d.node = t.node
      BY <1>2, <2>3 DEF Trees
    <2> HIDE DEF d
    <2>5. /\ s \in Trees
          /\ s.activated = [d.activated EXCEPT ![w] = TRUE]
          /\ \A y \in Workspaces \ {w} : s.enabled[y] = d.enabled[y]
          /\ LayersMatch(s, w)
          /\ s.workspace = d.workspace /\ s.parent = d.parent
          /\ s.fullscreen = d.fullscreen /\ s.fsContainer = d.fsContainer
          /\ s.children = d.children /\ s.floating = d.floating
          /\ s.node = d.node /\ s.displayed = d.displayed
      BY <2>4, SetActivatedFields
    <2> HIDE DEF s
    <2>6. Sound(s) /\ NodesFollow(s)
      BY <1>1, <2>4, <2>5 DEF Sound, PlacedOnce, FullscreenMatches, NodesFollow
    <2>7. ASSUME NEW y \in Workspaces
          PROVE  s.activated[y] = IF y = w THEN TRUE ELSE h.activated[y]
      <3>1. d.activated \in [Workspaces -> BOOLEAN]
        BY <2>4 DEF Trees
      <3> QED
        BY <2>4, <2>5, <3>1
    <2>8. ASSUME NEW p \in Outputs
          PROVE  s.displayed[p] = IF p = o THEN w ELSE t.displayed[p]
      BY <1>1, <2>4, <2>5 DEF Trees
    <2>9. OneDisplayed(s)
      <3>1. \A p \in Present(s) : OutputOf[s.displayed[p]] = p
        BY <1>1, <2>8 DEF OneDisplayed, Present
      <3>2. ASSUME NEW y \in Workspaces
            PROVE  s.activated[y] <=> s.displayed[OutputOf[y]] = y
        <4>1. t.activated[y] <=> t.displayed[OutputOf[y]] = y
          BY <1>1 DEF OneDisplayed
        <4>2. h.activated[y] <=> t.activated[y] /\ y # old
          BY <2>3
        <4>3. s.displayed[OutputOf[y]] = IF OutputOf[y] = o THEN w ELSE t.displayed[OutputOf[y]]
          BY <1>4, <2>8
        <4>4. CASE y = w
          BY <2>7, <4>3, <4>4
        <4>5. CASE y # w
          <5>1. s.activated[y] <=> t.activated[y] /\ y # old
            BY <2>7, <4>2, <4>5
          <5>2. CASE OutputOf[y] = o
            BY <4>1, <4>3, <4>5, <5>1, <5>2
          <5>3. CASE OutputOf[y] # o
            BY <1>2, <1>3, <4>1, <4>3, <4>5, <5>1, <5>3
          <5> QED
            BY <5>2, <5>3
        <4> QED
          BY <4>4, <4>5
      <3> QED
        BY <3>1, <3>2 DEF OneDisplayed
    <2>10. ASSUME NEW y \in Workspaces
           PROVE  SettledIn(s, y) /\ LayersMatch(s, y)
      <3>1. SettledIn(t, y)
        BY DEF GoodBut
      <3>2. SettledIn(s, y)
        BY <2>4, <2>5, <3>1 DEF SettledIn, IsTiled
      <3>3. y # w => LayersMatch(s, y)
        BY <2>3, <2>4, <2>5, <2>7 DEF LayersMatch, Visibility
      <3> QED
        BY <2>5, <3>2, <3>3
    <2>11. GoodBut(s, {})
      BY <2>6, <2>9, <2>10 DEF GoodBut
    <2>12. /\ GoodBut(Arrange(s, w), {} \ {w})
           /\ Arrange(s, w).workspace = s.workspace
           /\ Arrange(s, w).displayed = s.displayed
      BY <2>11, ArrangeGood
    <2>13. {} \ {w} = {}
      OBVIOUS
    <2> QED
      BY <2>1, <2>4, <2>5, <2>12, <2>13
  <1> QED
    BY <1>5, <1>6

(***************************************************************************)
(* The rest                                                                *)
(***************************************************************************)

\* A workspace has a next one, on the same output.
LEMMA NextWorkspaceIn ==
    ASSUME NEW w \in Workspaces
    PROVE  NextWorkspace(w) \in Workspaces /\ OutputOf[NextWorkspace(w)] = OutputOf[w]
  <1> DEFINE list == WorkspacesOf[OutputOf[w]]
             n == Len(list)
             k == ListFind(list, w)
  <1>1. /\ list \in Seq(Workspaces) /\ NoDuplicates(list)
        /\ Items(list) = {x \in Workspaces : OutputOf[x] = OutputOf[w]}
    BY TreeAssumption
  <1>2. k \in DOMAIN list
    BY <1>1, FindPosition
  <1>3. NextWorkspace(w) = list[(k % n) + 1]
    BY DEF NextWorkspace
  <1> HIDE DEF list
  <1>4. n \in Nat /\ k \in 1..n /\ DOMAIN list = 1..n
    BY <1>1, <1>2
  <1>5. (k % n) + 1 \in DOMAIN list
    <2> HIDE DEF n, k
    <2> QED
      BY <1>4
  <1>6. list[(k % n) + 1] \in Items(list)
    BY <1>5 DEF Items
  <1> QED
    BY <1>1, <1>3, <1>6

\* Every output has a first workspace.
LEMMA FirstWorkspaceIn ==
    ASSUME NEW o \in Outputs
    PROVE  FirstWorkspace(o) \in Workspaces /\ OutputOf[FirstWorkspace(o)] = o
  <1> DEFINE list == WorkspacesOf[o]
  <1>1. /\ list \in Seq(Workspaces) /\ list # <<>>
        /\ Items(list) = {x \in Workspaces : OutputOf[x] = o}
    BY TreeAssumption
  <1> HIDE DEF list
  <1>2. 1 \in DOMAIN list
    BY <1>1
  <1>3. list[1] \in Items(list)
    BY <1>2 DEF Items
  <1> QED
    BY <1>1, <1>3 DEF FirstWorkspace, list

\* The tree before the first output is good.
LEMMA EmptyGood == GoodBut(EmptyTree, {}) /\ EmptyTree.workspace = [v \in Views |-> NULL]
  <1>1. NULL \notin Workspaces /\ NULL \notin Views /\ NULL \notin Outputs
    BY TreeAssumption
  <1>2. EmptyTree \in Trees
    BY DEF EmptyTree, Trees
  <1>3. PlacedOnce(EmptyTree)
    BY <1>1 DEF EmptyTree, PlacedOnce, Items, NoDuplicates
  <1>4. FullscreenMatches(EmptyTree)
    BY <1>1 DEF EmptyTree, FullscreenMatches
  <1>5. NodesFollow(EmptyTree)
    BY <1>1 DEF EmptyTree, NodesFollow, Pending, Layers
  <1>6. OneDisplayed(EmptyTree)
    <2>1. \A w \in Workspaces : OutputOf[w] \in Outputs
      BY TreeAssumption
    <2> QED
      BY <1>1, <2>1 DEF EmptyTree, OneDisplayed, Present
  <1>7. \A w \in Workspaces : SettledIn(EmptyTree, w) /\ LayersMatch(EmptyTree, w)
    BY <1>1 DEF EmptyTree, SettledIn, LayersMatch, Visibility
  <1> QED
    BY <1>2, <1>3, <1>4, <1>5, <1>6, <1>7 DEF GoodBut, Sound, EmptyTree

\* output_init_workspaces.
LEMMA InitWorkspacesGood ==
    ASSUME NEW t, GoodBut(t, {}), NEW o \in Outputs
    PROVE  LET u == InitWorkspaces(t, o) IN
           /\ GoodBut(u, {})
           /\ u.workspace = t.workspace
           /\ u.displayed = [t.displayed EXCEPT ![o] = FirstWorkspace(o)]
  <1> DEFINE w == FirstWorkspace(o)
             d == Display(t, o, w)
  <1>1. w \in Workspaces /\ OutputOf[w] = o
    BY FirstWorkspaceIn
  <1> HIDE DEF w
  <1>2. /\ GoodBut(d, {}) /\ d.workspace = t.workspace
        /\ d.displayed = [t.displayed EXCEPT ![o] = w]
    BY <1>1, DisplayGood
  <1>3. InitWorkspaces(t, o) = Arrange(d, w)
    BY DEF InitWorkspaces, w
  <1> HIDE DEF d
  <1>4. /\ GoodBut(Arrange(d, w), {} \ {w})
        /\ Arrange(d, w).workspace = d.workspace
        /\ Arrange(d, w).displayed = d.displayed
    BY <1>1, <1>2, ArrangeGood
  <1>5. {} \ {w} = {}
    OBVIOUS
  <1> QED
    BY <1>2, <1>3, <1>4, <1>5 DEF w

\* The fullscreen flag of a container without a workspace is nobody's business.
LEMMA SetFullscreenGood ==
    ASSUME NEW t, GoodBut(t, {}), NEW v \in Views, t.workspace[v] = NULL,
           NEW full \in BOOLEAN
    PROVE  LET u == SetFullscreen(t, v, full) IN
           /\ GoodBut(u, {})
           /\ u.workspace = t.workspace
           /\ u.displayed = t.displayed
  <1> DEFINE u == SetFullscreen(t, v, full)
  <1>1. t \in Trees /\ PlacedOnce(t) /\ FullscreenMatches(t) /\ NodesFollow(t)
    BY DEF GoodBut, Sound
  <1>2. NULL \notin Workspaces
    BY TreeAssumption
  <1>3. /\ u \in Trees
        /\ u.fullscreen = [t.fullscreen EXCEPT ![v] = full]
        /\ u.workspace = t.workspace /\ u.parent = t.parent /\ u.node = t.node
        /\ u.children = t.children /\ u.floating = t.floating
        /\ u.fsContainer = t.fsContainer /\ u.activated = t.activated
        /\ u.enabled = t.enabled /\ u.displayed = t.displayed
    BY <1>1 DEF SetFullscreen, Trees
  <1> HIDE DEF u
  <1>4. FullscreenMatches(u)
    <2>1. ASSUME NEW x \in Views \ {v} PROVE u.fullscreen[x] = t.fullscreen[x]
      BY <1>1, <1>3 DEF Trees
    <2> QED
      BY <1>1, <1>2, <1>3, <2>1 DEF FullscreenMatches
  <1>5. PlacedOnce(u) /\ NodesFollow(u) /\ OneDisplayed(u)
    BY <1>1, <1>3 DEF GoodBut, PlacedOnce, NodesFollow, OneDisplayed, Present
  <1>6. \A w \in Workspaces : SettledIn(u, w) /\ LayersMatch(u, w)
    BY <1>3 DEF GoodBut, SettledIn, LayersMatch, Visibility, IsTiled
  <1> QED
    BY <1>3, <1>4, <1>5, <1>6 DEF GoodBut, Sound, u

\* A tree in which v is nowhere, with the container of v made anew.
LEMMA InitContainerGood ==
    ASSUME NEW t, GoodBut(t, {}), NEW v \in Views, t.workspace[v] = NULL
    PROVE  LET u == InitContainer(t, v) IN
           /\ GoodBut(u, {})
           /\ u.workspace = t.workspace
           /\ u.displayed = t.displayed
  <1> DEFINE u == InitContainer(t, v)
  <1>1. t \in Trees /\ PlacedOnce(t) /\ FullscreenMatches(t) /\ NodesFollow(t)
    BY DEF GoodBut, Sound
  <1>2. NULL \notin Workspaces
    BY TreeAssumption
  <1>3. t.parent[v] = NULL
    BY <1>1, NowhereNothing
  <1>4. /\ u \in Trees
        /\ u.fullscreen = [t.fullscreen EXCEPT ![v] = FALSE]
        /\ u.node = [t.node EXCEPT ![v] = Pending]
        /\ u.workspace = t.workspace /\ u.parent = t.parent
        /\ u.children = t.children /\ u.floating = t.floating
        /\ u.fsContainer = t.fsContainer /\ u.activated = t.activated
        /\ u.enabled = t.enabled /\ u.displayed = t.displayed
    <2>1. [t.workspace EXCEPT ![v] = NULL] = t.workspace
      BY <1>1 DEF Trees
    <2>2. [t.parent EXCEPT ![v] = NULL] = t.parent
      BY <1>1, <1>3 DEF Trees
    <2>3. u = [t EXCEPT !.workspace = [t.workspace EXCEPT ![v] = NULL],
                        !.parent = [t.parent EXCEPT ![v] = NULL],
                        !.fullscreen = [t.fullscreen EXCEPT ![v] = FALSE],
                        !.node = [t.node EXCEPT ![v] = Pending]]
      BY <1>1 DEF InitContainer, Trees
    <2> HIDE DEF u
    <2>4. /\ u.workspace = t.workspace /\ u.parent = t.parent
          /\ u.fullscreen = [t.fullscreen EXCEPT ![v] = FALSE]
          /\ u.node = [t.node EXCEPT ![v] = Pending]
          /\ u.children = t.children /\ u.floating = t.floating
          /\ u.fsContainer = t.fsContainer /\ u.activated = t.activated
          /\ u.enabled = t.enabled /\ u.displayed = t.displayed
      BY <1>1, <2>1, <2>2, <2>3 DEF Trees
    <2>5. u \in Trees
      BY <1>1, <2>1, <2>2, <2>3 DEF Trees
    <2> QED
      BY <2>4, <2>5
  <1> HIDE DEF u
  <1>5. \A x \in Views \ {v} : u.fullscreen[x] = t.fullscreen[x] /\ u.node[x] = t.node[x]
    BY <1>1, <1>4 DEF Trees
  <1>6. u.node[v] = Pending
    BY <1>1, <1>4 DEF Trees
  <1>7. FullscreenMatches(u)
    BY <1>1, <1>2, <1>4, <1>5 DEF FullscreenMatches
  <1>8. NodesFollow(u)
    BY <1>1, <1>2, <1>4, <1>5, <1>6 DEF NodesFollow, Pending, Layers
  <1>9. PlacedOnce(u) /\ OneDisplayed(u)
    BY <1>1, <1>4 DEF GoodBut, PlacedOnce, OneDisplayed, Present
  <1>10. \A w \in Workspaces : SettledIn(u, w) /\ LayersMatch(u, w)
    BY <1>2, <1>4, <1>5 DEF GoodBut, SettledIn, LayersMatch, Visibility, IsTiled
  <1> QED
    BY <1>4, <1>7, <1>8, <1>9, <1>10 DEF GoodBut, Sound, u

\* What is on screen is in a workspace.
LEMMA OnScreenPlaced ==
    ASSUME NEW t, NEW W, GoodBut(t, W), NEW v \in Views, OnScreen(t, v)
    PROVE  t.workspace[v] \in Workspaces
  BY DEF GoodBut, NodesFollow, OnScreen, Layers

(***************************************************************************)
(* The inductive invariant                                                 *)
(***************************************************************************)

Inv(headless) ==
    /\ view \in [Views -> {"none", "unmapped", "mapped"}]
    /\ activeView \in Views \cup {NULL}
    /\ aborted \in BOOLEAN
    /\ GoodBut(tree, {})
    /\ \A v \in Views : view[v] # "mapped" => tree.workspace[v] = NULL /\ activeView # v
    /\ ~headless => /\ ~aborted
                    /\ Present(tree) # {}
                    /\ \A v \in Views : view[v] = "mapped" => tree.workspace[v] # NULL

\* What FocusReveals and ViewsComeAndGo ask of a step.
Revealed ==
    activeView' \notin {activeView, NULL} =>
        LET w == tree'.workspace[activeView']
        IN  w # NULL => tree'.displayed[OutputOf[w]] = w

Steps == Revealed /\ (view' # view => tree'.displayed = tree.displayed)

\* A container without a workspace gets none.
Stays == \A v \in Views : tree.workspace[v] = NULL => tree'.workspace[v] = NULL

-----------------------------------------------------------------------------
(***************************************************************************)
(* Steps that leave the views as they are                                  *)
(***************************************************************************)

\* A handler that maps and unmaps nothing keeps Inv when it keeps the tree good,
\* leaves every container with a workspace or without one as it was, and makes
\* only mapped views active.
LEMMA InvStep ==
    ASSUME NEW headless \in BOOLEAN, Inv(headless), GoodBut(tree, {})', UNCHANGED view,
           \A v \in Views : tree'.workspace[v] = NULL <=> tree.workspace[v] = NULL,
           Present(tree) \subseteq Present(tree'),
           activeView' \in Views \cup {NULL},
           \A v \in Views : activeView' = v => activeView = v \/ view[v] = "mapped",
           aborted' \in BOOLEAN, ~headless => ~aborted', Revealed
    PROVE  Inv(headless)' /\ Steps /\ Stays
  BY DEF Inv, Steps, Stays

\* Displaying a workspace on an output takes no output away.
LEMMA PresentGrows ==
    ASSUME NEW t \in Trees, NEW u, NEW o \in Outputs, NEW w \in Workspaces,
           u.displayed = [t.displayed EXCEPT ![o] = w]
    PROVE  Present(t) \subseteq Present(u) /\ o \in Present(u)
  <1>1. NULL \notin Workspaces
    BY TreeAssumption
  <1>2. \A p \in Outputs : u.displayed[p] = IF p = o THEN w ELSE t.displayed[p]
    BY DEF Trees
  <1> QED
    BY <1>1, <1>2 DEF Present

\* seat_set_active_view_container keeps a tree good.
LEMMA RevealGood ==
    ASSUME NEW t, GoodBut(t, {}), NEW v \in Views
    PROVE  LET u == Reveal(t, v) IN
           /\ GoodBut(u, {})
           /\ u.workspace = t.workspace
           /\ Present(t) \subseteq Present(u)
           /\ v # activeView /\ t.workspace[v] # NULL =>
                 u.displayed[OutputOf[t.workspace[v]]] = t.workspace[v]
           /\ t.workspace[v] # NULL /\ t.displayed[OutputOf[t.workspace[v]]] = t.workspace[v]
                 => u = t
  <1> DEFINE w == t.workspace[v]
             u == Reveal(t, v)
             d == Display(t, OutputOf[w], w)
  <1>1. t \in Trees
    BY DEF GoodBut, Sound
  <1>2. CASE v = activeView \/ w = NULL \/ t.displayed[OutputOf[w]] = w
    <2>1. u = t
      BY <1>2 DEF Reveal
    <2> QED
      BY <1>2, <2>1
  <1>3. CASE ~(v = activeView \/ w = NULL \/ t.displayed[OutputOf[w]] = w)
    <2>1. u = d
      BY <1>3 DEF Reveal
    <2>2. w \in Workspaces /\ OutputOf[w] \in Outputs
      BY <1>1, <1>3, TreeAssumption DEF Trees
    <2> HIDE DEF w, u
    <2>3. /\ GoodBut(d, {}) /\ d.workspace = t.workspace
          /\ d.displayed = [t.displayed EXCEPT ![OutputOf[w]] = w]
      BY <2>2, DisplayGood
    <2> HIDE DEF d
    <2>4. Present(t) \subseteq Present(d)
      BY <1>1, <2>2, <2>3, PresentGrows
    <2>5. d.displayed[OutputOf[w]] = w
      BY <1>1, <2>2, <2>3 DEF Trees
    <2> QED
      BY <1>3, <2>1, <2>3, <2>4, <2>5 DEF u, w
  <1> QED
    BY <1>2, <1>3

\* The end of a handler that looks for the container under the cursor.
LEMMA FocusHoveredGood ==
    ASSUME NEW headless \in BOOLEAN, Inv(headless), NEW t, GoodBut(t, {}), FocusHovered(t)
    PROVE  /\ GoodBut(tree, {})'
           /\ tree'.workspace = t.workspace
           /\ Present(t) \subseteq Present(tree')
           /\ activeView' \in Views \cup {NULL}
           /\ \A v \in Views : activeView' = v => activeView = v \/ t.workspace[v] # NULL
           /\ Revealed
  <1>1. CASE UNCHANGED activeView /\ tree' = t
    BY <1>1 DEF Inv, Revealed
  <1>2. ASSUME NEW v \in Views, OnScreen(t, v), Focus(t, v)
        PROVE  /\ GoodBut(tree, {})'
               /\ tree'.workspace = t.workspace
               /\ Present(t) \subseteq Present(tree')
               /\ activeView' = v /\ t.workspace[v] # NULL
               /\ Revealed
    <2>1. tree' = Reveal(t, v) /\ activeView' = v
      BY <1>2 DEF Focus
    <2>2. t.workspace[v] # NULL
      BY <1>2, OnScreenPlaced, TreeAssumption
    <2> QED
      BY <2>1, <2>2, RevealGood DEF Revealed
  <1> QED
    BY <1>1, <1>2 DEF FocusHovered

-----------------------------------------------------------------------------
(***************************************************************************)
(* Init and the actions                                                    *)
(***************************************************************************)

LEMMA InitInv == Init => Inv(Headless)
  <1> SUFFICES ASSUME Init PROVE Inv(Headless)
    OBVIOUS
  <1>1. NULL \notin Views /\ NULL \notin Workspaces
    BY TreeAssumption
  <1>2. GoodBut(EmptyTree, {}) /\ EmptyTree.workspace = [v \in Views |-> NULL]
    BY EmptyGood
  <1>3. CASE Headless
    BY <1>1, <1>2, <1>3 DEF Init, Inv
  <1>4. CASE ~Headless
    <2>1. PICK o \in Outputs : tree = InitWorkspaces(EmptyTree, o)
      BY <1>4 DEF Init
    <2>2. /\ GoodBut(tree, {})
          /\ tree.workspace = EmptyTree.workspace
          /\ tree.displayed = [EmptyTree.displayed EXCEPT ![o] = FirstWorkspace(o)]
      BY <1>2, <2>1, InitWorkspacesGood
    <2>3. o \in Present(tree)
      BY <1>2, <2>2, FirstWorkspaceIn, PresentGrows DEF GoodBut, Sound
    <2> QED
      BY <1>1, <1>2, <2>2, <2>3 DEF Init, Inv
  <1> QED
    BY <1>3, <1>4

LEMMA CreateViewInv ==
    ASSUME NEW headless \in BOOLEAN, Inv(headless), NEW v \in Views, CreateView(v)
    PROVE  Inv(headless)' /\ Steps /\ Stays
  <1>1. tree.workspace[v] = NULL
    BY DEF Inv, CreateView
  <1>2. /\ GoodBut(tree, {})' /\ tree'.workspace = tree.workspace
        /\ tree'.displayed = tree.displayed
    BY <1>1, InitContainerGood DEF Inv, CreateView
  <1> QED
    BY <1>2 DEF Inv, CreateView, Present, Revealed, Steps, Stays

\* The workspace a view is mapped into exists as soon as an output does.
LEMMA MapTargetIn ==
    ASSUME NEW headless \in BOOLEAN, Inv(headless),
           NEW full \in BOOLEAN, NEW out \in Present(tree) \cup {NULL},
           NEW hovered \in Hovered(tree)
    PROVE  /\ MapTarget(full, out, hovered) \in Workspaces \cup {NULL}
           /\ Present(tree) # {} => MapTarget(full, out, hovered) # NULL
           /\ LET w == MapTarget(full, out, hovered)
              IN  w # NULL => tree.displayed[OutputOf[w]] = w
  <1>1. NULL \notin Outputs
    BY TreeAssumption
  <1>2. tree.displayed \in [Outputs -> Workspaces \cup {NULL}]
    BY DEF Inv, GoodBut, Sound, Trees
  <1> DEFINE o == IF full /\ out # NULL THEN out ELSE hovered
  <1>3. o \in Present(tree) \/ (Present(tree) = {} /\ o = NULL)
    BY DEF Hovered
  <1>4. MapTarget(full, out, hovered) = IF o = NULL THEN NULL ELSE tree.displayed[o]
    BY DEF MapTarget
  <1>5. \A p \in Present(tree) : OutputOf[tree.displayed[p]] = p
    BY DEF Inv, GoodBut, OneDisplayed
  <1> HIDE DEF o
  <1> QED
    BY <1>1, <1>2, <1>3, <1>4, <1>5 DEF Present

LEMMA MapViewInv ==
    ASSUME NEW headless \in BOOLEAN, Inv(headless),
           NEW v \in Views, NEW full \in BOOLEAN, NEW floats \in BOOLEAN,
           NEW out \in Present(tree) \cup {NULL}, NEW hovered \in Hovered(tree),
           MapView(v, full, out, floats, hovered)
    PROVE  /\ Inv(headless)' /\ Steps
           /\ \A x \in Views \ {v} : tree.workspace[x] = NULL => tree'.workspace[x] = NULL
  <1> DEFINE w == MapTarget(full, out, hovered)
             s == SetFullscreen(tree, v, full)
             tiled == ~floats
             a == AddContainer(s, w, v, tiled)
             u == Arrange(a, w)
  <1>1. view[v] = "unmapped" /\ view' = [view EXCEPT ![v] = "mapped"] /\ GoodBut(tree, {})
    BY DEF MapView, Inv
  <1>2. tree.workspace[v] = NULL
    BY <1>1 DEF Inv
  <1>3. /\ w \in Workspaces \cup {NULL} /\ (Present(tree) # {} => w # NULL)
        /\ w # NULL => tree.displayed[OutputOf[w]] = w
    BY MapTargetIn
  <1>4. CASE w = NULL
    <2>1. UNCHANGED <<tree, activeView, aborted>> /\ headless
      BY <1>3, <1>4 DEF MapView, Inv
    <2> QED
      BY <1>1, <2>1 DEF Inv, Revealed, Steps, Stays
  <1>5. CASE w # NULL
    <2>1. Focus(u, v) /\ UNCHANGED aborted
      BY <1>2, <1>5 DEF MapView
    <2>2. w \in Workspaces
      BY <1>3, <1>5
    <2> HIDE DEF w
    <2>3. /\ GoodBut(s, {}) /\ s.workspace = tree.workspace
          /\ s.displayed = tree.displayed
      BY <1>1, <1>2, SetFullscreenGood
    <2> HIDE DEF s
    <2>a. tiled \in BOOLEAN /\ s.workspace[v] = NULL
      BY <1>2, <2>3
    <2> HIDE DEF tiled
    <2>4. /\ GoodBut(a, {} \cup {w}) /\ a.workspace = [tree.workspace EXCEPT ![v] = w]
          /\ a.displayed = tree.displayed
      BY <2>2, <2>3, <2>a, AddGood
    <2> HIDE DEF a
    <2>5. /\ GoodBut(u, ({} \cup {w}) \ {w})
          /\ u.workspace = [tree.workspace EXCEPT ![v] = w]
          /\ u.displayed = tree.displayed
      BY <2>2, <2>4, ArrangeGood
    <2>6. ({} \cup {w}) \ {w} = {}
      OBVIOUS
    <2> HIDE DEF u
    <2>7. tree' = Reveal(u, v) /\ activeView' = v
      BY <2>1 DEF Focus
    <2>9. tree.workspace \in [Views -> Workspaces \cup {NULL}]
      BY DEF Inv, GoodBut, Sound, Trees
    <2>b. u.workspace[v] = w /\ GoodBut(u, {}) /\ u.displayed[OutputOf[w]] = w
      BY <1>3, <1>5, <2>5, <2>6, <2>9
    <2>c. tree' = u
      BY <1>5, <2>7, <2>b, RevealGood
    <2>8. /\ GoodBut(tree, {})' /\ tree'.workspace = [tree.workspace EXCEPT ![v] = w]
          /\ Present(tree) \subseteq Present(tree') /\ tree'.displayed = tree.displayed
      BY <2>5, <2>b, <2>c DEF Present
    <2>10. \A x \in Views : /\ tree'.workspace[x] = IF x = v THEN w ELSE tree.workspace[x]
                            /\ view'[x] = IF x = v THEN "mapped" ELSE view[x]
      BY <1>1, <2>8, <2>9 DEF Inv
    <2>11. view' \in [Views -> {"none", "unmapped", "mapped"}]
      BY <1>1 DEF Inv
    <2> QED
      BY <1>3, <1>5, <2>1, <2>7, <2>8, <2>10, <2>11 DEF Inv, Steps, Revealed
  <1> QED
    BY <1>4, <1>5

LEMMA UnmapViewInv ==
    ASSUME NEW headless \in BOOLEAN, Inv(headless), NEW v \in Views, UnmapView(v)
    PROVE  Inv(headless)' /\ Steps /\ Stays
  <1> DEFINE w == tree.workspace[v]
             a == Leave(tree, v)
  <1>1. /\ GoodBut(tree, {}) /\ tree \in Trees /\ PlacedOnce(tree)
        /\ tree.workspace \in [Views -> Workspaces \cup {NULL}]
    BY DEF Inv, GoodBut, Sound, Trees
  <1>2. GoodBut(a, {} \cup {w})
    BY <1>1, LeaveGood
  <1>3. a.workspace = [tree.workspace EXCEPT ![v] = NULL] /\ a.displayed = tree.displayed
    BY <1>1, LeaveFields
  <1>4. tree' = IF w = NULL THEN a ELSE Arrange(a, w)
    BY DEF UnmapView, Unmapped
  <1>5. w \in Workspaces \cup {NULL}
    BY <1>1
  <1> HIDE DEF a, w
  <1>6. /\ GoodBut(tree, {})' /\ tree'.workspace = a.workspace
        /\ tree'.displayed = tree.displayed
    <2>1. CASE w = NULL
      <3>1. Workspaces \ ({} \cup {w}) = Workspaces \ {}
        BY <2>1, TreeAssumption
      <3>2. GoodBut(a, {})
        BY <1>2, <3>1 DEF GoodBut
      <3> QED
        BY <1>3, <1>4, <2>1, <3>2
    <2>2. CASE w # NULL
      <3>1. /\ GoodBut(Arrange(a, w), ({} \cup {w}) \ {w})
            /\ Arrange(a, w).workspace = a.workspace
            /\ Arrange(a, w).displayed = a.displayed
        BY <1>2, <1>5, <2>2, ArrangeGood
      <3>2. ({} \cup {w}) \ {w} = {}
        OBVIOUS
      <3> QED
        BY <1>3, <1>4, <2>2, <3>1, <3>2
    <2> QED
      BY <2>1, <2>2
  <1>7. view' = [view EXCEPT ![v] = "unmapped"] /\ UNCHANGED aborted
    BY DEF UnmapView
  <1>8. activeView' = IF activeView = v THEN NULL ELSE activeView
    BY DEF UnmapView, ActiveWithout
  <1>9. \A x \in Views : /\ tree'.workspace[x] = IF x = v THEN NULL ELSE tree.workspace[x]
                         /\ view'[x] = IF x = v THEN "unmapped" ELSE view[x]
    BY <1>1, <1>3, <1>6, <1>7 DEF Inv
  <1>10. view' \in [Views -> {"none", "unmapped", "mapped"}]
    BY <1>7 DEF Inv
  <1>11. NULL \notin Views
    BY TreeAssumption
  <1> QED
    BY <1>6, <1>7, <1>8, <1>9, <1>10, <1>11 DEF Inv, Present, Revealed, Steps, Stays

\* A container that is nowhere has no parent to leave.
LEMMA NoParentToLeave ==
    ASSUME NEW t \in Trees, NEW v \in Views, t.parent[v] = NULL
    PROVE  LeaveParent(t, v) = t
  <1>1. NULL \notin Workspaces
    BY TreeAssumption
  <1>2. [w \in Workspaces |-> IF w = t.parent[v] THEN ListRemove(t.children[w], v)
                                                  ELSE t.children[w]] = t.children
    BY <1>1 DEF Trees
  <1>3. [t.parent EXCEPT ![v] = NULL] = t.parent
    BY DEF Trees
  <1>4. LeaveParent(t, v) = [t EXCEPT !.children = t.children, !.parent = t.parent]
    BY <1>2, <1>3 DEF LeaveParent, Trees
  <1> QED
    BY <1>4 DEF Trees

LEMMA DestroyViewInv ==
    ASSUME NEW headless \in BOOLEAN, Inv(headless), NEW v \in Views, DestroyView(v)
    PROVE  Inv(headless)' /\ Steps /\ Stays
  <1>1. tree.workspace[v] = NULL
    BY DEF Inv, DestroyView
  <1>2. tree \in Trees /\ tree.parent[v] = NULL
    BY <1>1, NowhereNothing DEF Inv, GoodBut, Sound
  <1>3. tree' = InitContainer(tree, v)
    BY <1>2, NoParentToLeave DEF DestroyView
  <1>4. /\ GoodBut(tree, {})' /\ tree'.workspace = tree.workspace
        /\ tree'.displayed = tree.displayed
    BY <1>1, <1>3, InitContainerGood DEF Inv
  <1> QED
    BY <1>4 DEF Inv, DestroyView, Present, Revealed, Steps, Stays

\* The workspaces of containers, once v has moved to a workspace.
LEMMA StillPlaced ==
    ASSUME NEW headless \in BOOLEAN, Inv(headless),
           NEW v \in Views, tree.workspace[v] # NULL, NEW w \in Workspaces
    PROVE  \A x \in Views :
              [tree.workspace EXCEPT ![v] = w][x] = NULL <=> tree.workspace[x] = NULL
  <1>1. NULL \notin Workspaces
    BY TreeAssumption
  <1>2. tree.workspace \in [Views -> Workspaces \cup {NULL}]
    BY DEF Inv, GoodBut, Sound, Trees
  <1> QED
    BY <1>1, <1>2

LEMMA RequestFullscreenInv ==
    ASSUME NEW headless \in BOOLEAN, Inv(headless), NEW v \in Views, NEW full \in BOOLEAN,
           NEW out \in Present(tree) \cup {NULL}, RequestFullscreen(v, full, out)
    PROVE  Inv(headless)' /\ Steps /\ Stays
  <1> DEFINE old == tree.workspace[v]
             new == RequestTarget(v, full, out)
             moved == IF old = new THEN tree ELSE MoveToWorkspace(tree, v, new)
             applied == ApplyRequest(moved, v, new, full)
             first == Arrange(applied, old)
             u == Arrange(first, new)
  <1>1. /\ GoodBut(tree, {}) /\ NULL \notin Workspaces /\ NULL \notin Outputs
        /\ tree.workspace \in [Views -> Workspaces \cup {NULL}]
        /\ tree.displayed \in [Outputs -> Workspaces \cup {NULL}]
    BY TreeAssumption DEF Inv, GoodBut, Sound, Trees
  <1>2. new \in Workspaces \cup {NULL} /\ (new = NULL => old = NULL)
    BY <1>1 DEF RequestTarget, Present
  <1>3. UNCHANGED <<view, activeView>> /\ view[v] # "none"
    BY DEF RequestFullscreen
  <1>4. CASE view[v] = "unmapped" \/ new = NULL
    <2>1. old = NULL
      BY <1>2, <1>4 DEF Inv
    <2>2. tree' = SetFullscreen(tree, v, full) /\ UNCHANGED aborted
      BY <1>4 DEF RequestFullscreen
    <2>3. /\ GoodBut(tree, {})' /\ tree'.workspace = tree.workspace
          /\ tree'.displayed = tree.displayed
      BY <1>1, <2>1, <2>2, SetFullscreenGood
    <2> QED
      BY <1>3, <2>2, <2>3, InvStep DEF Present, Inv, Revealed, Steps, Stays
  <1>5. CASE view[v] # "unmapped" /\ new # NULL /\ old = NULL
    <2>1. view[v] = "mapped" /\ headless
      BY <1>3, <1>5 DEF Inv
    <2>2. aborted' = TRUE /\ UNCHANGED tree
      BY <1>5 DEF RequestFullscreen
    <2> QED
      BY <1>3, <2>1, <2>2 DEF Inv, Present, Revealed, Steps, Stays
  <1>6. CASE view[v] # "unmapped" /\ new # NULL /\ old # NULL
    <2>1. tree' = u /\ UNCHANGED aborted
      BY <1>6 DEF RequestFullscreen
    <2>2. old \in Workspaces /\ new \in Workspaces
      BY <1>1, <1>2, <1>6
    <2> HIDE DEF new
    <2>3. /\ GoodBut(moved, {old, new})
          /\ moved.workspace = [tree.workspace EXCEPT ![v] = new]
          /\ moved.displayed = tree.displayed
      <3>1. CASE old = new
        <4>1. GoodBut(tree, {old, new})
          BY <1>1 DEF GoodBut
        <4>2. [tree.workspace EXCEPT ![v] = new] = tree.workspace
          BY <1>1, <3>1
        <4> QED
          BY <3>1, <4>1, <4>2
      <3>2. CASE old # new
        <4>1. /\ GoodBut(MoveToWorkspace(tree, v, new), {} \cup {old, new})
              /\ MoveToWorkspace(tree, v, new).workspace = [tree.workspace EXCEPT ![v] = new]
              /\ MoveToWorkspace(tree, v, new).displayed = tree.displayed
          BY <1>1, <2>2, MoveGood
        <4>2. {} \cup {old, new} = {old, new}
          OBVIOUS
        <4> QED
          BY <3>2, <4>1, <4>2
      <3> QED
        BY <3>1, <3>2
    <2> HIDE DEF moved, old
    <2>4. moved.workspace[v] = new
      BY <1>1, <2>3
    <2>5. /\ GoodBut(applied, {old, new}) /\ applied.workspace = moved.workspace
          /\ applied.displayed = moved.displayed
      <3>1. {old, new} \cup {new} = {old, new}
        OBVIOUS
      <3>2. ASSUME NEW c \in {v, NULL}
            PROVE  /\ GoodBut(ChangeFullscreen(moved, new, c), {old, new})
                   /\ ChangeFullscreen(moved, new, c).workspace = moved.workspace
                   /\ ChangeFullscreen(moved, new, c).displayed = moved.displayed
        <4>1. c \in Views \cup {NULL} /\ (c \in Views => moved.workspace[c] = new)
          BY <2>4, TreeAssumption
        <4>2. /\ GoodBut(ChangeFullscreen(moved, new, c), {old, new} \cup {new})
              /\ ChangeFullscreen(moved, new, c).workspace = moved.workspace
              /\ ChangeFullscreen(moved, new, c).displayed = moved.displayed
          BY <2>2, <2>3, <4>1, ChangeFullscreenGood
        <4> QED
          BY <3>1, <4>2
      <3> QED
        BY <2>3, <3>2 DEF ApplyRequest
    <2> HIDE DEF applied
    <2>6. /\ GoodBut(first, {old, new} \ {old}) /\ first.workspace = applied.workspace
          /\ first.displayed = applied.displayed
      BY <2>2, <2>5, ArrangeGood DEF old
    <2> HIDE DEF first
    <2>7. /\ GoodBut(u, ({old, new} \ {old}) \ {new}) /\ u.workspace = first.workspace
          /\ u.displayed = first.displayed
      BY <2>2, <2>6, ArrangeGood
    <2>8. ({old, new} \ {old}) \ {new} = {}
      OBVIOUS
    <2> HIDE DEF u
    <2>9. \A x \in Views : tree'.workspace[x] = NULL <=> tree.workspace[x] = NULL
      BY <1>6, <2>1, <2>2, <2>3, <2>5, <2>6, <2>7, StillPlaced DEF old
    <2> QED
      BY <1>3, <2>1, <2>3, <2>5, <2>6, <2>7, <2>8, <2>9, InvStep
      DEF Present, Inv, Revealed, Steps, Stays
  <1> QED
    BY <1>4, <1>5, <1>6

\* The events that make v active: a taskbar's request and the pointer.
LEMMA FocusInv ==
    ASSUME NEW headless \in BOOLEAN, Inv(headless),
           NEW v \in Views, view[v] = "mapped", Focus(tree, v),
           UNCHANGED <<view, aborted>>
    PROVE  Inv(headless)' /\ Steps /\ Stays
  <1>1. tree' = Reveal(tree, v) /\ activeView' = v
    BY DEF Focus
  <1>2. /\ GoodBut(tree, {})' /\ tree'.workspace = tree.workspace
        /\ Present(tree) \subseteq Present(tree')
    BY <1>1, RevealGood DEF Inv
  <1>3. Revealed
    BY <1>1, <1>2, RevealGood DEF Inv, Revealed
  <1> QED
    BY <1>1, <1>2, <1>3, InvStep DEF Inv

LEMMA PointerMotionInv ==
    ASSUME NEW headless \in BOOLEAN, Inv(headless), NEW v \in Views, PointerMotion(v)
    PROVE  Inv(headless)' /\ Steps /\ Stays
  <1>1. tree.workspace[v] # NULL
    BY OnScreenPlaced, TreeAssumption DEF Inv, PointerMotion
  <1> QED
    BY <1>1, FocusInv DEF Inv, PointerMotion

\* A handler that shows w on its output, or arranges, or both.
LEMMA DisplayInv ==
    ASSUME NEW headless \in BOOLEAN, Inv(headless),
           NEW w \in Workspaces, tree' = Display(tree, OutputOf[w], w),
           UNCHANGED <<view, activeView, aborted>>
    PROVE  Inv(headless)' /\ Steps /\ Stays
  <1>1. /\ GoodBut(tree, {})' /\ tree'.workspace = tree.workspace
        /\ tree'.displayed = [tree.displayed EXCEPT ![OutputOf[w]] = w]
    BY DisplayGood DEF Inv
  <1>2. Present(tree) \subseteq Present(tree')
    BY <1>1, PresentGrows, TreeAssumption DEF Inv, GoodBut, Sound
  <1> QED
    BY <1>1, <1>2, InvStep DEF Inv, Revealed, Steps, Stays

LEMMA AddOutputInv ==
    ASSUME NEW headless \in BOOLEAN, Inv(headless), NEW o \in Outputs, AddOutput(o)
    PROVE  Inv(headless)' /\ Steps /\ Stays
  <1>1. /\ GoodBut(tree, {})' /\ tree'.workspace = tree.workspace
        /\ tree'.displayed = [tree.displayed EXCEPT ![o] = FirstWorkspace(o)]
    BY InitWorkspacesGood DEF Inv, AddOutput
  <1>2. Present(tree) \subseteq Present(tree')
    BY <1>1, FirstWorkspaceIn, PresentGrows DEF Inv, GoodBut, Sound
  <1> QED
    BY <1>1, <1>2, InvStep DEF Inv, AddOutput, Revealed, Steps, Stays

LEMMA ArrangeOutputInv ==
    ASSUME NEW headless \in BOOLEAN, Inv(headless), NEW o \in Outputs, ArrangeOutput(o)
    PROVE  Inv(headless)' /\ Steps /\ Stays
  <1> DEFINE w == tree.displayed[o]
  <1>1. w \in Workspaces /\ GoodBut(tree, {})
    BY DEF Inv, GoodBut, Sound, Trees, ArrangeOutput, Present
  <1> HIDE DEF w
  <1>2. /\ GoodBut(tree', {} \ {w}) /\ tree'.workspace = tree.workspace
        /\ tree'.displayed = tree.displayed
    BY <1>1, ArrangeGood DEF ArrangeOutput, w
  <1>3. {} \ {w} = {}
    OBVIOUS
  <1> QED
    BY <1>2, <1>3, InvStep DEF Inv, ArrangeOutput, Present, Revealed, Steps, Stays

(***************************************************************************)
(* The commands                                                            *)
(***************************************************************************)

\* A command changes the tree around the active container, in its workspace w,
\* and arranges w.
LEMMA CommandInv ==
    ASSUME NEW headless \in BOOLEAN, Inv(headless),
           NEW w \in Workspaces, NEW a, GoodBut(a, {} \cup {w}),
           a.workspace = tree.workspace, a.displayed = tree.displayed,
           tree' = Arrange(a, w), UNCHANGED <<view, activeView, aborted>>
    PROVE  Inv(headless)' /\ Steps /\ Stays
  <1>1. /\ GoodBut(tree', ({} \cup {w}) \ {w}) /\ tree'.workspace = tree.workspace
        /\ tree'.displayed = tree.displayed
    BY ArrangeGood
  <1>2. ({} \cup {w}) \ {w} = {}
    OBVIOUS
  <1> QED
    BY <1>1, <1>2, InvStep DEF Inv, Present, Revealed, Steps, Stays

LEMMA ToggleTiledInv ==
    ASSUME NEW headless \in BOOLEAN, Inv(headless), ToggleTiled
    PROVE  Inv(headless)' /\ Steps /\ Stays
  <1> DEFINE v == activeView
             w == tree.workspace[v]
             tiled == ~IsTiled(tree, v)
             a == ChangeTiling(tree, v, tiled)
  <1>1. v \in Views /\ w \in Workspaces /\ GoodBut(tree, {}) /\ tiled \in BOOLEAN
    BY DEF Inv, GoodBut, Sound, Trees, ToggleTiled
  <1>2. tree' = Arrange(a, w) /\ UNCHANGED <<view, activeView, aborted>>
    BY DEF ToggleTiled
  <1> HIDE DEF tiled
  <1>3. /\ GoodBut(a, {} \cup {w}) /\ a.workspace = tree.workspace
        /\ a.displayed = tree.displayed
    BY <1>1, ChangeTilingGood
  <1> HIDE DEF a, w
  <1> QED
    BY <1>1, <1>2, <1>3, CommandInv

LEMMA ToggleFullscreenInv ==
    ASSUME NEW headless \in BOOLEAN, Inv(headless), ToggleFullscreen
    PROVE  Inv(headless)' /\ Steps /\ Stays
  <1> DEFINE v == activeView
             w == tree.workspace[v]
             c == IF tree.fsContainer[w] = v THEN NULL ELSE v
             a == ChangeFullscreen(tree, w, c)
  <1>1. v \in Views /\ w \in Workspaces /\ GoodBut(tree, {})
    BY DEF Inv, GoodBut, Sound, Trees, ToggleFullscreen
  <1>2. tree' = Arrange(a, w) /\ UNCHANGED <<view, activeView, aborted>>
    BY DEF ToggleFullscreen
  <1>3. c \in Views \cup {NULL} /\ (c \in Views => tree.workspace[c] = w)
    BY <1>1, TreeAssumption
  <1> HIDE DEF c
  <1>4. /\ GoodBut(a, {} \cup {w}) /\ a.workspace = tree.workspace
        /\ a.displayed = tree.displayed
    BY <1>1, <1>3, ChangeFullscreenGood
  <1> HIDE DEF a, w
  <1> QED
    BY <1>1, <1>2, <1>4, CommandInv

LEMMA SwitchTilingModeInv ==
    ASSUME NEW headless \in BOOLEAN, Inv(headless), SwitchTilingMode
    PROVE  Inv(headless)' /\ Steps /\ Stays
  <1> DEFINE w == tree.parent[activeView]
  <1>1. w \in Workspaces /\ GoodBut(tree, {})
    BY DEF Inv, GoodBut, Sound, Trees, SwitchTilingMode, IsTiled
  <1>2. tree' = ArrangeRoot(tree, w) /\ UNCHANGED <<view, activeView, aborted>>
    BY DEF SwitchTilingMode
  <1> HIDE DEF w
  <1>3. /\ GoodBut(tree, {})' /\ tree'.workspace = tree.workspace
        /\ tree'.displayed = tree.displayed
    BY <1>1, <1>2, ArrangeRootGood
  <1> QED
    BY <1>2, <1>3, InvStep DEF Inv, Present, Revealed, Steps, Stays

LEMMA ShowNextWorkspaceInv ==
    ASSUME NEW headless \in BOOLEAN, Inv(headless),
           NEW hovered \in Hovered(tree), ShowNextWorkspace(hovered)
    PROVE  Inv(headless)' /\ Steps /\ Stays
  <1>1. NULL \notin Outputs
    BY TreeAssumption
  <1>2. CASE hovered = NULL
    <2>1. headless
      BY <1>1, <1>2 DEF Inv, Hovered, Present
    <2> QED
      BY <1>2, <2>1 DEF ShowNextWorkspace, Inv, Present, Revealed, Steps, Stays
  <1>3. CASE hovered # NULL
    <2> DEFINE w == NextWorkspace(tree.displayed[hovered])
               d == Display(tree, hovered, w)
    <2>1. hovered \in Present(tree) /\ GoodBut(tree, {}) /\ tree \in Trees
      BY <1>3 DEF Hovered, Inv, GoodBut, Sound
    <2>2. hovered \in Outputs /\ OutputOf[tree.displayed[hovered]] = hovered
          /\ tree.displayed[hovered] \in Workspaces
      BY <2>1 DEF GoodBut, OneDisplayed, Trees, Present
    <2>3. w \in Workspaces /\ OutputOf[w] = hovered
      BY <2>2, NextWorkspaceIn
    <2>4. FocusHovered(d) /\ UNCHANGED <<view, aborted>>
      BY <1>3 DEF ShowNextWorkspace
    <2> HIDE DEF w
    <2>5. /\ GoodBut(d, {}) /\ d.workspace = tree.workspace
          /\ d.displayed = [tree.displayed EXCEPT ![hovered] = w]
      BY <2>1, <2>3, DisplayGood
    <2> HIDE DEF d
    <2>6. Present(tree) \subseteq Present(d)
      BY <2>1, <2>2, <2>3, <2>5, PresentGrows
    <2>7. /\ GoodBut(tree, {})' /\ tree'.workspace = d.workspace
          /\ Present(d) \subseteq Present(tree')
          /\ activeView' \in Views \cup {NULL}
          /\ \A v \in Views : activeView' = v => activeView = v \/ d.workspace[v] # NULL
          /\ Revealed
      BY <2>4, <2>5, FocusHoveredGood
    <2> QED
      BY <2>4, <2>5, <2>6, <2>7, InvStep DEF Inv
  <1> QED
    BY <1>2, <1>3

LEMMA MoveToNextWorkspaceInv ==
    ASSUME NEW headless \in BOOLEAN, Inv(headless), MoveToNextWorkspace
    PROVE  Inv(headless)' /\ Steps /\ Stays
  <1> DEFINE v == activeView
             old == tree.workspace[v]
             new == NextWorkspace(old)
             moved == MoveToWorkspace(tree, v, new)
             first == Arrange(moved, old)
             u == Arrange(first, new)
  <1>1. v \in Views /\ old \in Workspaces /\ GoodBut(tree, {})
    BY DEF Inv, GoodBut, Sound, Trees, MoveToNextWorkspace
  <1>2. new \in Workspaces
    BY <1>1, NextWorkspaceIn
  <1>3. FocusHovered(u) /\ UNCHANGED <<view, aborted>>
    BY DEF MoveToNextWorkspace
  <1> HIDE DEF new
  <1>4. /\ GoodBut(moved, {} \cup {old, new})
        /\ moved.workspace = [tree.workspace EXCEPT ![v] = new]
        /\ moved.displayed = tree.displayed
    BY <1>1, <1>2, MoveGood
  <1> HIDE DEF moved
  <1>5. /\ GoodBut(first, ({} \cup {old, new}) \ {old}) /\ first.workspace = moved.workspace
        /\ first.displayed = moved.displayed
    BY <1>1, <1>4, ArrangeGood
  <1> HIDE DEF first
  <1>6. /\ GoodBut(u, (({} \cup {old, new}) \ {old}) \ {new}) /\ u.workspace = first.workspace
        /\ u.displayed = first.displayed
    BY <1>2, <1>5, ArrangeGood
  <1>7. (({} \cup {old, new}) \ {old}) \ {new} = {}
    OBVIOUS
  <1> HIDE DEF u
  <1>8. GoodBut(u, {})
    BY <1>6, <1>7
  <1>9. /\ GoodBut(tree, {})' /\ tree'.workspace = u.workspace
        /\ Present(u) \subseteq Present(tree')
        /\ activeView' \in Views \cup {NULL}
        /\ \A x \in Views : activeView' = x => activeView = x \/ u.workspace[x] # NULL
        /\ Revealed
    BY <1>3, <1>8, FocusHoveredGood
  <1>10. \A x \in Views : u.workspace[x] = NULL <=> tree.workspace[x] = NULL
    BY <1>1, <1>2, <1>4, <1>5, <1>6, StillPlaced, TreeAssumption
  <1>11. Present(tree) \subseteq Present(tree')
    BY <1>4, <1>5, <1>6, <1>9 DEF Present
  <1> QED
    BY <1>3, <1>9, <1>10, <1>11, InvStep DEF Inv

\* What is left of the tree when an output is unplugged.
LEMMA WithoutOutputFields ==
    ASSUME NEW t \in Trees, NEW o \in Outputs
    PROVE  LET u == WithoutOutput(t, o)
               freed == DestroyedWith(t, o)
               there == WorkspacesOn(o)
           IN  /\ u \in Trees
               /\ \A v \in freed \cap Views :
                     /\ u.workspace[v] = NULL /\ u.parent[v] = NULL
                     /\ ~u.fullscreen[v] /\ u.node[v] = Pending
               /\ \A v \in Views \ freed :
                     /\ u.workspace[v] = t.workspace[v] /\ u.parent[v] = t.parent[v]
                     /\ u.fullscreen[v] = t.fullscreen[v] /\ u.node[v] = t.node[v]
               /\ \A w \in there \cap Workspaces :
                     /\ u.children[w] = <<>> /\ u.floating[w] = <<>> /\ u.fsContainer[w] = NULL
                     /\ ~u.activated[w] /\ u.enabled[w] = "none"
               /\ \A w \in Workspaces \ there :
                     /\ u.children[w] = t.children[w] /\ u.floating[w] = t.floating[w]
                     /\ u.fsContainer[w] = t.fsContainer[w]
                     /\ u.activated[w] = t.activated[w] /\ u.enabled[w] = t.enabled[w]
               /\ u.displayed = [t.displayed EXCEPT ![o] = NULL]
  <1> DEFINE freed == DestroyedWith(t, o)
             there == WorkspacesOn(o)
  <1> HIDE DEF freed, there
  <1>1. WithoutOutput(t, o) =
           [workspace   |-> [v \in Views |-> IF v \in freed THEN NULL ELSE t.workspace[v]],
            parent      |-> [v \in Views |-> IF v \in freed THEN NULL ELSE t.parent[v]],
            fullscreen  |-> [v \in Views |-> IF v \in freed THEN FALSE ELSE t.fullscreen[v]],
            node        |-> [v \in Views |-> IF v \in freed THEN Pending ELSE t.node[v]],
            children    |-> [w \in Workspaces |-> IF w \in there THEN <<>> ELSE t.children[w]],
            floating    |-> [w \in Workspaces |-> IF w \in there THEN <<>> ELSE t.floating[w]],
            fsContainer |-> [w \in Workspaces |-> IF w \in there THEN NULL ELSE t.fsContainer[w]],
            activated   |-> [w \in Workspaces |-> IF w \in there THEN FALSE ELSE t.activated[w]],
            enabled     |-> [w \in Workspaces |-> IF w \in there THEN "none" ELSE t.enabled[w]],
            displayed   |-> [t.displayed EXCEPT ![o] = NULL]]
    BY DEF WithoutOutput, freed, there
  <1>2. <<>> \in Seq(Views) /\ Pending \in (Layers \X Workspaces) \cup {Pending}
    OBVIOUS
  <1>3. /\ t.workspace \in [Views -> Workspaces \cup {NULL}]
        /\ t.parent \in [Views -> Workspaces \cup {NULL}]
        /\ t.fullscreen \in [Views -> BOOLEAN]
        /\ t.node \in [Views -> (Layers \X Workspaces) \cup {Pending}]
        /\ t.children \in [Workspaces -> Seq(Views)]
        /\ t.floating \in [Workspaces -> Seq(Views)]
        /\ t.fsContainer \in [Workspaces -> Views \cup {NULL}]
        /\ t.activated \in [Workspaces -> BOOLEAN]
        /\ t.enabled \in [Workspaces -> {"none", "desktop", "fullscreen"}]
        /\ t.displayed \in [Outputs -> Workspaces \cup {NULL}]
    BY DEF Trees
  <1>4. /\ [v \in Views |-> IF v \in freed THEN NULL ELSE t.workspace[v]]
              \in [Views -> Workspaces \cup {NULL}]
        /\ [v \in Views |-> IF v \in freed THEN NULL ELSE t.parent[v]]
              \in [Views -> Workspaces \cup {NULL}]
        /\ [v \in Views |-> IF v \in freed THEN FALSE ELSE t.fullscreen[v]]
              \in [Views -> BOOLEAN]
    BY <1>3
  <1>5. [v \in Views |-> IF v \in freed THEN Pending ELSE t.node[v]]
              \in [Views -> (Layers \X Workspaces) \cup {Pending}]
    <2> HIDE DEF Pending, Layers
    <2> QED
      BY <1>2, <1>3
  <1>6. /\ [w \in Workspaces |-> IF w \in there THEN <<>> ELSE t.children[w]]
              \in [Workspaces -> Seq(Views)]
        /\ [w \in Workspaces |-> IF w \in there THEN <<>> ELSE t.floating[w]]
              \in [Workspaces -> Seq(Views)]
    BY <1>2, <1>3
  <1>7. /\ [w \in Workspaces |-> IF w \in there THEN NULL ELSE t.fsContainer[w]]
              \in [Workspaces -> Views \cup {NULL}]
        /\ [w \in Workspaces |-> IF w \in there THEN FALSE ELSE t.activated[w]]
              \in [Workspaces -> BOOLEAN]
        /\ [w \in Workspaces |-> IF w \in there THEN "none" ELSE t.enabled[w]]
              \in [Workspaces -> {"none", "desktop", "fullscreen"}]
        /\ [t.displayed EXCEPT ![o] = NULL] \in [Outputs -> Workspaces \cup {NULL}]
    BY <1>3
  <1>8. WithoutOutput(t, o) \in Trees
    <2> DEFINE workspace == [v \in Views |-> IF v \in freed THEN NULL ELSE t.workspace[v]]
               parent == [v \in Views |-> IF v \in freed THEN NULL ELSE t.parent[v]]
               fullscreen == [v \in Views |-> IF v \in freed THEN FALSE ELSE t.fullscreen[v]]
               node == [v \in Views |-> IF v \in freed THEN Pending ELSE t.node[v]]
               children == [w \in Workspaces |-> IF w \in there THEN <<>> ELSE t.children[w]]
               floating == [w \in Workspaces |-> IF w \in there THEN <<>> ELSE t.floating[w]]
               fsContainer ==
                   [w \in Workspaces |-> IF w \in there THEN NULL ELSE t.fsContainer[w]]
               activated == [w \in Workspaces |-> IF w \in there THEN FALSE ELSE t.activated[w]]
               enabled == [w \in Workspaces |-> IF w \in there THEN "none" ELSE t.enabled[w]]
               displayed == [t.displayed EXCEPT ![o] = NULL]
    <2>1. WithoutOutput(t, o) =
             [workspace |-> workspace, parent |-> parent, fullscreen |-> fullscreen,
              node |-> node, children |-> children, floating |-> floating,
              fsContainer |-> fsContainer, activated |-> activated, enabled |-> enabled,
              displayed |-> displayed]
      BY <1>1
    <2>2. /\ workspace \in [Views -> Workspaces \cup {NULL}]
          /\ parent \in [Views -> Workspaces \cup {NULL}]
          /\ fullscreen \in [Views -> BOOLEAN]
          /\ node \in [Views -> (Layers \X Workspaces) \cup {Pending}]
          /\ children \in [Workspaces -> Seq(Views)]
          /\ floating \in [Workspaces -> Seq(Views)]
          /\ fsContainer \in [Workspaces -> Views \cup {NULL}]
          /\ activated \in [Workspaces -> BOOLEAN]
          /\ enabled \in [Workspaces -> {"none", "desktop", "fullscreen"}]
          /\ displayed \in [Outputs -> Workspaces \cup {NULL}]
      BY <1>4, <1>5, <1>6, <1>7
    <2> HIDE DEF workspace, parent, fullscreen, node, children, floating, fsContainer,
                 activated, enabled, displayed
    <2> QED
      BY <2>1, <2>2 DEF Trees
  <1> DEFINE u == WithoutOutput(t, o)
  <1> HIDE DEF u
  <1>9. /\ \A v \in freed \cap Views :
              u.workspace[v] = NULL /\ u.parent[v] = NULL /\ ~u.fullscreen[v] /\ u.node[v] = Pending
        /\ \A v \in Views \ freed :
              /\ u.workspace[v] = t.workspace[v] /\ u.parent[v] = t.parent[v]
              /\ u.fullscreen[v] = t.fullscreen[v] /\ u.node[v] = t.node[v]
    BY <1>1 DEF u
  <1>10. /\ \A w \in there \cap Workspaces :
               /\ u.children[w] = <<>> /\ u.floating[w] = <<>> /\ u.fsContainer[w] = NULL
               /\ ~u.activated[w] /\ u.enabled[w] = "none"
         /\ \A w \in Workspaces \ there :
               /\ u.children[w] = t.children[w] /\ u.floating[w] = t.floating[w]
               /\ u.fsContainer[w] = t.fsContainer[w]
               /\ u.activated[w] = t.activated[w] /\ u.enabled[w] = t.enabled[w]
    BY <1>1 DEF u
  <1>11. u.displayed = [t.displayed EXCEPT ![o] = NULL]
    BY <1>1 DEF u
  <1> QED
    BY <1>8, <1>9, <1>10, <1>11 DEF freed, there, u

-----------------------------------------------------------------------------
(***************************************************************************)
(* The theorems                                                            *)
(***************************************************************************)

LEMMA NextInv ==
    ASSUME NEW headless \in BOOLEAN, Inv(headless), [Next]_vars
    PROVE  Inv(headless)' /\ Steps
  <1>1. CASE UNCHANGED vars
    BY <1>1 DEF Inv, vars, Steps, Revealed
  <1>2. ASSUME NEW v \in Views, ViewEvent(v) PROVE Inv(headless)' /\ Steps
    <2>1. CASE CreateView(v)
      BY <2>1, CreateViewInv
    <2>2. ASSUME NEW full \in BOOLEAN, NEW floats \in BOOLEAN,
                 NEW out \in Present(tree) \cup {NULL}, NEW hovered \in Hovered(tree),
                 MapView(v, full, out, floats, hovered)
          PROVE  Inv(headless)' /\ Steps
      BY <2>2, MapViewInv
    <2>3. CASE UnmapView(v)
      BY <2>3, UnmapViewInv
    <2>4. CASE DestroyView(v)
      BY <2>4, DestroyViewInv
    <2>5. ASSUME NEW full \in BOOLEAN, NEW out \in Present(tree) \cup {NULL},
                 RequestFullscreen(v, full, out)
          PROVE  Inv(headless)' /\ Steps
      BY <2>5, RequestFullscreenInv
    <2>6. CASE RequestActivate(v)
      BY <2>6, FocusInv DEF RequestActivate
    <2>7. CASE PointerMotion(v)
      BY <2>7, PointerMotionInv
    <2> QED
      BY <1>2, <2>1, <2>2, <2>3, <2>4, <2>5, <2>6, <2>7 DEF ViewEvent
  <1>3. ASSUME NEW w \in Workspaces, ActivateWorkspace(w) PROVE Inv(headless)' /\ Steps
    BY <1>3, DisplayInv DEF ActivateWorkspace
  <1>4. ASSUME NEW o \in Outputs, AddOutput(o) \/ ArrangeOutput(o) PROVE Inv(headless)' /\ Steps
    BY <1>4, AddOutputInv, ArrangeOutputInv
  <1>5. CASE Command
    BY <1>5, ToggleTiledInv, SwitchTilingModeInv, ToggleFullscreenInv,
       ShowNextWorkspaceInv, MoveToNextWorkspaceInv DEF Command
  <1> QED
    BY <1>1, <1>2, <1>3, <1>4, <1>5 DEF Next

LEMMA SpecInv == Spec => []Inv(Headless)
  <1>1. Inv(Headless) /\ [Next]_vars => Inv(Headless)'
    BY HeadlessAssumption, NextInv
  <1> QED
    BY <1>1, InitInv, PTL DEF Spec

\* Every variable always has its type.
THEOREM TypeCorrect == Spec => []TypeOK
  <1>1. Inv(Headless) => TypeOK
    BY DEF Inv, GoodBut, Sound, TypeOK
  <1> QED
    BY <1>1, SpecInv, PTL

\* In every reachable state a container is in exactly the one list its fields
\* say, whatever the number of views, outputs and workspaces.
THEOREM Placed == Spec => []WellPlaced
  <1>1. Inv(Headless) => WellPlaced
    BY DEF Inv, GoodBut, Sound, WellPlaced
  <1> QED
    BY <1>1, SpecInv, PTL

\* The containers' fullscreen flags and the workspaces' fullscreen containers
\* always agree.
THEOREM FullscreenConsistent == Spec => []FullscreenAgrees
  <1>1. Inv(Headless) => FullscreenAgrees
    BY DEF Inv, GoodBut, Sound, FullscreenAgrees
  <1> QED
    BY <1>1, SpecInv, PTL

\* An output always displays one workspace of its own, the only active one, with
\* the layers its fullscreen container calls for.
THEOREM DisplayConsistent == Spec => []DisplayAgrees
  <1>1. Inv(Headless) => DisplayAgrees
    BY DEF Inv, GoodBut, DisplayAgrees
  <1> QED
    BY <1>1, SpecInv, PTL

\* A scene node never hangs in a workspace its container is not in.
THEOREM NodesOwned == Spec => []NoStrayNode
  <1>1. Inv(Headless) => NoStrayNode
    BY DEF Inv, GoodBut, NoStrayNode
  <1> QED
    BY <1>1, SpecInv, PTL

\* Whatever a handler unsettled it has arranged when it returns.
THEOREM AlwaysSettled == Spec => []Settled
  <1>1. Inv(Headless) => Settled
    BY DEF Inv, GoodBut, Settled
  <1> QED
    BY <1>1, SpecInv, PTL

\* A view that is not mapped is in no workspace and is not active.
THEOREM NoneLeftBehind == Spec => []NothingLeftBehind
  <1>1. Inv(Headless) => NothingLeftBehind
    <2> SUFFICES ASSUME Inv(Headless), NEW v \in Views, view[v] # "mapped"
                 PROVE  /\ tree.workspace[v] = NULL /\ tree.parent[v] = NULL
                        /\ activeView # v
      BY DEF NothingLeftBehind
    <2>1. tree.workspace[v] = NULL /\ activeView # v
      BY DEF Inv
    <2> QED
      BY <2>1 DEF Inv, GoodBut, Sound, PlacedOnce
  <1> QED
    BY <1>1, SpecInv, PTL

\* A container that becomes active is on a displayed workspace when the handler
\* returns, whatever made it active.
THEOREM ActiveRevealed == Spec => FocusReveals
  <1>1. ASSUME Inv(Headless), [Next]_vars PROVE [Revealed]_vars
    BY <1>1, HeadlessAssumption, NextInv DEF Steps
  <1>2. FocusReveals <=> [][Revealed]_vars
    BY DEF FocusReveals, Revealed
  <1> HIDE DEF Revealed
  <1> QED
    BY <1>1, <1>2, SpecInv, PTL DEF Spec

\* A view that is created, mapped, unmapped or destroyed never switches the workspace
\* an output displays.
THEOREM DisplayedKept == Spec => ViewsComeAndGo
  <1>1. ASSUME Inv(Headless), [Next]_vars
        PROVE  [view' # view => tree'.displayed = tree.displayed]_vars
    BY <1>1, HeadlessAssumption, NextInv DEF Steps
  <1> QED
    BY <1>1, SpecInv, PTL DEF Spec, ViewsComeAndGo

\* A compositor that has an output from the start runs into no assertion and
\* follows no null pointer.
THEOREM NeverAborts ==
    ASSUME ~Headless
    PROVE  Spec => []NoAbort
  <1>1. Inv(Headless) => NoAbort
    BY DEF Inv, NoAbort
  <1> QED
    BY <1>1, SpecInv, PTL
-----------------------------------------------------------------------------
(***************************************************************************)
(* The container tree implements Placement: every handler is a step of     *)
(* Placement, or leaves what Placement knows of the tree as it was.        *)
(***************************************************************************)

\* What Placement knows of tree t.
PlaceIn(t) ==
    [v \in Views |->
        IF t.workspace[v] = NULL THEN NULL
        ELSE [workspace |-> t.workspace[v], tiled |-> IsTiled(t, v)]]

FullIn(t) == t.fsContainer

SamePlaces(t, u) ==
    u.workspace = t.workspace /\ u.parent = t.parent /\ u.fsContainer = t.fsContainer

\* A step of Placement, or none.
AbstractStep == Abstract!Next \/ (PlaceIn(tree') = PlaceIn(tree) /\ FullIn(tree') = FullIn(tree))

\* The fullscreen containers once v is placed in w, fullscreen or not.
FullWith(t, v, w, full) ==
    [x \in Workspaces |->
        IF full /\ x = w THEN v ELSE IF t.fsContainer[x] = v THEN NULL ELSE t.fsContainer[x]]

-----------------------------------------------------------------------------
(***************************************************************************)
(* Functions of the tree that place nothing                                *)
(***************************************************************************)

LEMMA SameArrange ==
    ASSUME NEW t \in Trees, NEW w \in Workspaces
    PROVE  Arrange(t, w) \in Trees /\ SamePlaces(t, Arrange(t, w))
  BY ArrangeFields DEF SamePlaces

LEMMA SameArrangeRoot ==
    ASSUME NEW t \in Trees, NEW w \in Workspaces
    PROVE  SamePlaces(t, ArrangeRoot(t, w))
  BY DEF SamePlaces, ArrangeRoot, Trees

LEMMA SameDisplay ==
    ASSUME NEW t \in Trees, NEW o \in Outputs, NEW w \in Workspaces
    PROVE  Display(t, o, w) \in Trees /\ SamePlaces(t, Display(t, o, w))
  <1> DEFINE hidden == IF t.displayed[o] = NULL THEN t
                       ELSE SetActivated(t, t.displayed[o], FALSE)
             shown == [hidden EXCEPT !.displayed[o] = w]
             active == SetActivated(shown, w, TRUE)
  <1>1. hidden \in Trees /\ SamePlaces(t, hidden)
    <2>1. t.displayed[o] \in Workspaces \cup {NULL}
      BY DEF Trees
    <2> QED
      BY <2>1, SetActivatedFields DEF SamePlaces
  <1> HIDE DEF hidden
  <1>2. shown \in Trees /\ SamePlaces(hidden, shown)
    BY <1>1 DEF SamePlaces, Trees
  <1> HIDE DEF shown
  <1>3. active \in Trees /\ SamePlaces(shown, active)
    BY <1>2, SetActivatedFields DEF SamePlaces
  <1> HIDE DEF active
  <1>4. Arrange(active, w) \in Trees /\ SamePlaces(active, Arrange(active, w))
    BY <1>3, SameArrange
  <1>5. Display(t, o, w) = IF t.activated[w] THEN t ELSE Arrange(active, w)
    BY DEF Display, hidden, shown, active
  <1> QED
    BY <1>1, <1>2, <1>3, <1>4, <1>5 DEF SamePlaces

LEMMA SameReveal ==
    ASSUME NEW t \in Trees, NEW v \in Views
    PROVE  Reveal(t, v) \in Trees /\ SamePlaces(t, Reveal(t, v))
  <1>1. t.workspace[v] # NULL =>
            t.workspace[v] \in Workspaces /\ OutputOf[t.workspace[v]] \in Outputs
    BY TreeAssumption DEF Trees
  <1> QED
    BY <1>1, SameDisplay DEF Reveal, SamePlaces

LEMMA SameFocusHovered ==
    ASSUME NEW t \in Trees, FocusHovered(t)
    PROVE  SamePlaces(t, tree')
  BY SameReveal DEF FocusHovered, Focus, SamePlaces

LEMMA SameIsNoStep ==
    ASSUME SamePlaces(tree, tree')
    PROVE  AbstractStep
  BY DEF SamePlaces, AbstractStep, PlaceIn, FullIn, IsTiled

-----------------------------------------------------------------------------
(***************************************************************************)
(* Functions of the tree that place a container                            *)
(***************************************************************************)

LEMMA ChangeFullscreenPlaces ==
    ASSUME NEW t \in Trees, NEW w \in Workspaces, NEW v \in Views \cup {NULL}
    PROVE  LET u == ChangeFullscreen(t, w, v) IN
           /\ u \in Trees
           /\ u.workspace = t.workspace /\ u.parent = t.parent
           /\ u.fsContainer = [t.fsContainer EXCEPT ![w] = v]
           /\ v \in Views => u.fullscreen[v]
  BY DEF ChangeFullscreen, Trees

LEMMA AddPlaces ==
    ASSUME NEW t \in Trees, NEW v \in Views, t.workspace[v] = NULL, t.parent[v] = NULL,
           NEW w \in Workspaces, NEW tiled \in BOOLEAN
    PROVE  LET u == AddContainer(t, w, v, tiled) IN
           /\ u \in Trees
           /\ u.workspace = [t.workspace EXCEPT ![v] = w]
           /\ u.parent = [t.parent EXCEPT ![v] = IF tiled THEN w ELSE NULL]
           /\ t.fullscreen[v] => u.fsContainer = [t.fsContainer EXCEPT ![w] = v]
           /\ ~t.fullscreen[v] => u.fsContainer = t.fsContainer
           /\ u.fullscreen[v] <=> t.fullscreen[v]
  <1> DEFINE a == IF tiled THEN InsertTiled(t, w, v) ELSE InsertFloating(t, w, v)
  <1>1. /\ a \in Trees
        /\ a.workspace = [t.workspace EXCEPT ![v] = w]
        /\ a.parent = [t.parent EXCEPT ![v] = IF tiled THEN w ELSE NULL]
        /\ a.fsContainer = t.fsContainer /\ a.fullscreen = t.fullscreen
    <2>1. t.parent = [t.parent EXCEPT ![v] = NULL]
      BY DEF Trees
    <2>2. CASE tiled
      <3>1. a = InsertTiled(t, w, v) /\ (IF tiled THEN w ELSE NULL) = w
        BY <2>2
      <3>2. /\ InsertTiled(t, w, v) \in Trees
            /\ InsertTiled(t, w, v).workspace = [t.workspace EXCEPT ![v] = w]
            /\ InsertTiled(t, w, v).parent = [t.parent EXCEPT ![v] = w]
            /\ InsertTiled(t, w, v).fsContainer = t.fsContainer
            /\ InsertTiled(t, w, v).fullscreen = t.fullscreen
        BY InsertTiledFields
      <3> HIDE DEF a
      <3> QED
        BY <3>1, <3>2
    <2>3. CASE ~tiled
      <3>1. a = InsertFloating(t, w, v) /\ (IF tiled THEN w ELSE NULL) = NULL
        BY <2>3
      <3>2. /\ InsertFloating(t, w, v) \in Trees
            /\ InsertFloating(t, w, v).workspace = [t.workspace EXCEPT ![v] = w]
            /\ InsertFloating(t, w, v).parent = t.parent
            /\ InsertFloating(t, w, v).fsContainer = t.fsContainer
            /\ InsertFloating(t, w, v).fullscreen = t.fullscreen
        BY InsertFloatingFields
      <3> HIDE DEF a
      <3> QED
        BY <2>1, <3>1, <3>2
    <2> QED
      BY <2>2, <2>3
  <1>2. AddContainer(t, w, v, tiled) = Reparented(a, v)
    BY DEF AddContainer
  <1> HIDE DEF a
  <1>3. a.workspace[v] = w
    BY <1>1 DEF Trees
  <1>4. Reparented(a, v) = IF t.fullscreen[v] THEN ChangeFullscreen(a, w, v) ELSE a
    BY <1>1, <1>3 DEF Reparented
  <1>5. /\ ChangeFullscreen(a, w, v) \in Trees
        /\ ChangeFullscreen(a, w, v).workspace = a.workspace
        /\ ChangeFullscreen(a, w, v).parent = a.parent
        /\ ChangeFullscreen(a, w, v).fsContainer = [a.fsContainer EXCEPT ![w] = v]
        /\ ChangeFullscreen(a, w, v).fullscreen[v]
    BY <1>1, ChangeFullscreenPlaces
  <1>6. CASE t.fullscreen[v]
    BY <1>1, <1>2, <1>4, <1>5, <1>6
  <1>7. CASE ~t.fullscreen[v]
    BY <1>1, <1>2, <1>4, <1>7
  <1> QED
    BY <1>6, <1>7

\* A container that leaves and is added again, wherever to.
LEMMA LeaveAddPlaces ==
    ASSUME NEW t, Sound(t), NEW v \in Views, NEW w \in Workspaces, NEW tiled \in BOOLEAN
    PROVE  LET u == AddContainer(Leave(t, v), w, v, tiled) IN
           /\ u \in Trees
           /\ u.workspace = [t.workspace EXCEPT ![v] = w]
           /\ u.parent = [t.parent EXCEPT ![v] = IF tiled THEN w ELSE NULL]
           /\ u.fsContainer = FullWith(t, v, w, t.fullscreen[v])
           /\ u.fullscreen[v] <=> t.fullscreen[v]
  <1> DEFINE a == Leave(t, v)
  <1>1. t \in Trees /\ PlacedOnce(t) /\ FullscreenMatches(t) /\ NULL \notin Views
    BY TreeAssumption DEF Sound
  <1>2. /\ a \in Trees
        /\ a.workspace = [t.workspace EXCEPT ![v] = NULL]
        /\ a.parent = [t.parent EXCEPT ![v] = NULL]
        /\ a.fsContainer = [x \in Workspaces |->
              IF x = t.workspace[v] /\ t.fullscreen[v] THEN NULL ELSE t.fsContainer[x]]
        /\ a.fullscreen = t.fullscreen
    BY <1>1, LeaveFields
  <1> HIDE DEF a
  <1>3. a.workspace[v] = NULL /\ a.parent[v] = NULL
    BY <1>1, <1>2 DEF Trees
  <1> DEFINE u == AddContainer(a, w, v, tiled)
  <1>4. /\ u \in Trees
        /\ u.workspace = [a.workspace EXCEPT ![v] = w]
        /\ u.parent = [a.parent EXCEPT ![v] = IF tiled THEN w ELSE NULL]
        /\ a.fullscreen[v] => u.fsContainer = [a.fsContainer EXCEPT ![w] = v]
        /\ ~a.fullscreen[v] => u.fsContainer = a.fsContainer
        /\ u.fullscreen[v] <=> a.fullscreen[v]
    <2>1. a \in Trees
      BY <1>2
    <2> QED
      BY <1>3, <2>1, AddPlaces
  <1> HIDE DEF u
  <1>5. /\ u.workspace = [t.workspace EXCEPT ![v] = w]
        /\ u.parent = [t.parent EXCEPT ![v] = IF tiled THEN w ELSE NULL]
    <2> DEFINE parent == IF tiled THEN w ELSE NULL
    <2>1. /\ t.workspace \in [Views -> Workspaces \cup {NULL}]
          /\ t.parent \in [Views -> Workspaces \cup {NULL}]
      BY <1>1 DEF Trees
    <2>2. u.workspace = [[t.workspace EXCEPT ![v] = NULL] EXCEPT ![v] = w]
      BY <1>2, <1>4
    <2>3. u.parent = [[t.parent EXCEPT ![v] = NULL] EXCEPT ![v] = parent]
      BY <1>2, <1>4
    <2> HIDE DEF parent
    <2>4. u.workspace = [t.workspace EXCEPT ![v] = w] /\ u.parent = [t.parent EXCEPT ![v] = parent]
      BY <2>1, <2>2, <2>3
    <2> QED
      BY <2>4 DEF parent
  <1>6. \A x \in Workspaces : (x = t.workspace[v] /\ t.fullscreen[v]) <=> t.fsContainer[x] = v
    BY <1>1 DEF FullscreenMatches
  <1>7. a.fsContainer = [x \in Workspaces |->
                            IF t.fsContainer[x] = v THEN NULL ELSE t.fsContainer[x]]
    <2>1. \A x \in Workspaces :
             (IF x = t.workspace[v] /\ t.fullscreen[v] THEN NULL ELSE t.fsContainer[x])
                = IF t.fsContainer[x] = v THEN NULL ELSE t.fsContainer[x]
      BY <1>6
    <2> QED
      BY <1>2, <2>1
  <1>8. u.fsContainer = FullWith(t, v, w, t.fullscreen[v])
    <2>1. CASE t.fullscreen[v]
      BY <1>2, <1>4, <1>7, <2>1 DEF FullWith
    <2>2. CASE ~t.fullscreen[v]
      BY <1>2, <1>4, <1>7, <2>2 DEF FullWith
    <2> QED
      BY <2>1, <2>2
  <1> QED
    BY <1>2, <1>4, <1>5, <1>8 DEF a, u

-----------------------------------------------------------------------------
(***************************************************************************)
(* The steps of Placement                                                  *)
(***************************************************************************)

\* Placement with place and full written out.
LEMMA PutMeans ==
    ASSUME NEW v \in Views, NEW p \in Abstract!Places, NEW full \in BOOLEAN,
           PlaceIn(tree') = [PlaceIn(tree) EXCEPT ![v] = p],
           FullIn(tree') = FullWith(tree, v, p.workspace, full)
    PROVE  Abstract!Put(v, p, full)
  <1>1. p.workspace \in Workspaces
    BY DEF Abstract!Places
  <1>2. full => FullWith(tree, v, p.workspace, full)
                    = [Abstract!Without(v) EXCEPT ![p.workspace] = v]
    BY <1>1 DEF FullWith, Abstract!Without
  <1>3. ~full => FullWith(tree, v, p.workspace, full) = Abstract!Without(v)
    BY DEF FullWith, Abstract!Without
  <1>4. CASE full
    BY <1>2, <1>4 DEF Abstract!Put, PlaceIn, FullIn
  <1>5. CASE ~full
    BY <1>3, <1>5 DEF Abstract!Put, PlaceIn, FullIn
  <1> QED
    BY <1>4, <1>5

\* Container v of tree t is placed in w, tiled or floating.
PlacedAs(t, u, v, w, tiled) ==
    /\ u.workspace = [t.workspace EXCEPT ![v] = w]
    /\ tiled = TRUE => u.parent = [t.parent EXCEPT ![v] = w]
    /\ tiled = FALSE => u.parent = [t.parent EXCEPT ![v] = NULL]

LEMMA PlaceInChange ==
    ASSUME NEW t \in Trees, NEW u, NEW v \in Views, NEW w \in Workspaces, NEW tiled \in BOOLEAN,
           PlacedAs(t, u, v, w, tiled)
    PROVE  /\ PlaceIn(u) = [PlaceIn(t) EXCEPT ![v] = [workspace |-> w, tiled |-> tiled]]
           /\ [workspace |-> w, tiled |-> tiled] \in Abstract!Places
  <1>1. NULL # w
    BY TreeAssumption
  <1>2. /\ t.workspace \in [Views -> Workspaces \cup {NULL}]
        /\ t.parent \in [Views -> Workspaces \cup {NULL}]
    BY DEF Trees
  <1>3. u.workspace[v] = w /\ IsTiled(u, v) = tiled
    <2>1. u.workspace[v] = w
      BY <1>2 DEF PlacedAs
    <2>2. CASE tiled = TRUE
      <3>1. u.parent[v] = w
        BY <1>2, <2>2 DEF PlacedAs
      <3>2. IsTiled(u, v) = TRUE
        BY <1>1, <3>1 DEF IsTiled
      <3> QED
        BY <2>1, <2>2, <3>2
    <2>3. CASE tiled = FALSE
      <3>1. u.parent[v] = NULL
        BY <1>2, <2>3 DEF PlacedAs
      <3>2. IsTiled(u, v) = FALSE
        BY <3>1 DEF IsTiled
      <3> QED
        BY <2>1, <2>3, <3>2
    <2> QED
      BY <2>2, <2>3
  <1>4. \A x \in Views \ {v} : u.workspace[x] = t.workspace[x] /\ u.parent[x] = t.parent[x]
    BY <1>2 DEF PlacedAs
  <1> QED
    BY <1>1, <1>3, <1>4 DEF PlaceIn, IsTiled, Abstract!Places

LEMMA PutStep ==
    ASSUME tree \in Trees, NEW v \in Views, NEW w \in Workspaces, NEW tiled \in BOOLEAN,
           NEW full \in BOOLEAN, PlacedAs(tree, tree', v, w, tiled),
           tree'.fsContainer = FullWith(tree, v, w, full)
    PROVE  /\ [workspace |-> w, tiled |-> tiled] \in Abstract!Places
           /\ Abstract!Put(v, [workspace |-> w, tiled |-> tiled], full)
  <1> DEFINE p == [workspace |-> w, tiled |-> tiled]
  <1>1. p \in Abstract!Places /\ PlaceIn(tree') = [PlaceIn(tree) EXCEPT ![v] = p]
    BY PlaceInChange
  <1>2. p.workspace = w
    OBVIOUS
  <1> HIDE DEF p
  <1>3. Abstract!Put(v, p, full)
    BY <1>1, <1>2, PutMeans DEF FullIn
  <1> QED
    BY <1>1, <1>3 DEF p

LEMMA PlacedSomewhere ==
    ASSUME NEW t \in Trees, NEW v \in Views, t.workspace[v] # NULL
    PROVE  /\ PlaceIn(t)[v] = [workspace |-> t.workspace[v], tiled |-> IsTiled(t, v)]
           /\ PlaceIn(t)[v] # NULL
  <1>1. t.workspace[v] \in Workspaces /\ IsTiled(t, v) \in BOOLEAN
    BY DEF Trees, IsTiled
  <1>2. PlaceIn(t)[v] = [workspace |-> t.workspace[v], tiled |-> IsTiled(t, v)]
    BY DEF PlaceIn
  <1>3. PlaceIn(t)[v] \in [workspace : Workspaces, tiled : BOOLEAN]
    BY <1>1, <1>2
  <1> QED
    BY <1>2, <1>3, PlaceAssumption

LEMMA AppearStep ==
    ASSUME tree \in Trees, NEW v \in Views, NEW w \in Workspaces, NEW tiled \in BOOLEAN,
           NEW full \in BOOLEAN, tree.workspace[v] = NULL,
           PlacedAs(tree, tree', v, w, tiled), tree'.fsContainer = FullWith(tree, v, w, full)
    PROVE  AbstractStep
  <1> DEFINE p == [workspace |-> w, tiled |-> tiled]
  <1>1. p \in Abstract!Places /\ Abstract!Put(v, p, full)
    BY PutStep
  <1> HIDE DEF p
  <1>2. Abstract!Appear(v, p, full)
    BY <1>1 DEF Abstract!Appear
  <1> QED
    BY <1>1, <1>2 DEF AbstractStep, Abstract!Next

LEMMA MoveStep ==
    ASSUME tree \in Trees, NEW v \in Views, NEW w \in Workspaces, NEW tiled \in BOOLEAN,
           NEW full \in BOOLEAN, tree.workspace[v] \notin {NULL, w}, IsTiled(tree, v) = tiled,
           \A x \in Workspaces : tree.fsContainer[x] = v => full = TRUE,
           PlacedAs(tree, tree', v, w, tiled), tree'.fsContainer = FullWith(tree, v, w, full)
    PROVE  AbstractStep
  <1>1. /\ PlaceIn(tree)[v] = [workspace |-> tree.workspace[v], tiled |-> tiled]
        /\ PlaceIn(tree)[v] # NULL
    BY PlacedSomewhere
  <1>2. Abstract!Put(v, [workspace |-> w, tiled |-> tiled], full)
    BY PutStep
  <1>3. PlaceIn(tree)[v].workspace # w /\ PlaceIn(tree)[v].tiled = tiled
    BY <1>1
  <1>4. Abstract!Put(v, [workspace |-> w, tiled |-> PlaceIn(tree)[v].tiled], full)
    BY <1>2, <1>3
  <1>5. Abstract!Move(v, w, full)
    BY <1>1, <1>3, <1>4 DEF Abstract!Move, Abstract!In, PlaceIn
  <1> QED
    BY <1>5 DEF AbstractStep, Abstract!Next

LEMMA VanishStep ==
    ASSUME tree \in Trees, NEW v \in Views, tree.workspace[v] # NULL,
           tree'.workspace = [tree.workspace EXCEPT ![v] = NULL],
           tree'.parent = [tree.parent EXCEPT ![v] = NULL],
           tree'.fsContainer = [x \in Workspaces |->
               IF tree.fsContainer[x] = v THEN NULL ELSE tree.fsContainer[x]]
    PROVE  AbstractStep
  <1>1. PlaceIn(tree)[v] # NULL
    BY PlacedSomewhere
  <1>2. /\ tree.workspace \in [Views -> Workspaces \cup {NULL}]
        /\ tree.parent \in [Views -> Workspaces \cup {NULL}]
    BY DEF Trees
  <1>3. PlaceIn(tree') = [PlaceIn(tree) EXCEPT ![v] = NULL]
    BY <1>2 DEF PlaceIn, IsTiled
  <1>4. Abstract!Vanish(v)
    BY <1>1, <1>3 DEF Abstract!Vanish, Abstract!Without, PlaceIn
  <1> QED
    BY <1>4 DEF AbstractStep, Abstract!Next

\* In tree t, v is in w, with a tiling that tiled changes.
Retiles(t, v, w, tiled) == t.workspace[v] = w /\ (tiled = TRUE <=> t.parent[v] = NULL)

LEMMA RetileStep ==
    ASSUME tree \in Trees, NEW v \in Views, NEW w \in Workspaces, NEW tiled \in BOOLEAN,
           NEW full \in BOOLEAN, Retiles(tree, v, w, tiled),
           PlacedAs(tree, tree', v, w, tiled),
           tree'.fsContainer = FullWith(tree, v, w, full), tree'.fsContainer = tree.fsContainer
    PROVE  AbstractStep
  <1>1. /\ PlaceIn(tree)[v] = [workspace |-> w, tiled |-> IsTiled(tree, v)]
        /\ PlaceIn(tree)[v] # NULL
    BY TreeAssumption, PlacedSomewhere DEF Retiles
  <1>2. PlaceIn(tree') = [PlaceIn(tree) EXCEPT ![v] = [workspace |-> w, tiled |-> tiled]]
    <2>1. Abstract!Put(v, [workspace |-> w, tiled |-> tiled], full)
      BY PutStep
    <2> QED
      BY <2>1 DEF Abstract!Put, PlaceIn
  <1>3. (~PlaceIn(tree)[v].tiled) = tiled
    <2>1. PlaceIn(tree)[v].tiled = IsTiled(tree, v) /\ IsTiled(tree, v) \in BOOLEAN
      BY <1>1 DEF IsTiled
    <2>2. IsTiled(tree, v) # tiled
      BY DEF IsTiled, Retiles
    <2> QED
      BY <2>1, <2>2
  <1>4. PlaceIn(tree') = [PlaceIn(tree) EXCEPT ![v].tiled = tiled]
    <2>1. [PlaceIn(tree)[v] EXCEPT !.tiled = tiled] = [workspace |-> w, tiled |-> tiled]
      BY <1>1
    <2> QED
      BY <1>2, <2>1
  <1>5. Abstract!Retile(v)
    BY <1>1, <1>3, <1>4 DEF Abstract!Retile, PlaceIn
  <1> QED
    BY <1>5 DEF AbstractStep, Abstract!Next

LEMMA SetFullStep ==
    ASSUME tree \in Trees, NEW w \in Workspaces, NEW v \in Views \cup {NULL},
           v # NULL => v \in Views /\ tree.workspace[v] = w,
           tree'.workspace = tree.workspace, tree'.parent = tree.parent,
           tree'.fsContainer = [tree.fsContainer EXCEPT ![w] = v]
    PROVE  AbstractStep
  <1>1. NULL \notin Workspaces
    BY TreeAssumption
  <1>2. PlaceIn(tree') = PlaceIn(tree)
    BY DEF PlaceIn, IsTiled
  <1>3. ASSUME v # NULL
        PROVE  PlaceIn(tree)[v] # NULL /\ PlaceIn(tree)[v].workspace = w
    <2>1. v \in Views /\ tree.workspace[v] = w /\ tree.workspace[v] # NULL
      BY <1>1, <1>3
    <2>2. /\ PlaceIn(tree)[v] = [workspace |-> w, tiled |-> IsTiled(tree, v)]
          /\ PlaceIn(tree)[v] # NULL
      BY <2>1, PlacedSomewhere
    <2> QED
      BY <2>2
  <1>4. Abstract!SetFull(w, v)
    BY <1>2, <1>3 DEF Abstract!SetFull, Abstract!In, PlaceIn
  <1> QED
    BY <1>4 DEF AbstractStep, Abstract!Next
-----------------------------------------------------------------------------
(***************************************************************************)
(* The handlers                                                            *)
(***************************************************************************)

\* A container that has left and is added with a tiling it may have changed.
LEMMA LeaveAddPlaced ==
    ASSUME NEW t, Sound(t), NEW v \in Views, NEW w \in Workspaces, NEW tiled \in BOOLEAN
    PROVE  LET u == AddContainer(Leave(t, v), w, v, tiled) IN
           /\ u \in Trees
           /\ PlacedAs(t, u, v, w, tiled)
           /\ u.fsContainer = FullWith(t, v, w, t.fullscreen[v])
           /\ u.fullscreen[v] <=> t.fullscreen[v]
  <1> DEFINE u == AddContainer(Leave(t, v), w, v, tiled)
  <1>1. /\ u \in Trees
        /\ u.workspace = [t.workspace EXCEPT ![v] = w]
        /\ u.parent = [t.parent EXCEPT ![v] = IF tiled THEN w ELSE NULL]
        /\ u.fsContainer = FullWith(t, v, w, t.fullscreen[v])
        /\ u.fullscreen[v] <=> t.fullscreen[v]
    BY LeaveAddPlaces
  <1> HIDE DEF u
  <1>2. PlacedAs(t, u, v, w, tiled)
    BY <1>1 DEF PlacedAs
  <1> QED
    BY <1>1, <1>2 DEF u

\* Placement does not see what leaves all places as they are.
LEMMA SameAfter ==
    ASSUME NEW t, NEW s, NEW u, NEW v, NEW w, NEW tiled,
           PlacedAs(t, s, v, w, tiled), SamePlaces(s, u)
    PROVE  PlacedAs(t, u, v, w, tiled) /\ u.fsContainer = s.fsContainer
  BY DEF PlacedAs, SamePlaces

LEMMA Goodness ==
    ASSUME NEW headless \in BOOLEAN, Inv(headless)
    PROVE  /\ Sound(tree) /\ tree \in Trees /\ FullscreenMatches(tree)
           /\ tree.workspace \in [Views -> Workspaces \cup {NULL}]
           /\ tree.parent \in [Views -> Workspaces \cup {NULL}]
           /\ \A v \in Views : tree.workspace[v] = NULL =>
                 /\ tree.parent[v] = NULL
                 /\ \A x \in Workspaces : tree.fsContainer[x] # v
  <1>1. /\ Sound(tree) /\ tree \in Trees /\ PlacedOnce(tree)
        /\ FullscreenMatches(tree) /\ NodesFollow(tree)
    BY DEF Inv, GoodBut, Sound
  <1>2. \A v \in Views : tree.workspace[v] = NULL =>
                 /\ tree.parent[v] = NULL
                 /\ \A x \in Workspaces : tree.fsContainer[x] # v
    BY <1>1, NowhereNothing
  <1> QED
    BY <1>1, <1>2 DEF Trees

\* A container without a workspace is created or freed.
LEMMA InitContainerStep ==
    ASSUME NEW headless \in BOOLEAN, Inv(headless), NEW v \in Views,
           tree.workspace[v] = NULL, tree' = InitContainer(tree, v)
    PROVE  AbstractStep
  <1>1. tree \in Trees /\ tree.parent[v] = NULL
    BY Goodness
  <1>2. /\ tree'.workspace = tree.workspace /\ tree'.parent = tree.parent
        /\ tree'.fsContainer = tree.fsContainer
    BY <1>1 DEF InitContainer, Trees
  <1> QED
    BY <1>2, SameIsNoStep DEF SamePlaces

LEMMA MapViewStep ==
    ASSUME NEW headless \in BOOLEAN, Inv(headless),
           NEW v \in Views, NEW full \in BOOLEAN, NEW floats \in BOOLEAN,
           NEW out \in Present(tree) \cup {NULL}, NEW hovered \in Hovered(tree),
           MapView(v, full, out, floats, hovered)
    PROVE  AbstractStep
  <1>1. tree \in Trees /\ tree.workspace[v] = NULL /\ tree.parent[v] = NULL
    BY Goodness DEF MapView, Inv
  <1>2. CASE MapTarget(full, out, hovered) = NULL
    <2>1. tree' = tree
      BY <1>2 DEF MapView
    <2> QED
      BY <2>1, SameIsNoStep DEF SamePlaces
  <1>3. CASE MapTarget(full, out, hovered) # NULL
    <2>1. PICK w \in Workspaces : w = MapTarget(full, out, hovered)
      BY <1>3, MapTargetIn
    <2>2. PICK tiled \in BOOLEAN : tiled = ~floats
      OBVIOUS
    <2> DEFINE s == SetFullscreen(tree, v, full)
               a == AddContainer(s, w, v, tiled)
    <2>3. tree' = Reveal(Arrange(a, w), v)
      BY <1>1, <1>3, <2>1, <2>2 DEF MapView, Focus
    <2>4. /\ s \in Trees /\ s.workspace = tree.workspace /\ s.parent = tree.parent
          /\ s.fsContainer = tree.fsContainer /\ (s.fullscreen[v] <=> full)
      BY <1>1 DEF SetFullscreen, Trees
    <2> HIDE DEF s
    <2>5. /\ a \in Trees
          /\ a.workspace = [s.workspace EXCEPT ![v] = w]
          /\ a.parent = [s.parent EXCEPT ![v] = IF tiled THEN w ELSE NULL]
          /\ s.fullscreen[v] => a.fsContainer = [s.fsContainer EXCEPT ![w] = v]
          /\ ~s.fullscreen[v] => a.fsContainer = s.fsContainer
      <3>1. s.workspace[v] = NULL /\ s.parent[v] = NULL
        BY <1>1, <2>4
      <3> QED
        BY <2>4, <3>1, AddPlaces
    <2> HIDE DEF a
    <2>6. PlacedAs(tree, a, v, w, tiled)
      BY <2>4, <2>5 DEF PlacedAs
    <2>7. a.fsContainer = FullWith(tree, v, w, full)
      <3>1. \A x \in Workspaces : tree.fsContainer[x] # v
        BY <1>1, Goodness
      <3>2. tree.fsContainer \in [Workspaces -> Views \cup {NULL}]
        BY <1>1 DEF Trees
      <3>3. CASE full
        BY <2>4, <2>5, <3>1, <3>2, <3>3 DEF FullWith
      <3>4. CASE ~full
        BY <2>4, <2>5, <3>1, <3>2, <3>4 DEF FullWith
      <3> QED
        BY <3>3, <3>4
    <2>8. SamePlaces(a, tree')
      BY <2>3, <2>5, SameArrange, SameReveal DEF SamePlaces
    <2>9. PlacedAs(tree, tree', v, w, tiled) /\ tree'.fsContainer = FullWith(tree, v, w, full)
      BY <2>6, <2>7, <2>8, SameAfter
    <2> QED
      BY <1>1, <2>9, AppearStep
  <1> QED
    BY <1>2, <1>3

LEMMA UnmapViewStep ==
    ASSUME NEW headless \in BOOLEAN, Inv(headless), NEW v \in Views, UnmapView(v)
    PROVE  AbstractStep
  <1> DEFINE a == Leave(tree, v)
  <1>1. /\ tree \in Trees
        /\ \A x \in Workspaces :
              tree.fsContainer[x] = v <=> tree.workspace[v] = x /\ tree.fullscreen[v]
    BY Goodness DEF FullscreenMatches
  <1>2. /\ a \in Trees
        /\ a.workspace = [tree.workspace EXCEPT ![v] = NULL]
        /\ a.parent = [tree.parent EXCEPT ![v] = NULL]
        /\ a.fsContainer = [x \in Workspaces |->
              IF x = tree.workspace[v] /\ tree.fullscreen[v] THEN NULL ELSE tree.fsContainer[x]]
    BY LeaveFields DEF Inv, GoodBut, Sound
  <1>3. a.fsContainer = [x \in Workspaces |->
              IF tree.fsContainer[x] = v THEN NULL ELSE tree.fsContainer[x]]
    BY <1>1, <1>2
  <1>4. tree' = IF tree.workspace[v] = NULL THEN a ELSE Arrange(a, tree.workspace[v])
    BY DEF UnmapView, Unmapped
  <1> HIDE DEF a
  <1>5. SamePlaces(a, tree')
    <2>1. tree.workspace[v] # NULL => tree.workspace[v] \in Workspaces
      BY Goodness
    <2> QED
      BY <1>2, <1>4, <2>1, SameArrange DEF SamePlaces
  <1>6. CASE tree.workspace[v] = NULL
    <2>1. tree.parent[v] = NULL /\ \A x \in Workspaces : tree.fsContainer[x] # v
      BY <1>6, Goodness
    <2>2. SamePlaces(tree, tree')
      BY <1>1, <1>2, <1>3, <1>5, <1>6, <2>1 DEF SamePlaces, Trees
    <2> QED
      BY <2>2, SameIsNoStep
  <1>7. CASE tree.workspace[v] # NULL
    BY <1>1, <1>2, <1>3, <1>5, <1>7, VanishStep DEF SamePlaces
  <1> QED
    BY <1>6, <1>7

\* A fullscreen request that leaves v in its workspace w.
LEMMA RequestHere ==
    ASSUME NEW headless \in BOOLEAN, Inv(headless), NEW v \in Views, NEW full \in BOOLEAN,
           NEW w \in Workspaces, tree.workspace[v] = w,
           SamePlaces(ApplyRequest(tree, v, w, full), tree')
    PROVE  AbstractStep
  <1> DEFINE u == ApplyRequest(tree, v, w, full)
  <1>1. tree \in Trees /\ NULL \notin Views
    BY Goodness, TreeAssumption
  <1>2. CASE full /\ ~tree.fullscreen[v]
    <2>1. u = ChangeFullscreen(tree, w, v)
      BY <1>2 DEF ApplyRequest
    <2> HIDE DEF u
    <2>2. /\ u.workspace = tree.workspace /\ u.parent = tree.parent
          /\ u.fsContainer = [tree.fsContainer EXCEPT ![w] = v]
      BY <1>1, <2>1, ChangeFullscreenPlaces
    <2> QED
      BY <1>1, <2>2, SetFullStep DEF SamePlaces, u
  <1>3. CASE ~full /\ tree.fullscreen[v]
    <2>1. u = ChangeFullscreen(tree, w, NULL)
      BY <1>3 DEF ApplyRequest
    <2> HIDE DEF u
    <2>2. /\ u.workspace = tree.workspace /\ u.parent = tree.parent
          /\ u.fsContainer = [tree.fsContainer EXCEPT ![w] = NULL]
      BY <1>1, <2>1, ChangeFullscreenPlaces
    <2> QED
      BY <1>1, <2>2, SetFullStep DEF SamePlaces, u
  <1>4. CASE full <=> tree.fullscreen[v]
    <2>1. u = tree
      BY <1>4 DEF ApplyRequest
    <2> QED
      BY <2>1, SameIsNoStep
  <1> QED
    BY <1>2, <1>3, <1>4

\* A fullscreen request that moves v to another output's workspace w.
LEMMA RequestElsewhere ==
    ASSUME NEW headless \in BOOLEAN, Inv(headless), NEW v \in Views, NEW w \in Workspaces,
           tree.workspace[v] \notin {NULL, w},
           SamePlaces(ApplyRequest(MoveToWorkspace(tree, v, w), v, w, TRUE), tree')
    PROVE  AbstractStep
  <1>1. Sound(tree) /\ tree \in Trees
    BY Goodness
  <1>2. PICK tiled \in BOOLEAN : tiled = IsTiled(tree, v)
    BY DEF IsTiled
  <1> DEFINE m == AddContainer(Leave(tree, v), w, v, tiled)
             u == ApplyRequest(m, v, w, TRUE)
  <1>3. SamePlaces(u, tree')
    BY <1>2 DEF MoveToWorkspace
  <1>4. /\ m \in Trees
        /\ PlacedAs(tree, m, v, w, tiled)
        /\ m.fsContainer = FullWith(tree, v, w, tree.fullscreen[v])
        /\ m.fullscreen[v] <=> tree.fullscreen[v]
    BY <1>1, LeaveAddPlaced
  <1> HIDE DEF m
  <1>5. /\ ChangeFullscreen(m, w, v).workspace = m.workspace
        /\ ChangeFullscreen(m, w, v).parent = m.parent
        /\ ChangeFullscreen(m, w, v).fsContainer = [m.fsContainer EXCEPT ![w] = v]
    BY <1>4, ChangeFullscreenPlaces
  <1>6. u = IF m.fullscreen[v] THEN m ELSE ChangeFullscreen(m, w, v)
    BY DEF ApplyRequest
  <1> HIDE DEF u
  <1>7. PlacedAs(tree, u, v, w, tiled)
    BY <1>4, <1>5, <1>6 DEF PlacedAs
  <1>8. u.fsContainer = FullWith(tree, v, w, TRUE)
    <2>1. CASE tree.fullscreen[v]
      BY <1>4, <1>6, <2>1 DEF FullWith
    <2>2. CASE ~tree.fullscreen[v]
      BY <1>4, <1>5, <1>6, <2>2 DEF FullWith
    <2> QED
      BY <2>1, <2>2
  <1>9. PlacedAs(tree, tree', v, w, tiled) /\ tree'.fsContainer = FullWith(tree, v, w, TRUE)
    BY <1>3, <1>7, <1>8, SameAfter
  <1> QED
    BY <1>1, <1>2, <1>9, MoveStep

LEMMA RequestFullscreenStep ==
    ASSUME NEW headless \in BOOLEAN, Inv(headless), NEW v \in Views, NEW full \in BOOLEAN,
           NEW out \in Present(tree) \cup {NULL}, RequestFullscreen(v, full, out)
    PROVE  AbstractStep
  <1> DEFINE old == tree.workspace[v]
             new == RequestTarget(v, full, out)
             moved == IF old = new THEN tree ELSE MoveToWorkspace(tree, v, new)
             applied == ApplyRequest(moved, v, new, full)
  <1>1. /\ Sound(tree) /\ tree \in Trees /\ old \in Workspaces \cup {NULL}
        /\ new \in Workspaces \cup {NULL}
    <2>1. Sound(tree) /\ tree \in Trees /\ old \in Workspaces \cup {NULL}
      BY Goodness
    <2> QED
      BY <2>1, TreeAssumption DEF RequestTarget, Present, Trees
  <1>2. CASE view[v] = "unmapped" \/ new = NULL
    <2>1. tree' = SetFullscreen(tree, v, full)
      BY <1>2 DEF RequestFullscreen
    <2>2. SamePlaces(tree, tree')
      BY <1>1, <2>1 DEF SamePlaces, SetFullscreen, Trees
    <2> QED
      BY <2>2, SameIsNoStep
  <1>3. CASE ~(view[v] = "unmapped" \/ new = NULL) /\ old = NULL
    <2>1. tree' = tree
      BY <1>3 DEF RequestFullscreen
    <2> QED
      BY <2>1, SameIsNoStep DEF SamePlaces
  <1>4. CASE ~(view[v] = "unmapped" \/ new = NULL) /\ old # NULL
    <2>1. tree' = Arrange(Arrange(applied, old), new)
      BY <1>4 DEF RequestFullscreen
    <2>2. PICK w \in Workspaces : w = new
      BY <1>1, <1>4
    <2>3. applied \in Trees /\ moved \in Trees
      <3>1. moved \in Trees
        BY <1>1, <2>2, LeaveAddPlaced DEF MoveToWorkspace, IsTiled
      <3> HIDE DEF moved
      <3> QED
        BY <2>2, <3>1, ChangeFullscreenPlaces DEF ApplyRequest
    <2>4. SamePlaces(applied, tree')
      <3> HIDE DEF applied, old, new
      <3> QED
        BY <1>1, <1>4, <2>1, <2>2, <2>3, SameArrange DEF SamePlaces
    <2>5. CASE old = new
      <3>1. tree.workspace[v] = w /\ applied = ApplyRequest(tree, v, w, full)
        BY <2>2, <2>5
      <3> HIDE DEF applied
      <3> QED
        BY <2>4, <3>1, RequestHere
    <2>6. CASE old # new
      <3>1. full
        BY <2>6 DEF RequestTarget
      <3>2. applied = ApplyRequest(MoveToWorkspace(tree, v, w), v, w, TRUE)
        BY <2>2, <2>6, <3>1
      <3>3. tree.workspace[v] \notin {NULL, w}
        BY <1>4, <2>2, <2>6
      <3> HIDE DEF applied
      <3> QED
        BY <2>4, <3>2, <3>3, RequestElsewhere
    <2> QED
      BY <2>5, <2>6
  <1> QED
    BY <1>2, <1>3, <1>4
LEMMA FocusStep ==
    ASSUME NEW headless \in BOOLEAN, Inv(headless), NEW v \in Views, Focus(tree, v)
    PROVE  AbstractStep
  BY Goodness, SameReveal, SameIsNoStep DEF Focus

LEMMA ToggleTiledStep ==
    ASSUME NEW headless \in BOOLEAN, Inv(headless), ToggleTiled
    PROVE  AbstractStep
  <1>1. /\ Sound(tree) /\ tree \in Trees /\ NULL \notin Workspaces
        /\ tree.workspace \in [Views -> Workspaces \cup {NULL}]
        /\ \A v \in Views, x \in Workspaces :
               tree.fsContainer[x] = v <=> tree.workspace[v] = x /\ tree.fullscreen[v]
    BY Goodness, TreeAssumption DEF FullscreenMatches
  <1>2. PICK v \in Views : v = activeView
    BY DEF ToggleTiled, Inv
  <1>3. PICK w \in Workspaces : w = tree.workspace[v]
    BY <1>1, <1>2 DEF ToggleTiled
  <1>4. PICK tiled \in BOOLEAN : tiled = ~IsTiled(tree, v)
    BY DEF IsTiled
  <1>5. PICK full \in BOOLEAN : full = tree.fullscreen[v]
    BY <1>1 DEF Trees
  <1> DEFINE a == AddContainer(Leave(tree, v), w, v, tiled)
  <1>6. tree' = Arrange(a, w)
    BY <1>2, <1>3, <1>4 DEF ToggleTiled, ChangeTiling
  <1>7. /\ a \in Trees
        /\ PlacedAs(tree, a, v, w, tiled)
        /\ a.fsContainer = FullWith(tree, v, w, full)
    BY <1>1, <1>5, LeaveAddPlaced
  <1> HIDE DEF a
  <1>8. SamePlaces(a, tree')
    BY <1>6, <1>7, SameArrange
  <1>9. PlacedAs(tree, tree', v, w, tiled) /\ tree'.fsContainer = FullWith(tree, v, w, full)
    BY <1>7, <1>8, SameAfter
  <1>10. FullWith(tree, v, w, full) = tree.fsContainer
    <2>1. tree.fsContainer \in [Workspaces -> Views \cup {NULL}]
      BY <1>1 DEF Trees
    <2>2. \A x \in Workspaces : tree.fsContainer[x] = v <=> x = w /\ full
      BY <1>1, <1>3, <1>5
    <2> QED
      BY <2>1, <2>2 DEF FullWith
  <1>11. Retiles(tree, v, w, tiled)
    BY <1>3, <1>4 DEF Retiles, IsTiled
  <1> QED
    BY <1>1, <1>9, <1>10, <1>11, RetileStep

LEMMA SwitchTilingModeStep ==
    ASSUME NEW headless \in BOOLEAN, Inv(headless), SwitchTilingMode
    PROVE  AbstractStep
  <1>1. activeView \in Views /\ tree.parent[activeView] \in Workspaces
    BY Goodness DEF SwitchTilingMode, IsTiled, Inv
  <1>2. tree' = ArrangeRoot(tree, tree.parent[activeView]) /\ tree \in Trees
    BY Goodness DEF SwitchTilingMode
  <1> QED
    BY <1>1, <1>2, SameArrangeRoot, SameIsNoStep

LEMMA ToggleFullscreenStep ==
    ASSUME NEW headless \in BOOLEAN, Inv(headless), ToggleFullscreen
    PROVE  AbstractStep
  <1>1. tree \in Trees
    BY Goodness
  <1>2. PICK v \in Views : v = activeView
    BY DEF ToggleFullscreen, Inv
  <1>3. PICK w \in Workspaces : w = tree.workspace[v]
    BY <1>2, Goodness DEF ToggleFullscreen
  <1>4. PICK c \in Views \cup {NULL} :
            (c = NULL \/ c = v) /\ tree' = Arrange(ChangeFullscreen(tree, w, c), w)
    BY <1>2, <1>3 DEF ToggleFullscreen
  <1> DEFINE u == ChangeFullscreen(tree, w, c)
  <1>5. /\ u \in Trees /\ u.workspace = tree.workspace /\ u.parent = tree.parent
        /\ u.fsContainer = [tree.fsContainer EXCEPT ![w] = c]
    BY <1>1, ChangeFullscreenPlaces
  <1>6. tree' = Arrange(u, w)
    BY <1>4
  <1> HIDE DEF u
  <1>7. SamePlaces(u, tree')
    BY <1>5, <1>6, SameArrange
  <1> QED
    BY <1>1, <1>3, <1>4, <1>5, <1>7, SetFullStep DEF SamePlaces

LEMMA ShowNextWorkspaceStep ==
    ASSUME NEW headless \in BOOLEAN, Inv(headless), NEW hovered \in Hovered(tree),
           ShowNextWorkspace(hovered)
    PROVE  AbstractStep
  <1>1. CASE hovered = NULL
    BY <1>1, SameIsNoStep DEF ShowNextWorkspace, SamePlaces
  <1>2. CASE hovered # NULL
    <2> DEFINE w == NextWorkspace(tree.displayed[hovered])
               d == Display(tree, hovered, w)
    <2>1. tree \in Trees /\ hovered \in Outputs /\ tree.displayed[hovered] \in Workspaces
      BY <1>2, Goodness DEF Hovered, Present, Trees
    <2>2. w \in Workspaces
      BY <2>1, NextWorkspaceIn
    <2>3. FocusHovered(d)
      BY <1>2 DEF ShowNextWorkspace
    <2> HIDE DEF w
    <2>4. d \in Trees /\ SamePlaces(tree, d)
      BY <2>1, <2>2, SameDisplay
    <2> HIDE DEF d
    <2>5. SamePlaces(d, tree')
      BY <2>3, <2>4, SameFocusHovered
    <2> QED
      BY <2>4, <2>5, SameIsNoStep DEF SamePlaces
  <1> QED
    BY <1>1, <1>2

LEMMA MoveToNextWorkspaceStep ==
    ASSUME NEW headless \in BOOLEAN, Inv(headless), MoveToNextWorkspace
    PROVE  AbstractStep
  <1>1. /\ Sound(tree) /\ tree \in Trees
        /\ \A v \in Views, x \in Workspaces :
               tree.fsContainer[x] = v <=> tree.workspace[v] = x /\ tree.fullscreen[v]
    BY Goodness DEF FullscreenMatches
  <1>2. PICK v \in Views : v = activeView
    BY DEF MoveToNextWorkspace, Inv
  <1>3. PICK old \in Workspaces : old = tree.workspace[v]
    BY <1>2, Goodness DEF MoveToNextWorkspace
  <1>4. PICK w \in Workspaces : w = NextWorkspace(old)
    BY NextWorkspaceIn
  <1>5. PICK tiled \in BOOLEAN : tiled = IsTiled(tree, v)
    BY DEF IsTiled
  <1>6. PICK full \in BOOLEAN : full = tree.fullscreen[v]
    BY <1>1 DEF Trees
  <1> DEFINE m == AddContainer(Leave(tree, v), w, v, tiled)
             u == Arrange(Arrange(m, old), w)
  <1>7. FocusHovered(u)
    BY <1>2, <1>3, <1>4, <1>5 DEF MoveToNextWorkspace, MoveToWorkspace
  <1>8. /\ m \in Trees
        /\ PlacedAs(tree, m, v, w, tiled)
        /\ m.fsContainer = FullWith(tree, v, w, full)
    BY <1>1, <1>6, LeaveAddPlaced
  <1> HIDE DEF m
  <1>9. u \in Trees /\ SamePlaces(m, u)
    BY <1>8, SameArrange DEF SamePlaces
  <1> HIDE DEF u
  <1>10. SamePlaces(m, tree')
    BY <1>7, <1>9, SameFocusHovered DEF SamePlaces
  <1>11. PlacedAs(tree, tree', v, w, tiled) /\ tree'.fsContainer = FullWith(tree, v, w, full)
    BY <1>8, <1>10, SameAfter
  <1>12. CASE old = w
    <2>1. /\ tree.workspace \in [Views -> Workspaces \cup {NULL}] /\ tree.workspace[v] = w
          /\ tree.parent \in [Views -> Workspaces \cup {NULL}]
      BY <1>1, <1>3, <1>12 DEF Trees
    <2>2. tree'.workspace = tree.workspace
      BY <1>11, <2>1 DEF PlacedAs
    <2>3. tree'.parent = tree.parent
      <3>1. IsTiled(tree, v) => tree.parent[v] = w
        BY <1>1, <2>1 DEF Sound, PlacedOnce, IsTiled
      <3>2. CASE tiled = TRUE
        BY <1>5, <1>11, <2>1, <3>1, <3>2 DEF PlacedAs
      <3>3. CASE tiled = FALSE
        <4>1. tree.parent[v] = NULL
          BY <1>5, <3>3 DEF IsTiled
        <4> QED
          BY <1>11, <2>1, <3>3, <4>1 DEF PlacedAs
      <3> QED
        BY <3>2, <3>3
    <2>4. tree'.fsContainer = tree.fsContainer
      <3>1. tree.fsContainer \in [Workspaces -> Views \cup {NULL}]
        BY <1>1 DEF Trees
      <3>2. \A x \in Workspaces : tree.fsContainer[x] = v <=> x = w /\ full
        BY <1>1, <1>6, <2>1
      <3> QED
        BY <1>11, <3>1, <3>2 DEF FullWith
    <2> QED
      BY <2>2, <2>3, <2>4, SameIsNoStep DEF SamePlaces
  <1>13. CASE old # w
    <2>1. tree.workspace[v] \notin {NULL, w}
      BY <1>3, <1>13, TreeAssumption
    <2>2. \A x \in Workspaces : tree.fsContainer[x] = v => full = TRUE
      BY <1>1, <1>6
    <2>3. tree \in Trees /\ IsTiled(tree, v) = tiled
      BY <1>1, <1>5
    <2> QED
      BY <1>11, <2>1, <2>2, <2>3, MoveStep
  <1> QED
    BY <1>12, <1>13

LEMMA NextPlaces ==
    ASSUME NEW headless \in BOOLEAN, Inv(headless), [Next]_vars
    PROVE  AbstractStep
  <1>1. CASE UNCHANGED vars
    BY <1>1, SameIsNoStep DEF vars, SamePlaces
  <1>2. ASSUME NEW v \in Views, ViewEvent(v) PROVE AbstractStep
    <2>1. CASE CreateView(v)
      BY <2>1, InitContainerStep DEF CreateView, Inv
    <2>2. ASSUME NEW full \in BOOLEAN, NEW floats \in BOOLEAN,
                 NEW out \in Present(tree) \cup {NULL}, NEW hovered \in Hovered(tree),
                 MapView(v, full, out, floats, hovered)
          PROVE  AbstractStep
      BY <2>2, MapViewStep
    <2>3. CASE UnmapView(v)
      BY <2>3, UnmapViewStep
    <2>4. CASE DestroyView(v)
      <3>1. tree \in Trees /\ tree.workspace[v] = NULL /\ tree.parent[v] = NULL
        BY <2>4, Goodness DEF DestroyView, Inv
      <3>2. tree' = InitContainer(tree, v)
        BY <2>4, <3>1, NoParentToLeave DEF DestroyView
      <3> QED
        BY <3>1, <3>2, InitContainerStep
    <2>5. ASSUME NEW full \in BOOLEAN, NEW out \in Present(tree) \cup {NULL},
                 RequestFullscreen(v, full, out)
          PROVE  AbstractStep
      BY <2>5, RequestFullscreenStep
    <2>6. CASE RequestActivate(v) \/ PointerMotion(v)
      BY <2>6, FocusStep DEF RequestActivate, PointerMotion
    <2> QED
      BY <1>2, <2>1, <2>2, <2>3, <2>4, <2>5, <2>6 DEF ViewEvent
  <1>3. ASSUME NEW w \in Workspaces, ActivateWorkspace(w) PROVE AbstractStep
    BY <1>3, Goodness, TreeAssumption, SameDisplay, SameIsNoStep DEF ActivateWorkspace
  <1>4. ASSUME NEW o \in Outputs, AddOutput(o) PROVE AbstractStep
    <2>1. tree \in Trees /\ FirstWorkspace(o) \in Workspaces
      BY Goodness, FirstWorkspaceIn
    <2> DEFINE d == Display(tree, o, FirstWorkspace(o))
    <2>2. tree' = Arrange(d, FirstWorkspace(o))
      BY <1>4 DEF AddOutput, InitWorkspaces
    <2>3. d \in Trees /\ SamePlaces(tree, d)
      BY <2>1, SameDisplay
    <2> HIDE DEF d
    <2> QED
      BY <2>1, <2>2, <2>3, SameArrange, SameIsNoStep DEF SamePlaces
  <1>5. ASSUME NEW o \in Outputs, ArrangeOutput(o) PROVE AbstractStep
    <2>1. tree \in Trees /\ tree.displayed[o] \in Workspaces
      BY <1>5, Goodness DEF ArrangeOutput, Present, Trees
    <2> QED
      BY <1>5, <2>1, SameArrange, SameIsNoStep DEF ArrangeOutput
  <1>6. CASE Command
    BY <1>6, ToggleTiledStep, SwitchTilingModeStep, ToggleFullscreenStep,
       ShowNextWorkspaceStep, MoveToNextWorkspaceStep DEF Command
  <1> QED
    BY <1>1, <1>2, <1>3, <1>4, <1>5, <1>6 DEF Next

LEMMA InitPlaces == Init => Abstract!Init
  <1> SUFFICES ASSUME Init PROVE Abstract!Init
    OBVIOUS
  <1>1. SamePlaces(EmptyTree, tree)
    <2>1. EmptyTree \in Trees
      BY EmptyGood DEF GoodBut, Sound
    <2>2. CASE Headless
      BY <2>2 DEF Init, SamePlaces
    <2>3. CASE ~Headless
      <3>1. PICK o \in Outputs : tree = InitWorkspaces(EmptyTree, o)
        BY <2>3 DEF Init
      <3> DEFINE d == Display(EmptyTree, o, FirstWorkspace(o))
      <3>2. tree = Arrange(d, FirstWorkspace(o)) /\ FirstWorkspace(o) \in Workspaces
        BY <3>1, FirstWorkspaceIn DEF InitWorkspaces
      <3>3. d \in Trees /\ SamePlaces(EmptyTree, d)
        BY <2>1, <3>2, SameDisplay
      <3> HIDE DEF d
      <3> QED
        BY <3>2, <3>3, SameArrange DEF SamePlaces
    <2> QED
      BY <2>2, <2>3
  <1>2. /\ tree.workspace = [v \in Views |-> NULL]
        /\ tree.fsContainer = [w \in Workspaces |-> NULL]
    BY <1>1 DEF SamePlaces, EmptyTree
  <1> QED
    BY <1>2 DEF Abstract!Init

\* The container tree implements Placement: a handler changes the place of one
\* view at most, keeps the tiling of a view that moves and the workspace of one
\* that changes its tiling, and never drops a view from fullscreen by moving it.
THEOREM ImplementsPlacement == Spec => PlacementSpec
  <1>1. ASSUME Inv(Headless), [Next]_vars
        PROVE  [Abstract!Next]_<<PlaceIn(tree), FullIn(tree)>>
    BY <1>1, HeadlessAssumption, NextPlaces DEF AbstractStep
  <1>2. PlacementSpec <=> Abstract!Init /\ [][Abstract!Next]_<<PlaceIn(tree), FullIn(tree)>>
    BY DEF PlacementSpec, Abstract!Spec, PlaceIn, FullIn
  <1> QED
    BY <1>1, <1>2, InitPlaces, SpecInv, PTL DEF Spec
=============================================================================
