----------------------- MODULE ForeignToplevels_proofs -----------------------
(***************************************************************************)
(* Outputs that are unplugged, and what taskbars are told, for any views,  *)
(* outputs, workspaces, titles and size hints.                             *)
(*                                                                         *)
(* An output that goes takes the containers of its workspaces out of the   *)
(* tree: because a container is in exactly the list its fields say, what   *)
(* is left of the tree is good again, and only the seat's active container *)
(* may still point to what was freed.  Every other handler is one of       *)
(* ContainerTree, so its invariant Inv(TRUE) holds until the compositor    *)
(* runs into freed memory, and Kept, which says nothing of the seat, even  *)
(* then.                                                                   *)
(*                                                                         *)
(* The inductive invariant FInv adds that a view has an entry when it is   *)
(* mapped (Listed), that the entry shows what the view is (Shows), and     *)
(* that a view in a workspace is what the tree and the seat say (Knows).   *)
(* Knows holds because a container gets a workspace in one handler only,   *)
(* that of the mapping, which sets the flag of the view whatever it was.   *)
(***************************************************************************)
EXTENDS ForeignToplevels, ContainerTree_proofs

-----------------------------------------------------------------------------
(***************************************************************************)
(* Outputs that are unplugged                                              *)
(***************************************************************************)

\* The containers in the lists of the workspaces of o are those whose workspace is
\* on o.
LEMMA DestroyedAreThere ==
    ASSUME NEW t, PlacedOnce(t), NEW o, NEW v \in Views,
           t.workspace[v] \in Workspaces \cup {NULL}
    PROVE  v \in DestroyedWith(t, o) <=> t.workspace[v] \in WorkspacesOn(o)
  <1>1. NULL \notin Workspaces
    BY TreeAssumption
  <1>2. v \in DestroyedWith(t, o) <=>
            \E w \in WorkspacesOn(o) : v \in Items(t.children[w]) \/ v \in Items(t.floating[w])
    BY DEF DestroyedWith
  <1>3. \A w \in Workspaces :
            /\ v \in Items(t.children[w]) <=> t.parent[v] = w
            /\ v \in Items(t.floating[w]) <=> t.workspace[v] = w /\ t.parent[v] = NULL
    BY DEF PlacedOnce
  <1>4. t.parent[v] # NULL => t.workspace[v] = t.parent[v]
    BY DEF PlacedOnce
  <1>5. WorkspacesOn(o) \subseteq Workspaces
    BY DEF WorkspacesOn
  <1> QED
    BY <1>1, <1>2, <1>3, <1>4, <1>5

\* A good tree is good without one of its outputs.
LEMMA WithoutOutputGood ==
    ASSUME NEW t, GoodBut(t, {}), NEW o \in Outputs
    PROVE  GoodBut(WithoutOutput(t, o), {})
  <1> DEFINE u == WithoutOutput(t, o)
             freed == DestroyedWith(t, o)
             there == WorkspacesOn(o)
  <1>1. t \in Trees /\ PlacedOnce(t) /\ FullscreenMatches(t) /\ NodesFollow(t) /\ OneDisplayed(t)
    BY DEF GoodBut, Sound
  <1>2. NULL \notin Workspaces /\ NULL \notin Views /\ there \subseteq Workspaces
    BY TreeAssumption DEF WorkspacesOn
  <1>3. \A v \in Views : v \in freed <=> t.workspace[v] \in there
    BY <1>1, DestroyedAreThere DEF Trees
  <1>4. u \in Trees
    BY <1>1, WithoutOutputFields
  <1>5. /\ \A v \in freed \cap Views :
              u.workspace[v] = NULL /\ u.parent[v] = NULL /\ ~u.fullscreen[v] /\ u.node[v] = Pending
        /\ \A v \in Views \ freed :
              /\ u.workspace[v] = t.workspace[v] /\ u.parent[v] = t.parent[v]
              /\ u.fullscreen[v] = t.fullscreen[v] /\ u.node[v] = t.node[v]
    BY <1>1, WithoutOutputFields
  <1>6. /\ \A w \in there \cap Workspaces :
              /\ u.children[w] = <<>> /\ u.floating[w] = <<>> /\ u.fsContainer[w] = NULL
              /\ ~u.activated[w] /\ u.enabled[w] = "none"
        /\ \A w \in Workspaces \ there :
              /\ u.children[w] = t.children[w] /\ u.floating[w] = t.floating[w]
              /\ u.fsContainer[w] = t.fsContainer[w]
              /\ u.activated[w] = t.activated[w] /\ u.enabled[w] = t.enabled[w]
    BY <1>1, WithoutOutputFields
  <1>7. \A p \in Outputs : u.displayed[p] = IF p = o THEN NULL ELSE t.displayed[p]
    <2>1. u.displayed = [t.displayed EXCEPT ![o] = NULL]
      BY <1>1, WithoutOutputFields
    <2> HIDE DEF u
    <2> QED
      BY <1>1, <2>1 DEF Trees
  <1>8. \A w \in Workspaces : w \in there <=> OutputOf[w] = o
    BY DEF WorkspacesOn
  <1> HIDE DEF u, freed, there
  <1>9. NoDuplicates(<<>>) /\ Items(<<>>) = {}
    BY DEF NoDuplicates, Items
  <1>10. PlacedOnce(u)
    <2>1. \A w \in Workspaces : NoDuplicates(u.children[w]) /\ NoDuplicates(u.floating[w])
      BY <1>1, <1>6, <1>9 DEF PlacedOnce
    <2>2. \A v \in Views : u.parent[v] # NULL => u.workspace[v] = u.parent[v]
      BY <1>1, <1>5 DEF PlacedOnce
    <2>3. ASSUME NEW v \in Views, NEW w \in Workspaces
          PROVE  /\ v \in Items(u.children[w]) <=> u.parent[v] = w
                 /\ v \in Items(u.floating[w]) <=> u.workspace[v] = w /\ u.parent[v] = NULL
      <3>1. /\ v \in Items(t.children[w]) <=> t.parent[v] = w
            /\ v \in Items(t.floating[w]) <=> t.workspace[v] = w /\ t.parent[v] = NULL
            /\ t.parent[v] # NULL => t.workspace[v] = t.parent[v]
        BY <1>1 DEF PlacedOnce
      <3> QED
        BY <1>2, <1>3, <1>5, <1>6, <1>9, <3>1
    <2> QED
      BY <2>1, <2>2, <2>3 DEF PlacedOnce
  <1>11. FullscreenMatches(u)
    BY <1>1, <1>2, <1>3, <1>5, <1>6 DEF FullscreenMatches
  <1>12. NodesFollow(u)
    BY <1>1, <1>2, <1>5 DEF NodesFollow, Pending, Layers
  <1>13. OneDisplayed(u)
    <2>1. \A p \in Present(u) : OutputOf[u.displayed[p]] = p
      BY <1>1, <1>7 DEF OneDisplayed, Present
    <2>2. \A w \in Workspaces : u.activated[w] <=> u.displayed[OutputOf[w]] = w
      <3>1. ASSUME NEW w \in Workspaces
            PROVE  /\ OutputOf[w] \in Outputs
                   /\ t.activated[w] <=> t.displayed[OutputOf[w]] = w
        BY <1>1, TreeAssumption DEF OneDisplayed
      <3>2. ASSUME NEW w \in there PROVE ~u.activated[w] /\ u.displayed[OutputOf[w]] # w
        BY <1>2, <1>6, <1>7, <1>8
      <3>3. ASSUME NEW w \in Workspaces \ there
            PROVE  u.activated[w] <=> u.displayed[OutputOf[w]] = w
        <4>1. u.displayed[OutputOf[w]] = t.displayed[OutputOf[w]]
          BY <1>7, <1>8, <3>1
        <4>2. u.activated[w] = t.activated[w]
          BY <1>6
        <4> QED
          BY <3>1, <4>1, <4>2
      <3> QED
        BY <1>2, <3>2, <3>3
    <2> QED
      BY <2>1, <2>2 DEF OneDisplayed
  <1>14. ASSUME NEW w \in Workspaces
         PROVE  SettledIn(u, w) /\ LayersMatch(u, w)
    <2>1. SettledIn(t, w) /\ LayersMatch(t, w)
      BY DEF GoodBut
    <2>2. SettledIn(u, w)
      BY <1>2, <1>3, <1>5, <1>6, <2>1 DEF SettledIn, IsTiled
    <2>3. LayersMatch(u, w)
      BY <1>6, <2>1 DEF LayersMatch, Visibility
    <2> QED
      BY <2>2, <2>3
  <1> QED
    BY <1>4, <1>10, <1>11, <1>12, <1>13, <1>14 DEF GoodBut, Sound, u

\* Of what is left only the seat may still point to what went with o.
LEMMA OnlyActiveDangles ==
    ASSUME Inv(TRUE), NEW o \in Outputs
    PROVE  LeavesDangling(tree, activeView, o) <=> activeView \in DestroyedWith(tree, o)
  <1>1. /\ tree \in Trees /\ PlacedOnce(tree) /\ FullscreenMatches(tree)
        /\ tree.workspace \in [Views -> Workspaces \cup {NULL}]
    BY DEF Inv, GoodBut, Sound, Trees
  <1>2. \A v \in Views : v \in DestroyedWith(tree, o) <=> tree.workspace[v] \in WorkspacesOn(o)
    BY <1>1, DestroyedAreThere
  <1>3. \A w \in Workspaces : tree.fsContainer[w] \in Views \cup {NULL}
    BY <1>1 DEF Trees
  <1>4. NULL \notin DestroyedWith(tree, o)
    <2>1. \A w \in Workspaces : /\ tree.children[w] \in Seq(Views)
                                /\ tree.floating[w] \in Seq(Views)
      BY <1>1 DEF Trees
    <2> QED
      BY <2>1, TreeAssumption DEF DestroyedWith, WorkspacesOn, Items
  <1>5. ASSUME NEW w \in Workspaces \ WorkspacesOn(o),
               tree.fsContainer[w] \in DestroyedWith(tree, o)
        PROVE  FALSE
    <2>1. tree.fsContainer[w] \in Views
      BY <1>3, <1>4, <1>5
    <2>2. tree.workspace[tree.fsContainer[w]] = w
      BY <1>1, <2>1 DEF FullscreenMatches
    <2> QED
      BY <1>2, <1>5, <2>1, <2>2
  <1> QED
    BY <1>2, <1>5 DEF LeavesDangling

\* What is left of Inv when the seat points to a container that was freed.
Kept ==
    /\ view \in [Views -> {"none", "unmapped", "mapped"}]
    /\ activeView \in Views \cup {NULL}
    /\ aborted \in BOOLEAN
    /\ GoodBut(tree, {})
    /\ \A v \in Views : tree.workspace[v] # NULL => view[v] = "mapped"

\* An output is unplugged.
LEMMA RemoveOutputKept ==
    ASSUME Inv(TRUE), NEW o \in Outputs, RemoveOutput(o)
    PROVE  /\ Kept'
           /\ \A v \in Views : tree'.workspace[v] # NULL =>
                 /\ tree'.workspace[v] = tree.workspace[v]
                 /\ tree'.fullscreen[v] = tree.fullscreen[v]
                 /\ OutputOf[tree.workspace[v]] # o
           /\ \A v \in Views : view'[v] \in {"none", view[v]}
           /\ aborted' \/ Inv(TRUE)'
  <1>1. /\ tree' = WithoutOutput(tree, o) /\ UNCHANGED activeView
        /\ view' = [v \in Views |-> IF v \in DestroyedWith(tree, o) THEN "none" ELSE view[v]]
        /\ aborted' = LeavesDangling(tree, activeView, o)
    BY DEF RemoveOutput
  <1>2. GoodBut(tree, {})'
    BY <1>1, WithoutOutputGood DEF Inv
  <1>3. tree \in Trees /\ PlacedOnce(tree)
    BY DEF Inv, GoodBut, Sound
  <1>4. /\ \A v \in DestroyedWith(tree, o) \cap Views : tree'.workspace[v] = NULL
        /\ \A v \in Views \ DestroyedWith(tree, o) :
              tree'.workspace[v] = tree.workspace[v] /\ tree'.fullscreen[v] = tree.fullscreen[v]
    BY <1>1, <1>3, WithoutOutputFields
  <1>5. \A v \in Views : v \in DestroyedWith(tree, o) <=> tree.workspace[v] \in WorkspacesOn(o)
    BY <1>3, DestroyedAreThere DEF Trees
  <1>6. \A v \in Views : view'[v] = IF v \in DestroyedWith(tree, o) THEN "none" ELSE view[v]
    BY <1>1
  <1>7. view' \in [Views -> {"none", "unmapped", "mapped"}] /\ aborted' \in BOOLEAN
    BY <1>1 DEF Inv, LeavesDangling
  <1>8. \A v \in Views : tree'.workspace[v] # NULL =>
           /\ tree'.workspace[v] = tree.workspace[v]
           /\ tree'.fullscreen[v] = tree.fullscreen[v]
           /\ OutputOf[tree.workspace[v]] # o
           /\ view'[v] = "mapped"
    <2> SUFFICES ASSUME NEW v \in Views, tree'.workspace[v] # NULL
                 PROVE  /\ tree'.workspace[v] = tree.workspace[v]
                        /\ tree'.fullscreen[v] = tree.fullscreen[v]
                        /\ OutputOf[tree.workspace[v]] # o
                        /\ view'[v] = "mapped"
      OBVIOUS
    <2>1. v \notin DestroyedWith(tree, o)
      BY <1>4
    <2>2. tree.workspace[v] \in Workspaces /\ view[v] = "mapped"
      BY <1>3, <1>4, <2>1 DEF Inv, Trees
    <2> QED
      BY <1>4, <1>5, <1>6, <2>1, <2>2 DEF WorkspacesOn
  <1>9. Kept'
    BY <1>1, <1>2, <1>7, <1>8 DEF Kept, Inv
  <1>10. ASSUME ~aborted' PROVE Inv(TRUE)'
    <2>1. activeView \notin DestroyedWith(tree, o)
      BY <1>1, <1>10, OnlyActiveDangles
    <2>2. \A v \in Views : view'[v] # "mapped" => tree'.workspace[v] = NULL /\ activeView # v
      BY <1>4, <1>6, <2>1 DEF Inv
    <2> QED
      BY <1>1, <1>9, <2>2 DEF Kept, Inv
  <1> QED
    BY <1>6, <1>8, <1>9, <1>10

-----------------------------------------------------------------------------
(***************************************************************************)
(* What taskbars are told                                                  *)
(***************************************************************************)

\* An entry shows what its view is.
Shows(V, T) ==
    \A v \in Views : T[v] # NULL =>
        /\ T[v].activated = V[v].activated
        /\ T[v].fullscreen = V[v].fullscreen
        /\ T[v].outputs = {V[v].output} \ {NULL, Freed}
        /\ T[v].title = V[v].title

\* The views that have an entry, the surfaces S of their clients, and the state C of
\* their containers.
Listed(V, T, S, C) ==
    \A v \in Views :
        /\ T[v] # NULL <=> V[v].mapped
        /\ V[v].mapped => V[v].exists /\ S[v].surface = "mapped"
        /\ C[v] = "mapped" => V[v].mapped
        /\ C[v] # "none" => V[v].exists
        /\ V[v].title = S[v].title
        /\ ~V[v].exists => S[v].title = NULL /\ S[v].surface = "none"

\* A view knows whether it is active, and one in a workspace where it is and whether
\* it is fullscreen.
Knows(V) ==
    \A v \in Views :
        /\ V[v].activated <=> activeView = v
        /\ tree.workspace[v] # NULL => /\ V[v].output = OutputOf[tree.workspace[v]]
                                       /\ V[v].fullscreen = tree.fullscreen[v]

ForeignTypes ==
    /\ shell \in [Views -> Shells]
    /\ views \in [Views -> ViewRecords]
    /\ taskbar \in [Views -> Entries \cup {NULL}]

FInv ==
    /\ aborted \/ Inv(TRUE)
    /\ Kept
    /\ ForeignTypes
    /\ Listed(views, taskbar, shell, view)
    /\ Shows(views, taskbar)
    /\ Knows(views)

\* Telling keeps views and entries in step.
LEMMA TellKeeps ==
    ASSUME NEW V \in [Views -> ViewRecords], NEW T \in [Views -> Entries \cup {NULL}],
           NEW asked, Tell(V, T, asked),
           activeView' \in Views \cup {NULL}, tree' \in Trees,
           Shows(V, T), Knows(V),
           \A v \in Views : tree'.workspace[v] # NULL =>
               V[v].mapped /\ (v \in asked \/ tree.workspace[v] # NULL)
    PROVE  /\ views' \in [Views -> ViewRecords]
           /\ taskbar' \in [Views -> Entries \cup {NULL}]
           /\ Shows(views', taskbar')
           /\ Knows(views)'
           /\ \A v \in Views : /\ views'[v].mapped = V[v].mapped
                               /\ views'[v].exists = V[v].exists
                               /\ views'[v].title = V[v].title
                               /\ taskbar'[v] # NULL <=> T[v] # NULL
  <1>1. /\ views' = [v \in Views |-> ViewTold(v, V, asked)]
        /\ taskbar' = [v \in Views |-> IF T[v] = NULL THEN NULL ELSE EntryTold(v, V, T, asked)]
    BY DEF Tell
  <1>2. /\ tree'.workspace \in [Views -> Workspaces \cup {NULL}]
        /\ tree'.fullscreen \in [Views -> BOOLEAN]
        /\ OutputOf \in [Workspaces -> Outputs]
        /\ NULL \notin Outputs /\ Freed \notin Outputs /\ NULL \notin Workspaces
    BY TreeAssumption, ForeignAssumption DEF Trees
  <1>3. ASSUME NEW v \in Views
        PROVE  /\ V[v] \in ViewRecords
               /\ T[v] # NULL => T[v] \in Entries
               /\ v \in Moved => OutputOf[tree'.workspace[v]] \in Outputs
               /\ tree'.fullscreen[v] \in BOOLEAN
    BY <1>2 DEF Moved
  <1>4. ASSUME NEW v \in Views
        PROVE  /\ views'[v] \in ViewRecords
               /\ v \in Switched => (views'[v].activated <=> v = activeView')
               /\ v \notin Switched => views'[v].activated = V[v].activated
               /\ v \in Flagged(V, asked) => views'[v].fullscreen = tree'.fullscreen[v]
               /\ v \notin Flagged(V, asked) => views'[v].fullscreen = V[v].fullscreen
               /\ v \in Moved => views'[v].output = OutputOf[tree'.workspace[v]]
               /\ v \notin Moved => views'[v].output = V[v].output
               /\ views'[v].mapped = V[v].mapped
               /\ views'[v].exists = V[v].exists
               /\ views'[v].title = V[v].title
    <2>1. views'[v] = ViewTold(v, V, asked)
      BY <1>1
    <2> HIDE DEF Switched, Flagged, Moved
    <2> QED
      BY <1>3, <2>1 DEF ViewTold, ViewRecords
  <1>5. ASSUME NEW v \in Views, T[v] # NULL
        PROVE  /\ taskbar'[v] \in Entries
               /\ v \in Switched => (taskbar'[v].activated <=> v = activeView')
               /\ v \notin Switched => taskbar'[v].activated = T[v].activated
               /\ v \in Flagged(V, asked) => taskbar'[v].fullscreen = tree'.fullscreen[v]
               /\ v \notin Flagged(V, asked) => taskbar'[v].fullscreen = T[v].fullscreen
               /\ v \in Moved => taskbar'[v].outputs =
                     OutputsAfter(T[v].outputs, V[v].output, OutputOf[tree'.workspace[v]])
               /\ v \notin Moved => taskbar'[v].outputs = T[v].outputs
               /\ taskbar'[v].title = T[v].title
    <2>1. taskbar'[v] = EntryTold(v, V, T, asked)
      BY <1>1, <1>5
    <2>2. T[v] \in Entries
      BY <1>3, <1>5
    <2>3. v \in Moved => OutputsAfter(T[v].outputs, V[v].output, OutputOf[tree'.workspace[v]])
                            \in SUBSET Outputs
      BY <1>3, <2>2 DEF OutputsAfter, Entries
    <2> HIDE DEF Switched, Flagged, Moved, OutputsAfter
    <2> QED
      BY <1>3, <2>1, <2>2, <2>3 DEF EntryTold, Entries
  <1>6. \A v \in Views : T[v] = NULL => taskbar'[v] = NULL
    BY <1>1
  <1>7. \A v \in Views : taskbar'[v] # NULL <=> T[v] # NULL
    BY <1>5, <1>6, EntryAssumption
  <1>8. Shows(views', taskbar')
    <2> SUFFICES ASSUME NEW v \in Views, T[v] # NULL
                 PROVE  /\ taskbar'[v].activated = views'[v].activated
                        /\ taskbar'[v].fullscreen = views'[v].fullscreen
                        /\ taskbar'[v].outputs = {views'[v].output} \ {NULL, Freed}
                        /\ taskbar'[v].title = views'[v].title
      BY <1>7 DEF Shows
    <2>1. /\ T[v].activated = V[v].activated
          /\ T[v].fullscreen = V[v].fullscreen
          /\ T[v].outputs = {V[v].output} \ {NULL, Freed}
          /\ T[v].title = V[v].title
      BY DEF Shows
    <2>2. taskbar'[v] \in Entries /\ views'[v] \in ViewRecords
      BY <1>4, <1>5
    <2>3. taskbar'[v].activated = views'[v].activated
      BY <1>4, <1>5, <2>1, <2>2 DEF Entries, ViewRecords
    <2>4. taskbar'[v].fullscreen = views'[v].fullscreen
      BY <1>4, <1>5, <2>1
    <2>5. taskbar'[v].outputs = {views'[v].output} \ {NULL, Freed}
      <3>1. CASE v \in Moved
        <4>1. OutputOf[tree'.workspace[v]] \in Outputs
          BY <1>3, <3>1
        <4>2. taskbar'[v].outputs =
                  (T[v].outputs \ {V[v].output}) \cup {OutputOf[tree'.workspace[v]]}
          BY <1>5, <3>1 DEF OutputsAfter
        <4>3. views'[v].output = OutputOf[tree'.workspace[v]]
          BY <1>4, <3>1
        <4>4. T[v].outputs \ {V[v].output} = {}
          BY <2>1
        <4> QED
          BY <1>2, <4>1, <4>2, <4>3, <4>4
      <3>2. CASE v \notin Moved
        BY <1>4, <1>5, <2>1, <3>2
      <3> QED
        BY <3>1, <3>2
    <2>6. taskbar'[v].title = views'[v].title
      BY <1>4, <1>5, <2>1
    <2> QED
      BY <2>3, <2>4, <2>5, <2>6
  <1>9. Knows(views)'
    <2> SUFFICES ASSUME NEW v \in Views
                 PROVE  /\ views'[v].activated <=> activeView' = v
                        /\ tree'.workspace[v] # NULL =>
                              /\ views'[v].output = OutputOf[tree'.workspace[v]]
                              /\ views'[v].fullscreen = tree'.fullscreen[v]
      BY DEF Knows
    <2>1. /\ V[v].activated <=> activeView = v
          /\ tree.workspace[v] # NULL => /\ V[v].output = OutputOf[tree.workspace[v]]
                                         /\ V[v].fullscreen = tree.fullscreen[v]
      BY DEF Knows
    <2>2. views'[v].activated <=> activeView' = v
      BY <1>4, <2>1, TreeAssumption DEF Switched
    <2>3. ASSUME tree'.workspace[v] # NULL
          PROVE  views'[v].output = OutputOf[tree'.workspace[v]]
      BY <1>4, <2>1, <2>3 DEF Moved
    <2>4. ASSUME tree'.workspace[v] # NULL
          PROVE  views'[v].fullscreen = tree'.fullscreen[v]
      BY <1>4, <2>1, <2>4 DEF Flagged
    <2> QED
      BY <2>2, <2>3, <2>4
  <1>10. views' \in [Views -> ViewRecords] /\ taskbar' \in [Views -> Entries \cup {NULL}]
    <2>1. \A v \in Views : views'[v] \in ViewRecords /\ taskbar'[v] \in Entries \cup {NULL}
      BY <1>4, <1>5, <1>6
    <2>2. /\ views' = [v \in Views |-> views'[v]]
          /\ taskbar' = [v \in Views |-> taskbar'[v]]
      BY <1>1
    <2> QED
      BY <2>1, <2>2
  <1> QED
    BY <1>4, <1>7, <1>8, <1>9, <1>10

\* A handler that tells the views, from views V and entries T, keeps FInv.
LEMMA ToldStep ==
    ASSUME Inv(TRUE)', shell' \in [Views -> Shells],
           NEW V \in [Views -> ViewRecords], NEW T \in [Views -> Entries \cup {NULL}],
           NEW asked, Tell(V, T, asked),
           Shows(V, T), Knows(V), Listed(V, T, shell', view'),
           \A v \in Views : tree'.workspace[v] # NULL => v \in asked \/ tree.workspace[v] # NULL
    PROVE  FInv'
  <1>1. /\ activeView' \in Views \cup {NULL} /\ tree' \in Trees /\ Kept'
        /\ \A v \in Views : tree'.workspace[v] # NULL => view'[v] = "mapped"
    BY DEF Inv, Kept, GoodBut, Sound
  <1>2. \A v \in Views : tree'.workspace[v] # NULL =>
            V[v].mapped /\ (v \in asked \/ tree.workspace[v] # NULL)
    BY <1>1 DEF Listed
  <1>3. /\ views' \in [Views -> ViewRecords]
        /\ taskbar' \in [Views -> Entries \cup {NULL}]
        /\ Shows(views', taskbar')
        /\ Knows(views)'
        /\ \A v \in Views : /\ views'[v].mapped = V[v].mapped
                            /\ views'[v].exists = V[v].exists
                            /\ views'[v].title = V[v].title
                            /\ taskbar'[v] # NULL <=> T[v] # NULL
    BY <1>1, <1>2, TellKeeps
  <1>4. Listed(views', taskbar', shell', view')
    BY <1>3 DEF Listed
  <1> QED
    BY <1>1, <1>3, <1>4 DEF FInv, ForeignTypes

\* One that neither maps nor unmaps a view.
LEMMA SameViewsStep ==
    ASSUME FInv, Inv(TRUE)', NEW asked, Tell(views, taskbar, asked),
           UNCHANGED <<shell, view>>, Stays
    PROVE  FInv'
  <1>1. /\ shell' \in [Views -> Shells]
        /\ views \in [Views -> ViewRecords]
        /\ taskbar \in [Views -> Entries \cup {NULL}]
        /\ Shows(views, taskbar) /\ Knows(views) /\ Listed(views, taskbar, shell', view')
    BY DEF FInv, ForeignTypes
  <1>2. \A v \in Views : tree'.workspace[v] # NULL => v \in asked \/ tree.workspace[v] # NULL
    BY DEF Stays
  <1> QED
    BY <1>1, <1>2, ToldStep

-----------------------------------------------------------------------------
(***************************************************************************)
(* The actions                                                             *)
(***************************************************************************)

LEMMA ForeignInitInv == ForeignInit => FInv
  <1> SUFFICES ASSUME ForeignInit PROVE FInv
    OBVIOUS
  <1>1. Inv(TRUE)
    BY InitInv DEF ForeignInit, Inv
  <1>2. /\ Kept /\ activeView = NULL
        /\ \A v \in Views : tree.workspace[v] = NULL
    <2>1. activeView = NULL /\ \A v \in Views : view[v] = "none"
      BY DEF ForeignInit, Init
    <2> QED
      BY <1>1, <2>1 DEF Inv, Kept
  <1>3. /\ shell = [v \in Views |-> NoShell]
        /\ views = [v \in Views |-> NewRecord(FALSE)]
        /\ taskbar = [v \in Views |-> NULL]
        /\ \A v \in Views : view[v] = "none"
    BY DEF ForeignInit, Init
  <1>4. NoShell \in Shells /\ NewRecord(FALSE) \in ViewRecords
    BY DEF NoShell, Shells, NewRecord, ViewRecords
  <1>5. ForeignTypes
    BY <1>3, <1>4 DEF ForeignTypes
  <1>6. Listed(views, taskbar, shell, view) /\ Shows(views, taskbar) /\ Knows(views)
    BY <1>2, <1>3, TreeAssumption DEF Listed, Shows, Knows, NoShell, NewRecord
  <1> QED
    BY <1>1, <1>2, <1>5, <1>6 DEF FInv

\* A view comes or goes; neither it nor its container, if it has one, is mapped.
LEMMA RecordStep ==
    ASSUME FInv, Inv(TRUE)', NEW v \in Views, NEW exists \in BOOLEAN,
           UNCHANGED <<activeView, taskbar>>, activeView # v, taskbar[v] = NULL,
           views' = [views EXCEPT ![v] = NewRecord(exists)],
           shell' \in [Views -> Shells], shell'[v].title = NULL,
           exists \/ shell'[v].surface = "none",
           view'[v] # "mapped", view'[v] # "none" => exists,
           \A x \in Views \ {v} : /\ shell'[x] = shell[x]
                                  /\ view'[x] = view[x]
                                  /\ tree'.workspace[x] = tree.workspace[x]
                                  /\ tree'.fullscreen[x] = tree.fullscreen[x]
    PROVE  FInv'
  <1>1. NewRecord(exists) \in ViewRecords
    BY DEF NewRecord, ViewRecords
  <1>2. ForeignTypes'
    BY <1>1 DEF FInv, ForeignTypes
  <1>3. /\ views'[v] = NewRecord(exists)
        /\ \A x \in Views \ {v} : views'[x] = views[x]
    BY DEF FInv, ForeignTypes
  <1>4. Kept' /\ tree'.workspace[v] = NULL
    BY DEF Inv, Kept
  <1>5. Listed(views', taskbar', shell', view')
    BY <1>3 DEF FInv, Listed, NewRecord
  <1>6. Shows(views', taskbar')
    BY <1>3 DEF FInv, Shows
  <1>7. Knows(views)'
    <2> SUFFICES ASSUME NEW x \in Views
                 PROVE  /\ views'[x].activated <=> activeView' = x
                        /\ tree'.workspace[x] # NULL =>
                              /\ views'[x].output = OutputOf[tree'.workspace[x]]
                              /\ views'[x].fullscreen = tree'.fullscreen[x]
      BY DEF Knows
    <2>1. CASE x = v
      <3>1. views'[v].activated = FALSE /\ activeView' # v /\ tree'.workspace[v] = NULL
        BY <1>3, <1>4 DEF NewRecord
      <3> QED
        BY <2>1, <3>1
    <2>2. CASE x # v
      <3>1. /\ views'[x] = views[x] /\ UNCHANGED activeView
            /\ tree'.workspace[x] = tree.workspace[x]
            /\ tree'.fullscreen[x] = tree.fullscreen[x]
        BY <1>3, <2>2
      <3> QED
        BY <3>1 DEF FInv, Knows
    <2> QED
      BY <2>1, <2>2
  <1> QED
    BY <1>2, <1>4, <1>5, <1>6, <1>7 DEF FInv

LEMMA OthersKept ==
    ASSUME NEW t \in Trees, NEW v \in Views
    PROVE  \A x \in Views \ {v} :
              /\ InitContainer(t, v).workspace[x] = t.workspace[x]
              /\ InitContainer(t, v).fullscreen[x] = t.fullscreen[x]
  <1>1. InitContainer(t, v).workspace = [t.workspace EXCEPT ![v] = NULL]
    BY DEF InitContainer, Trees
  <1>2. InitContainer(t, v).fullscreen = [t.fullscreen EXCEPT ![v] = FALSE]
    BY DEF InitContainer, Trees
  <1> QED
    BY <1>1, <1>2 DEF Trees

LEMMA NewViewStep ==
    ASSUME FInv, Inv(TRUE), NEW v \in Views, NEW contained \in BOOLEAN,
           NEW surface \in {"none", "unmapped"}, NEW hints \in Hints,
           NewView(v, contained, surface, hints)
    PROVE  FInv'
  <1>1. /\ ~views[v].exists /\ UNCHANGED taskbar
        /\ shell' = [shell EXCEPT ![v].surface = surface, ![v].hints = hints]
        /\ views' = [views EXCEPT ![v] = NewRecord(TRUE)]
        /\ CreateView(v) \/ UNCHANGED vars
    BY DEF NewView
  <1>2. view[v] = "none" /\ taskbar[v] = NULL /\ shell[v].title = NULL
    BY <1>1 DEF FInv, Listed
  <1>3. activeView # v
    BY <1>2 DEF Inv
  <1>4. Inv(TRUE)' /\ UNCHANGED activeView
    BY <1>1, CreateViewInv DEF CreateView, vars, Inv
  <1>5. shell[v] \in Shells /\ shell \in [Views -> Shells]
    BY DEF FInv, ForeignTypes
  <1>6. /\ shell' \in [Views -> Shells] /\ shell'[v].title = NULL
        /\ \A x \in Views \ {v} : shell'[x] = shell[x]
    BY <1>1, <1>2, <1>5 DEF Shells
  <1>7. /\ view'[v] # "mapped"
        /\ \A x \in Views \ {v} : /\ view'[x] = view[x]
                                  /\ tree'.workspace[x] = tree.workspace[x]
                                  /\ tree'.fullscreen[x] = tree.fullscreen[x]
    <2>1. view \in [Views -> {"none", "unmapped", "mapped"}] /\ tree \in Trees
      BY DEF Inv, GoodBut, Sound
    <2>2. CASE CreateView(v)
      BY <2>1, <2>2, OthersKept DEF CreateView
    <2>3. CASE UNCHANGED vars
      BY <1>2, <2>3 DEF vars
    <2> QED
      BY <1>1, <2>2, <2>3
  <1> QED
    BY <1>1, <1>2, <1>3, <1>4, <1>6, <1>7, RecordStep

LEMMA ViewGoneStep ==
    ASSUME FInv, Inv(TRUE), NEW v \in Views, NEW surface \in {"none", "unmapped"},
           ViewGone(v, surface)
    PROVE  FInv'
  <1>1. /\ shell[v].surface = surface /\ UNCHANGED taskbar
        /\ shell' = [shell EXCEPT ![v] = NoShell]
        /\ views' = [views EXCEPT ![v] = NewRecord(FALSE)]
        /\ IF view[v] = "none" THEN UNCHANGED vars ELSE DestroyView(v)
    BY DEF ViewGone
  <1>2. taskbar[v] = NULL
    BY <1>1 DEF FInv, Listed
  <1>3. view[v] # "mapped" /\ activeView # v
    BY <1>1 DEF Inv, DestroyView
  <1>4. Inv(TRUE)' /\ UNCHANGED activeView
    BY <1>1, DestroyViewInv DEF DestroyView, vars, Inv
  <1>5. /\ shell' \in [Views -> Shells]
        /\ shell'[v].title = NULL /\ shell'[v].surface = "none"
        /\ \A x \in Views \ {v} : shell'[x] = shell[x]
    BY <1>1 DEF FInv, ForeignTypes, NoShell, Shells
  <1>6. /\ view'[v] = "none"
        /\ \A x \in Views \ {v} : /\ view'[x] = view[x]
                                  /\ tree'.workspace[x] = tree.workspace[x]
                                  /\ tree'.fullscreen[x] = tree.fullscreen[x]
    <2>1. view \in [Views -> {"none", "unmapped", "mapped"}] /\ tree \in Trees
      BY DEF Inv, GoodBut, Sound
    <2>2. CASE view[v] = "none"
      BY <1>1, <2>2 DEF vars
    <2>3. CASE view[v] # "none"
      <3>1. DestroyView(v) /\ tree.workspace[v] = NULL
        BY <1>1, <1>3, <2>3 DEF Inv
      <3>2. LeaveParent(tree, v) = tree
        BY <2>1, <3>1, NowhereNothing, NoParentToLeave DEF Inv, GoodBut, Sound
      <3> QED
        BY <2>1, <3>1, <3>2, OthersKept DEF DestroyView
    <2> QED
      BY <2>2, <2>3
  <1> QED
    BY <1>1, <1>2, <1>3, <1>4, <1>5, <1>6, RecordStep

\* An X11 window gets its surface or loses it.
LEMMA SurfaceStep ==
    ASSUME FInv, Inv(TRUE), NEW v \in Views, NEW surface \in {"none", "unmapped"},
           shell[v].surface \in {"none", "unmapped"}, views[v].exists,
           shell' = [shell EXCEPT ![v].surface = surface],
           UNCHANGED <<vars, views, taskbar>>
    PROVE  FInv'
  <1>1. shell \in [Views -> Shells]
    BY DEF FInv, ForeignTypes
  <1>2. /\ shell' \in [Views -> Shells]
        /\ shell'[v].surface = surface /\ shell'[v].title = shell[v].title
        /\ \A x \in Views \ {v} : shell'[x] = shell[x]
    BY <1>1 DEF Shells
  <1>3. UNCHANGED <<view, tree, activeView, aborted>>
    BY DEF vars
  <1>4. Kept' /\ (aborted' \/ Inv(TRUE)') /\ ForeignTypes'
    BY <1>2, <1>3 DEF FInv, ForeignTypes, Kept, Inv
  <1>5. Listed(views', taskbar', shell', view')
    BY <1>2, <1>3 DEF FInv, Listed
  <1>6. Shows(views', taskbar') /\ Knows(views)'
    BY <1>3 DEF FInv, Shows, Knows
  <1> QED
    BY <1>4, <1>5, <1>6 DEF FInv

LEMMA SetTitleStep ==
    ASSUME FInv, Inv(TRUE), NEW v \in Views, NEW title \in Titles, SetTitle(v, title)
    PROVE  FInv'
  <1>1. /\ shell \in [Views -> Shells]
        /\ views \in [Views -> ViewRecords]
        /\ taskbar \in [Views -> Entries \cup {NULL}]
    BY DEF FInv, ForeignTypes
  <1>2. /\ views[v].exists
        /\ shell' = [shell EXCEPT ![v].title = title]
        /\ views' = [views EXCEPT ![v].title = title]
        /\ taskbar' = [taskbar EXCEPT ![v] = IF @ = NULL THEN NULL ELSE [@ EXCEPT !.title = title]]
        /\ UNCHANGED <<view, tree, activeView, aborted>>
    BY DEF SetTitle, EntryTitled, vars
  <1>3. /\ shell' \in [Views -> Shells]
        /\ shell'[v].surface = shell[v].surface /\ shell'[v].title = title
        /\ \A x \in Views \ {v} : shell'[x] = shell[x]
    BY <1>1, <1>2 DEF Shells
  <1>4. /\ views' \in [Views -> ViewRecords]
        /\ views'[v] = [views[v] EXCEPT !.title = title] /\ views'[v].title = title
        /\ views'[v].exists = views[v].exists /\ views'[v].mapped = views[v].mapped
        /\ views'[v].activated = views[v].activated /\ views'[v].output = views[v].output
        /\ views'[v].fullscreen = views[v].fullscreen
        /\ \A x \in Views \ {v} : views'[x] = views[x]
    BY <1>1, <1>2 DEF ViewRecords
  <1>5. \A x \in Views \ {v} : taskbar'[x] = taskbar[x]
    BY <1>1, <1>2
  <1>6. CASE taskbar[v] = NULL
    <2>1. taskbar' = taskbar
      BY <1>1, <1>2, <1>6
    <2>2. Kept' /\ (aborted' \/ Inv(TRUE)') /\ ForeignTypes'
      BY <1>1, <1>2, <1>3, <1>4, <2>1 DEF FInv, ForeignTypes, Kept, Inv
    <2>3. Listed(views', taskbar', shell', view')
      BY <1>2, <1>3, <1>4, <2>1 DEF FInv, Listed
    <2>4. Shows(views', taskbar') /\ Knows(views)'
      BY <1>2, <1>4, <1>6, <2>1 DEF FInv, Shows, Knows
    <2> QED
      BY <2>2, <2>3, <2>4 DEF FInv
  <1>7. CASE taskbar[v] # NULL
    <2>1. taskbar[v] \in Entries
      BY <1>1, <1>7
    <2>2. /\ taskbar'[v] \in Entries
          /\ taskbar'[v].activated = taskbar[v].activated
          /\ taskbar'[v].fullscreen = taskbar[v].fullscreen
          /\ taskbar'[v].outputs = taskbar[v].outputs
          /\ taskbar'[v].title = title
      BY <1>1, <1>2, <1>7, <2>1 DEF Entries
    <2>3. taskbar' \in [Views -> Entries \cup {NULL}] /\ taskbar'[v] # NULL
      BY <1>1, <1>2, <1>5, <2>2, EntryAssumption
    <2>4. Kept' /\ (aborted' \/ Inv(TRUE)') /\ ForeignTypes'
      BY <1>2, <1>3, <1>4, <2>3 DEF FInv, ForeignTypes, Kept, Inv
    <2>5. Listed(views', taskbar', shell', view')
      BY <1>2, <1>3, <1>4, <1>5, <1>7, <2>3 DEF FInv, Listed
    <2>6. Shows(views', taskbar') /\ Knows(views)'
      BY <1>2, <1>4, <1>5, <1>7, <2>2 DEF FInv, Shows, Knows
    <2> QED
      BY <2>4, <2>5, <2>6 DEF FInv
  <1> QED
    BY <1>6, <1>7

\* Freed memory is read.
LEMMA FreedStep ==
    ASSUME FInv, aborted' = TRUE, UNCHANGED <<view, tree, activeView, views, taskbar>>,
           shell' \in [Views -> Shells],
           \A v \in Views : /\ shell'[v].title = shell[v].title
                            /\ \/ shell'[v].surface = shell[v].surface
                               \/ shell[v].surface # "none" /\ shell'[v].surface = "mapped"
    PROVE  FInv'
  <1>1. Kept' /\ ForeignTypes'
    BY DEF FInv, ForeignTypes, Kept
  <1>2. Listed(views', taskbar', shell', view')
    BY DEF FInv, Listed
  <1>3. Shows(views', taskbar') /\ Knows(views)'
    BY DEF FInv, Shows, Knows
  <1> QED
    BY <1>1, <1>2, <1>3 DEF FInv

LEMMA ViewMapStep ==
    ASSUME FInv, Inv(TRUE), NEW v \in Views, NEW full \in BOOLEAN,
           NEW out \in Present(tree) \cup {NULL}, NEW hovered \in Hovered(tree),
           NEW created \in BOOLEAN, ViewMap(v, full, out, hovered, created)
    PROVE  FInv'
  <1>1. /\ shell \in [Views -> Shells] /\ views \in [Views -> ViewRecords]
        /\ taskbar \in [Views -> Entries \cup {NULL}]
    BY DEF FInv, ForeignTypes
  <1>2. shell[v].surface = "unmapped" /\ shell' = [shell EXCEPT ![v].surface = "mapped"]
    BY DEF ViewMap
  <1>3. /\ shell' \in [Views -> Shells]
        /\ shell'[v].surface = "mapped" /\ shell'[v].title = shell[v].title
        /\ \A x \in Views \ {v} : shell'[x] = shell[x]
    BY <1>1, <1>2 DEF Shells
  <1>4. views[v].exists
    BY <1>2 DEF FInv, Listed
  <1>5. CASE ~created
    <2>1. UNCHANGED <<view, tree, activeView, aborted, views, taskbar>>
      BY <1>5 DEF ViewMap, vars
    <2>2. Kept' /\ (aborted' \/ Inv(TRUE)') /\ ForeignTypes'
      BY <1>3, <2>1 DEF FInv, ForeignTypes, Kept, Inv
    <2>3. Listed(views', taskbar', shell', view')
      BY <1>3, <1>4, <2>1 DEF FInv, Listed
    <2>4. Shows(views', taskbar') /\ Knows(views)'
      BY <2>1 DEF FInv, Shows, Knows
    <2> QED
      BY <2>2, <2>3, <2>4 DEF FInv
  <1>6. CASE created /\ views[v].output = Freed
    <2>1. aborted' = TRUE /\ UNCHANGED <<view, tree, activeView, views, taskbar>>
      BY <1>6 DEF ViewMap
    <2>2. \A x \in Views :
             /\ shell'[x].title = shell[x].title
             /\ \/ shell'[x].surface = shell[x].surface
                \/ shell[x].surface # "none" /\ shell'[x].surface = "mapped"
      BY <1>2, <1>3
    <2> QED
      BY <1>3, <2>1, <2>2, FreedStep
  <1>7. CASE created /\ views[v].output # Freed
    <2> DEFINE V == [views EXCEPT ![v].mapped = TRUE]
               T == [taskbar EXCEPT ![v] = NewEntry(v)]
               asked == IF tree'.workspace[v] = NULL THEN {} ELSE {v}
    <2>1. /\ Tell(V, T, asked)
          /\ IF view[v] = "none" THEN UNCHANGED vars
             ELSE MapView(v, full, out, WantsFloating(v), hovered)
      BY <1>7 DEF ViewMap
    <2>2. /\ V \in [Views -> ViewRecords]
          /\ V[v].exists = views[v].exists /\ V[v].mapped
          /\ V[v].activated = views[v].activated /\ V[v].output = views[v].output
          /\ V[v].fullscreen = views[v].fullscreen /\ V[v].title = views[v].title
          /\ \A x \in Views \ {v} : V[x] = views[x]
      BY <1>1 DEF ViewRecords
    <2>3. /\ NewEntry(v) \in Entries
          /\ NewEntry(v).activated = views[v].activated
          /\ NewEntry(v).fullscreen = views[v].fullscreen
          /\ NewEntry(v).outputs = {views[v].output} \ {NULL, Freed}
          /\ NewEntry(v).title = views[v].title
      BY <1>1, <1>7 DEF NewEntry, Entries, ViewRecords
    <2>4. /\ T \in [Views -> Entries \cup {NULL}]
          /\ T[v] = NewEntry(v) /\ T[v] # NULL
          /\ \A x \in Views \ {v} : T[x] = taskbar[x]
      BY <1>1, <2>3, EntryAssumption
    <2> HIDE DEF V, T
    <2>5. Shows(V, T)
      BY <2>2, <2>3, <2>4 DEF FInv, Shows
    <2>6. Knows(V)
      <3>1. \A x \in Views : /\ V[x].activated = views[x].activated
                             /\ V[x].output = views[x].output
                             /\ V[x].fullscreen = views[x].fullscreen
        BY <2>2
      <3> QED
        BY <3>1 DEF FInv, Knows
    <2>7. WantsFloating(v) \in BOOLEAN
      BY DEF WantsFloating, ToplevelFloats, WindowFloats
    <2>8. /\ Inv(TRUE)'
          /\ \A x \in Views \ {v} : tree.workspace[x] = NULL => tree'.workspace[x] = NULL
          /\ \A x \in Views \ {v} : view'[x] = view[x]
      <3>1. CASE view[v] = "none"
        BY <2>1, <3>1 DEF vars, Inv
      <3>2. CASE view[v] # "none"
        BY <2>1, <2>7, <3>2, MapViewInv DEF MapView, Inv
      <3> QED
        BY <3>1, <3>2
    <2>9. Listed(V, T, shell', view')
      <3> SUFFICES ASSUME NEW x \in Views
                   PROVE  /\ T[x] # NULL <=> V[x].mapped
                          /\ V[x].mapped => V[x].exists /\ shell'[x].surface = "mapped"
                          /\ view'[x] = "mapped" => V[x].mapped
                          /\ view'[x] # "none" => V[x].exists
                          /\ V[x].title = shell'[x].title
                          /\ ~V[x].exists => shell'[x].title = NULL /\ shell'[x].surface = "none"
        BY DEF Listed
      <3>1. CASE x = v
        <4>1. views[v].title = shell[v].title
          BY DEF FInv, Listed
        <4> QED
          BY <1>3, <1>4, <2>2, <2>4, <3>1, <4>1
      <3>2. CASE x # v
        <4>1. /\ T[x] = taskbar[x] /\ V[x] = views[x] /\ shell'[x] = shell[x] /\ view'[x] = view[x]
          BY <1>3, <2>2, <2>4, <2>8, <3>2
        <4> QED
          BY <4>1 DEF FInv, Listed
      <3> QED
        BY <3>1, <3>2
    <2>10. \A x \in Views : tree'.workspace[x] # NULL => x \in asked \/ tree.workspace[x] # NULL
      BY <2>8
    <2> QED
      BY <1>3, <2>1, <2>2, <2>4, <2>5, <2>6, <2>8, <2>9, <2>10, ToldStep
  <1> QED
    BY <1>5, <1>6, <1>7

LEMMA UnmapSurfaceStep ==
    ASSUME FInv, Inv(TRUE), NEW v \in Views, UnmapSurface(v)
    PROVE  FInv'
  <1> DEFINE V == [views EXCEPT ![v].mapped = FALSE]
             T == [taskbar EXCEPT ![v] = NULL]
  <1>1. /\ shell \in [Views -> Shells] /\ views \in [Views -> ViewRecords]
        /\ taskbar \in [Views -> Entries \cup {NULL}]
    BY DEF FInv, ForeignTypes
  <1>2. /\ shell[v].surface = "mapped"
        /\ shell' = [shell EXCEPT ![v].surface = "unmapped"]
        /\ IF view[v] = "mapped" THEN UnmapView(v) ELSE UNCHANGED vars
        /\ Tell(V, T, {})
    BY DEF UnmapSurface, EntriesWithout
  <1>3. /\ shell' \in [Views -> Shells]
        /\ shell'[v].surface = "unmapped" /\ shell'[v].title = shell[v].title
        /\ \A x \in Views \ {v} : shell'[x] = shell[x]
    BY <1>1, <1>2 DEF Shells
  <1>4. views[v].exists
    BY <1>2 DEF FInv, Listed
  <1>5. /\ V \in [Views -> ViewRecords]
        /\ V[v].exists = views[v].exists /\ ~V[v].mapped
        /\ V[v].activated = views[v].activated /\ V[v].output = views[v].output
        /\ V[v].fullscreen = views[v].fullscreen /\ V[v].title = views[v].title
        /\ \A x \in Views \ {v} : V[x] = views[x]
    BY <1>1 DEF ViewRecords
  <1>6. /\ T \in [Views -> Entries \cup {NULL}] /\ T[v] = NULL
        /\ \A x \in Views \ {v} : T[x] = taskbar[x]
    BY <1>1
  <1> HIDE DEF V, T
  <1>7. Shows(V, T)
    BY <1>5, <1>6 DEF FInv, Shows
  <1>8. Knows(V)
    <2>1. \A x \in Views : /\ V[x].activated = views[x].activated
                           /\ V[x].output = views[x].output
                           /\ V[x].fullscreen = views[x].fullscreen
      BY <1>5
    <2> QED
      BY <2>1 DEF FInv, Knows
  <1>9. /\ Inv(TRUE)' /\ Stays /\ view'[v] # "mapped"
        /\ \A x \in Views \ {v} : view'[x] = view[x]
    <2>1. CASE view[v] = "mapped"
      BY <1>2, <2>1, UnmapViewInv DEF UnmapView, Inv
    <2>2. CASE view[v] # "mapped"
      BY <1>2, <2>2 DEF vars, Inv, Stays
    <2> QED
      BY <2>1, <2>2
  <1>10. Listed(V, T, shell', view')
    <2> SUFFICES ASSUME NEW x \in Views
                 PROVE  /\ T[x] # NULL <=> V[x].mapped
                        /\ V[x].mapped => V[x].exists /\ shell'[x].surface = "mapped"
                        /\ view'[x] = "mapped" => V[x].mapped
                        /\ view'[x] # "none" => V[x].exists
                        /\ V[x].title = shell'[x].title
                        /\ ~V[x].exists => shell'[x].title = NULL /\ shell'[x].surface = "none"
      BY DEF Listed
    <2>1. CASE x = v
      <3>1. views[v].title = shell[v].title
        BY DEF FInv, Listed
      <3> QED
        BY <1>3, <1>4, <1>5, <1>6, <1>9, <2>1, <3>1
    <2>2. CASE x # v
      <3>1. /\ T[x] = taskbar[x] /\ V[x] = views[x] /\ shell'[x] = shell[x] /\ view'[x] = view[x]
        BY <1>3, <1>5, <1>6, <1>9, <2>2
      <3> QED
        BY <3>1 DEF FInv, Listed
    <2> QED
      BY <2>1, <2>2
  <1>11. \A x \in Views : tree'.workspace[x] # NULL => x \in {} \/ tree.workspace[x] # NULL
    BY <1>9 DEF Stays
  <1> QED
    BY <1>2, <1>3, <1>5, <1>6, <1>7, <1>8, <1>9, <1>10, <1>11, ToldStep

\* A fullscreen request, of the client or of a taskbar.
LEMMA AskFullscreenStep ==
    ASSUME FInv, Inv(TRUE), NEW v \in Views, NEW full \in BOOLEAN,
           NEW out \in Present(tree) \cup {NULL}, AskFullscreen(v, full, out)
    PROVE  FInv'
  <1> DEFINE asked == IF tree'.workspace[v] = NULL THEN {v} ELSE {}
  <1>1. RequestFullscreen(v, full, out) /\ Tell(views, taskbar, asked) /\ UNCHANGED shell
    BY DEF AskFullscreen
  <1>2. Inv(TRUE)' /\ Stays /\ UNCHANGED view
    BY <1>1, RequestFullscreenInv DEF RequestFullscreen
  <1> HIDE DEF asked
  <1> QED
    BY <1>1, <1>2, SameViewsStep

LEMMA TaskbarActivatesStep ==
    ASSUME FInv, Inv(TRUE), NEW v \in Views, TaskbarActivates(v)
    PROVE  FInv'
  <1>1. RequestActivate(v) /\ Tell(views, taskbar, {}) /\ UNCHANGED shell
    BY DEF TaskbarActivates
  <1>2. Inv(TRUE)' /\ Stays /\ UNCHANGED view
    BY <1>1, FocusInv DEF RequestActivate
  <1> QED
    BY <1>1, <1>2, SameViewsStep

LEMMA BesideStep ==
    ASSUME FInv, Inv(TRUE), Beside
    PROVE  FInv'
  <1>1. Tell(views, taskbar, {}) /\ UNCHANGED shell
    BY DEF Beside
  <1>2. ASSUME NEW v \in Views, PointerMotion(v)
        PROVE  Inv(TRUE)' /\ Stays /\ UNCHANGED view
    BY <1>2, PointerMotionInv DEF PointerMotion
  <1>3. ASSUME NEW w \in Workspaces, ActivateWorkspace(w)
        PROVE  Inv(TRUE)' /\ Stays /\ UNCHANGED view
    BY <1>3, DisplayInv DEF ActivateWorkspace
  <1>4. ASSUME NEW o \in Outputs, AddOutput(o)
        PROVE  Inv(TRUE)' /\ Stays /\ UNCHANGED view
    BY <1>4, AddOutputInv DEF AddOutput
  <1>5. ASSUME Command PROVE Inv(TRUE)' /\ Stays /\ UNCHANGED view
    <2>1. CASE ToggleTiled
      BY <2>1, ToggleTiledInv DEF ToggleTiled
    <2>2. CASE SwitchTilingMode
      BY <2>2, SwitchTilingModeInv DEF SwitchTilingMode
    <2>3. CASE ToggleFullscreen
      BY <2>3, ToggleFullscreenInv DEF ToggleFullscreen
    <2>4. ASSUME NEW hovered \in Hovered(tree), ShowNextWorkspace(hovered)
          PROVE  Inv(TRUE)' /\ Stays /\ UNCHANGED view
      BY <2>4, ShowNextWorkspaceInv DEF ShowNextWorkspace
    <2>5. CASE MoveToNextWorkspace
      BY <2>5, MoveToNextWorkspaceInv DEF MoveToNextWorkspace
    <2> QED
      BY <1>5, <2>1, <2>2, <2>3, <2>4, <2>5 DEF Command
  <1>6. Inv(TRUE)' /\ Stays /\ UNCHANGED view
    BY <1>2, <1>3, <1>4, <1>5 DEF Beside
  <1> QED
    BY <1>1, <1>6, SameViewsStep

LEMMA UnplugStep ==
    ASSUME FInv, Inv(TRUE), NEW o \in Outputs, Unplug(o)
    PROVE  FInv'
  <1>1. /\ shell \in [Views -> Shells] /\ views \in [Views -> ViewRecords]
        /\ taskbar \in [Views -> Entries \cup {NULL}]
    BY DEF FInv, ForeignTypes
  <1>2. /\ RemoveOutput(o) /\ UNCHANGED <<shell, activeView>>
        /\ views' = [v \in Views |-> [views[v] EXCEPT !.output = IF @ = o THEN Freed ELSE @]]
        /\ taskbar' = [v \in Views |-> IF taskbar[v] = NULL THEN NULL
                                       ELSE [taskbar[v] EXCEPT !.outputs = @ \ {o}]]
    BY DEF Unplug, RemoveOutput
  <1>3. /\ Kept' /\ (aborted' \/ Inv(TRUE)')
        /\ \A v \in Views : tree'.workspace[v] # NULL =>
              /\ tree'.workspace[v] = tree.workspace[v]
              /\ tree'.fullscreen[v] = tree.fullscreen[v]
              /\ OutputOf[tree.workspace[v]] # o
        /\ \A v \in Views : view'[v] \in {"none", view[v]}
    BY <1>2, RemoveOutputKept
  <1>4. ASSUME NEW v \in Views
        PROVE  /\ views'[v] \in ViewRecords
               /\ views[v].output = o => views'[v].output = Freed
               /\ views[v].output # o => views'[v].output = views[v].output
               /\ views'[v].exists = views[v].exists /\ views'[v].mapped = views[v].mapped
               /\ views'[v].activated = views[v].activated
               /\ views'[v].fullscreen = views[v].fullscreen
               /\ views'[v].title = views[v].title
    BY <1>1, <1>2 DEF ViewRecords
  <1>5. ASSUME NEW v \in Views, taskbar[v] # NULL
        PROVE  /\ taskbar'[v] \in Entries /\ taskbar'[v] # NULL
               /\ taskbar'[v].outputs = taskbar[v].outputs \ {o}
               /\ taskbar'[v].activated = taskbar[v].activated
               /\ taskbar'[v].fullscreen = taskbar[v].fullscreen
               /\ taskbar'[v].title = taskbar[v].title
    <2>1. taskbar[v] \in Entries
      BY <1>1, <1>5
    <2>2. taskbar'[v] = [taskbar[v] EXCEPT !.outputs = @ \ {o}]
      BY <1>2, <1>5
    <2> QED
      BY <2>1, <2>2, EntryAssumption DEF Entries
  <1>6. \A v \in Views : taskbar[v] = NULL => taskbar'[v] = NULL
    BY <1>2
  <1>7. ForeignTypes'
    <2>1. \A v \in Views : views'[v] \in ViewRecords /\ taskbar'[v] \in Entries \cup {NULL}
      BY <1>4, <1>5, <1>6
    <2>2. /\ views' = [v \in Views |-> views'[v]]
          /\ taskbar' = [v \in Views |-> taskbar'[v]]
      BY <1>2
    <2> QED
      BY <1>1, <1>2, <2>1, <2>2 DEF ForeignTypes
  <1>8. Listed(views', taskbar', shell', view')
    <2>1. \A v \in Views : taskbar'[v] # NULL <=> taskbar[v] # NULL
      BY <1>5, <1>6
    <2>2. \A v \in Views : /\ view'[v] = "mapped" => view[v] = "mapped"
                           /\ view'[v] # "none" => view[v] # "none"
      BY <1>3
    <2> QED
      BY <1>2, <1>4, <2>1, <2>2 DEF FInv, Listed
  <1>9. Shows(views', taskbar')
    <2> SUFFICES ASSUME NEW v \in Views, taskbar[v] # NULL
                 PROVE  /\ taskbar'[v].activated = views'[v].activated
                        /\ taskbar'[v].fullscreen = views'[v].fullscreen
                        /\ taskbar'[v].outputs = {views'[v].output} \ {NULL, Freed}
                        /\ taskbar'[v].title = views'[v].title
      BY <1>6 DEF Shows
    <2>1. /\ taskbar[v].activated = views[v].activated
          /\ taskbar[v].fullscreen = views[v].fullscreen
          /\ taskbar[v].outputs = {views[v].output} \ {NULL, Freed}
          /\ taskbar[v].title = views[v].title
      BY DEF FInv, Shows
    <2>2. taskbar'[v].outputs = {views'[v].output} \ {NULL, Freed}
      <3>1. taskbar'[v].outputs = ({views[v].output} \ {NULL, Freed}) \ {o}
        BY <1>5, <2>1
      <3>2. CASE views[v].output = o
        BY <1>4, <3>1, <3>2
      <3>3. CASE views[v].output # o
        BY <1>4, <3>1, <3>3
      <3> QED
        BY <3>2, <3>3
    <2> QED
      BY <1>4, <1>5, <2>1, <2>2
  <1>10. Knows(views)'
    <2> SUFFICES ASSUME NEW v \in Views
                 PROVE  /\ views'[v].activated <=> activeView' = v
                        /\ tree'.workspace[v] # NULL =>
                              /\ views'[v].output = OutputOf[tree'.workspace[v]]
                              /\ views'[v].fullscreen = tree'.fullscreen[v]
      BY DEF Knows
    <2>1. /\ views[v].activated <=> activeView = v
          /\ tree.workspace[v] # NULL => /\ views[v].output = OutputOf[tree.workspace[v]]
                                         /\ views[v].fullscreen = tree.fullscreen[v]
      BY DEF FInv, Knows
    <2> QED
      BY <1>2, <1>3, <1>4, <2>1
  <1> QED
    BY <1>3, <1>7, <1>8, <1>9, <1>10 DEF FInv

LEMMA ToplevelEventStep ==
    ASSUME FInv, Inv(TRUE), NEW v \in Views, ToplevelEvent(v)
    PROVE  FInv'
  <1>1. ASSUME NEW contained \in BOOLEAN, NEW hints \in Hints,
               NewToplevel(v, contained, hints) \/ NewWindow(v, contained, hints)
        PROVE  FInv'
    BY <1>1, NewViewStep DEF NewToplevel, NewWindow
  <1>2. CASE Associate(v)
    BY <1>2, SurfaceStep DEF Associate
  <1>3. CASE Dissociate(v)
    <2>1. views[v].exists
      BY <1>3 DEF Dissociate, FInv, Listed
    <2> QED
      BY <1>3, <2>1, SurfaceStep DEF Dissociate
  <1>4. ASSUME NEW full \in BOOLEAN, NEW created \in BOOLEAN, NEW hovered \in Hovered(tree),
               NEW out \in Present(tree) \cup {NULL},
               MapToplevel(v, full, out, hovered, created)
        PROVE  FInv'
    BY <1>4, ViewMapStep DEF MapToplevel
  <1>5. ASSUME NEW full \in BOOLEAN, NEW created \in BOOLEAN, NEW hovered \in Hovered(tree),
               MapWindow(v, full, hovered, created)
        PROVE  FInv'
    BY <1>5, ViewMapStep DEF MapWindow
  <1>6. CASE UnmapSurface(v)
    BY <1>6, UnmapSurfaceStep
  <1>7. CASE DestroyToplevel(v) \/ DestroyWindow(v)
    BY <1>7, ViewGoneStep DEF DestroyToplevel, DestroyWindow
  <1>8. ASSUME NEW title \in Titles, SetTitle(v, title) PROVE FInv'
    BY <1>8, SetTitleStep
  <1>9. CASE CommitReadsFreed(v)
    BY <1>9, FreedStep DEF CommitReadsFreed, FInv, ForeignTypes
  <1>10. ASSUME NEW full \in BOOLEAN, WindowAsks(v, full) PROVE FInv'
    BY <1>10, AskFullscreenStep DEF WindowAsks
  <1>11. ASSUME NEW full \in BOOLEAN, NEW out \in Present(tree) \cup {NULL},
                ToplevelAsks(v, full, out) \/ TaskbarAsks(v, full, out)
         PROVE  FInv'
    BY <1>11, AskFullscreenStep DEF ToplevelAsks, TaskbarAsks
  <1>12. CASE TaskbarActivates(v)
    BY <1>12, TaskbarActivatesStep
  <1> QED
    BY <1>1, <1>2, <1>3, <1>4, <1>5, <1>6, <1>7, <1>8, <1>9, <1>10, <1>11, <1>12
    DEF ToplevelEvent

LEMMA ForeignNextInv == FInv /\ [ForeignNext]_allVars => FInv'
  <1> SUFFICES ASSUME FInv, [ForeignNext]_allVars PROVE FInv'
    OBVIOUS
  <1>1. CASE UNCHANGED allVars
    BY <1>1 DEF allVars, FInv, ForeignTypes, Kept, Inv, Listed, Shows, Knows
  <1>2. CASE ForeignNext
    <2>1. Inv(TRUE)
      BY <1>2 DEF ForeignNext, FInv
    <2> QED
      BY <1>2, <2>1, ToplevelEventStep, BesideStep, UnplugStep DEF ForeignNext
  <1> QED
    BY <1>1, <1>2

LEMMA ForeignSpecInv == ForeignSpec => []FInv
  BY ForeignInitInv, ForeignNextInv, PTL DEF ForeignSpec

-----------------------------------------------------------------------------
(***************************************************************************)
(* The theorems                                                            *)
(***************************************************************************)

\* Views, entries, surfaces, tree and seat always have their types, whatever output
\* is unplugged.
THEOREM ForeignTypeCorrect == ForeignSpec => []ForeignTypeOK
  <1>1. FInv => ForeignTypeOK
    BY DEF FInv, Kept, ForeignTypes, ForeignTypeOK, TypeOK, GoodBut, Sound
  <1> QED
    BY <1>1, ForeignSpecInv, PTL

\* A taskbar always lists exactly the mapped views, those in a workspace among them.
THEOREM Taskbars == ForeignSpec => []TaskbarLists
  <1>1. FInv => TaskbarLists
    BY DEF FInv, Kept, Listed, TaskbarLists
  <1> QED
    BY <1>1, ForeignSpecInv, PTL

\* What a taskbar is told of a view in a workspace is always the truth, however the
\* view got there.
THEOREM TaskbarsTold == ForeignSpec => []TaskbarTells
  <1>1. ASSUME FInv, NEW v \in Views, taskbar[v] # NULL, tree.workspace[v] # NULL
        PROVE  taskbar[v] = [activated  |-> activeView = v,
                             fullscreen |-> tree.fullscreen[v],
                             outputs    |-> {OutputOf[tree.workspace[v]]},
                             title      |-> shell[v].title]
    <2>1. taskbar[v] \in Entries /\ views[v] \in ViewRecords
      BY <1>1 DEF FInv, ForeignTypes
    <2>2. /\ taskbar[v].activated = views[v].activated
          /\ taskbar[v].fullscreen = views[v].fullscreen
          /\ taskbar[v].outputs = {views[v].output} \ {NULL, Freed}
          /\ taskbar[v].title = views[v].title
      BY <1>1 DEF FInv, Shows
    <2>3. /\ views[v].activated <=> activeView = v
          /\ views[v].output = OutputOf[tree.workspace[v]]
          /\ views[v].fullscreen = tree.fullscreen[v]
          /\ views[v].title = shell[v].title
      BY <1>1 DEF FInv, Knows, Listed
    <2>4. OutputOf[tree.workspace[v]] \in Outputs
      BY <1>1, TreeAssumption DEF FInv, Kept, GoodBut, Sound, Trees
    <2>5. taskbar[v].outputs = {OutputOf[tree.workspace[v]]}
      BY <2>2, <2>3, <2>4, TreeAssumption, ForeignAssumption
    <2>6. taskbar[v].activated = (activeView = v)
      BY <2>1, <2>2, <2>3 DEF Entries, ViewRecords
    <2>7. taskbar[v] = [activated  |-> taskbar[v].activated,
                        fullscreen |-> taskbar[v].fullscreen,
                        outputs    |-> taskbar[v].outputs,
                        title      |-> taskbar[v].title]
      BY <2>1 DEF Entries
    <2> QED
      BY <2>2, <2>3, <2>5, <2>6, <2>7
  <1>2. FInv => TaskbarTells
    BY <1>1 DEF TaskbarTells
  <1> QED
    BY <1>2, ForeignSpecInv, PTL

\* Unplugging an output that the active container is not on takes the containers
\* placed on it and no other; what stays is as and where it was, and neither the seat,
\* a container, a workspace nor the view of a placed container points to what was
\* freed.
THEOREM Unplugging == ForeignSpec => UnplugSpares
  <1>1. ASSUME FInv, ForeignNext, NEW o \in Outputs, Unplug(o), ActiveElsewhere(o)
        PROVE  TakesOnly(o)
    <2>1. Inv(TRUE)
      BY <1>1 DEF ForeignNext, FInv
    <2>2. /\ tree' = WithoutOutput(tree, o) /\ aborted' = LeavesDangling(tree, activeView, o)
          /\ view' = [v \in Views |-> IF v \in DestroyedWith(tree, o) THEN "none" ELSE view[v]]
      BY <1>1 DEF Unplug, RemoveOutput
    <2>3. tree \in Trees /\ PlacedOnce(tree) /\ activeView \in Views \cup {NULL}
      BY <2>1 DEF Inv, GoodBut, Sound
    <2>4. \A v \in Views : v \in DestroyedWith(tree, o) <=> tree.workspace[v] \in WorkspacesOn(o)
      BY <2>3, DestroyedAreThere DEF Trees
    <2>5. DestroyedWith(tree, o) \subseteq Views
      <3>1. \A w \in Workspaces : tree.children[w] \in Seq(Views) /\ tree.floating[w] \in Seq(Views)
        BY <2>3 DEF Trees
      <3> QED
        BY <3>1 DEF DestroyedWith, WorkspacesOn, Items
    <2>6. ~aborted'
      <3>1. aborted' <=> activeView \in DestroyedWith(tree, o)
        BY <2>1, <2>2, OnlyActiveDangles
      <3> QED
        BY <1>1, <2>4, <2>5, <3>1, TreeAssumption DEF ActiveElsewhere
    <2>7. ASSUME NEW v \in Views
          PROVE  IF tree.workspace[v] \in WorkspacesOn(o)
                 THEN view'[v] = "none" /\ tree'.workspace[v] = NULL
                 ELSE ContainerOf(tree', view', v) = ContainerOf(tree, view, v)
      <3>1. CASE v \in DestroyedWith(tree, o)
        BY <2>2, <2>3, <2>4, <3>1, WithoutOutputFields
      <3>2. CASE v \notin DestroyedWith(tree, o)
        <4> v \in Views \ DestroyedWith(tree, o)
          BY <3>2
        <4>1. /\ tree'.workspace[v] = tree.workspace[v] /\ tree'.parent[v] = tree.parent[v]
              /\ tree'.fullscreen[v] = tree.fullscreen[v] /\ tree'.node[v] = tree.node[v]
          BY <2>2, <2>3, <3>2, WithoutOutputFields
        <4>2. view'[v] = view[v]
          BY <2>2, <3>2
        <4> QED
          BY <2>4, <3>2, <4>1, <4>2 DEF ContainerOf
      <3> QED
        BY <3>1, <3>2
    <2>8. ASSUME NEW w \in Workspaces \ WorkspacesOn(o)
          PROVE  WorkspaceContent(tree', w) = WorkspaceContent(tree, w)
      <3>1. /\ tree'.children[w] = tree.children[w] /\ tree'.floating[w] = tree.floating[w]
            /\ tree'.fsContainer[w] = tree.fsContainer[w]
            /\ tree'.activated[w] = tree.activated[w] /\ tree'.enabled[w] = tree.enabled[w]
        BY <2>2, <2>3, WithoutOutputFields
      <3> QED
        BY <3>1 DEF WorkspaceContent
    <2>9. \A v \in Views : tree'.workspace[v] # NULL =>
              views'[v].output = OutputOf[tree'.workspace[v]]
      BY <1>1, <2>1, UnplugStep DEF FInv, Knows
    <2> QED
      BY <2>6, <2>7, <2>8, <2>9 DEF TakesOnly
  <1>2. FInv /\ [ForeignNext]_allVars =>
           [\A o \in Outputs : Unplug(o) /\ ActiveElsewhere(o) => TakesOnly(o)]_allVars
    BY <1>1
  <1> QED
    BY <1>2, ForeignSpecInv, PTL DEF ForeignSpec, UnplugSpares
=============================================================================
