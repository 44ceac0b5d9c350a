------------------------------ MODULE Placement ------------------------------
(***************************************************************************)
(* What the container tree promises, without its pointers and lists: where *)
(* each view is placed, and which view has each workspace to itself.  A    *)
(* step of the compositor changes the place of one view at most, a view    *)
(* that moves keeps its tiling and is not dropped from fullscreen by the   *)
(* move, and a view that changes its tiling stays in its workspace.        *)
(***************************************************************************)
CONSTANTS Views, Workspaces, NULL

VARIABLES
    place,     \* place[v]: NULL, or the workspace of v and whether v is tiled
    full       \* full[w]: the view that has w to itself, or NULL

Places == [workspace : Workspaces, tiled : BOOLEAN]

Init ==
    /\ place = [v \in Views |-> NULL]
    /\ full = [w \in Workspaces |-> NULL]

In(v, w) == place[v] # NULL /\ place[v].workspace = w

\* full when v has left wherever it was.
Without(v) == [w \in Workspaces |-> IF full[w] = v THEN NULL ELSE full[w]]

\* v is put at p, and is or is not fullscreen there.
Put(v, p, fullscreen) ==
    /\ place' = [place EXCEPT ![v] = p]
    /\ full' = IF fullscreen THEN [Without(v) EXCEPT ![p.workspace] = v] ELSE Without(v)

Appear(v, p, fullscreen) ==
    /\ place[v] = NULL
    /\ Put(v, p, fullscreen)

Vanish(v) ==
    /\ place[v] # NULL
    /\ place' = [place EXCEPT ![v] = NULL]
    /\ full' = Without(v)

\* v moves to w; a view that was not fullscreen may ask to be.
Move(v, w, fullscreen) ==
    /\ place[v] # NULL /\ ~In(v, w)
    /\ (\E old \in Workspaces : full[old] = v) => fullscreen
    /\ Put(v, [workspace |-> w, tiled |-> place[v].tiled], fullscreen)

Retile(v) ==
    /\ place[v] # NULL
    /\ place' = [place EXCEPT ![v].tiled = ~@]
    /\ UNCHANGED full

SetFull(w, v) ==
    /\ v = NULL \/ In(v, w)
    /\ full' = [full EXCEPT ![w] = v]
    /\ UNCHANGED place

Next ==
    \/ \E v \in Views, fullscreen \in BOOLEAN :
          \/ \E p \in Places : Appear(v, p, fullscreen)
          \/ \E w \in Workspaces : Move(v, w, fullscreen)
    \/ \E v \in Views : Vanish(v) \/ Retile(v)
    \/ \E w \in Workspaces, v \in Views \cup {NULL} : SetFull(w, v)

Spec == Init /\ [][Next]_<<place, full>>
=============================================================================
