----------------------------- MODULE TilingTree -----------------------------
(***************************************************************************)
(* The geometry of one workspace's tiling: how the children of its root    *)
(* container share its area (desktop/tree/container.c), how a drag moves   *)
(* the boundary of two of them (input/cursor.c) and when they are arranged *)
(* anew (desktop/tree/workspace.c, desktop/output.c).                      *)
(*                                                                         *)
(* The workspace t is a record:                                            *)
(*   t.children    the children of the root container, in order            *)
(*   t.share[v]    the percentage of v, in parts of Whole                  *)
(*   t.mode        the direction of tiling, "horizontal" or "vertical"     *)
(*   t.area        the area of the root container                          *)
(*   t.box[v]      the area of the container of v                          *)
(*   t.tiled_area  the area the workspace was given for tiling             *)
(*   t.fullscreen  its fullscreen container, or None                       *)
(* The output displays the workspace or another (shown) and has a usable   *)
(* area, which layer surfaces and modes change.                            *)
(*                                                                         *)
(* Percentages are exact here, and floating point in the code: a sum is    *)
(* one, or a boundary stays, up to rounding.  A view that is not a child   *)
(* floats or is elsewhere; what its container remembers of its share and   *)
(* area is forgotten, as both are set before they are read again.  The     *)
(* area of a fullscreen container, which covers the tiling, is left out.   *)
(* The container a drag swaps with hangs in the same tree; swaps between   *)
(* trees are modelled in CursorGrab.                                       *)
(***************************************************************************)
EXTENDS Integers, Sequences, FiniteSets, Combinatorics, ListOps

CONSTANTS
    Views,
    None,        \* no view
    Whole,       \* the percentage 1.0
    Minimum,     \* CONTAINER_TILE_RESIZE_MIN_PERCENTAGE
    Targets,     \* percentages a drag may ask for
    Areas        \* usable areas of the output

ASSUME TilingAssumption ==
    /\ None \notin Views
    /\ Whole \in Nat \ {0}
    /\ Minimum \in 1..Whole
    /\ Targets \subseteq Int
    /\ Areas \subseteq [x : Nat, y : Nat, width : Nat, height : Nat]

VARIABLES t, shown, usable

vars == <<t, shown, usable>>

Boxes == [x : Nat, y : Nat, width : Nat, height : Nat]

Tilings ==
    [children : Seq(Views), share : [Views -> Nat], mode : {"horizontal", "vertical"},
     area : Boxes, box : [Views -> Boxes], tiled_area : Boxes,
     fullscreen : Views \cup {None}]

TypeOK ==
    /\ t \in Tilings
    /\ shown \in BOOLEAN
    /\ usable \in Areas
    /\ NoDuplicates(t.children)

NoBox == [x |-> 0, y |-> 0, width |-> 0, height |-> 0]

\* A new output displays its first workspace; the others were never arranged.
Init ==
    /\ usable \in Areas
    /\ shown \in BOOLEAN
    /\ LET given == IF shown THEN usable ELSE NoBox
       IN  t = [children |-> <<>>, share |-> [v \in Views |-> 0], mode |-> "horizontal",
                area |-> given, box |-> [v \in Views |-> NoBox], tiled_area |-> given,
                fullscreen |-> None]

IsChild(v) == v \in Items(t.children)

(***************************************************************************)
(* Shares                                                                  *)
(***************************************************************************)

\* The share of the first k children together.
ShareOfFirst(tt, k) ==
    LET sum[i \in 0..Len(tt.children)] ==
            IF i = 0 THEN 0 ELSE sum[i - 1] + tt.share[tt.children[i]]
    IN  sum[k]

\* e_tree_container_insert_container at the end: all children get the same share.
InsertChild(tt, v) ==
    LET now == Append(tt.children, v)
    IN  [tt EXCEPT !.children = now,
                   !.share = [x \in Views |->
                       IF x \in Items(now) THEN Whole \div Len(now) ELSE @[x]]]

\* e_tree_container_remove_container: the share of v is spread over the others.
RemoveChild(tt, v) ==
    LET now == ListRemove(tt.children, v)
    IN  [tt EXCEPT !.children = now,
                   !.share = [x \in Views |->
                       IF x \in Items(now) THEN @[x] + (@[v] \div Len(now)) ELSE 0],
                   !.box[v] = NoBox]

\* Mutant: the sibling is not held to the minimum.
ClampedBelow(percentage, total) == IF percentage < Minimum THEN Minimum ELSE percentage

\* What a drag that asks for percentage may give, out of the total of two siblings.
Clamped(percentage, total) ==
    IF total - percentage < Minimum THEN total - Minimum
    ELSE IF percentage < Minimum THEN Minimum
    ELSE percentage

\* Mutant: the sibling keeps its share.
ResizeOne(tt, v, sibling, percentage) ==
    [tt EXCEPT !.share[v] = Clamped(percentage, tt.share[v] + tt.share[sibling])]

\* e_container_resize_tiled: v gets percentage and the sibling the rest of the two.
ResizeTiled(tt, v, sibling, percentage) ==
    LET total == tt.share[v] + tt.share[sibling]
        given == Clamped(percentage, total)
    IN  IF total < 2 * Minimum THEN tt
        ELSE [tt EXCEPT !.share[v] = given, !.share[sibling] = total - given]

(***************************************************************************)
(* Arranging                                                               *)
(***************************************************************************)

\* The area of the i-th child: its part of the area behind the children before it,
\* in whole pixels.
ChildBox(tt, i) ==
    LET a == tt.area
        start == ShareOfFirst(tt, i - 1)
        share == tt.share[tt.children[i]]
    IN  IF tt.mode = "horizontal"
        THEN [a EXCEPT !.x = @ + (a.width * start) \div Whole,
                       !.width = (@ * share) \div Whole]
        ELSE [a EXCEPT !.y = @ + (a.height * start) \div Whole,
                       !.height = (@ * share) \div Whole]

\* arrange_tree_children.
ArrangeChildren(tt) ==
    [tt EXCEPT !.box = [v \in Views |->
        IF v \in Items(tt.children) THEN ChildBox(tt, ListFind(tt.children, v)) ELSE @[v]]]

\* e_workspace_arrange: the tree is arranged when no fullscreen container covers it.
Arrange(tt, area) ==
    LET given == [tt EXCEPT !.tiled_area = area]
    IN  IF tt.fullscreen # None THEN given
        ELSE ArrangeChildren([given EXCEPT !.area = area])

\* e_workspace_rearrange.
Rearrange(tt) == Arrange(tt, tt.tiled_area)

\* e_container_leave: a fullscreen container is none any more, a child leaves the tree.
Leave(tt, v) ==
    LET unfull == [tt EXCEPT !.fullscreen = IF @ = v THEN None ELSE @]
    IN  IF v \in Items(tt.children) THEN RemoveChild(unfull, v) ELSE unfull

(***************************************************************************)
(* Handlers                                                                *)
(***************************************************************************)

\* A view is mapped tiled, is tiled by toggle_tiled, or is moved here tiled; it may
\* be fullscreen at once when it comes from another workspace or is mapped so, and one
\* that is tiled while it is fullscreen stays fullscreen.
Enter(v, full) ==
    /\ ~IsChild(v)
    /\ t.fullscreen = v => full
    /\ t' = Rearrange([InsertChild(Leave(t, v), v) EXCEPT !.fullscreen = IF full THEN v ELSE @])
    /\ UNCHANGED <<shown, usable>>

\* A view is unmapped or moves to another workspace.
Exit(v) ==
    /\ IsChild(v) \/ t.fullscreen = v
    /\ t' = Rearrange(Leave(t, v))
    /\ UNCHANGED <<shown, usable>>

\* toggle_tiled floats a child (e_container_change_tiling): it leaves the workspace and
\* comes back to its floating containers, fullscreen again if it was.
FloatChild(v) ==
    /\ IsChild(v)
    /\ t' = Rearrange([Leave(t, v) EXCEPT !.fullscreen = t.fullscreen])
    /\ UNCHANGED <<shown, usable>>

\* Mutant: the command does not rearrange the workspace.
ChangedFullscreenAlone(tt, v) == [tt EXCEPT !.fullscreen = v]

\* e_workspace_change_fullscreen_container and the rearrangement after it.
ChangedFullscreen(tt, v) == Rearrange([tt EXCEPT !.fullscreen = v])

\* toggle_fullscreen, or a request: v of this workspace becomes fullscreen or is it no more.
ToggleFullscreen(v) ==
    /\ t' = ChangedFullscreen(t, IF t.fullscreen = v THEN None ELSE v)
    /\ UNCHANGED <<shown, usable>>

\* switch_tiling_mode.
SwitchTilingMode ==
    /\ t.children # <<>>
    /\ t' = ArrangeChildren([t EXCEPT !.mode =
                IF @ = "horizontal" THEN "vertical" ELSE "horizontal"])
    /\ UNCHANGED <<shown, usable>>

\* The places of the previous and the next sibling of the i-th child, where there are any.
Siblings(i) == {i - 1, i + 1} \cap DOMAIN t.children

\* e_cursor_resize_tiled: the edge of the i-th child towards its sibling, the j-th, is
\* dragged along the direction of tiling.  In an area without size the code divides by
\* zero: an infinite percentage is limited like any other that is too large or small, but
\* with the cursor back where the drag began both percentages become NaN, for which
\* there is no share here.  That outcome is left out.
DragEdge(i, j, percentage) ==
    /\ t' = ArrangeChildren(ResizeTiled(t, t.children[i], t.children[j], percentage))
    /\ UNCHANGED <<shown, usable>>

\* Mutant: the two children keep their shares and change places.
SwapKeepingShares(tt, i, j) ==
    [tt EXCEPT !.children[i] = tt.children[j], !.children[j] = tt.children[i]]

\* Mutant: the second item is copied over the first and not back.
SwapOverwrites(tt, i, j) == [tt EXCEPT !.children[i] = tt.children[j]]

\* The lists and percentages after swap_tiled_containers.
Swapped(tt, i, j) ==
    LET a == tt.children[i]
        b == tt.children[j]
    IN  [tt EXCEPT !.children[i] = b, !.children[j] = a,
                   !.share[a] = tt.share[b], !.share[b] = tt.share[a]]

\* A tiled container is dragged over another.
SwapChildren(i, j) ==
    /\ i # j
    /\ {i, j} \subseteq DOMAIN t.children
    /\ t' = ArrangeChildren(Swapped(t, i, j))
    /\ UNCHANGED <<shown, usable>>

\* e_output_arrange: a layer surface or the mode changes the usable area, and the
\* workspace that is displayed is arranged in it.
OutputArrange(area) ==
    /\ usable' = area
    /\ t' = IF shown THEN Arrange(t, area) ELSE t
    /\ UNCHANGED shown

\* Mutant: the workspace is displayed in the area it had before.
DisplayedAsBefore(tt) == Rearrange(tt)

\* The workspace after e_output_display_workspace.
Displayed(tt) == Arrange(tt, usable)

\* The output displays this workspace, or another one.
Display ==
    /\ shown' = ~shown
    /\ t' = IF shown THEN t ELSE Displayed(t)
    /\ UNCHANGED usable

Next ==
    \/ \E v \in Views :
          \/ \E full \in BOOLEAN : Enter(v, full)
          \/ Exit(v)
          \/ FloatChild(v)
          \/ ToggleFullscreen(v)
    \/ SwitchTilingMode
    \/ \E i, j \in DOMAIN t.children : SwapChildren(i, j)
    \/ \E i \in DOMAIN t.children, percentage \in Targets :
          \E j \in Siblings(i) : DragEdge(i, j, percentage)
    \/ \E area \in Areas : OutputArrange(area)
    \/ Display

Spec == Init /\ [][Next]_vars

-----------------------------------------------------------------------------
(***************************************************************************)
(* Properties                                                              *)
(***************************************************************************)

\* There are parts enough that no share is ever rounded, as far as percentages can be
\* exact: Whole can be divided among any number of views, what is dragged to again among
\* all but one, and so on.
ExactParts ==
    /\ IsFiniteSet(Views)
    /\ LET n == Cardinality(Views)
       IN  n > 0 => /\ Whole % factorial[n] = 0
                    /\ \A p \in Targets \cup {Minimum} : p % factorial[n - 1] = 0

\* The share one of n children may have: at least the minimum.  When n are so many that
\* an equal part is less than that (more than 20 in the code), it is the equal part:
\* e_tree_container_insert_container does not look at the minimum, and
\* e_container_resize_tiled refuses to touch what is below it.
MayHave(n, share) ==
    IF n * Minimum <= Whole THEN share >= Minimum ELSE n * share = Whole

\* The shares of the children add up to one and each is one that it may have: inserting
\* shares out anew, removing spreads, dragging moves between two as far as the minimum
\* allows, and swapping exchanges.  It does not hold in the code once a drag in a root
\* of size zero has made percentages NaN, which DragEdge leaves out.
SharesKept ==
    LET n == Len(t.children)
    IN  n > 0 => /\ ShareOfFirst(t, n) = Whole
                 /\ \A v \in Items(t.children) : MayHave(n, t.share[v])

\* The end of a box along the direction of tiling, and its begin.
BeginOf(b) == IF t.mode = "horizontal" THEN b.x ELSE b.y
EndOf(b) == IF t.mode = "horizontal" THEN b.x + b.width ELSE b.y + b.height

\* Across the direction of tiling b is as large as a.
SpansAcross(b, a) ==
    IF t.mode = "horizontal" THEN b.y = a.y /\ b.height = a.height
    ELSE b.x = a.x /\ b.width = a.width

\* What is seen of a workspace without a fullscreen container is a tiling of its area:
\* the children lie in order, do not overlap, and leave out less than a pixel each.
\* The area may have changed, and children have come and gone, while a fullscreen
\* container covered them.
TilesFit ==
    t.fullscreen = None =>
        LET n == Len(t.children)
            b(i) == t.box[t.children[i]]
        IN  /\ \A i \in 1..n : SpansAcross(b(i), t.tiled_area)
            /\ n > 0 => BeginOf(b(1)) = BeginOf(t.tiled_area)
            /\ \A i \in 1..(n - 1) :
                  LET gap == BeginOf(b(i + 1)) - EndOf(b(i)) IN gap \in {0, 1}
            /\ n > 0 => EndOf(t.tiled_area) - EndOf(b(n)) \in {0, 1}

\* A displayed workspace is arranged in the output's present usable area, also when
\* the area changed while another one was displayed.
ShownInUsable == shown => t.tiled_area = usable

\* Dragging an edge moves that boundary alone: one neighbour grows by what the other
\* loses, and the boxes of all others stay.
OneBoundaryMoves ==
    [][(t'.children = t.children /\ t'.mode = t.mode /\ t.fullscreen = None
            /\ t'.share # t.share)
        => \E i \in 1..(Len(t.children) - 1) :
              /\ \A j \in DOMAIN t.children \ {i, i + 1} :
                    t'.box[t.children[j]] = t.box[t.children[j]]
              /\ BeginOf(t'.box[t.children[i]]) = BeginOf(t.box[t.children[i]])]_vars

\* Two containers that change places take over each other's box.
SwapKeepsPlaces ==
    [][(Len(t'.children) = Len(t.children) /\ t'.children # t.children
            /\ t.fullscreen = None /\ t'.fullscreen = None)
        => \A i \in DOMAIN t.children : t'.box[t'.children[i]] = t.box[t.children[i]]]_vars
=============================================================================
