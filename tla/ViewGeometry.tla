---------------------------- MODULE ViewGeometry ----------------------------
(***************************************************************************)
(* The size and position of one view between the compositor, which asks    *)
(* for them, and the client, which answers later or never: arranging and   *)
(* configuring (desktop/tree/container.c, workspace.c), commits            *)
(* (desktop/tree/view_container.c), moving and resizing with the cursor    *)
(* (input/cursor.c).                                                       *)
(*                                                                         *)
(* The view container is a record:                                         *)
(*   view.area        the area of the container                            *)
(*   view.pending     view_pending, what was asked for                     *)
(*   view.current     view_current, where the view is drawn; its size is   *)
(*                    also the one the client committed last               *)
(*   view.tiled       is the container tiled?                              *)
(*   view.fullscreen  the fullscreen container of its workspace: "none",   *)
(*                    "this" one or an "other", which covers this one      *)
(* The cursor is a record:                                                 *)
(*   cursor.grabbed   is this container grabbed?                           *)
(*   cursor.mode      what the grab does, "move" or "resize"               *)
(*   cursor.edges     grab_edges, which outlive the grab                   *)
(*   cursor.start     the area at the start of the grab                    *)
(* configures are the sizes sent to the client and not yet answered.       *)
(*                                                                         *)
(* The view is mapped throughout.  A box is a corner and a size; each is a *)
(* function of the axis, so that what the code writes once for x and once  *)
(* for y is written once, and what it asks of both axes together is said   *)
(* of the corner or the size.                                              *)
(*                                                                         *)
(* asked and user are not in the code: the box that was asked for last and *)
(* by whom, and the edges this user ever drags.                            *)
(***************************************************************************)
EXTENDS Integers, Sequences
LOCAL INSTANCE SequencesExt

CONSTANTS
    Users,           \* the sets of edges a user may drag
    Deltas,          \* how far the cursor is from where a grab began
    Places,          \* areas given by workspaces, outputs and configure requests
    OwnSizes,        \* sizes a client may commit unasked
    MinSize,         \* size hints of the view, 0 for none
    MaxSize,
    Coordinates,     \* bound: where edges of areas may be
    MaxConfigures    \* bound: configures on their way to the client

Axes == {"x", "y"}

\* The edges of a box, the near one of each axis and the far one.
Near == [x |-> "left", y |-> "top"]
Far  == [x |-> "right", y |-> "bottom"]
Edges == {"left", "top", "right", "bottom"}

Point == [Axes -> Int]
Size  == [Axes -> Nat]
Box   == [at : Point, size : Size]

End(b, a) == b.at[a] + b.size[a]

Visible(size) == \A a \in Axes : size[a] > 0

ASSUME GeometryAssumption ==
    /\ \A u \in Users : u \subseteq Edges
    /\ Deltas \subseteq Point
    /\ Places \subseteq Box
    /\ OwnSizes \subseteq {s \in Size : Visible(s)}
    /\ {MinSize, MaxSize} \subseteq Size
    /\ MaxConfigures \in Nat \ {0}

VARIABLES view, cursor, configures, asked, user

vars == <<view, cursor, configures, asked, user>>

ViewContainers ==
    [area : Box, pending : Box, current : Box, tiled : BOOLEAN,
     fullscreen : {"none", "this", "other"}]

Cursors == [grabbed : BOOLEAN, mode : {"move", "resize"}, edges : SUBSET Edges, start : Box]

TypeOK ==
    /\ view \in ViewContainers
    /\ cursor \in Cursors
    /\ configures \in Seq(Size)
    /\ asked \in [box : Box, by : {"nobody", "desktop", "cursor"}]
    /\ user \in Users

\* arrange_view: a view is at least one pixel wide and high.
PendingOf(area) ==
    [area EXCEPT !.size = [a \in Axes |-> IF area.size[a] > 0 THEN area.size[a] ELSE 1]]

\* Boxes of a view that was just mapped: those it had before it was unmapped, and if it is
\* new the origin, with no size or that of its surface.
BoxesBefore ==
    {PendingOf(b) : b \in Places}
        \cup [at : {[a \in Axes |-> 0]}, size : OwnSizes \cup {[a \in Axes |-> 0]}]

\* A view that was mapped, and arranged unless it is behind a fullscreen one.
Init ==
    \E area \in Places \cup BoxesBefore, pending, current \in BoxesBefore, tiled \in BOOLEAN,
       covered \in BOOLEAN :
        /\ view = [area |-> area, pending |-> IF covered THEN pending ELSE PendingOf(area),
                   current |-> current, tiled |-> tiled,
                   fullscreen |-> IF covered THEN "other" ELSE "none"]
        /\ configures = IF covered THEN <<>> ELSE <<PendingOf(area).size>>
        /\ asked = [box |-> view.pending, by |-> IF covered THEN "nobody" ELSE "desktop"]
        /\ cursor = [grabbed |-> FALSE, mode |-> "move", edges |-> {}, start |-> area]
        /\ user \in Users

(***************************************************************************)
(* Asking                                                                  *)
(***************************************************************************)

\* wlroots sends a configure when the event loop is idle, the last one only if several
\* were scheduled until then.
Scheduled(size) ==
    {q \in {Append(configures, size),
            Append(SubSeq(configures, 1, Len(configures) - 1), size)} :
        Len(q) <= MaxConfigures}

InBounds(b) == \A a \in Axes : {b.at[a], End(b, a)} \subseteq Coordinates

\* e_container_arrange: the view, whose container has become vv, is asked to fill the area.
ArrangeIn(vv, area, by) ==
    /\ InBounds(area)
    /\ view' = [vv EXCEPT !.area = area, !.pending = PendingOf(area)]
    /\ configures' \in Scheduled(PendingOf(area).size)
    /\ asked' = [box |-> PendingOf(area), by |-> by]
    /\ UNCHANGED <<cursor, user>>

\* A tree that is dragged in or changes its mode arranges the containers in it, seen or
\* not, and an X11 window that floats gets the area it asks for.
Place(area) == ArrangeIn(view, area, "desktop")

\* e_workspace_rearrange, after the container has become vv: only the fullscreen container
\* is arranged if there is one, else tiles in the areas of their tree and what floats in
\* the area it has.
Rearranged(vv) ==
    IF vv.fullscreen = "other"
    THEN view' = vv /\ UNCHANGED <<cursor, configures, asked, user>>
    ELSE \E area \in IF vv.tiled \/ vv.fullscreen = "this" THEN Places ELSE {vv.area} :
            ArrangeIn(vv, area, "desktop")

\* Its workspace is rearranged, or becomes another; this or another container may have
\* become fullscreen in it, or have ceased to be or left.
Rearrange ==
    \E fullscreen \in {"none", "this", "other"} :
        Rearranged([view EXCEPT !.fullscreen = fullscreen])

\* e_commands_toggle_tiled.
ToggleTiled == Rearranged([view EXCEPT !.tiled = ~@])

\* A tiled X11 window asks for an area and is asked for the one it has.
RefuseConfigure ==
    /\ view.tiled
    /\ InBounds(view.pending)
    /\ configures' \in Scheduled(view.pending.size)
    /\ UNCHANGED <<view, cursor, asked, user>>

\* A container that is dragged goes where the cursor goes.
DragTo(d) ==
    /\ cursor.grabbed /\ cursor.mode = "move" /\ ~view.tiled
    /\ ArrangeIn(view, [cursor.start EXCEPT !.at = [a \in Axes |-> @[a] + d[a]]], "cursor")

\* Mutant: an edge that is dragged may cross the opposite one.
WithinHintsOnly(length, a) ==
    LET grown == IF length < MinSize[a] /\ MinSize[a] > 0 THEN MinSize[a] ELSE length
    IN  IF grown > MaxSize[a] /\ MaxSize[a] > 0 THEN MaxSize[a] ELSE grown

\* The length along an axis within the size hints of the view, at least one pixel.
WithinHints(length, a) ==
    LET grown == IF length < MinSize[a] /\ MinSize[a] > 0 THEN MinSize[a] ELSE length
        held  == IF grown > MaxSize[a] /\ MaxSize[a] > 0 THEN MaxSize[a] ELSE grown
    IN  IF held < 1 THEN 1 ELSE held

\* How long the area is while the edges are d from where they were grabbed.
ResizedLength(start, edges, d, a) ==
    CASE Near[a] \in edges -> WithinHints(start.size[a] - d[a], a)
      [] Near[a] \notin edges /\ Far[a] \in edges -> WithinHints(start.size[a] + d[a], a)
      [] OTHER -> start.size[a]

\* The area while the edges are dragged: the opposite ones stay.
Resized(start, edges, d) ==
    [at |-> [a \in Axes |-> IF Near[a] \in edges
                            THEN End(start, a) - ResizedLength(start, edges, d, a)
                            ELSE start.at[a]],
     size |-> [a \in Axes |-> ResizedLength(start, edges, d, a)]]

\* e_cursor_resize_floating.
ResizeTo(d) ==
    /\ cursor.grabbed /\ cursor.mode = "resize" /\ ~view.tiled
    /\ ArrangeIn(view, Resized(cursor.start, cursor.edges, d), "cursor")

(***************************************************************************)
(* Grabs                                                                   *)
(***************************************************************************)

\* e_cursor_start_grab_container_mode: from here on nothing was asked for by this grab.
Grab(mode, edges) ==
    /\ view.fullscreen # "this"
    /\ cursor' = [grabbed |-> TRUE, mode |-> mode, edges |-> edges, start |-> view.area]
    /\ asked' = [asked EXCEPT !.by = IF @ = "cursor" THEN "desktop" ELSE @]
    /\ UNCHANGED <<view, configures, user>>

StartResize(edges) == Grab("resize", edges)

\* e_cursor_start_container_move leaves grab_edges as they were.
StartMove == Grab("move", cursor.edges)

\* The button is released, or the grab ends otherwise, or another container is
\* grabbed, which may be for a resize.
LetGo(edges) ==
    /\ cursor' = [cursor EXCEPT !.grabbed = FALSE, !.mode = "move", !.edges = edges]
    /\ UNCHANGED <<view, configures, asked, user>>

(***************************************************************************)
(* Commits                                                                 *)
(***************************************************************************)

\* Mutant: a view that is resized from the left is drawn from where it was asked to be.
DrawnUnanchored(vv, size) == [at |-> vv.pending.at, size |-> size]

\* Where the view is drawn with a size: from where it was asked to be or, along an axis
\* whose near edge is grabbed, up to where it was asked to end.
Drawn(vv, size) ==
    [at |-> [a \in Axes |-> IF cursor.grabbed /\ Near[a] \in cursor.edges
                            THEN End(vv.pending, a) - size[a]
                            ELSE vv.pending.at[a]],
     size |-> size]

\* Mutant: the area of a floating container is not brought in step.
ApplyKeepingArea(vv, size) ==
    [vv EXCEPT !.current = Drawn(vv, size), !.pending = Drawn(vv, size)]

\* view_container_apply_geometry: what is drawn is what is pending, and the area of a
\* container that floats.
ApplyGeometry(vv, size) ==
    [vv EXCEPT !.current = Drawn(vv, size), !.pending = Drawn(vv, size),
               !.area = IF vv.tiled THEN @ ELSE Drawn(vv, size)]

\* Mutant: a new position alone is not applied.
PositionIgnored(vv, size) == vv.current.size # size

\* Does a commit of this size change what is drawn?  A size pending along either axis
\* holds back a position pending along any.
Applies(vv, size) ==
    \/ vv.current.size # size
    \/ /\ vv.current.size = vv.pending.size
       /\ vv.current.at # vv.pending.at

\* e_view_container_handle_view_commit.
Commit(size) == view' = IF Applies(view, size) THEN ApplyGeometry(view, size) ELSE view

\* The client answers a configure, and those before it, with the size it was asked for or
\* one of its own.
Answer(i, size) ==
    /\ Visible(size)
    /\ Commit(size)
    /\ configures' = SubSeq(configures, i + 1, Len(configures))
    /\ UNCHANGED <<cursor, asked, user>>

\* The client draws again, unasked, in the size it has or one of its own.
CommitOwn(size) ==
    /\ Visible(size)
    /\ Commit(size)
    /\ UNCHANGED <<configures, cursor, asked, user>>

Next ==
    \/ \E area \in Places : Place(area)
    \/ Rearrange
    \/ ToggleTiled
    \/ RefuseConfigure
    \/ \E d \in Deltas : DragTo(d) \/ ResizeTo(d)
    \/ \E edges \in SUBSET user : StartResize(edges)
    \/ StartMove
    \/ \E edges \in {cursor.edges} \cup SUBSET user : LetGo(edges)
    \/ \E i \in DOMAIN configures :
            \E size \in {configures[i], view.current.size} \cup OwnSizes : Answer(i, size)
    \/ \E size \in {view.current.size} \cup OwnSizes : CommitOwn(size)

Spec == Init /\ [][Next]_vars

-----------------------------------------------------------------------------
(***************************************************************************)
(* Properties                                                              *)
(***************************************************************************)

\* The area of a floating container is what its view was asked for or has answered, so
\* that a grab that starts from it and a rearrangement that asks for it again start from
\* what is seen.  Behind a fullscreen container it need not be: a container that begins to
\* float there is not arranged before the workspace uncovers it.
FloatingInStep ==
    ~view.tiled /\ view.fullscreen # "other" => view.pending = PendingOf(view.area)

\* A view that is resized by some edges keeps the opposite ones where they were when the
\* grab began, along both axes, whatever sizes its client commits meanwhile and however late.
OppositeEdgeStays ==
    [][(view'.current # view.current /\ cursor.grabbed /\ cursor.mode = "resize"
            /\ asked.by = "cursor")
        => \A a \in Axes :
            IF Near[a] \in cursor.edges THEN End(view'.current, a) = End(cursor.start, a)
            ELSE view'.current.at[a] = cursor.start.at[a]]_vars

\* A view that has answered all it was asked, and has the size it was asked for, is where
\* it was asked to be.  One that refuses its width or its height is excused on both axes: a
\* size that stays pending holds back the position.
InPlace ==
    asked.by # "nobody" /\ configures = <<>> /\ view.current.size = asked.box.size
        => view.current.at = asked.box.at

\* That holds for a user who never resizes from the left or from the top.
InPlaceFromTheRight == {"left", "top"} \cap user = {} => InPlace
=============================================================================
