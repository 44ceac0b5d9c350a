------------------------ MODULE ViewGeometry_proofs ------------------------
(***************************************************************************)
(* The properties of ViewGeometry, for any places, drags, size hints,      *)
(* client sizes and number of configures on their way.                     *)
(*                                                                         *)
(* Why a view stays where it should is not said by where it is drawn, but  *)
(* by what is pending: the inductive invariant Inv says that the edges a   *)
(* resize keeps are those of the pending box, which every commit draws up  *)
(* to; and that for a user who never resizes from the left or the top the  *)
(* pending corner is the one asked for last, and the view is drawn in the  *)
(* pending box unless that is still the one asked for.                     *)
(***************************************************************************)
EXTENDS ViewGeometry, SequenceTheorems, TLAPS

\* The edges that a resize keeps are kept by the pending box.
KeptBy(b) ==
    \A a \in Axes : IF Near[a] \in cursor.edges THEN End(b, a) = End(cursor.start, a)
                    ELSE b.at[a] = cursor.start.at[a]

PendingAnchored ==
    cursor.grabbed /\ cursor.mode = "resize" /\ asked.by = "cursor" => KeptBy(view.pending)

\* For a user who never resizes from the left or the top the pending box is at the place
\* asked for last, and is the one asked for until a commit draws it.
PendingAsAsked ==
    {"left", "top"} \cap user = {}
        => /\ view.pending.at = asked.box.at
           /\ view.current = view.pending \/ view.pending = asked.box

Inv ==
    /\ TypeOK
    /\ FloatingInStep
    /\ PendingAnchored
    /\ cursor.edges \subseteq user
    /\ PendingAsAsked
    /\ InPlaceFromTheRight

-----------------------------------------------------------------------------
(***************************************************************************)
(* Operators                                                               *)
(***************************************************************************)

LEMMA NearEdges == \A a \in Axes : Near[a] \in {"left", "top"}
  BY DEF Near, Axes

LEMMA PendingOfBox ==
    ASSUME NEW area \in Box
    PROVE  /\ PendingOf(area) \in Box
           /\ PendingOf(area).at = area.at
           /\ \A a \in Axes : area.size[a] > 0 => PendingOf(area).size[a] = area.size[a]
           /\ Visible(area.size) => PendingOf(area) = area
  <1> DEFINE size == [a \in Axes |-> IF area.size[a] > 0 THEN area.size[a] ELSE 1]
  <1>1. area.size \in Size
    BY DEF Box
  <1>2. size \in Size
    BY <1>1 DEF Size
  <1>3. PendingOf(area) = [area EXCEPT !.size = size]
    BY DEF PendingOf
  <1>4. \A a \in Axes : area.size[a] > 0 => size[a] = area.size[a]
    OBVIOUS
  <1>5. Visible(area.size) => size = area.size
    BY <1>1 DEF Size, Visible
  <1> HIDE DEF size
  <1> QED
    BY <1>2, <1>3, <1>4, <1>5 DEF Box

\* Configures are replaced by a queue that ends with the new size.
LEMMA ScheduledQueue ==
    ASSUME configures \in Seq(Size), NEW size \in Size, NEW q \in Scheduled(size)
    PROVE  q \in Seq(Size) /\ q # <<>>
  <1> DEFINE front == SubSeq(configures, 1, Len(configures) - 1)
  <1>1. front \in Seq(Size)
    <2>1. Len(configures) \in Nat
      BY LenProperties
    <2>2. \A i \in 1..(Len(configures) - 1) : configures[i] \in Size
      BY <2>1, ElementOfSeq
    <2> QED
      BY <2>1, <2>2, SubSeqProperties
  <1>2. q = Append(configures, size) \/ q = Append(front, size)
    BY DEF Scheduled
  <1> HIDE DEF front
  <1>3. /\ Append(configures, size) \in Seq(Size) /\ Append(configures, size) # <<>>
        /\ Append(front, size) \in Seq(Size) /\ Append(front, size) # <<>>
    BY <1>1, AppendProperties
  <1> QED
    BY <1>2, <1>3

\* The hints never make a length less than a pixel.
LEMMA WithinHintsPositive ==
    ASSUME NEW length \in Int, NEW a \in Axes
    PROVE  WithinHints(length, a) \in Nat \ {0}
  <1>1. MinSize[a] \in Nat /\ MaxSize[a] \in Nat
    BY GeometryAssumption DEF Size
  <1> QED
    BY <1>1 DEF WithinHints

\* Resizing some edges keeps the opposite ones, and an axis whose near edge is dragged is
\* at least a pixel long.
LEMMA ResizedKeeps ==
    ASSUME NEW start \in Box, NEW d \in Deltas, NEW edges \in SUBSET Edges
    PROVE  /\ Resized(start, edges, d) \in Box
           /\ \A a \in Axes :
                IF Near[a] \in edges
                THEN /\ End(Resized(start, edges, d), a) = End(start, a)
                     /\ Resized(start, edges, d).size[a] > 0
                ELSE Resized(start, edges, d).at[a] = start.at[a]
  <1> DEFINE length(a) == ResizedLength(start, edges, d, a)
             at == [a \in Axes |-> IF Near[a] \in edges THEN End(start, a) - length(a)
                                   ELSE start.at[a]]
             size == [a \in Axes |-> length(a)]
  <1>1. \A a \in Axes : start.at[a] \in Int /\ start.size[a] \in Nat /\ d[a] \in Int
    BY GeometryAssumption DEF Box, Point, Size
  <1>2. \A a \in Axes : length(a) \in Nat /\ (Near[a] \in edges => length(a) > 0)
    <2> SUFFICES ASSUME NEW a \in Axes
                 PROVE  length(a) \in Nat /\ (Near[a] \in edges => length(a) > 0)
      OBVIOUS
    <2>1. start.size[a] - d[a] \in Int /\ start.size[a] + d[a] \in Int
      BY <1>1
    <2>2. /\ WithinHints(start.size[a] - d[a], a) \in Nat \ {0}
          /\ WithinHints(start.size[a] + d[a], a) \in Nat \ {0}
      BY <2>1, WithinHintsPositive
    <2>3. CASE Near[a] \in edges
      BY <2>2, <2>3 DEF ResizedLength
    <2>4. CASE Near[a] \notin edges /\ Far[a] \in edges
      BY <2>2, <2>4 DEF ResizedLength
    <2>5. CASE Near[a] \notin edges /\ Far[a] \notin edges
      BY <1>1, <2>5 DEF ResizedLength
    <2> QED
      BY <2>3, <2>4, <2>5
  <1>3. Resized(start, edges, d) = [at |-> at, size |-> size]
    BY DEF Resized
  <1> HIDE DEF length
  <1>4. at \in Point /\ size \in Size
    BY <1>1, <1>2 DEF Point, Size, End
  <1>5. \A a \in Axes : size[a] = length(a)
    OBVIOUS
  <1>6. \A a \in Axes : at[a] = IF Near[a] \in edges THEN End(start, a) - length(a)
                                ELSE start.at[a]
    OBVIOUS
  <1> HIDE DEF at, size
  <1> QED
    BY <1>1, <1>2, <1>3, <1>4, <1>5, <1>6 DEF Box, End

\* Along each axis a view is drawn from where it was asked to be, or up to where it was
\* asked to end; so it keeps whatever edges the pending box keeps.
LEMMA DrawnKeeps ==
    ASSUME TypeOK, NEW size \in Size
    PROVE  /\ Drawn(view, size) \in Box
           /\ Drawn(view, size).size = size
           /\ (\A a \in Axes : Near[a] \notin cursor.edges)
                => Drawn(view, size).at = view.pending.at
           /\ cursor.grabbed /\ KeptBy(view.pending) => KeptBy(Drawn(view, size))
  <1> DEFINE at == [a \in Axes |-> IF cursor.grabbed /\ Near[a] \in cursor.edges
                                   THEN End(view.pending, a) - size[a]
                                   ELSE view.pending.at[a]]
  <1>1. view.pending \in Box
    BY DEF TypeOK, ViewContainers
  <1>2. /\ view.pending.at \in Point
        /\ \A a \in Axes : view.pending.at[a] \in Int /\ view.pending.size[a] \in Nat
        /\ \A a \in Axes : size[a] \in Nat
    BY <1>1 DEF Box, Point, Size
  <1>3. Drawn(view, size) = [at |-> at, size |-> size]
    BY DEF Drawn
  <1>4. at \in Point
    BY <1>2 DEF Point, End
  <1>5. (\A a \in Axes : Near[a] \notin cursor.edges) => at = view.pending.at
    BY <1>2 DEF Point
  <1>6. \A a \in Axes : at[a] = IF cursor.grabbed /\ Near[a] \in cursor.edges
                                THEN End(view.pending, a) - size[a]
                                ELSE view.pending.at[a]
    OBVIOUS
  <1> HIDE DEF at
  <1> QED
    BY <1>2, <1>3, <1>4, <1>5, <1>6 DEF Box, KeptBy, End

-----------------------------------------------------------------------------
(***************************************************************************)
(* Steps                                                                   *)
(***************************************************************************)

\* Arranging keeps Inv when a resize asks for an area with the edges it keeps.
LEMMA ArrangeStep ==
    ASSUME Inv, NEW vv \in ViewContainers, NEW area \in Box, NEW by \in {"desktop", "cursor"},
           ArrangeIn(vv, area, by),
           cursor.grabbed /\ cursor.mode = "resize" /\ by = "cursor" => KeptBy(PendingOf(area))
    PROVE  Inv'
  <1> DEFINE pending == PendingOf(area)
  <1>1. pending \in Box
    BY PendingOfBox
  <1>2. pending.size \in Size
    BY <1>1 DEF Box
  <1>3. /\ view' = [vv EXCEPT !.area = area, !.pending = pending]
        /\ configures' \in Scheduled(pending.size)
        /\ asked' = [box |-> pending, by |-> by]
        /\ UNCHANGED <<cursor, user>>
    BY DEF ArrangeIn
  <1>4. configures' \in Seq(Size) /\ configures' # <<>>
    BY <1>2, <1>3, ScheduledQueue DEF Inv, TypeOK
  <1>5. view' \in ViewContainers /\ view'.area = area /\ view'.pending = pending
    BY <1>1, <1>3 DEF ViewContainers
  <1>6. TypeOK'
    BY <1>1, <1>3, <1>4, <1>5 DEF Inv, TypeOK
  <1>7. FloatingInStep'
    BY <1>5 DEF FloatingInStep
  <1>8. PendingAnchored'
    BY <1>3, <1>5 DEF PendingAnchored, KeptBy
  <1>9. PendingAsAsked' /\ InPlaceFromTheRight'
    BY <1>3, <1>4, <1>5 DEF PendingAsAsked, InPlaceFromTheRight, InPlace
  <1>10. (cursor.edges \subseteq user)'
    BY <1>3 DEF Inv
  <1> QED
    BY <1>6, <1>7, <1>8, <1>9, <1>10 DEF Inv

\* Only whether the container is tiled, or which one is fullscreen, changes.
LEMMA FlagStep ==
    ASSUME Inv, NEW tiled \in BOOLEAN, NEW fullscreen \in {"none", "this", "other"},
           view' = [view EXCEPT !.tiled = tiled, !.fullscreen = fullscreen],
           fullscreen = "other", UNCHANGED <<cursor, configures, asked, user>>
    PROVE  Inv'
  <1>1. /\ view' \in ViewContainers
        /\ view'.fullscreen = "other"
        /\ view'.pending = view.pending /\ view'.current = view.current
    BY DEF Inv, TypeOK, ViewContainers
  <1> QED
    BY <1>1 DEF Inv, TypeOK, FloatingInStep, PendingAnchored, KeptBy, PendingAsAsked,
       InPlaceFromTheRight, InPlace

\* A workspace that is rearranged asks for an area, or has another fullscreen container.
LEMMA RearrangedStep ==
    ASSUME Inv, NEW tiled \in BOOLEAN, NEW fullscreen \in {"none", "this", "other"},
           Rearranged([view EXCEPT !.tiled = tiled, !.fullscreen = fullscreen])
    PROVE  Inv'
  <1> DEFINE vv == [view EXCEPT !.tiled = tiled, !.fullscreen = fullscreen]
  <1>1. vv \in ViewContainers /\ vv.fullscreen = fullscreen /\ vv.area \in Box
    BY DEF Inv, TypeOK, ViewContainers
  <1>2. CASE fullscreen = "other"
    BY <1>1, <1>2, FlagStep DEF Rearranged
  <1>3. CASE fullscreen # "other"
    <2> HIDE DEF vv
    <2>1. PICK area \in Places \cup {vv.area} : ArrangeIn(vv, area, "desktop")
      BY <1>1, <1>3 DEF Rearranged, vv
    <2>2. area \in Box
      BY <1>1, <2>1, GeometryAssumption
    <2> QED
      BY <1>1, <2>1, <2>2, ArrangeStep
  <1> QED
    BY <1>2, <1>3

\* A commit draws up to the edges that are kept, and otherwise from the pending place.
LEMMA CommitStep ==
    ASSUME Inv, NEW size \in Size, Visible(size), Commit(size),
           configures' \in Seq(Size), UNCHANGED <<cursor, asked, user>>
    PROVE  Inv'
  <1>1. view \in ViewContainers
    BY DEF Inv, TypeOK
  <1>2. CASE Applies(view, size)
    <2> DEFINE box == Drawn(view, size)
    <2>1. /\ box \in Box /\ box.size = size
          /\ (\A a \in Axes : Near[a] \notin cursor.edges) => box.at = view.pending.at
          /\ cursor.grabbed /\ KeptBy(view.pending) => KeptBy(box)
      BY DrawnKeeps DEF Inv
    <2>2. view' = [view EXCEPT !.current = box, !.pending = box,
                               !.area = IF view.tiled THEN @ ELSE box]
      BY <1>2 DEF Commit, ApplyGeometry
    <2> HIDE DEF box
    <2>3. /\ view' \in ViewContainers
          /\ view'.current = box /\ view'.pending = box /\ view'.tiled = view.tiled
          /\ view'.fullscreen = view.fullscreen
          /\ ~view.tiled => view'.area = box
      BY <1>1, <2>1, <2>2 DEF ViewContainers
    <2>4. TypeOK'
      BY <2>3 DEF Inv, TypeOK
    <2>5. FloatingInStep'
      <3>1. PendingOf(box) = box
        BY <2>1, PendingOfBox
      <3> QED
        BY <2>3, <3>1 DEF FloatingInStep
    <2>6. PendingAnchored'
      BY <2>1, <2>3 DEF Inv, PendingAnchored, KeptBy
    <2>7. {"left", "top"} \cap user = {} => box.at = view.pending.at
      BY <2>1, NearEdges DEF Inv
    <2>8. PendingAsAsked' /\ InPlaceFromTheRight'
      BY <2>3, <2>7 DEF Inv, PendingAsAsked, InPlaceFromTheRight, InPlace
    <2> QED
      BY <2>4, <2>5, <2>6, <2>8 DEF Inv
  <1>3. CASE ~Applies(view, size)
    <2>1. view' = view
      BY <1>3 DEF Commit
    <2>2. /\ TypeOK' /\ FloatingInStep' /\ PendingAnchored' /\ PendingAsAsked'
          /\ (cursor.edges \subseteq user)'
      BY <2>1 DEF Inv, TypeOK, FloatingInStep, PendingAnchored, KeptBy, PendingAsAsked
    <2>3. ASSUME {"left", "top"} \cap user = {}, view.current.size = asked.box.size
          PROVE  view.current.at = asked.box.at
      BY <1>3, <2>3 DEF Applies, Inv, PendingAsAsked
    <2>4. InPlaceFromTheRight'
      BY <2>1, <2>3 DEF InPlaceFromTheRight, InPlace
    <2> QED
      BY <2>2, <2>4 DEF Inv
  <1> QED
    BY <1>2, <1>3

\* A grab starts before anything was asked for by it, and ends without asking.
LEMMA GrabStep ==
    ASSUME Inv, cursor' \in Cursors, cursor'.edges \subseteq user,
           ~cursor'.grabbed \/ asked'.by # "cursor",
           asked' \in [box : Box, by : {"nobody", "desktop", "cursor"}],
           asked'.box = asked.box, asked.by = "nobody" => asked'.by = "nobody",
           UNCHANGED <<view, configures, user>>
    PROVE  Inv'
  BY DEF Inv, TypeOK, FloatingInStep, PendingAnchored, PendingAsAsked, InPlaceFromTheRight,
         InPlace

LEMMA GrabKeeps ==
    ASSUME Inv, NEW mode \in {"move", "resize"}, NEW edges \in SUBSET user, Grab(mode, edges)
    PROVE  Inv'
  <1>1. /\ cursor' = [grabbed |-> TRUE, mode |-> mode, edges |-> edges, start |-> view.area]
        /\ asked' = [asked EXCEPT !.by = IF @ = "cursor" THEN "desktop" ELSE @]
        /\ UNCHANGED <<view, configures, user>>
    BY DEF Grab
  <1>2. /\ asked' \in [box : Box, by : {"nobody", "desktop", "cursor"}]
        /\ asked'.box = asked.box /\ asked'.by # "cursor"
        /\ asked.by = "nobody" => asked'.by = "nobody"
    BY <1>1 DEF Inv, TypeOK
  <1>3. view.area \in Box /\ edges \in SUBSET Edges
    BY GeometryAssumption DEF Inv, TypeOK, ViewContainers
  <1>4. cursor' \in Cursors /\ cursor'.edges \subseteq user
    BY <1>1, <1>3 DEF Cursors
  <1> QED
    BY <1>1, <1>2, <1>4, GrabStep

LEMMA InitInv == Init => Inv
  <1> SUFFICES ASSUME NEW area \in Places \cup BoxesBefore, NEW pending \in BoxesBefore,
                      NEW current \in BoxesBefore, NEW tiled \in BOOLEAN, NEW covered \in BOOLEAN,
                      view = [area |-> area,
                              pending |-> IF covered THEN pending ELSE PendingOf(area),
                              current |-> current, tiled |-> tiled,
                              fullscreen |-> IF covered THEN "other" ELSE "none"],
                      configures = IF covered THEN <<>> ELSE <<PendingOf(area).size>>,
                      asked = [box |-> view.pending,
                               by |-> IF covered THEN "nobody" ELSE "desktop"],
                      cursor = [grabbed |-> FALSE, mode |-> "move", edges |-> {}, start |-> area],
                      user \in Users
               PROVE  Inv
    BY DEF Init
  <1>1. \A b \in Places : PendingOf(b) \in Box
    BY GeometryAssumption, PendingOfBox
  <1>2. [a \in Axes |-> 0] \in Point /\ [a \in Axes |-> 0] \in Size
    BY DEF Point, Size
  <1>3. OwnSizes \subseteq Size
    BY GeometryAssumption
  <1>4. [at : {[a \in Axes |-> 0]}, size : OwnSizes \cup {[a \in Axes |-> 0]}] \subseteq Box
    BY <1>2, <1>3 DEF Box
  <1>5. area \in Box /\ pending \in Box /\ current \in Box
    BY <1>1, <1>4, GeometryAssumption DEF BoxesBefore
  <1>6. PendingOf(area) \in Box
    BY <1>5, PendingOfBox
  <1>7. view.pending \in Box /\ view \in ViewContainers
    BY <1>5, <1>6 DEF ViewContainers
  <1>8. configures \in Seq(Size) /\ (configures = <<>> => asked.by = "nobody")
    <2>1. PendingOf(area).size \in Size
      BY <1>6 DEF Box
    <2>2. <<PendingOf(area).size>> \in Seq(Size) /\ <<PendingOf(area).size>> # <<>>
      BY <2>1
    <2>3. <<>> \in Seq(Size)
      OBVIOUS
    <2> QED
      BY <2>2, <2>3
  <1>9. TypeOK
    BY <1>5, <1>7, <1>8 DEF TypeOK, Cursors
  <1>10. FloatingInStep
    BY DEF FloatingInStep
  <1> QED
    BY <1>8, <1>9, <1>10 DEF Inv, PendingAnchored, PendingAsAsked, InPlaceFromTheRight, InPlace

LEMMA NextInv == Inv /\ [Next]_vars => Inv'
  <1> SUFFICES ASSUME Inv, [Next]_vars PROVE Inv'
    OBVIOUS
  <1>1. view \in ViewContainers /\ cursor \in Cursors /\ configures \in Seq(Size)
    BY DEF Inv, TypeOK
  <1>2. /\ view.tiled \in BOOLEAN /\ view.fullscreen \in {"none", "this", "other"}
        /\ cursor.start \in Box /\ cursor.edges \in SUBSET Edges /\ view.pending \in Box
        /\ view.current \in Box
    BY <1>1 DEF ViewContainers, Cursors
  <1>3. user \subseteq Edges
    BY GeometryAssumption DEF Inv, TypeOK
  <1>4. ASSUME NEW area \in Places, Place(area) PROVE Inv'
    <2>1. area \in Box
      BY GeometryAssumption
    <2> QED
      BY <1>1, <1>4, <2>1, ArrangeStep DEF Place
  <1>5. CASE Rearrange
    <2>1. PICK fullscreen \in {"none", "this", "other"} :
            Rearranged([view EXCEPT !.fullscreen = fullscreen])
      BY <1>5 DEF Rearrange
    <2>2. [view EXCEPT !.fullscreen = fullscreen]
            = [view EXCEPT !.tiled = view.tiled, !.fullscreen = fullscreen]
      BY <1>1 DEF ViewContainers
    <2> QED
      BY <1>2, <2>1, <2>2, RearrangedStep
  <1>6. CASE ToggleTiled
    <2>1. [view EXCEPT !.tiled = ~@]
            = [view EXCEPT !.tiled = ~view.tiled, !.fullscreen = view.fullscreen]
      BY <1>1 DEF ViewContainers
    <2>2. (~view.tiled) \in BOOLEAN
      BY <1>2
    <2> QED
      BY <1>2, <1>6, <2>1, <2>2, RearrangedStep DEF ToggleTiled
  <1>7. CASE RefuseConfigure
    <2>1. view.pending.size \in Size
      BY <1>2 DEF Box
    <2>2. configures' \in Seq(Size) /\ configures' # <<>>
      BY <1>1, <1>7, <2>1, ScheduledQueue DEF RefuseConfigure
    <2> QED
      BY <1>7, <2>2 DEF RefuseConfigure, Inv, TypeOK, FloatingInStep, PendingAnchored, KeptBy,
         PendingAsAsked, InPlaceFromTheRight, InPlace
  <1>8. ASSUME NEW d \in Deltas, DragTo(d) PROVE Inv'
    <2> DEFINE at == [a \in Axes |-> cursor.start.at[a] + d[a]]
               area == [cursor.start EXCEPT !.at = at]
    <2>1. at \in Point
      BY <1>2, GeometryAssumption DEF Box, Point
    <2>2. cursor.mode # "resize" /\ ArrangeIn(view, area, "cursor")
      BY <1>8 DEF DragTo
    <2> HIDE DEF at
    <2>3. area \in Box
      BY <1>2, <2>1 DEF Box
    <2> HIDE DEF area
    <2> QED
      BY <1>1, <2>2, <2>3, ArrangeStep
  <1>9. ASSUME NEW d \in Deltas, ResizeTo(d) PROVE Inv'
    <2> DEFINE area == Resized(cursor.start, cursor.edges, d)
    <2>1. ArrangeIn(view, area, "cursor")
      BY <1>9 DEF ResizeTo
    <2>2. /\ area \in Box
          /\ \A a \in Axes :
                IF Near[a] \in cursor.edges
                THEN End(area, a) = End(cursor.start, a) /\ area.size[a] > 0
                ELSE area.at[a] = cursor.start.at[a]
      BY <1>2, ResizedKeeps
    <2> HIDE DEF area
    <2>3. KeptBy(PendingOf(area))
      <3>1. /\ PendingOf(area).at = area.at
            /\ \A a \in Axes : area.size[a] > 0 => PendingOf(area).size[a] = area.size[a]
        BY <2>2, PendingOfBox
      <3> QED
        BY <2>2, <3>1 DEF KeptBy, End
    <2> QED
      BY <1>1, <2>1, <2>2, <2>3, ArrangeStep
  <1>10. ASSUME NEW edges \in SUBSET user, StartResize(edges) PROVE Inv'
    BY <1>10, GrabKeeps DEF StartResize
  <1>11. CASE StartMove
    BY <1>11, GrabKeeps DEF StartMove, Inv
  <1>12. ASSUME NEW edges \in {cursor.edges} \cup SUBSET user, LetGo(edges) PROVE Inv'
    <2>1. /\ cursor' = [cursor EXCEPT !.grabbed = FALSE, !.mode = "move", !.edges = edges]
          /\ UNCHANGED <<view, configures, asked, user>>
      BY <1>12 DEF LetGo
    <2>2. edges \subseteq user /\ edges \in SUBSET Edges
      BY <1>3 DEF Inv
    <2>3. cursor' \in Cursors /\ cursor'.edges = edges /\ ~cursor'.grabbed
      BY <1>1, <2>1, <2>2 DEF Cursors
    <2>4. asked \in [box : Box, by : {"nobody", "desktop", "cursor"}]
      BY DEF Inv, TypeOK
    <2> QED
      BY <2>1, <2>2, <2>3, <2>4, GrabStep
  <1>13. view.current.size \in Size /\ OwnSizes \subseteq Size
    BY <1>2, GeometryAssumption DEF Box
  <1>14. ASSUME NEW i \in DOMAIN configures,
                NEW size \in {configures[i], view.current.size} \cup OwnSizes, Answer(i, size)
         PROVE  Inv'
    <2>1. i \in 1..Len(configures) /\ Len(configures) \in Nat
      BY <1>1, LenProperties
    <2>2. size \in Size
      BY <1>1, <1>13, <2>1, ElementOfSeq
    <2>3. \A j \in (i + 1)..Len(configures) : configures[j] \in Size
      BY <1>1, <2>1, ElementOfSeq
    <2>4. SubSeq(configures, i + 1, Len(configures)) \in Seq(Size)
      BY <2>1, <2>3, SubSeqProperties
    <2> QED
      BY <1>14, <2>2, <2>4, CommitStep DEF Answer
  <1>15. ASSUME NEW size \in {view.current.size} \cup OwnSizes, CommitOwn(size) PROVE Inv'
    BY <1>1, <1>13, <1>15, CommitStep DEF CommitOwn
  <1>16. CASE UNCHANGED vars
    BY <1>16 DEF vars, Inv, TypeOK, FloatingInStep, PendingAnchored, KeptBy, PendingAsAsked,
       InPlaceFromTheRight, InPlace
  <1> QED
    BY <1>4, <1>5, <1>6, <1>7, <1>8, <1>9, <1>10, <1>11, <1>12, <1>14, <1>15, <1>16 DEF Next

LEMMA SpecInv == Spec => []Inv
  BY InitInv, NextInv, PTL DEF Spec

-----------------------------------------------------------------------------
(***************************************************************************)
(* Theorems                                                                *)
(***************************************************************************)

\* Areas, what is pending and what is drawn are boxes, whatever is dragged: no width or
\* height is negative and no edge crosses the other.
THEOREM TypeCorrect == Spec => []TypeOK
  <1>1. Inv => TypeOK
    BY DEF Inv
  <1> QED
    BY <1>1, SpecInv, PTL

\* The area of a floating container that no fullscreen one covers is always what its view
\* was asked for or has answered.
THEOREM AreaInStep == Spec => []FloatingInStep
  <1>1. Inv => FloatingInStep
    BY DEF Inv
  <1> QED
    BY <1>1, SpecInv, PTL

\* A view that answers, in the size it was asked for, is where it was asked to be, for a
\* user who never resizes from the left or the top.
THEOREM InPlaceProved == Spec => []InPlaceFromTheRight
  <1>1. Inv => InPlaceFromTheRight
    BY DEF Inv
  <1> QED
    BY <1>1, SpecInv, PTL

\* A resize never moves the edges opposite the dragged ones, however many configures are on
\* their way and whatever the client commits.
THEOREM OppositeEdgeProved == Spec => OppositeEdgeStays
  <1> DEFINE Keeps ==
        (view'.current # view.current /\ cursor.grabbed /\ cursor.mode = "resize"
            /\ asked.by = "cursor")
        => \A a \in Axes :
            IF Near[a] \in cursor.edges THEN End(view'.current, a) = End(cursor.start, a)
            ELSE view'.current.at[a] = cursor.start.at[a]
  <1>1. Inv /\ [Next]_vars => [Keeps]_vars
    <2> SUFFICES ASSUME Inv, Next, view'.current # view.current, cursor.grabbed,
                        cursor.mode = "resize", asked.by = "cursor"
                 PROVE  KeptBy(view'.current)
      BY DEF KeptBy
    <2>1. view \in ViewContainers /\ TypeOK
      BY DEF Inv, TypeOK
    <2>2. \A vv \in ViewContainers : \A area, by :
            vv.current = view.current => ~ArrangeIn(vv, area, by)
      BY <2>1 DEF ArrangeIn, ViewContainers
    <2>3. ASSUME NEW vv \in ViewContainers, vv.current = view.current
          PROVE  ~Rearranged(vv)
      BY <2>2, <2>3 DEF Rearranged
    <2>4. ~Rearrange /\ ~ToggleTiled
      <3>1. \A fullscreen \in {"none", "this", "other"} :
                LET vv == [view EXCEPT !.fullscreen = fullscreen]
                IN  vv \in ViewContainers /\ vv.current = view.current
        BY <2>1 DEF ViewContainers
      <3>2. LET vv == [view EXCEPT !.tiled = ~@]
            IN  vv \in ViewContainers /\ vv.current = view.current
        BY <2>1 DEF ViewContainers
      <3> QED
        BY <2>3, <3>1, <3>2 DEF Rearrange, ToggleTiled
    <2>5. PICK size \in Size : Commit(size)
      <3>1. PICK size : /\ Commit(size)
                        /\ \/ \E i \in DOMAIN configures : size = configures[i]
                           \/ size \in OwnSizes \cup {view.current.size}
        BY <2>1, <2>2, <2>4 DEF Next, Place, RefuseConfigure, DragTo, ResizeTo, StartResize,
           StartMove, Grab, LetGo, Answer, CommitOwn
      <3>2. \A i \in DOMAIN configures : configures[i] \in Size
        <4>1. configures \in Seq(Size)
          BY <2>1 DEF TypeOK
        <4> QED
          BY <4>1, ElementOfSeq, LenProperties
      <3>3. \A s \in OwnSizes \cup {view.current.size} : s \in Size
        BY <2>1, GeometryAssumption DEF ViewContainers, Box
      <3> QED
        BY <3>1, <3>2, <3>3
    <2> DEFINE box == Drawn(view, size)
    <2>6. view' = [view EXCEPT !.current = box, !.pending = box,
                               !.area = IF view.tiled THEN @ ELSE box]
      BY <2>5 DEF Commit, ApplyGeometry
    <2>7. KeptBy(box)
      BY <2>1, DrawnKeeps DEF Inv, PendingAnchored
    <2> HIDE DEF box
    <2>8. view'.current = box
      BY <2>1, <2>6 DEF ViewContainers
    <2> QED
      BY <2>7, <2>8
  <1> QED
    BY <1>1, SpecInv, PTL DEF Spec, OppositeEdgeStays
=============================================================================
