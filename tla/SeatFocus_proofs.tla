-------------------------- MODULE SeatFocus_proofs --------------------------
(***************************************************************************)
(* The properties of SeatFocus, for any views, layer surfaces, outputs and *)
(* keyboards.                                                              *)
(*                                                                         *)
(* The focus functions of the seat call one another, and a handler calls   *)
(* several.  FocusStep and Rises say what each of them keeps; both are     *)
(* transitive, so a handler keeps what its calls keep.  The inductive      *)
(* invariant says that a focused layer surface wants the keyboard, that    *)
(* the active view is mapped, and that the list of an output holds mapped  *)
(* layer surfaces of that output, each once: what is focused after an      *)
(* unmap is never the surface that was unmapped.                           *)
(***************************************************************************)
EXTENDS SeatFocus, ListOps_proofs, TLAPS

\* ActiveHasKeyboard and LayerRecorded, of any seat.
Follows(s) == s.focusedLayer = NULL => s.keyboardFocus = s.active
Recorded(s) == s.keyboardFocus \in LayerSurfaces => s.keyboardFocus = s.focusedLayer

\* What a focus function keeps that leaves the active view alone.
FocusStep(s, r) ==
    /\ r \in Seats
    /\ r.active = s.active
    /\ r.keyboard = s.keyboard
    /\ s.keyboard = NULL => r.keyboardFocus = s.keyboardFocus
    /\ s.keyboard # NULL => /\ Follows(s) => Follows(r)
                            /\ Recorded(s) => Recorded(r)

\* A layer surface has the exclusive focus and the keyboard.
Holds(S, s) ==
    /\ s.focusedLayer \in LayerSurfaces
    /\ s.keyboardFocus = s.focusedLayer
    /\ WantsExclusive(S, s.focusedLayer)

\* It keeps both, or loses both to one of a higher layer.
Rises(S, s, r) ==
    s.keyboard # NULL /\ Holds(S, s) =>
        /\ Holds(S, r)
        /\ \/ r.focusedLayer = s.focusedLayer
           \/ S[r.focusedLayer].level > S[s.focusedLayer].level

SurfaceFunctions == [LayerSurfaces -> SurfaceStates]

-----------------------------------------------------------------------------
(***************************************************************************)
(* The focus functions                                                     *)
(***************************************************************************)

LEMMA FocusStepTransitive ==
    ASSUME NEW s \in Seats, NEW r, NEW q, FocusStep(s, r), FocusStep(r, q)
    PROVE  FocusStep(s, q)
  BY DEF FocusStep

LEMMA RisesTransitive ==
    ASSUME NEW S \in SurfaceFunctions, NEW s \in Seats, NEW r \in Seats, NEW q \in Seats,
           r.keyboard = s.keyboard, Rises(S, s, r), Rises(S, r, q)
    PROVE  Rises(S, s, q)
  <1>1. \A l \in LayerSurfaces : S[l].level \in Int
    BY DEF SurfaceFunctions, SurfaceStates, Levels
  <1> QED
    BY <1>1 DEF Rises, Holds

\* e_seat_set_focus_view_container.
LEMMA FocusViewKeeps ==
    ASSUME NEW S, NEW s \in Seats, NEW v \in Views \cup {NULL}
    PROVE  LET r == FocusView(S, s, v) IN
           /\ r \in Seats
           /\ r.active = v
           /\ r.focusedLayer = s.focusedLayer
           /\ r.keyboard = s.keyboard
           /\ r.keyboardFocus \in {s.keyboardFocus, v}
           /\ s.keyboard = NULL \/ HasExclusiveFocus(S, s) => r.keyboardFocus = s.keyboardFocus
           /\ s.keyboard # NULL /\ ~HasExclusiveFocus(S, s) => r.keyboardFocus = v
  BY SeatAssumption
     DEF FocusView, FocusRaw, MayFocus, SetKeyboardFocus, HasFocus, HasExclusiveFocus,
         Seats, Surfaces

\* e_seat_set_focus_layer_surface(NULL).
LEMMA UnfocusKeeps ==
    ASSUME NEW S, NEW s \in Seats
    PROVE  LET r == UnfocusLayer(S, s) IN FocusStep(s, r) /\ r.focusedLayer = NULL
  <1> DEFINE t == [s EXCEPT !.focusedLayer = NULL]
             r == FocusView(S, t, s.active)
  <1>1. /\ t \in Seats /\ t.focusedLayer = NULL /\ t.keyboard = s.keyboard
        /\ t.keyboardFocus = s.keyboardFocus
        /\ s.active \in Views \cup {NULL}
    BY DEF Seats
  <1>2. ~HasExclusiveFocus(S, t)
    BY <1>1 DEF HasExclusiveFocus
  <1>3. /\ r \in Seats /\ r.active = s.active /\ r.focusedLayer = NULL
        /\ r.keyboard = s.keyboard
        /\ s.keyboard = NULL => r.keyboardFocus = s.keyboardFocus
        /\ s.keyboard # NULL => r.keyboardFocus = s.active
    <2> HIDE DEF t
    <2> QED
      BY <1>1, <1>2, FocusViewKeeps
  <1>4. UnfocusLayer(S, s) = r
    BY DEF UnfocusLayer
  <1> HIDE DEF r
  <1>5. s.active \notin LayerSurfaces
    BY SeatAssumption, <1>1
  <1> QED
    BY <1>3, <1>4, <1>5 DEF FocusStep, Follows, Recorded

\* e_seat_set_focus_layer_surface(l).
LEMMA FocusLayerKeeps ==
    ASSUME NEW S \in SurfaceFunctions, NEW s \in Seats, NEW l \in LayerSurfaces
    PROVE  LET r == FocusLayer(S, s, l) IN
           /\ FocusStep(s, r)
           /\ Rises(S, s, r)
           /\ r = s \/ (r.focusedLayer = l /\ S[l].interactivity # "none"
                          /\ r.keyboardFocus \in {s.keyboardFocus, l})
  <1> DEFINE r == FocusLayer(S, s, l)
             k == [SetKeyboardFocus(s, l) EXCEPT !.focusedLayer = l]
  <1>1. CASE r = s
    BY <1>1 DEF FocusStep, Rises
  <1>2. CASE r # s
    <2>1. /\ r = k
          /\ S[l].interactivity # "none"
          /\ HasExclusiveFocus(S, s) =>
                WantsExclusive(S, l) /\ S[l].level > S[s.focusedLayer].level
      BY <1>2 DEF FocusLayer, MayFocus
    <2>2. /\ k \in Seats /\ k.active = s.active /\ k.keyboard = s.keyboard
          /\ k.focusedLayer = l
          /\ k.keyboardFocus = IF s.keyboard = NULL THEN s.keyboardFocus ELSE l
      BY DEF SetKeyboardFocus, Seats, Surfaces
    <2>3. FocusStep(s, k)
      BY <2>2, SeatAssumption DEF FocusStep, Follows, Recorded
    <2>4. Rises(S, s, k)
      <3>1. SUFFICES ASSUME s.keyboard # NULL, Holds(S, s)
                     PROVE  Holds(S, k) /\ S[k.focusedLayer].level > S[s.focusedLayer].level
        BY DEF Rises
      <3>2. HasExclusiveFocus(S, s)
        BY <3>1, SeatAssumption DEF Holds, HasExclusiveFocus
      <3> QED
        BY <2>1, <2>2, <3>1, <3>2 DEF Holds
    <2> QED
      BY <2>1, <2>2, <2>3, <2>4
  <1> QED
    BY <1>1, <1>2

-----------------------------------------------------------------------------
(***************************************************************************)
(* The topmost layer surface that asks for exclusive focus                 *)
(***************************************************************************)

LEMMA ExclusiveTopmostListed ==
    ASSUME NEW S \in SurfaceFunctions, NEW list \in Seq(LayerSurfaces)
    PROVE  LET next == ExclusiveTopmost(S, list) IN
           next # NULL => /\ next \in Items(list)
                          /\ next \in LayerSurfaces
                          /\ S[next].interactivity = "exclusive"
  <1> DEFINE asking == {i \in DOMAIN list : S[list[i]].interactivity = "exclusive"}
             level(i) == S[list[i]].level
             Top_(i) == \A j \in asking : \/ level(i) > level(j)
                                          \/ level(i) = level(j) /\ i <= j
  <1>1. CASE asking = {}
    BY <1>1 DEF ExclusiveTopmost
  <1>2. CASE asking # {}
    <2>1. /\ asking \in SUBSET Nat
          /\ \A i \in asking : list[i] \in LayerSurfaces /\ level(i) \in 0..3
      BY DEF SurfaceFunctions, SurfaceStates, Levels
    <2>2. PICK h \in 0..3 : /\ \E i \in asking : level(i) = h
                            /\ \A i \in asking : level(i) <= h
      <3> HIDE DEF asking, level
      <3>1. \A i \in asking : level(i) \in {0, 1, 2, 3}
        BY <2>1
      <3>2. CASE \E i \in asking : level(i) = 3
        BY <3>1, <3>2
      <3>3. CASE (\A i \in asking : level(i) # 3) /\ \E i \in asking : level(i) = 2
        BY <3>1, <3>3
      <3>4. CASE (\A i \in asking : level(i) \notin {2, 3}) /\ \E i \in asking : level(i) = 1
        BY <3>1, <3>4
      <3>5. CASE \A i \in asking : level(i) = 0
        BY <1>2, <3>5
      <3> QED
        BY <3>1, <3>2, <3>3, <3>4, <3>5
    <2> DEFINE highest == {i \in asking : level(i) = h}
    <2>3. PICK i \in highest : \A j \in highest : i <= j
      <3>1. highest \in SUBSET Nat /\ highest # {}
        BY <2>1, <2>2
      <3> HIDE DEF highest
      <3> QED
        BY <3>1, LeastOf
    <2>4. i \in asking /\ Top_(i)
      <3> HIDE DEF asking, level
      <3> QED
        BY <2>1, <2>2, <2>3
    <2>5. PICK c \in asking : ExclusiveTopmost(S, list) = list[c]
      <3>1. ExclusiveTopmost(S, list) = list[CHOOSE k \in asking : Top_(k)]
        BY <1>2 DEF ExclusiveTopmost
      <3>2. (CHOOSE k \in asking : Top_(k)) \in asking
        <4> HIDE DEF asking, Top_
        <4> QED
          BY <2>4
      <3> QED
        BY <3>1, <3>2
    <2> QED
      BY <2>1, <2>5 DEF Items
  <1> QED
    BY <1>1, <1>2

-----------------------------------------------------------------------------
(***************************************************************************)
(* The handlers of layer surfaces                                          *)
(***************************************************************************)

\* e_layer_surface_map.
LEMMA MappedKeeps ==
    ASSUME NEW S \in SurfaceFunctions, NEW s \in Seats, NEW l \in LayerSurfaces
    PROVE  LET r == Mapped(S, s, l) IN
           /\ FocusStep(s, r)
           /\ Rises(S, s, r)
           /\ r.focusedLayer = s.focusedLayer
                \/ (r.focusedLayer = l /\ S[l].interactivity # "none")
  <1>1. FocusStep(s, s) /\ Rises(S, s, s)
    BY DEF FocusStep, Rises
  <1> QED
    BY <1>1, FocusLayerKeeps DEF Mapped

\* e_layer_surface_commit.
LEMMA CommittedKeeps ==
    ASSUME NEW S \in SurfaceFunctions, NEW s \in Seats, NEW l \in LayerSurfaces,
           NEW named \in BOOLEAN
    PROVE  LET r == Committed(S, s, l, named) IN
           /\ FocusStep(s, r)
           /\ Rises(S, s, r)
           /\ \/ r.focusedLayer = NULL
              \/ r.focusedLayer = s.focusedLayer
              \/ r.focusedLayer = l /\ S[l].interactivity # "none"
           /\ named /\ r.focusedLayer = l => S[l].interactivity # "none"
  <1> DEFINE r == Committed(S, s, l, named)
  <1>1. CASE named /\ S[l].interactivity = "exclusive" /\ s.focusedLayer # l
    <2>1. r = FocusLayer(S, s, l)
      BY <1>1 DEF Committed
    <2>2. S[l].interactivity # "none"
      BY <1>1
    <2> HIDE DEF r
    <2>3. FocusStep(s, r) /\ Rises(S, s, r) /\ (r = s \/ r.focusedLayer = l)
      BY <2>1, FocusLayerKeeps
    <2> QED
      BY <2>2, <2>3 DEF r
  <1>2. CASE named /\ S[l].interactivity = "none" /\ s.focusedLayer = l
    <2>1. r = UnfocusLayer(S, s)
      BY <1>2 DEF Committed
    <2>2. ~Holds(S, s)
      BY <1>2 DEF Holds, WantsExclusive
    <2>3. l # NULL
      BY SeatAssumption
    <2> QED
      BY <2>1, <2>2, <2>3, UnfocusKeeps DEF Rises
  <1>3. CASE /\ ~(named /\ S[l].interactivity = "exclusive" /\ s.focusedLayer # l)
             /\ ~(named /\ S[l].interactivity = "none" /\ s.focusedLayer = l)
    <2>1. r = s
      BY <1>3 DEF Committed
    <2> QED
      BY <1>3, <2>1 DEF FocusStep, Rises
  <1> QED
    BY <1>1, <1>2, <1>3

\* e_layer_surface_unmap, rest is the list without l.
LEMMA UnmappedKeeps ==
    ASSUME NEW S \in SurfaceFunctions, NEW s \in Seats, NEW l \in LayerSurfaces,
           NEW rest \in Seq(LayerSurfaces), l \notin Items(rest)
    PROVE  LET r == Unmapped(S, s, l, rest) IN
           /\ FocusStep(s, r)
           /\ s.focusedLayer # l => Rises(S, s, r)
           /\ r.focusedLayer # l
           /\ \/ r.focusedLayer = NULL
              \/ r.focusedLayer = s.focusedLayer
              \/ /\ r.focusedLayer \in Items(rest)
                 /\ S[r.focusedLayer].interactivity # "none"
           /\ s.focusedLayer # l => r.keyboardFocus # l \/ s.keyboardFocus = l
  <1> DEFINE freed == IF s.focusedLayer = l THEN UnfocusLayer(S, s) ELSE s
             next == ExclusiveTopmost(S, rest)
             r == Unmapped(S, s, l, rest)
  <1>1. /\ FocusStep(s, freed) /\ freed \in Seats
        /\ freed.focusedLayer # l
        /\ freed.focusedLayer = NULL \/ freed.focusedLayer = s.focusedLayer
        /\ s.focusedLayer # l => freed = s
    BY UnfocusKeeps, SeatAssumption DEF FocusStep
  <1>2. CASE next = NULL
    <2>1. r = freed
      BY <1>2 DEF Unmapped
    <2> QED
      BY <1>1, <2>1 DEF Rises
  <1>3. CASE next # NULL
    <2>1. r = FocusLayer(S, freed, next)
      BY <1>3 DEF Unmapped
    <2>2. /\ next \in Items(rest) /\ next \in LayerSurfaces /\ next # l
          /\ S[next].interactivity # "none"
      BY <1>3, ExclusiveTopmostListed
    <2> HIDE DEF freed, next, r
    <2>3. /\ FocusStep(freed, r)
          /\ Rises(S, freed, r)
          /\ r = freed \/ (r.focusedLayer = next /\ r.keyboardFocus \in {freed.keyboardFocus, next})
      BY <1>1, <2>1, <2>2, FocusLayerKeeps
    <2>4. FocusStep(s, r)
      BY <1>1, <2>3, FocusStepTransitive
    <2> QED
      BY <1>1, <2>2, <2>3, <2>4 DEF r
  <1> QED
    BY <1>2, <1>3

-----------------------------------------------------------------------------
(***************************************************************************)
(* The invariant                                                           *)
(***************************************************************************)

\* A focused layer surface that still exists wants the keyboard.
FocusedLayerWants ==
    seat.focusedLayer # NULL =>
        FreedLayerFocused \/ surface[seat.focusedLayer].interactivity # "none"

\* The active view is mapped, or lost its container with its output.
ActiveMapped == seat.active \in mapped \cup lost \cup {NULL}

\* The lists hold mapped layer surfaces of their output, each once.
OrderAgrees ==
    \A o \in Outputs :
        /\ NoDuplicates(order[o])
        /\ \A l \in Items(order[o]) : surface[l].phase = "mapped" /\ surface[l].output = o

\* A layer surface that exists is on an output.
OnOutput == \A l \in LayerSurfaces : Exists(l) => surface[l].output \in Outputs

Inv ==
    /\ TypeOK
    /\ FocusedLayerWants
    /\ ActiveMapped
    /\ OrderAgrees
    /\ OnOutput

LEMMA InitInv == Init => Inv
  <1> SUFFICES ASSUME Init
               PROVE  Inv
    OBVIOUS
  <1>1. TypeOK
    BY SeatAssumption
       DEF Init, TypeOK, NoSurface, SurfaceStates, Levels, Interactivities, Seats, Surfaces
  <1>2. seat.focusedLayer = NULL /\ seat.active = NULL
    BY DEF Init
  <1>3. OrderAgrees
    BY DEF Init, OrderAgrees, NoDuplicates, Items
  <1>4. OnOutput
    BY DEF Init, OnOutput, Exists, NoSurface
  <1> QED
    BY <1>1, <1>2, <1>3, <1>4 DEF Inv, FocusedLayerWants, ActiveMapped

\* What the proofs about a layer surface with a list need of the invariant.
LEMMA RestOfList ==
    ASSUME Inv, NEW l \in LayerSurfaces, surface[l].phase = "mapped"
    PROVE  LET o == surface[l].output
               rest == ListRemove(order[o], l)
           IN  /\ o \in Outputs
               /\ rest \in Seq(LayerSurfaces)
               /\ l \notin Items(rest)
               /\ NoDuplicates(rest)
               /\ Items(rest) \subseteq Items(order[o])
  <1>1. surface[l].output \in Outputs
    BY DEF Inv, OnOutput, Exists
  <1>2. /\ order[surface[l].output] \in Seq(LayerSurfaces)
        /\ NoDuplicates(order[surface[l].output])
    BY <1>1 DEF Inv, TypeOK, OrderAgrees
  <1> QED
    BY <1>1, <1>2, RemoveItems

\* The committed state of l changes and stays well typed.
LEMMA CommitStateType ==
    ASSUME TypeOK, NEW l \in LayerSurfaces, NEW phase \in {"new", "ready", "mapped"},
           NEW level \in Levels, NEW interactivity \in Interactivities
    PROVE  LET S == CommitState(l, phase, level, interactivity) IN
           /\ S \in SurfaceFunctions
           /\ S[l].phase = phase
           /\ S[l].level = level
           /\ S[l].interactivity = interactivity
           /\ S[l].output = surface[l].output
           /\ \A m \in LayerSurfaces \ {l} : S[m] = surface[m]
  BY DEF CommitState, TypeOK, SurfaceFunctions, SurfaceStates

-----------------------------------------------------------------------------
(***************************************************************************)
(* The steps                                                               *)
(***************************************************************************)

\* What ExclusiveKeeps asks of a step to the seat r and the surfaces S.
ExclusiveStep(S, r) ==
    LET l == seat.focusedLayer IN
    l # NULL /\ seat.keyboardFocus = l /\ WantsExclusive(surface, l) /\ r.keyboardFocus # l
        => \/ S[l] # surface[l]
           \/ /\ r.keyboardFocus \in LayerSurfaces
              /\ WantsExclusive(S, r.keyboardFocus)
              /\ S[r.keyboardFocus].level > surface[l].level

\* What the action properties ask of a step.
StepKeeps ==
    /\ seat.keyboard # NULL /\ seat'.keyboard # NULL /\ Follows(seat) => Follows(seat')
    /\ seat.keyboard # NULL /\ Recorded(seat) => Recorded(seat')
    /\ ExclusiveStep(surface', seat')

LEMMA ExclusiveByRises ==
    ASSUME TypeOK, NEW S \in SurfaceFunctions, NEW r,
           FocusStep(seat, r), Rises(S, seat, r)
    PROVE  ExclusiveStep(S, r)
  <1> DEFINE l == seat.focusedLayer
  <1>1. SUFFICES ASSUME l # NULL, seat.keyboardFocus = l, WantsExclusive(surface, l),
                        r.keyboardFocus # l, S[l] = surface[l]
                 PROVE  /\ r.keyboardFocus \in LayerSurfaces
                        /\ WantsExclusive(S, r.keyboardFocus)
                        /\ S[r.keyboardFocus].level > surface[l].level
    BY DEF ExclusiveStep
  <1>2. l \in LayerSurfaces /\ seat.keyboard # NULL
    BY <1>1 DEF TypeOK, Seats, FocusStep
  <1>3. Holds(S, seat)
    BY <1>1, <1>2 DEF Holds, WantsExclusive
  <1>4. /\ Holds(S, r)
        /\ r.focusedLayer = l \/ S[r.focusedLayer].level > S[l].level
    BY <1>2, <1>3 DEF Rises
  <1> QED
    BY <1>1, <1>4 DEF Holds

\* A seat that keeps its keyboard focus takes it from nobody.
LEMMA ExclusiveSame ==
    ASSUME NEW S, NEW r, r.keyboardFocus = seat.keyboardFocus
    PROVE  ExclusiveStep(S, r)
  BY DEF ExclusiveStep

\* The seat does not refer to anything freed.
LEMMA NotDangling ==
    ASSUME Inv, ~Dangling
    PROVE  /\ seat.focusedLayer # NULL =>
                 /\ seat.focusedLayer \in LayerSurfaces
                 /\ Exists(seat.focusedLayer)
                 /\ surface[seat.focusedLayer].interactivity # "none"
           /\ seat.active \in mapped \cup {NULL}
           /\ seat \in Seats /\ surface \in SurfaceFunctions
  BY DEF Inv, TypeOK, FocusedLayerWants, ActiveMapped, Dangling, FreedLayerFocused, Seats,
         SurfaceFunctions

-----------------------------------------------------------------------------
(***************************************************************************)
(* Views, the pointer, keyboards and outputs                               *)
(***************************************************************************)

\* A view or none becomes active.
LEMMA ViewFocused ==
    ASSUME Inv, ~Dangling, NEW v \in Views \cup {NULL}
    PROVE  LET r == FocusView(surface, seat, v) IN
           /\ r \in Seats
           /\ r.active = v
           /\ r.focusedLayer = seat.focusedLayer
           /\ r.keyboard = seat.keyboard
           /\ seat.keyboard # NULL => Follows(r)
           /\ Recorded(seat) => Recorded(r)
           /\ ExclusiveStep(surface, r)
  <1> DEFINE r == FocusView(surface, seat, v)
  <1>1. seat \in Seats /\ v \notin LayerSurfaces
    BY NotDangling, SeatAssumption
  <1>2. /\ r \in Seats
        /\ r.active = v
        /\ r.focusedLayer = seat.focusedLayer
        /\ r.keyboard = seat.keyboard
        /\ r.keyboardFocus \in {seat.keyboardFocus, v}
        /\ seat.keyboard = NULL \/ HasExclusiveFocus(surface, seat)
              => r.keyboardFocus = seat.keyboardFocus
        /\ seat.keyboard # NULL /\ ~HasExclusiveFocus(surface, seat) => r.keyboardFocus = v
    BY <1>1, FocusViewKeeps
  <1> HIDE DEF r
  <1>3. seat.keyboard # NULL => Follows(r)
    BY <1>2 DEF Follows, HasExclusiveFocus
  <1>4. Recorded(seat) => Recorded(r)
    BY <1>1, <1>2 DEF Recorded
  <1>5. ExclusiveStep(surface, r)
    BY <1>2 DEF ExclusiveStep, HasExclusiveFocus
  <1> QED
    BY <1>2, <1>3, <1>4, <1>5 DEF r

\* The parts of the invariant about layer surfaces do not depend on the seat.
LEMMA SurfacesUnchanged ==
    ASSUME Inv, UNCHANGED <<surface, order>>
    PROVE  OrderAgrees' /\ OnOutput'
  BY DEF Inv, OrderAgrees, OnOutput, Exists

\* A handler that changes the seat alone, and leaves the focused layer surface alone.
LEMMA LayerUntouched ==
    ASSUME Inv, UNCHANGED surface, seat'.focusedLayer = seat.focusedLayer
    PROVE  FocusedLayerWants'
  BY DEF Inv, FocusedLayerWants, FreedLayerFocused, Exists

LEMMA MapViewKeeps ==
    ASSUME Inv, ~Dangling, NEW v \in Views, NEW placed \in BOOLEAN, MapView(v, placed)
    PROVE  Inv' /\ StepKeeps
  <1>1. CASE placed
    <2>1. /\ seat' = FocusView(surface, seat, v) /\ surface' = surface
          /\ mapped' = mapped \cup {v} /\ UNCHANGED <<lost, order, outputs>>
      BY <1>1 DEF MapView
    <2>2. /\ seat' \in Seats /\ seat'.active = v /\ seat'.focusedLayer = seat.focusedLayer
          /\ StepKeeps
      BY <2>1, ViewFocused DEF StepKeeps
    <2>3. TypeOK' /\ ActiveMapped'
      BY <2>1, <2>2 DEF Inv, TypeOK, ActiveMapped
    <2> QED
      BY <2>1, <2>2, <2>3, SurfacesUnchanged, LayerUntouched DEF Inv
  <1>2. CASE ~placed
    <2>1. /\ UNCHANGED <<seat, lost, surface, order, outputs>> /\ mapped' = mapped \cup {v}
      BY <1>2 DEF MapView
    <2>2. TypeOK' /\ ActiveMapped'
      BY <2>1 DEF Inv, TypeOK, ActiveMapped
    <2>3. StepKeeps
      BY <2>1, ExclusiveSame DEF StepKeeps
    <2> QED
      BY <2>1, <2>2, <2>3, SurfacesUnchanged, LayerUntouched DEF Inv
  <1> QED
    BY <1>1, <1>2

LEMMA UnmapViewKeeps ==
    ASSUME Inv, ~Dangling, NEW v \in Views, UnmapView(v)
    PROVE  Inv' /\ StepKeeps
  <1>1. /\ mapped' = mapped \ {v} /\ UNCHANGED <<lost, surface, order, outputs>>
    BY DEF UnmapView
  <1>2. CASE seat.active = v
    <2>1. seat' = FocusView(surface, seat, NULL)
      BY <1>2 DEF UnmapView
    <2>2. /\ seat' \in Seats /\ seat'.active = NULL /\ seat'.focusedLayer = seat.focusedLayer
          /\ StepKeeps
      BY <1>1, <2>1, ViewFocused DEF StepKeeps
    <2>3. TypeOK' /\ ActiveMapped'
      BY <1>1, <2>2 DEF Inv, TypeOK, ActiveMapped
    <2> QED
      BY <1>1, <2>2, <2>3, SurfacesUnchanged, LayerUntouched DEF Inv
  <1>3. CASE seat.active # v
    <2>1. UNCHANGED seat
      BY <1>3 DEF UnmapView
    <2>2. TypeOK' /\ ActiveMapped'
      BY <1>1, <1>3, <2>1 DEF Inv, TypeOK, ActiveMapped
    <2>3. StepKeeps
      BY <2>1, ExclusiveSame DEF StepKeeps
    <2> QED
      BY <1>1, <2>1, <2>2, <2>3, SurfacesUnchanged, LayerUntouched DEF Inv
  <1> QED
    BY <1>2, <1>3

LEMMA FocusFromViewKeeps ==
    ASSUME Inv, ~Dangling, NEW v \in Views, FocusFromView(v)
    PROVE  Inv' /\ StepKeeps
  <1>1. /\ seat' = FocusView(surface, seat, v) /\ v \in mapped
        /\ UNCHANGED <<mapped, lost, surface, order, outputs>>
    BY DEF FocusFromView
  <1>2. /\ seat' \in Seats /\ seat'.active = v /\ seat'.focusedLayer = seat.focusedLayer
        /\ StepKeeps
    BY <1>1, ViewFocused DEF StepKeeps
  <1>3. TypeOK' /\ ActiveMapped'
    BY <1>1, <1>2 DEF Inv, TypeOK, ActiveMapped
  <1> QED
    BY <1>1, <1>2, <1>3, SurfacesUnchanged, LayerUntouched DEF Inv

\* A surface the seat does not record as active or focused takes nothing along.
LEMMA GoneKeeps ==
    ASSUME NEW s \in Seats, NEW x \in Surfaces, s.active # x, s.focusedLayer # x
    PROVE  LET r == Gone(s, x) IN
           /\ r \in Seats /\ r.active = s.active /\ r.focusedLayer = s.focusedLayer
           /\ r.keyboard = s.keyboard
           /\ r.keyboardFocus = IF s.keyboardFocus = x THEN NULL ELSE s.keyboardFocus
           /\ Follows(s) => Follows(r)
           /\ Recorded(s) => Recorded(r)
  <1> DEFINE r == Gone(s, x)
  <1>1. /\ r \in Seats /\ r.active = s.active /\ r.focusedLayer = s.focusedLayer
        /\ r.keyboard = s.keyboard
        /\ r.keyboardFocus = IF s.keyboardFocus = x THEN NULL ELSE s.keyboardFocus
    BY DEF Gone, Seats
  <1> HIDE DEF r
  <1>2. (Follows(s) => Follows(r)) /\ (Recorded(s) => Recorded(r))
    BY <1>1, SeatAssumption DEF Follows, Recorded
  <1> QED
    BY <1>1, <1>2 DEF r

LEMMA DestroyViewSurfaceKeeps ==
    ASSUME Inv, ~Dangling, NEW v \in Views, DestroyViewSurface(v)
    PROVE  Inv' /\ StepKeeps
  <1>1. /\ seat' = Gone(seat, v) /\ lost' = lost \ {v}
        /\ UNCHANGED <<mapped, surface, order, outputs>>
        /\ v \in lost \/ v \notin mapped
    BY DEF DestroyViewSurface
  <1>2. seat.active # v
    BY <1>1, NotDangling, SeatAssumption DEF Dangling
  <1>3. v \in Surfaces /\ seat.focusedLayer # v /\ seat \in Seats
    BY NotDangling, SeatAssumption DEF Surfaces
  <1>4. /\ seat' \in Seats /\ seat'.active = seat.active
        /\ seat'.focusedLayer = seat.focusedLayer
        /\ seat'.keyboardFocus = IF seat.keyboardFocus = v THEN NULL ELSE seat.keyboardFocus
        /\ Follows(seat) => Follows(seat')
        /\ Recorded(seat) => Recorded(seat')
    BY <1>1, <1>2, <1>3, GoneKeeps
  <1>5. TypeOK' /\ ActiveMapped'
    BY <1>1, <1>2, <1>4 DEF Inv, TypeOK, ActiveMapped
  <1>6. ExclusiveStep(surface', seat')
    BY <1>3, <1>4 DEF ExclusiveStep
  <1> QED
    BY <1>1, <1>4, <1>5, <1>6, SurfacesUnchanged, LayerUntouched DEF Inv, StepKeeps

LEMMA KeyboardKeeps ==
    ASSUME Inv, NEW k \in Keyboards, AddKeyboard(k) \/ RemoveKeyboard(k) \/ UseKeyboard(k)
    PROVE  Inv' /\ StepKeeps
  <1>1. /\ seat' \in Seats /\ seat'.active = seat.active
        /\ seat'.focusedLayer = seat.focusedLayer
        /\ seat'.keyboardFocus = seat.keyboardFocus
        /\ UNCHANGED <<mapped, lost, surface, order, outputs>>
    BY DEF AddKeyboard, RemoveKeyboard, UseKeyboard, Inv, TypeOK, Seats
  <1>2. TypeOK' /\ ActiveMapped'
    BY <1>1 DEF Inv, TypeOK, ActiveMapped
  <1>3. StepKeeps
    BY <1>1, ExclusiveSame DEF StepKeeps, Follows, Recorded
  <1> QED
    BY <1>1, <1>2, <1>3, SurfacesUnchanged, LayerUntouched DEF Inv

LEMMA AddOutputKeeps ==
    ASSUME Inv, NEW o \in Outputs, AddOutput(o)
    PROVE  Inv' /\ StepKeeps
  <1>1. UNCHANGED <<mapped, lost, surface, order, seat>> /\ outputs' = outputs \cup {o}
    BY DEF AddOutput
  <1>2. TypeOK' /\ ActiveMapped'
    BY <1>1 DEF Inv, TypeOK, ActiveMapped
  <1>3. StepKeeps
    BY <1>1, ExclusiveSame DEF StepKeeps
  <1> QED
    BY <1>1, <1>2, <1>3, SurfacesUnchanged, LayerUntouched DEF Inv

LEMMA RemoveOutputKeeps ==
    ASSUME Inv, ~Dangling, NEW o \in Outputs, NEW taken \in SUBSET mapped, RemoveOutput(o, taken)
    PROVE  Inv' /\ StepKeeps
  <1>1. /\ UNCHANGED seat /\ mapped' = mapped \ taken /\ lost' = lost \cup taken
        /\ outputs' = outputs \ {o}
        /\ surface' = [l \in LayerSurfaces |-> IF surface[l].output = o THEN Orphan ELSE surface[l]]
        /\ order' = [order EXCEPT ![o] = <<>>]
    BY DEF RemoveOutput
  <1>2. Orphan \in SurfaceStates /\ Orphan.phase = "orphan"
    BY DEF Orphan, NoSurface, SurfaceStates, Levels, Interactivities
  <1>3. surface' \in [LayerSurfaces -> SurfaceStates]
    BY <1>1, <1>2 DEF Inv, TypeOK
  <1>4. order' \in [Outputs -> Seq(LayerSurfaces)]
    <2>1. <<>> \in Seq(LayerSurfaces)
      OBVIOUS
    <2> QED
      BY <1>1, <2>1 DEF Inv, TypeOK
  <1>5. TypeOK'
    BY <1>1, <1>3, <1>4 DEF Inv, TypeOK
  <1>6. ActiveMapped'
    BY <1>1 DEF Inv, ActiveMapped
  <1>7. FocusedLayerWants'
    BY <1>1, <1>2, NotDangling DEF FocusedLayerWants, FreedLayerFocused, Exists
  <1>8. OrderAgrees'
    <2>1. SUFFICES ASSUME NEW p \in Outputs
                   PROVE  /\ NoDuplicates(order'[p])
                          /\ \A l \in Items(order'[p]) :
                                surface'[l].phase = "mapped" /\ surface'[l].output = p
      BY DEF OrderAgrees
    <2>2. CASE p = o
      BY <1>1, <2>2 DEF Inv, TypeOK, NoDuplicates, Items
    <2>3. CASE p # o
      <3>1. order'[p] = order[p] /\ order[p] \in Seq(LayerSurfaces)
        BY <1>1, <2>3 DEF Inv, TypeOK
      <3>2. \A l \in Items(order[p]) : l \in LayerSurfaces
        BY <3>1 DEF Items
      <3> QED
        BY <1>1, <2>3, <3>1, <3>2 DEF Inv, OrderAgrees
    <2> QED
      BY <2>2, <2>3
  <1>9. OnOutput'
    BY <1>1, <1>2 DEF Inv, OnOutput, Exists
  <1>10. StepKeeps
    BY <1>1, ExclusiveSame DEF StepKeeps
  <1> QED
    BY <1>5, <1>6, <1>7, <1>8, <1>9, <1>10 DEF Inv

-----------------------------------------------------------------------------
(***************************************************************************)
(* Layer surfaces                                                          *)
(***************************************************************************)

\* What is focused, if anything, wants the keyboard by the committed state S.
Wants(S, s) ==
    s.focusedLayer # NULL =>
        s.focusedLayer \in LayerSurfaces /\ S[s.focusedLayer].interactivity # "none"

LEMMA FocusFromLayerSurfaceKeeps ==
    ASSUME Inv, ~Dangling, NEW l \in LayerSurfaces, FocusFromLayerSurface(l)
    PROVE  Inv' /\ StepKeeps
  <1>1. /\ seat' = FocusLayer(surface, seat, l)
        /\ UNCHANGED <<mapped, lost, surface, order, outputs>>
    BY DEF FocusFromLayerSurface
  <1>2. /\ FocusStep(seat, seat') /\ Rises(surface, seat, seat')
        /\ seat'.focusedLayer = seat.focusedLayer
             \/ (seat'.focusedLayer = l /\ surface[l].interactivity # "none")
    BY <1>1, NotDangling, FocusLayerKeeps
  <1>3. TypeOK' /\ ActiveMapped'
    BY <1>1, <1>2 DEF Inv, TypeOK, ActiveMapped, FocusStep
  <1>4. FocusedLayerWants'
    BY <1>1, <1>2, NotDangling DEF FocusedLayerWants
  <1>5. ExclusiveStep(surface', seat')
    BY <1>1, <1>2, NotDangling, ExclusiveByRises DEF Inv
  <1>6. StepKeeps
    BY <1>2, <1>5 DEF StepKeeps, FocusStep
  <1> QED
    BY <1>1, <1>3, <1>4, <1>6, SurfacesUnchanged DEF Inv

LEMMA CreateLayerSurfaceKeeps ==
    ASSUME Inv, ~Dangling, NEW l \in LayerSurfaces, NEW o \in Outputs, NEW level \in Levels,
           CreateLayerSurface(l, o, level)
    PROVE  Inv' /\ StepKeeps
  <1> DEFINE new == [phase |-> "new", level |-> level, interactivity |-> "none", output |-> o]
  <1>1. /\ surface[l].phase = "none" /\ surface' = [surface EXCEPT ![l] = new]
        /\ UNCHANGED <<mapped, lost, order, outputs, seat>>
    BY DEF CreateLayerSurface
  <1>2. new \in SurfaceStates /\ new.phase = "new" /\ new.output = o
    BY DEF SurfaceStates, Interactivities
  <1> HIDE DEF new
  <1>3. /\ surface' \in SurfaceFunctions /\ surface'[l] = new
        /\ \A m \in LayerSurfaces \ {l} : surface'[m] = surface[m]
    BY <1>1, <1>2, NotDangling DEF SurfaceFunctions
  <1>4. TypeOK' /\ ActiveMapped'
    BY <1>1, <1>3 DEF Inv, TypeOK, ActiveMapped, SurfaceFunctions
  <1>5. seat.focusedLayer # l
    BY <1>1, NotDangling, SeatAssumption DEF Exists
  <1>6. FocusedLayerWants'
    BY <1>1, <1>3, <1>5, NotDangling DEF FocusedLayerWants
  <1>7. OrderAgrees'
    <2>1. \A p \in Outputs : \A m \in Items(order[p]) : m \in LayerSurfaces /\ m # l
      BY <1>1 DEF Inv, TypeOK, OrderAgrees, Items
    <2> QED
      BY <1>1, <1>3, <2>1 DEF Inv, OrderAgrees
  <1>8. OnOutput'
    BY <1>2, <1>3 DEF Inv, OnOutput, Exists
  <1>9. StepKeeps
    BY <1>1, ExclusiveSame DEF StepKeeps
  <1> QED
    BY <1>4, <1>6, <1>7, <1>8, <1>9 DEF Inv

\* What the three commits have in common: t is the seat after the surface was mapped
\* or unmapped, and before e_layer_surface_commit.
LEMMA CommitKeeps ==
    ASSUME Inv, ~Dangling, NEW l \in LayerSurfaces, NEW phase \in {"new", "ready", "mapped"},
           NEW level \in Levels, NEW interactivity \in Interactivities, NEW named \in BOOLEAN,
           CommitChange(l, level, interactivity, named),
           surface' = CommitState(l, phase, level, interactivity),
           NEW t, FocusStep(seat, t), Wants(surface, t) \/ Wants(surface', t),
           \/ seat.focusedLayer = l /\ surface'[l] # surface[l]
           \/ Rises(surface', seat, t),
           seat' = Committed(surface', t, l, named),
           order' \in [Outputs -> Seq(LayerSurfaces)], OrderAgrees',
           UNCHANGED <<mapped, lost, outputs>>
    PROVE  Inv' /\ StepKeeps
  <1>1. /\ surface' \in SurfaceFunctions
        /\ surface'[l].interactivity = interactivity
        /\ surface'[l].output = surface[l].output
        /\ \A m \in LayerSurfaces \ {l} : surface'[m] = surface[m]
    BY CommitStateType DEF Inv
  <1>2. t \in Seats /\ seat \in Seats
    BY NotDangling DEF FocusStep
  <1>3. /\ FocusStep(t, seat') /\ Rises(surface', t, seat')
        /\ \/ seat'.focusedLayer = NULL
           \/ seat'.focusedLayer = t.focusedLayer
           \/ seat'.focusedLayer = l /\ surface'[l].interactivity # "none"
        /\ named /\ seat'.focusedLayer = l => surface'[l].interactivity # "none"
    BY <1>1, <1>2, CommittedKeeps
  <1>4. FocusStep(seat, seat')
    BY <1>2, <1>3, FocusStepTransitive
  <1>5. TypeOK' /\ ActiveMapped'
    BY <1>1, <1>4 DEF Inv, TypeOK, ActiveMapped, FocusStep, SurfaceFunctions
  <1>6. FocusedLayerWants'
    <2>1. ~named => surface'[l].interactivity = surface[l].interactivity
      BY <1>1 DEF CommitChange
    <2>2. Wants(surface', seat')
      BY <1>1, <1>3, <2>1 DEF Wants
    <2> QED
      BY <2>2 DEF Wants, FocusedLayerWants
  <1>7. OnOutput'
    BY <1>1 DEF Inv, OnOutput, Exists, CommitChange
  <1>8. ExclusiveStep(surface', seat')
    <2>1. CASE seat.focusedLayer = l /\ surface'[l] # surface[l]
      BY <2>1 DEF ExclusiveStep
    <2>2. CASE Rises(surface', seat, t)
      <3>1. t.keyboard = seat.keyboard /\ seat' \in Seats
        BY <1>4 DEF FocusStep
      <3>2. Rises(surface', seat, seat')
        BY <1>1, <1>2, <1>3, <2>2, <3>1, RisesTransitive
      <3> QED
        BY <1>1, <1>4, <3>2, ExclusiveByRises DEF Inv
    <2> QED
      BY <2>1, <2>2
  <1>9. StepKeeps
    BY <1>4, <1>8 DEF StepKeeps, FocusStep
  <1> QED
    BY <1>5, <1>6, <1>7, <1>9 DEF Inv

LEMMA CommitOnlyKeeps ==
    ASSUME Inv, ~Dangling, NEW l \in LayerSurfaces, NEW level \in Levels,
           NEW interactivity \in Interactivities, NEW named \in BOOLEAN,
           CommitOnly(l, level, interactivity, named)
    PROVE  Inv' /\ StepKeeps
  <1> DEFINE phase == IF surface[l].phase = "new" THEN "ready" ELSE surface[l].phase
  <1>1. /\ CommitChange(l, level, interactivity, named)
        /\ surface' = CommitState(l, phase, level, interactivity)
        /\ seat' = Committed(surface', seat, l, named)
        /\ UNCHANGED <<mapped, lost, order, outputs>>
    BY DEF CommitOnly
  <1>2. /\ phase \in {"new", "ready", "mapped"}
        /\ surface[l].phase = "mapped" => phase = "mapped"
    BY <1>1, NotDangling DEF SurfaceFunctions, SurfaceStates, CommitChange, Exists
  <1> HIDE DEF phase
  <1>3. FocusStep(seat, seat) /\ Wants(surface, seat) /\ Rises(surface', seat, seat)
    BY NotDangling DEF FocusStep, Wants, Rises
  <1>4. /\ surface'[l].phase = phase /\ surface'[l].output = surface[l].output
        /\ \A m \in LayerSurfaces \ {l} : surface'[m] = surface[m]
    BY <1>1, <1>2, CommitStateType DEF Inv
  <1>5. OrderAgrees' /\ order' \in [Outputs -> Seq(LayerSurfaces)]
    <2>1. \A o \in Outputs : \A m \in Items(order[o]) : m \in LayerSurfaces
      BY DEF Inv, TypeOK, Items
    <2> QED
      BY <1>1, <1>2, <1>4, <2>1 DEF Inv, TypeOK, OrderAgrees
  <1> QED
    BY <1>1, <1>2, <1>3, <1>5, CommitKeeps

LEMMA CommitMapKeeps ==
    ASSUME Inv, ~Dangling, NEW l \in LayerSurfaces, NEW level \in Levels,
           NEW interactivity \in Interactivities, NEW named \in BOOLEAN,
           CommitMap(l, level, interactivity, named)
    PROVE  Inv' /\ StepKeeps
  <1> DEFINE t == Mapped(surface', seat, l)
             o == surface[l].output
  <1>1. /\ surface[l].phase = "ready"
        /\ CommitChange(l, level, interactivity, named)
        /\ surface' = CommitState(l, "mapped", level, interactivity)
        /\ seat' = Committed(surface', t, l, named)
        /\ order' = [order EXCEPT ![o] = Append(@, l)]
        /\ UNCHANGED <<mapped, lost, outputs>>
    BY DEF CommitMap
  <1>2. /\ surface' \in SurfaceFunctions
        /\ surface'[l].phase = "mapped" /\ surface'[l].output = o
        /\ \A m \in LayerSurfaces \ {l} : surface'[m] = surface[m]
    BY <1>1, CommitStateType DEF Inv
  <1>3. /\ FocusStep(seat, t) /\ Rises(surface', seat, t)
        /\ t.focusedLayer = seat.focusedLayer
             \/ (t.focusedLayer = l /\ surface'[l].interactivity # "none")
    BY <1>2, NotDangling, MappedKeeps
  <1>4. Wants(surface, t) \/ Wants(surface', t)
    BY <1>3, NotDangling DEF Wants
  <1>5. o \in Outputs /\ order[o] \in Seq(LayerSurfaces) /\ NoDuplicates(order[o])
    BY <1>1 DEF Inv, TypeOK, OrderAgrees, OnOutput, Exists
  <1>6. \A p \in Outputs : \A m \in Items(order[p]) : m \in LayerSurfaces /\ m # l
    BY <1>1 DEF Inv, TypeOK, OrderAgrees, Items
  <1>7. /\ Append(order[o], l) \in Seq(LayerSurfaces)
        /\ Items(Append(order[o], l)) = Items(order[o]) \cup {l}
        /\ NoDuplicates(Append(order[o], l))
    BY <1>5, <1>6, AppendItems
  <1>8. order' \in [Outputs -> Seq(LayerSurfaces)]
    BY <1>1, <1>7 DEF Inv, TypeOK
  <1>9. OrderAgrees'
    <2>1. SUFFICES ASSUME NEW p \in Outputs
                   PROVE  /\ NoDuplicates(order'[p])
                          /\ \A m \in Items(order'[p]) :
                                surface'[m].phase = "mapped" /\ surface'[m].output = p
      BY DEF OrderAgrees
    <2>2. order'[p] = IF p = o THEN Append(order[o], l) ELSE order[p]
      BY <1>1, <1>5 DEF Inv, TypeOK
    <2>3. /\ NoDuplicates(order[p])
          /\ \A m \in Items(order[p]) : surface[m].phase = "mapped" /\ surface[m].output = p
      BY DEF Inv, OrderAgrees
    <2> HIDE DEF o
    <2> QED
      BY <1>2, <1>6, <1>7, <2>2, <2>3
  <1> HIDE DEF t
  <1> QED
    BY <1>1, <1>3, <1>4, <1>8, <1>9, CommitKeeps

\* The lists once l is removed from the one it is in.
LEMMA OrderWithout ==
    ASSUME Inv, NEW l \in LayerSurfaces, surface[l].phase = "mapped",
           order' = [order EXCEPT ![surface[l].output] = ListRemove(order[surface[l].output], l)],
           \A m \in LayerSurfaces \ {l} : surface'[m] = surface[m]
    PROVE  order' \in [Outputs -> Seq(LayerSurfaces)] /\ OrderAgrees'
  <1> DEFINE o == surface[l].output
             rest == ListRemove(order[o], l)
  <1>1. /\ o \in Outputs /\ rest \in Seq(LayerSurfaces) /\ NoDuplicates(rest)
        /\ l \notin Items(rest) /\ Items(rest) \subseteq Items(order[o])
    BY RestOfList
  <1>2. \A p \in Outputs : order'[p] = IF p = o THEN rest ELSE order[p]
    BY <1>1 DEF Inv, TypeOK
  <1>3. \A p \in Outputs : \A m \in Items(order[p]) :
            m \in LayerSurfaces /\ surface[m].phase = "mapped" /\ surface[m].output = p
    BY DEF Inv, TypeOK, OrderAgrees, Items
  <1>4. order' \in [Outputs -> Seq(LayerSurfaces)]
    BY <1>1 DEF Inv, TypeOK
  <1>5. \A p \in Outputs : NoDuplicates(order'[p])
    BY <1>1, <1>2 DEF Inv, OrderAgrees
  <1>6. \A p \in Outputs : \A m \in Items(order'[p]) : m # l /\ m \in Items(order[p])
    <2> HIDE DEF rest
    <2> QED
      BY <1>1, <1>2, <1>3
  <1> QED
    BY <1>3, <1>4, <1>5, <1>6 DEF OrderAgrees

LEMMA CommitUnmapKeeps ==
    ASSUME Inv, ~Dangling, NEW l \in LayerSurfaces, NEW level \in Levels,
           NEW interactivity \in Interactivities, NEW named \in BOOLEAN,
           CommitUnmap(l, level, interactivity, named)
    PROVE  Inv' /\ StepKeeps
  <1> DEFINE rest == ListRemove(order[surface[l].output], l)
             t == Unmapped(surface, seat, l, rest)
  <1>1. /\ surface[l].phase = "mapped"
        /\ CommitChange(l, level, interactivity, named)
        /\ surface' = CommitState(l, "new", level, interactivity)
        /\ seat' = Committed(surface', t, l, named)
        /\ order' = [order EXCEPT ![surface[l].output] = rest]
        /\ UNCHANGED <<mapped, lost, outputs>>
    BY DEF CommitUnmap
  <1>2. /\ surface' \in SurfaceFunctions /\ surface'[l].phase = "new"
        /\ \A m \in LayerSurfaces \ {l} : surface'[m] = surface[m]
    BY <1>1, CommitStateType DEF Inv
  <1>3. order' \in [Outputs -> Seq(LayerSurfaces)] /\ OrderAgrees'
    BY <1>1, <1>2, OrderWithout
  <1>4. /\ FocusStep(seat, t)
        /\ seat.focusedLayer # l => Rises(surface, seat, t)
        /\ t.focusedLayer # l
        /\ \/ t.focusedLayer = NULL
           \/ t.focusedLayer = seat.focusedLayer
           \/ t.focusedLayer \in Items(rest) /\ surface[t.focusedLayer].interactivity # "none"
    BY <1>1, RestOfList, NotDangling, UnmappedKeeps
  <1> HIDE DEF t
  <1>5. t \in Seats
    BY <1>4 DEF FocusStep
  <1>6. Wants(surface, t)
    BY <1>4, <1>5, NotDangling DEF Wants, Seats
  <1>7. seat.focusedLayer # l => Rises(surface', seat, t)
    BY <1>2, <1>4, <1>5 DEF Rises, Holds, WantsExclusive, Seats
  <1>8. surface'[l] # surface[l]
    BY <1>1, <1>2
  <1> QED
    BY <1>1, <1>3, <1>4, <1>6, <1>7, <1>8, CommitKeeps

LEMMA DestroyLayerSurfaceKeeps ==
    ASSUME Inv, ~Dangling, NEW l \in LayerSurfaces, DestroyLayerSurface(l)
    PROVE  Inv' /\ StepKeeps
  <1> DEFINE rest == ListRemove(order[surface[l].output], l)
             u == Unmapped(surface, seat, l, rest)
  <1>1. /\ surface[l].phase # "none" /\ surface' = [surface EXCEPT ![l] = NoSurface]
        /\ UNCHANGED <<mapped, lost, outputs>>
    BY DEF DestroyLayerSurface
  <1>2. NoSurface \in SurfaceStates /\ NoSurface.phase = "none"
    BY DEF NoSurface, SurfaceStates, Levels, Interactivities
  <1>3. /\ surface' \in SurfaceFunctions /\ surface'[l] = NoSurface
        /\ \A m \in LayerSurfaces \ {l} : surface'[m] = surface[m]
    BY <1>1, <1>2, NotDangling DEF SurfaceFunctions
  <1>4. surface'[l] # surface[l] /\ ~Exists(l)'
    BY <1>1, <1>2, <1>3 DEF Exists
  <1>5. OnOutput'
    BY <1>3, <1>4 DEF Inv, OnOutput, Exists
  <1>6. l \in Surfaces /\ l \notin Views \cup {NULL} /\ seat \in Seats
    BY NotDangling, SeatAssumption DEF Surfaces
  <1>7. CASE surface[l].phase = "mapped"
    <2>1. seat' = Gone(u, l) /\ order' = [order EXCEPT ![surface[l].output] = rest]
      BY <1>7 DEF DestroyLayerSurface
    <2>2. order' \in [Outputs -> Seq(LayerSurfaces)] /\ OrderAgrees'
      BY <1>3, <1>7, <2>1, OrderWithout
    <2>3. /\ FocusStep(seat, u)
          /\ seat.focusedLayer # l => Rises(surface, seat, u)
          /\ u.focusedLayer # l
          /\ \/ u.focusedLayer = NULL
             \/ u.focusedLayer = seat.focusedLayer
             \/ u.focusedLayer \in Items(rest) /\ surface[u.focusedLayer].interactivity # "none"
          /\ seat.focusedLayer # l => u.keyboardFocus # l \/ seat.keyboardFocus = l
      BY <1>7, RestOfList, NotDangling, UnmappedKeeps
    <2> HIDE DEF u
    <2>4. u \in Seats /\ u.active # l
      BY <1>6, <2>3 DEF FocusStep, Seats
    <2>5. /\ seat' \in Seats /\ seat'.active = seat.active
          /\ seat'.focusedLayer = u.focusedLayer
          /\ seat'.keyboard = seat.keyboard
          /\ seat'.keyboardFocus = IF u.keyboardFocus = l THEN NULL ELSE u.keyboardFocus
          /\ Follows(u) => Follows(seat')
          /\ Recorded(u) => Recorded(seat')
      BY <1>6, <2>1, <2>3, <2>4, GoneKeeps DEF FocusStep
    <2>6. TypeOK' /\ ActiveMapped'
      BY <1>1, <1>3, <2>2, <2>5 DEF Inv, TypeOK, ActiveMapped, SurfaceFunctions
    <2>7. FocusedLayerWants'
      BY <1>3, <2>3, <2>4, <2>5, NotDangling DEF FocusedLayerWants, Seats
    <2>8. ExclusiveStep(surface', seat')
      <3>1. CASE seat.focusedLayer = l
        BY <1>4, <3>1 DEF ExclusiveStep
      <3>2. CASE seat.focusedLayer # l
        <4>1. ExclusiveStep(surface, u)
          BY <2>3, <3>2, NotDangling, ExclusiveByRises DEF Inv
        <4> QED
          BY <1>3, <2>3, <2>5, <3>2, <4>1 DEF ExclusiveStep, WantsExclusive
      <3> QED
        BY <3>1, <3>2
    <2>9. StepKeeps
      BY <2>3, <2>5, <2>8 DEF StepKeeps, FocusStep
    <2> QED
      BY <1>5, <2>2, <2>6, <2>7, <2>9 DEF Inv
  <1>8. CASE surface[l].phase # "mapped"
    <2>1. seat' = Gone(seat, l) /\ UNCHANGED order
      BY <1>8 DEF DestroyLayerSurface
    <2>2. /\ seat' \in Seats /\ seat'.active = seat.active
          /\ seat'.focusedLayer = seat.focusedLayer
          /\ seat'.keyboardFocus = IF seat.keyboardFocus = l THEN NULL ELSE seat.keyboardFocus
      BY <1>6, <2>1 DEF Gone, Seats
    <2>3. TypeOK' /\ ActiveMapped'
      BY <1>1, <1>3, <2>1, <2>2 DEF Inv, TypeOK, ActiveMapped, SurfaceFunctions
    <2>4. OrderAgrees'
      <3>1. \A p \in Outputs : \A m \in Items(order[p]) : m \in LayerSurfaces /\ m # l
        BY <1>8 DEF Inv, TypeOK, OrderAgrees, Items
      <3> QED
        BY <1>3, <2>1, <3>1 DEF Inv, OrderAgrees
    <2>5. FocusedLayerWants'
      BY <1>3, <1>4, <2>2, NotDangling DEF FocusedLayerWants, FreedLayerFocused
    <2>6. (Follows(seat) => Follows(seat')) /\ (Recorded(seat) => Recorded(seat'))
      BY <1>6, <2>2, SeatAssumption DEF Follows, Recorded, Seats
    <2>7. ExclusiveStep(surface', seat')
      BY <1>4, <2>2 DEF ExclusiveStep
    <2> QED
      BY <1>5, <2>3, <2>4, <2>5, <2>6, <2>7 DEF Inv, StepKeeps
  <1> QED
    BY <1>7, <1>8

-----------------------------------------------------------------------------
(***************************************************************************)
(* The specification                                                       *)
(***************************************************************************)

LEMMA NextKeeps ==
    ASSUME Inv, [Next]_vars
    PROVE  Inv' /\ (StepKeeps \/ UNCHANGED vars)
  <1>1. CASE UNCHANGED vars
    <2>1. UNCHANGED <<mapped, lost, surface, order, outputs, seat>>
      BY <1>1 DEF vars
    <2>2. TypeOK' /\ ActiveMapped'
      BY <2>1 DEF Inv, TypeOK, ActiveMapped
    <2> QED
      BY <1>1, <2>1, <2>2, SurfacesUnchanged, LayerUntouched DEF Inv
  <1>2. CASE Next
    <2>1. ~Dangling
      BY <1>2 DEF Next
    <2>2. ASSUME NEW v \in Views, ViewEvent(v)
          PROVE  Inv' /\ StepKeeps
      BY <2>1, <2>2, MapViewKeeps, UnmapViewKeeps, FocusFromViewKeeps, DestroyViewSurfaceKeeps
         DEF ViewEvent
    <2>3. ASSUME NEW l \in LayerSurfaces, LayerSurfaceEvent(l)
          PROVE  Inv' /\ StepKeeps
      BY <2>1, <2>3, FocusFromLayerSurfaceKeeps, CreateLayerSurfaceKeeps, CommitOnlyKeeps,
         CommitMapKeeps, CommitUnmapKeeps, DestroyLayerSurfaceKeeps
         DEF LayerSurfaceEvent
    <2>4. ASSUME NEW o \in Outputs,
                 AddOutput(o) \/ \E taken \in SUBSET mapped : RemoveOutput(o, taken)
          PROVE  Inv' /\ StepKeeps
      BY <2>1, <2>4, AddOutputKeeps, RemoveOutputKeeps
    <2> QED
      BY <1>2, <2>2, <2>3, <2>4, KeyboardKeeps DEF Next
  <1> QED
    BY <1>1, <1>2

LEMMA InvHolds == Spec => []Inv
  BY InitInv, NextKeeps, PTL DEF Spec

\* The seat, the layer surfaces and the lists of the outputs keep their types.
THEOREM TypeCorrect == Spec => []TypeOK
  <1>1. Inv => TypeOK
    BY DEF Inv
  <1> QED
    BY <1>1, InvHolds, PTL

\* A layer surface that is unmapped, destroyed while it is mapped, or commits interactivity
\* none does not stay focused, whatever events came before.
THEOREM FocusAlwaysGivenUp == Spec => FocusGivenUp
  <1>1. ASSUME Inv, [Next]_vars
        PROVE  [\A l \in LayerSurfaces : seat'.focusedLayer = l => ~GivesUp(l)]_vars
    <2> SUFFICES ASSUME Next, NEW l \in LayerSurfaces, GivesUp(l) PROVE seat'.focusedLayer # l
      BY <1>1
    <2>1. ~Dangling
      BY DEF Next
    <2>2. seat \in Seats /\ surface \in SurfaceFunctions
      BY <1>1, <2>1, NotDangling
    <2> DEFINE rest == ListRemove(order[surface[l].output], l)
               u == Unmapped(surface, seat, l, rest)
    <2>3. surface[l].phase = "mapped" => u \in Seats /\ u.focusedLayer # l
      BY <1>1, <2>2, RestOfList, UnmappedKeeps DEF FocusStep
    <2>4. ASSUME NEW level \in Levels, CommitUnmap(l, level, surface[l].interactivity, FALSE)
          PROVE  seat'.focusedLayer # l
      <3>1. surface[l].phase = "mapped" /\ seat' = u
        BY <2>4 DEF CommitUnmap, Committed
      <3> QED
        BY <2>3, <3>1
    <2>5. CASE surface[l].phase = "mapped" /\ DestroyLayerSurface(l)
      <3>1. seat' = Gone(u, l)
        BY <2>5 DEF DestroyLayerSurface
      <3> HIDE DEF u
      <3>2. seat'.focusedLayer = u.focusedLayer
        BY <2>3, <2>5, <3>1 DEF Gone, Seats
      <3> QED
        BY <2>3, <2>5, <3>2
    <2>6. CASE Exists(l)' /\ surface'[l].interactivity = "none"
      <3>1. Inv'
        BY <1>1, NextKeeps
      <3>2. seat'.focusedLayer # NULL =>
                FreedLayerFocused' \/ surface'[seat'.focusedLayer].interactivity # "none"
        BY <3>1 DEF Inv, FocusedLayerWants
      <3>3. l # NULL
        BY SeatAssumption
      <3> QED
        BY <2>6, <3>2, <3>3 DEF FreedLayerFocused, Exists
    <2> QED
      BY <2>4, <2>5, <2>6 DEF GivesUp
  <1> QED
    BY <1>1, InvHolds, PTL DEF Spec, FocusGivenUp

\* No event separates the keyboard from the active view container while the seat has
\* a keyboard and no layer surface is focused.
THEOREM KeyboardFollows == Spec => KeyboardFollowsActive
  <1>1. ASSUME Inv, [Next]_vars
        PROVE  [seat.keyboard # NULL /\ seat'.keyboard # NULL /\ ActiveHasKeyboard
                   => ActiveHasKeyboard']_vars
    BY <1>1, NextKeeps DEF StepKeeps, Follows, ActiveHasKeyboard
  <1> QED
    BY <1>1, InvHolds, PTL DEF Spec, KeyboardFollowsActive

\* While the seat has a keyboard, no event gives it to a layer surface, or leaves it
\* there, without the seat recording that surface as focused.
THEOREM KeyboardRecorded == Spec => LayerKeyboardRecorded
  <1>1. ASSUME Inv, [Next]_vars
        PROVE  [seat.keyboard # NULL /\ LayerRecorded => LayerRecorded']_vars
    BY <1>1, NextKeeps DEF StepKeeps, Recorded, LayerRecorded
  <1> QED
    BY <1>1, InvHolds, PTL DEF Spec, LayerKeyboardRecorded

\* A layer surface with the exclusive focus loses the keyboard by its own doing, or to
\* an exclusive surface of a higher layer.
THEOREM ExclusiveKept == Spec => ExclusiveKeeps
  <1> DEFINE Keeps ==
          LET l == seat.focusedLayer IN
          l # NULL /\ seat.keyboardFocus = l /\ WantsExclusive(surface, l)
             /\ seat'.keyboardFocus # l
             => \/ surface'[l] # surface[l]
                \/ /\ seat'.keyboardFocus \in LayerSurfaces
                   /\ WantsExclusive(surface', seat'.keyboardFocus)
                   /\ surface'[seat'.keyboardFocus].level > surface[l].level
  <1>1. ASSUME Inv, [Next]_vars
        PROVE  [Keeps]_vars
    BY <1>1, NextKeeps DEF StepKeeps, ExclusiveStep
  <1>2. ExclusiveKeeps <=> [][Keeps]_vars
    BY DEF ExclusiveKeeps
  <1> HIDE DEF Keeps
  <1> QED
    BY <1>1, <1>2, InvHolds, PTL DEF Spec
=============================================================================
