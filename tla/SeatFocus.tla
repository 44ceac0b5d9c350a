------------------------------ MODULE SeatFocus ------------------------------
(***************************************************************************)
(* Who receives the keyboard: the focus of the seat (input/seat.c) under   *)
(* the events of views, of layer surfaces (layer_shell/layer_surface.c),   *)
(* of the pointer (input/cursor.c), and of keyboards (input/keyboard.c)    *)
(* and outputs (output.c) that come and go.  The seat keeps two records of *)
(* its own, the active view container and the focused layer surface,       *)
(* beside the keyboard focus that wlroots keeps, and none of the three is  *)
(* derived from the others.                                                *)
(*                                                                         *)
(* A seat s is a record:                                                   *)
(*   s.active          focus.active_view_container, or NULL                *)
(*   s.focusedLayer    focus.focused_layer_surface, or NULL                *)
(*   s.keyboardFocus   keyboard_state.focused_surface of wlr_seat          *)
(*   s.keyboard        the keyboard of wlr_seat, or NULL                   *)
(*   s.keyboards       the keyboards of the seat                           *)
(* A view and a layer surface stand for their main surface too.            *)
(***************************************************************************)
EXTENDS ListOps, Naturals, Sequences

CONSTANTS
    Views,
    LayerSurfaces,
    Outputs,
    Keyboards,
    KeyboardsStay,   \* is a keyboard there from the start, and none goes?
    NULL

ASSUME SeatAssumption ==
    /\ NULL \notin Views \cup LayerSurfaces \cup Outputs \cup Keyboards
    /\ Views \cap LayerSurfaces = {}
    /\ KeyboardsStay \in BOOLEAN
    /\ KeyboardsStay => Keyboards # {}

VARIABLES
    mapped,    \* the views that are mapped and have a container
    lost,      \* the views whose container went with its output
    surface,   \* surface[l]: the committed state of a layer surface
    order,     \* order[o]: layer_surfaces of output o
    outputs,   \* the outputs that are plugged in
    seat

vars == <<mapped, lost, surface, order, outputs, seat>>

\* The layers from background to overlay, in the order of the protocol.
Levels == 0..3
Top == 2

Interactivities == {"none", "exclusive", "on_demand"}

Surfaces == Views \cup LayerSurfaces

\* A layer surface is "new" until its initial commit, then "ready" or "mapped"; one
\* that is unmapped needs another initial commit.  An "orphan" is what the client
\* still has of one that went with its output.
SurfaceStates ==
    [phase : {"none", "new", "ready", "mapped", "orphan"}, level : Levels,
     interactivity : Interactivities, output : Outputs \cup {NULL}]

NoSurface == [phase |-> "none", level |-> 0, interactivity |-> "none", output |-> NULL]

Orphan == [NoSurface EXCEPT !.phase = "orphan"]

\* Does the compositor have a struct e_layer_surface for l?
Exists(l) == surface[l].phase \notin {"none", "orphan"}

Seats ==
    [active : Views \cup {NULL}, focusedLayer : LayerSurfaces \cup {NULL},
     keyboardFocus : Surfaces \cup {NULL}, keyboard : Keyboards \cup {NULL},
     keyboards : SUBSET Keyboards]

TypeOK ==
    /\ mapped \subseteq Views
    /\ lost \subseteq Views
    /\ outputs \subseteq Outputs
    /\ surface \in [LayerSurfaces -> SurfaceStates]
    /\ order \in [Outputs -> Seq(LayerSurfaces)]
    /\ seat \in Seats

Init ==
    /\ mapped = {}
    /\ lost = {}
    /\ outputs = {}
    /\ surface = [l \in LayerSurfaces |-> NoSurface]
    /\ order = [o \in Outputs |-> <<>>]
    /\ \E k \in IF KeyboardsStay THEN Keyboards ELSE {NULL} :
          seat = [active |-> NULL, focusedLayer |-> NULL, keyboardFocus |-> NULL,
                  keyboard |-> k, keyboards |-> {k} \ {NULL}]

(***************************************************************************)
(* The focus functions of the seat.  S is the committed state of the layer *)
(* surfaces when the function is called.                                   *)
(***************************************************************************)

WantsExclusive(S, l) == S[l].level >= Top /\ S[l].interactivity = "exclusive"

HasExclusiveFocus(S, s) == s.focusedLayer # NULL /\ WantsExclusive(S, s.focusedLayer)

\* e_seat_has_focus.
HasFocus(s, x) == IF s.keyboard = NULL THEN x = NULL ELSE s.keyboardFocus = x

\* Mutant: the surface is stored in place of the keyboard.
SetKeyboardFocusSwapped(s, x) ==
    IF s.keyboard = NULL THEN s ELSE [s EXCEPT !.keyboard = x]

\* seat_set_keyboard_focus: without a keyboard nothing changes.
SetKeyboardFocus(s, x) ==
    IF s.keyboard = NULL THEN s ELSE [s EXCEPT !.keyboardFocus = x]

\* Mutant: an exclusive layer surface does not keep others from the keyboard.
MayFocusAlways(S, s, x, replace) == ~HasFocus(s, x)

\* Does seat_set_focus_raw go ahead?
MayFocus(S, s, x, replace) == ~HasFocus(s, x) /\ (HasExclusiveFocus(S, s) => replace)

FocusRaw(S, s, x, replace) ==
    IF MayFocus(S, s, x, replace) THEN SetKeyboardFocus(s, x) ELSE s

\* e_seat_set_focus_view_container.
FocusView(S, s, v) == FocusRaw(S, [s EXCEPT !.active = v], v, FALSE)

\* Mutant: the keyboard stays where it is.
UnfocusLayerOnly(S, s) == [s EXCEPT !.focusedLayer = NULL]

\* e_seat_set_focus_layer_surface(NULL).
UnfocusLayer(S, s) == FocusView(S, [s EXCEPT !.focusedLayer = NULL], s.active)

\* Mutant: the layer surface is not recorded when it takes the keyboard.
FocusLayerUnrecorded(S, s, l) == FocusRaw(S, s, l, WantsExclusive(S, l))

\* e_seat_set_focus_layer_surface(l).
FocusLayer(S, s, l) ==
    LET replace ==
            /\ WantsExclusive(S, l)
            /\ HasExclusiveFocus(S, s) => S[l].level > S[s.focusedLayer].level
    IN  IF /\ s.focusedLayer # l
           /\ S[l].interactivity # "none"
           /\ MayFocus(S, s, l, replace)
        THEN [SetKeyboardFocus(s, l) EXCEPT !.focusedLayer = l]
        ELSE s

(***************************************************************************)
(* Views and the pointer                                                   *)
(***************************************************************************)

\* e_view_container_handle_view_map; a view without a workspace is not focused.
MapView(v, placed) ==
    /\ v \notin mapped \cup lost
    /\ placed => outputs # {}
    /\ mapped' = mapped \cup {v}
    /\ seat' = IF placed THEN FocusView(surface, seat, v) ELSE seat
    /\ UNCHANGED <<lost, surface, order, outputs>>

\* e_view_container_handle_view_unmap.
UnmapView(v) ==
    /\ v \in mapped
    /\ mapped' = mapped \ {v}
    /\ seat' = IF seat.active = v THEN FocusView(surface, seat, NULL) ELSE seat
    /\ UNCHANGED <<lost, surface, order, outputs>>

\* set_focus_from_surface for the surface below the cursor, and
\* e_view_container_handle_view_request_activate.
FocusFromView(v) ==
    /\ v \in mapped
    /\ seat' = FocusView(surface, seat, v)
    /\ UNCHANGED <<mapped, lost, surface, order, outputs>>

FocusFromLayerSurface(l) ==
    /\ surface[l].phase = "mapped"
    /\ seat' = FocusLayer(surface, seat, l)
    /\ UNCHANGED <<mapped, lost, surface, order, outputs>>

(***************************************************************************)
(* Layer surfaces                                                          *)
(***************************************************************************)

\* e_layer_surface_create, on the output the client names or the hovered one; without
\* any the layer surface is closed at once (layer_shell_new_layer_surface).
CreateLayerSurface(l, o, level) ==
    /\ o \in outputs
    /\ surface[l].phase = "none"
    /\ surface' = [surface EXCEPT ![l] =
          [phase |-> "new", level |-> level, interactivity |-> "none", output |-> o]]
    /\ UNCHANGED <<mapped, lost, order, outputs, seat>>

\* The layer surface of a list that e_output_get_exclusive_topmost_layer_surface
\* returns: the first one of the highest layer among those that ask for exclusive
\* focus.
ExclusiveTopmost(S, list) ==
    LET asking == {i \in DOMAIN list : S[list[i]].interactivity = "exclusive"}
    IN  IF asking = {} THEN NULL
        ELSE list[CHOOSE i \in asking : \A j \in asking :
                     \/ S[list[i]].level > S[list[j]].level
                     \/ S[list[i]].level = S[list[j]].level /\ i <= j]

\* The seat after e_layer_surface_map.
Mapped(S, s, l) ==
    IF S[l].interactivity = "exclusive" THEN FocusLayer(S, s, l) ELSE s

\* Mutant: the focus passes on only if another surface asks for it.
UnmappedKeepsFocus(S, s, l, rest) ==
    LET next == ExclusiveTopmost(S, rest)
    IN  IF next = NULL THEN s ELSE FocusLayer(S, s, next)

\* The seat after e_layer_surface_unmap, rest is the list without l.
Unmapped(S, s, l, rest) ==
    LET freed == IF s.focusedLayer = l THEN UnfocusLayer(S, s) ELSE s
        next == ExclusiveTopmost(S, rest)
    IN  IF next = NULL THEN freed ELSE FocusLayer(S, freed, next)

\* The seat after e_layer_surface_commit; named tells whether the client set its
\* keyboard interactivity since its last commit.
Committed(S, s, l, named) ==
    IF named /\ S[l].interactivity = "exclusive" /\ s.focusedLayer # l
    THEN FocusLayer(S, s, l)
    ELSE IF named /\ S[l].interactivity = "none" /\ s.focusedLayer = l
    THEN UnfocusLayer(S, s)
    ELSE s

\* What a commit may change: the layer, and when named the interactivity.
CommitChange(l, level, interactivity, named) ==
    /\ Exists(l)
    /\ named \/ interactivity = surface[l].interactivity

CommitState(l, phase, level, interactivity) ==
    [surface EXCEPT ![l] = [@ EXCEPT !.phase = phase, !.level = level,
                                     !.interactivity = interactivity]]

\* A commit that neither maps nor unmaps.
CommitOnly(l, level, interactivity, named) ==
    LET phase == IF surface[l].phase = "new" THEN "ready" ELSE surface[l].phase
        S == CommitState(l, phase, level, interactivity)
    IN  /\ CommitChange(l, level, interactivity, named)
        /\ surface' = S
        /\ seat' = Committed(S, seat, l, named)
        /\ UNCHANGED <<mapped, lost, order, outputs>>

\* A commit with the first buffer: wlroots applies the state, maps the surface
\* and then reports the commit.
CommitMap(l, level, interactivity, named) ==
    LET S == CommitState(l, "mapped", level, interactivity)
        o == surface[l].output
    IN  /\ surface[l].phase = "ready"
        /\ CommitChange(l, level, interactivity, named)
        /\ surface' = S
        /\ order' = [order EXCEPT ![o] = Append(@, l)]
        /\ seat' = Committed(S, Mapped(S, seat, l), l, named)
        /\ UNCHANGED <<mapped, lost, outputs>>

\* A commit without a buffer: wlroots unmaps the surface, applies the state and
\* then reports the commit.
CommitUnmap(l, level, interactivity, named) ==
    LET S == CommitState(l, "new", level, interactivity)
        rest == ListRemove(order[surface[l].output], l)
    IN  /\ surface[l].phase = "mapped"
        /\ CommitChange(l, level, interactivity, named)
        /\ surface' = S
        /\ order' = [order EXCEPT ![surface[l].output] = rest]
        /\ seat' = Committed(S, Unmapped(surface, seat, l, rest), l, named)
        /\ UNCHANGED <<mapped, lost, outputs>>

\* The seat once surface x no longer exists: wlroots takes the keyboard from it.
Gone(s, x) == IF s.keyboardFocus = x THEN [s EXCEPT !.keyboardFocus = NULL] ELSE s

\* The client destroys a layer surface, or dies: wlroots unmaps a mapped one and
\* destroys its scene node (e_layer_surface_handle_node_destroy).
DestroyLayerSurface(l) ==
    LET rest == ListRemove(order[surface[l].output], l) IN
    /\ surface[l].phase # "none"
    /\ IF surface[l].phase = "mapped"
       THEN /\ order' = [order EXCEPT ![surface[l].output] = rest]
            /\ seat' = Gone(Unmapped(surface, seat, l, rest), l)
       ELSE seat' = Gone(seat, l) /\ UNCHANGED order
    /\ surface' = [surface EXCEPT ![l] = NoSurface]
    /\ UNCHANGED <<mapped, lost, outputs>>

\* The surface of a view that is unmapped, or lost its container, is destroyed.
DestroyViewSurface(v) ==
    /\ v \in lost \/ (v \notin mapped /\ seat.keyboardFocus = v)
    /\ lost' = lost \ {v}
    /\ seat' = Gone(seat, v)
    /\ UNCHANGED <<mapped, surface, order, outputs>>

(***************************************************************************)
(* Keyboards                                                               *)
(***************************************************************************)

\* e_seat_add_keyboard.
AddKeyboard(k) ==
    /\ k \notin seat.keyboards
    /\ seat' = [seat EXCEPT !.keyboard = k, !.keyboards = @ \cup {k}]
    /\ UNCHANGED <<mapped, lost, surface, order, outputs>>

\* e_keyboard_destroy.
RemoveKeyboard(k) ==
    /\ ~KeyboardsStay
    /\ k \in seat.keyboards
    /\ seat' = [seat EXCEPT !.keyboard = IF @ = k THEN NULL ELSE @,
                            !.keyboards = @ \ {k}]
    /\ UNCHANGED <<mapped, lost, surface, order, outputs>>

\* e_keyboard_key for a key no keybind handles, and e_keyboard_modifiers.
UseKeyboard(k) ==
    /\ k \in seat.keyboards
    /\ seat' = [seat EXCEPT !.keyboard = k]
    /\ UNCHANGED <<mapped, lost, surface, order, outputs>>

(***************************************************************************)
(* Outputs                                                                 *)
(***************************************************************************)

\* server_new_output.
AddOutput(o) ==
    /\ o \notin outputs
    /\ outputs' = outputs \cup {o}
    /\ UNCHANGED <<mapped, lost, surface, order, seat>>

\* e_output_handle_destroy: the containers of its workspaces go, taken is the set of
\* their views, and then its scene tree with every layer surface that hangs there.
\* Each is freed by e_layer_surface_handle_node_destroy, which disconnects
\* e_layer_surface_handle_output_destroy before its turn: the client is told nothing.
RemoveOutput(o, taken) ==
    /\ o \in outputs
    /\ outputs' = outputs \ {o}
    /\ mapped' = mapped \ taken
    /\ lost' = lost \cup taken
    /\ surface' = [l \in LayerSurfaces |-> IF surface[l].output = o THEN Orphan ELSE surface[l]]
    /\ order' = [order EXCEPT ![o] = <<>>]
    /\ UNCHANGED seat

\* The seat refers to a layer surface or a view container that has been freed: what
\* the next read of it returns is undefined, and the model stops.
FreedLayerFocused == seat.focusedLayer # NULL /\ ~Exists(seat.focusedLayer)

Dangling == FreedLayerFocused \/ seat.active \in lost

LayerSurfaceEvent(l) ==
    \/ FocusFromLayerSurface(l)
    \/ \E o \in Outputs, level \in Levels : CreateLayerSurface(l, o, level)
    \/ \E level \in Levels, interactivity \in Interactivities, named \in BOOLEAN :
          \/ CommitOnly(l, level, interactivity, named)
          \/ CommitMap(l, level, interactivity, named)
          \/ CommitUnmap(l, level, interactivity, named)
    \/ DestroyLayerSurface(l)

ViewEvent(v) ==
    \/ \E placed \in BOOLEAN : MapView(v, placed)
    \/ UnmapView(v)
    \/ FocusFromView(v)
    \/ DestroyViewSurface(v)

Next ==
    /\ ~Dangling
    /\ \/ \E v \in Views : ViewEvent(v)
       \/ \E l \in LayerSurfaces : LayerSurfaceEvent(l)
       \/ \E o \in Outputs : AddOutput(o) \/ \E taken \in SUBSET mapped : RemoveOutput(o, taken)
       \/ \E k \in Keyboards : AddKeyboard(k) \/ RemoveKeyboard(k) \/ UseKeyboard(k)

Spec == Init /\ [][Next]_vars

-----------------------------------------------------------------------------
(***************************************************************************)
(* Properties                                                              *)
(***************************************************************************)

\* Layer surface l gives up the keyboard: a commit unmaps it, which leaves its interactivity
\* as it was, or it is destroyed while it is mapped, or it commits interactivity none.
GivesUp(l) ==
    \/ \E level \in Levels : CommitUnmap(l, level, surface[l].interactivity, FALSE)
    \/ surface[l].phase = "mapped" /\ DestroyLayerSurface(l)
    \/ Exists(l)' /\ surface'[l].interactivity = "none"

\* A layer surface that gives up the keyboard does not stay the seat's focused one, whatever
\* surface of its output the focus passes to.  One that is freed without an unmap does stay
\* (FocusedLayerLives), and a commit that unmaps a surface and names it exclusive in one
\* focuses it again, as an initial commit does.
FocusGivenUp ==
    [][\A l \in LayerSurfaces : seat'.focusedLayer = l => ~GivesUp(l)]_vars

\* The active view container has the keyboard as long as there is no focused
\* layer surface.
ActiveHasKeyboard == seat.focusedLayer = NULL => seat.keyboardFocus = seat.active

\* Once the active view container has the keyboard as long as there is no focused
\* layer surface, no event changes that while the seat has a keyboard: a layer
\* surface that takes the focus gives it back to the view that is active by then.
KeyboardFollowsActive ==
    [][seat.keyboard # NULL /\ seat'.keyboard # NULL /\ ActiveHasKeyboard
          => ActiveHasKeyboard']_vars

\* A layer surface that has the keyboard is the one the seat recorded as focused.
LayerRecorded ==
    seat.keyboardFocus \in LayerSurfaces => seat.keyboardFocus = seat.focusedLayer

\* While the seat has a keyboard, no layer surface gets or keeps it behind the
\* seat's back: the seat would not take it away when the surface is unmapped.
LayerKeyboardRecorded ==
    [][seat.keyboard # NULL /\ LayerRecorded => LayerRecorded']_vars

\* A layer surface with the exclusive focus and the keyboard loses the keyboard by
\* its own doing, or to an exclusive surface of a higher layer.
ExclusiveKeeps ==
    [][LET l == seat.focusedLayer IN
       l # NULL /\ seat.keyboardFocus = l /\ WantsExclusive(surface, l)
          /\ seat'.keyboardFocus # l
          => \/ surface'[l] # surface[l]
             \/ /\ seat'.keyboardFocus \in LayerSurfaces
                /\ WantsExclusive(surface', seat'.keyboardFocus)
                /\ surface'[seat'.keyboardFocus].level > surface[l].level]_vars

\* The seat never refers to a layer surface that has been freed.
FocusedLayerLives == ~FreedLayerFocused

\* Among the mapped surfaces of the top and overlay layers that ask for exclusive
\* focus, one of the highest layer has the keyboard.
TopmostExclusiveFocused ==
    LET asking == {l \in LayerSurfaces :
                      surface[l].phase = "mapped" /\ WantsExclusive(surface, l)}
    IN  asking # {} =>
            \E l \in asking :
                /\ seat.keyboardFocus = l
                /\ \A m \in asking : surface[m].level <= surface[l].level
=============================================================================
