# A TLA+ model of EstrogenWL

EstrogenWL is a tiling Wayland compositor on top of wlroots, written in C. This directory holds TLA+ modules that model
it, the TLC configurations that check them on small instances, and proofs of their main properties that TLAPS checks.
Paths like `container.c` are below `src/src/`, headers are below `src/include/`.

    tlc -workers 2 -config ContainerTree.cfg MCContainerTree      # model-check
    tlapm ContainerTree_proofs.tla                                # check the proofs

## 1. The system

One thread runs the event loop of libwayland. Everything the compositor does is a handler that the loop calls: a
client's request, a signal of wlroots (a surface mapped, an output destroyed), an input event, an idle callback. A
handler runs to its end before the next one starts, so there are no data races. What is hard is the **order of events**:
clients, the user, pagers, taskbars and hotplug act independently of each other, most facts are recorded in two or more
places that different handlers update, and every handler holds pointers to things another handler frees.

| component | state | operations | correct when |
|---|---|---|---|
| container tree (`desktop/tree/container.c`) | workspace, parent, fullscreen and tiled flags, percentage, areas, scene node of a container; children of a tree container | leave, move, retile, insert, remove, arrange, resize, destroy | a container is in exactly the list its fields say; its node hangs in the layer they say; percentages add up to one |
| view containers and views (`view_container.c`, `desktop/views/`) | the view's size and position, pending and configured; mapped flag; content tree | create, map, unmap, commit, destroy, fullscreen, move, resize and activate requests | an unmapped view leaves nothing behind; a mapped one is where it should be |
| workspaces (`workspace.c`) | active flag, fullscreen container, floating list, root container, three scene layers | activate, arrange, add, change fullscreen, destroy | the layers shown follow the active flag and the fullscreen container |
| outputs (`output.c`) | layout, usable area, workspaces, displayed workspace, layer surfaces | add, arrange, display a workspace, remove | one workspace per output is displayed, the only active one |
| seat (`input/seat.c`) | active view container, focused layer surface, keyboards; wlroots' keyboard focus | focus a view or a layer surface, add and remove keyboards | the records of focus agree; exclusive focus is respected |
| layer shell (`layer_shell/`) | layer, interactivity, output, mapped | create, commit, map, unmap, destroy | the topmost exclusive surface has the keyboard |
| cursor (`input/cursor.c`) | mode, grabbed container, destroy listener | motion, buttons, start and end of a grab, swapping | a grab ends with its container and corrupts no list |
| commands (`commands.c`), keyboards | none, the seat's current keyboard | keybinds run commands on the active container or the hovered output | |
| workspace protocols (`protocols/`) | groups, workspaces, clients' handles, transaction session, idle done event | client requests, commit, the done event | every client sees the last state, ended by a done |
| lists (`util/list.c`) | array, count, capacity | add, insert, remove, find, copy | the array holds the items in order |
| foreign toplevels (`desktop/foreign_toplevel.c`) | an entry per mapped view: title, activated, fullscreen, outputs | created on map, destroyed on unmap, told by the view; requests of taskbars | taskbars list the mapped views and know the truth about them |
| XDG shell, Xwayland (`desktop/xdg_shell.c`, `desktop/xwayland.c`, `views/toplevel_view.c`, `views/xwayland_view.c`) | the client's object of each view | create, associate, map, commit, unmap, destroy | the view follows its client |
| the rest | scene node descriptors, server, session, log | | |

They interact by calls: a handler of a view calls into its container, which calls into the workspace, which arranges
containers and enables scene layers; nearly every handler ends in a focus change in the seat, which may display a
workspace on an output; a pager's commit is a call into `e_output_display_workspace`. The shared state is the tree of
containers, the scene graph and the seat's pointers to containers and layer surfaces.

`PROJECT.json` lists every component with its status, and 40 hazards: the lines where this code is hard to test, each
with the properties that watch it, or a note why none does yet.

## 2. The modules

| module | models | state |
|---|---|---|
| `ListOps` | `util/list.c`, as operators on sequences | |
| `EList` | the array behind a list: what `ListOps` says, done to slots | a list is a record |
| `ContainerTreeOps` | the functions of `container.c`, `workspace.c` and `output.c` that change the tree, one operator each | a tree is a record |
| `ContainerTree` | the handlers of views, workspaces, new outputs and the keyboard commands, one action each | `view`, `tree`, `activeView`, `aborted` |
| `Placement` | the abstract specification of the tree: which view is in which workspace, tiled or not, fullscreen or not | `place`, `full` |
| `OutputHotplug` | extends `ContainerTree` by outputs that are unplugged | |
| `ForeignToplevels` | extends `OutputHotplug` by the views, with or without a container, and the entries of taskbars | `shell`, `views`, `taskbar` as well |
| `CursorGrab` | extends `OutputHotplug` by the cursor: grabs, drags, swaps | `cursor` as well |
| `SeatFocus` | seat, layer surfaces, keyboards, and outputs that come and go | `mapped`, `lost`, `surface`, `order`, `outputs`, `seat` |
| `WorkspaceProtocol` | the managers of the cosmic and the ext workspace protocol and their clients | `protocol`, `m`, `clients`, `aborted` |
| `TilingTree` | shares and areas of the children of one workspace's root container | `t`, `shown`, `usable` |
| `ViewGeometry` | size and position of one view: asked for, answered, drawn | `view`, `cursor`, `configures` |
| `MC*` | instances for TLC: constants and symmetry | |
| `ListOps_proofs`, `ContainerTree_proofs`, `ForeignToplevels_proofs`, `CursorGrab_proofs`, `SeatFocus_proofs`, `WorkspaceProtocol_proofs`, `TilingTree_proofs`, `ViewGeometry_proofs` | theorems and proofs | |

**ContainerTreeOps and ContainerTree.** A view and its view container share one name. A function of the code that
changes the tree is an operator from a tree to a tree, and a handler is the composition of the operators of the
functions it calls, in the order of the calls, so an action is always a whole handler with its trailing arrange and
focus change: `MapView` is `e_view_container_handle_view_map`, which sets the fullscreen flag, adds the container to a
workspace, rearranges that one and focuses the view, which may display its workspace. `Focus` stands for
`e_desktop_set_focus_view_container`; `FocusHovered` for `e_cursor_set_focus_hover`, where the container under the
pointer is any container on screen or none. `tree.node` is where the scene node of a container hangs and `tree.enabled`
which layers of a workspace are enabled: the two decide what is seen. An output that has not been added displays
nothing, and none of its workspaces is used. A failing assertion or a null pointer sets `aborted`, after which nothing
happens.

Left out of the tree: areas and percentages (`TilingTree` and `ViewGeometry` have them), the tiling mode, nested tree
containers (the code makes none besides the roots of workspaces), failing allocations.

**Placement** is what the tree promises: a step places, withdraws, moves or retiles one view, a move keeps the tiling of
the view and does not drop it from fullscreen, and a workspace belongs to one fullscreen view at most.

**OutputHotplug** is `e_output_handle_destroy`: the output's workspaces go, and with them the containers in their lists,
while the views of those containers live on. `view[v] = "none"` says that no container of the name exists; what is freed
reads as it did before it was made. No other code is told, so three pointers may be left behind: the seat's active
container, the workspace of a container in another output's list (after a swap), and the fullscreen container of another
output's workspace. `LeavesDangling` sets `aborted` then. A fourth, `view->output`, always is where a view stays without
a container or unmapped; it belongs to the views and is kept in `ForeignToplevels`. `WorkspacesOn` and `DestroyedWith`
follow the lists, as the code does, and not the containers' own fields.

**ForeignToplevels** keeps three records beside the tree: `shell` is what wlroots keeps for the client (surface, title,
size hints), `views` is `struct e_view`, and `taskbar` what taskbars were told. A view lives without a container when
its output was unplugged, or when there was no memory for one. Each handler is the handler of the tree, if there is a
container, followed by `Tell`, which works out from the step of the tree and the seat which views were told what
(`e_view_set_activated`, `_set_fullscreen`, `_set_output`) and passes it to their entries. `Freed` stands for
`view->output` once that output is freed: nothing resets it, and mapping the view or a commit that changes its geometry
reads it (`ViewMap`, `CommitReadsFreed`), where the model stops.

**CursorGrab** adds the cursor's mode, the grabbed container, and the *stale links*:
`e_cursor_start_grab_container_mode` connects the cursor's one destroy listener without disconnecting it from the
container grabbed before, so the list of that one keeps a link to a listener that is now part of another list.
Destroying such a container walks a broken list, which is undefined: the model sets `aborted`. `Toplevels` are the views
whose configure asserts that they have content; X11 windows do not. An output that is unplugged destroys containers too,
and the grab of one of them ends with it (`Unplug`).

**SeatFocus** has the two records the seat keeps (`active`, `focusedLayer`), the keyboard focus wlroots keeps, the
seat's current keyboard (there may be none: `seat_set_keyboard_focus` then does nothing), the committed state of each
layer surface and the order in which the surfaces of an output were mapped. A commit that maps runs
`e_layer_surface_map` and then `e_layer_surface_commit`, as wlroots emits the signals; one that unmaps runs unmap and
then commit. The set of views is not tied to the tree here: a view is mapped or not, and its map handler focuses it or,
without a workspace, does not. What wlroots does when a surface is destroyed (it clears the keyboard focus) is external.
An output that goes takes its layer surfaces and the containers of some views with it, without a word to the seat:
`lost` are the views that had the container taken, and a layer surface reads as `Orphan` until its client destroys it.

**WorkspaceProtocol** models one of the two managers at a time, as `protocol` says: they are two copies of one design,
and differ in whom a workspace's enter and leave events are sent to: `SentOn` are the clients whose handles of the
workspace are told through a client's handle of the group, its own with the cosmic protocol, everybody's with the ext
protocol, and `SentForeign` the clients that get another's object by it. `m` is the manager: which outputs (groups)
there are, the state pending and sent of each workspace, the operations in the transaction session, and whether the idle
callback is scheduled. A client has handles of groups and workspaces, the states it has seen, and whether something was
sent to it that no done event has closed (`dirty`). Only the request to activate a workspace does anything: the signals
of the others have no listener. The event loop's promise to call an idle callback, and libwayland's refusal to send a
client an object of another (the connection is closed, `Killed`), are external.

**TilingTree** has one workspace with its root container and an output that displays it or not. Percentages are exact
parts of `Whole`, where the code has floats, and areas are whole pixels, cut off as the code's conversions cut them off.
Each action is a handler with its trailing arrangement, which does nothing to the tree while a fullscreen container
covers it (`e_workspace_arrange`); dragging and switching the mode arrange the tree even then.

**EList** is `struct e_list` as it is in memory: slots, count and capacity, the doubling, the loops that move items one
slot at a time (recursive functions, one step per iteration), what each operation returns, and `memory`, whether realloc
finds any. The other modules work on contents, as sequences with `ListOps`; `InsertImplements`, `AddImplements`,
`FindImplements`, `RemoveImplements` and `SwapImplements` say that this is what happens in the array. `MCContainerTree`
has them evaluated over all arrays of up to three slots, and `ListOps_proofs` proves them.

**ViewGeometry** has one view and both axes: a box is a corner and a size, each a function of the axis, so that what the
code writes once for x and once for y is written once, and the tests in which it takes the axes together (`Applies`: a
size pending along one of them holds back the position along both) are said of corner and size. `view.area`,
`view.pending` and `view.current` are the three boxes the code keeps; `view.fullscreen` says whether the view or another
one is the fullscreen container of its workspace, behind which nothing is arranged (`Rearranged`), so that a container
that begins to float there keeps the box it was asked for as a tile. `configures` are the sizes on their way to the
client. Configures that are scheduled before the event loop is idle are merged, so `Scheduled` appends or replaces the
last. The client answers any of them, in the size asked for or one of its own, which drops the earlier ones, or commits
again without an answer. `asked` and `user` are auxiliary: what was asked for last and by whom, and the edges this user
ever drags.

## 3. The runs

| run | shows | instance |
|---|---|---|
| `container_tree` | all the invariants and action properties below, and that `ContainerTree` implements `Placement` | 3 views, 2 outputs of 2 workspaces, 24,201 states |
| `switch_tiling` | *violation*: a fullscreen container disappears when the tiling mode is switched | 2 views, 1 output |
| `cursor_grab` | grabs end with their containers, lists and parents survive dragging, nothing refers to what went with an output | a toplevel and an X11 window, 2 outputs of 2 workspaces, 711,293 states |
| `cursor_swap` | *violation*: after a swap a container names a workspace other than its tree's | 2 views, 1 output |
| `seat_focus` | the records of focus stay in step, exclusive focus is kept | 2 views, 2 layer surfaces, 2 keyboards, an output that comes and goes, 279,008 states |
| `topmost_exclusive` | *violation*: the topmost exclusive layer surface is left without the keyboard | 2 views, 2 layer surfaces, a keyboard that stays |
| `layer_freed` | *violation*: the seat still refers to a layer surface that was freed unmapped or went with its output | 2 views, 2 layer surfaces |
| `foreign_toplevels` | taskbars list the mapped views and know the truth about them; an output that goes takes what is placed on it and no more | a toplevel and an X11 window, one new title, 2 outputs of 2 workspaces, 150,645 states |
| `workspace_protocol` | every client catches up and sees a switch as one; no operation outlives its workspace, and the last one asked for wins | 2 clients, 1 output of 2 workspaces, 2 waiting operations, 472,112 states |
| `inert_handle` | *violation*: a request on the handle of a workspace that is gone follows a null pointer | the same, cosmic protocol |
| `tiling_tree` | shares add up to one and keep the minimum as far as it can be kept, tiles fill the area the output has now | 4 views, 2 areas, 4 targets of a drag, 24,980 states |
| `view_geometry` | a resize keeps the opposite edges however late the client answers; a view ends where it was asked to be | two axes of 2 pixels, 2 users, 2 configures on their way, 1,458,669 states |

Bounds. Every instance is explored completely. The tree, the seat and the tiling are finite by themselves. Two modules
have queues: `MaxOps = 2` operations wait in the session (two show that their order counts, and that both of two
clients' are carried out) and `MaxConfigures = 2` sizes wait for an answer (an earlier and a later one); `Coordinates`
bounds where `ViewGeometry` lets a drag or a client take the edges of a view. Three views are enough for every relation
the tree properties speak of: a fullscreen container, one it covers, and one that comes, goes or takes its place; in the
order of a list, a first, a middle and a last. Two workspaces on two outputs give a displayed and a hidden workspace and
a move within and across outputs; more repeat these. Two layer surfaces are enough for one that has the focus and one
that wants it, on all four layers. One output with two workspaces is the least in which a switch shows one and hides
another; with a second output the protocol instance takes longer than the runs may, so what a removal leaves of
operations for another output is covered by the proofs alone. Four views in the tiling give a pair of neighbours with a
tile on either side; `Whole = 720` divides by the counts that occur one after the other, the targets of a drag are below
zero, inside and above what two neighbours have, and the minimum is one that three views can have and four cannot, as 20
and 21 can and cannot in the code. In the geometry two pixels along each axis leave room to move, grow, shrink to the
least size and meet the maximum (along x; there is none along y), places that have no height, and a size of the client's
own that differs from what it was asked for along one axis or both; one user drags right edges, the other left and
bottom ones. The proofs (section 4) remove the bounds for the invariants they cover. Views, outputs, keyboards and layer
surfaces are symmetric where no definition chooses among them; symmetry is used with invariants and action properties
only.

Deadlock is checked in the runs of the tree, of the tiling and of the geometry, where something can always happen unless
the compositor aborts (its passing run has `NoAbort` as an invariant). `seat_focus`, `cursor_grab`, `foreign_toplevels`,
`workspace_protocol` and the violation runs of those modules say `CHECK_DEADLOCK FALSE` because the model really stops
in them: once freed memory is read, an assertion failed or a null pointer was followed, what follows is undefined. The
properties speak of what happens until then; `layer_freed` and `inert_handle` show two of those stops, and the findings
below describe the others.

Fairness. Clients and users owe the compositor nothing, so most specifications have none. The one promise of this code
over time is the done event of the workspace protocols, which an idle callback sends: `WorkspaceProtocol` assumes weak
fairness of `SendDone` and of nothing else. libwayland calls the idle callbacks in every iteration of its loop before it
waits for events, and nothing in the code removes the callback once it is scheduled. It is stated for `SendDone` while
the compositor has not aborted, and `CatchesUp` accordingly. Clients, the user and hotplug may go on for ever in
between.

### Properties of the tree (`ContainerTree`)

- `WellPlaced`: a container is in exactly the list its `workspace` and `parent` say, once.
- `FullscreenAgrees`: the flags of containers and the fullscreen containers of workspaces record one fact.
- `DisplayAgrees`: each output displays one workspace of its own, the only active one, and the enabled layers fit.
- `NoStrayNode`, `Settled`: no node hangs in a workspace its container has left; in a workspace without a fullscreen
  container each node hangs in the layer for its tiling. With a fullscreen container the others may hang anywhere
  (`e_workspace_arrange` touches that one alone), which is why the property is limited.
- `NothingLeftBehind`: no pointer to a view that is not mapped, so freeing it is safe.
- `NoAbort`, with an output from the start and none that goes; what an output that goes leaves behind is in
  `OutputHotplug`.
- `FocusReveals`, `ViewsComeAndGo`: becoming active displays a view's workspace; mapping and unmapping displays nothing.
- `PlacementSpec`: the refinement.

### Properties of the seat (`SeatFocus`) and the cursor (`CursorGrab`)

- `FocusGivenUp`: a layer surface that is unmapped, destroyed while mapped or commits interactivity none does not stay
  focused, whatever surface the focus passes to. One that is freed without an unmap does (`layer_freed`), and so does
  one that names itself exclusive in the very commit that unmaps it, which the property leaves out.
- `KeyboardFollowsActive`, `LayerKeyboardRecorded`, `ExclusiveKeeps`: the two records of focus and the keyboard focus of
  wlroots fit together, and a surface with exclusive focus loses it to an exclusive surface of a higher layer only.
- `GrabbedLives`: a motion never meets a mode without a container or a container that was freed; a grab ends with its
  container, also when an output takes the container along. Where the destruction of a container follows a stale link of
  an earlier grab the model stops, and the property with it.
- `ListsAgree`: lists and parents agree however containers are swapped (the workspace they name does not:
  `cursor_swap`).
- `GoneUnused` (`OutputHotplug`): an output that is plugged in again starts out empty, and no container, workspace or
  seat refers to one that is gone, unless the step that took it already left the compositor in undefined behaviour.

### Properties of the views and taskbars (`ForeignToplevels`)

- `TaskbarLists`: the entries are those of the mapped views, with or without a container, and no container is in a
  workspace without an entry.
- `TaskbarTells`: the entry of a view in a workspace has its title, its activation, its fullscreen state and its output,
  although there was no entry to tell while the view was unmapped, and views are told by five different functions of the
  tree and the seat.
- `UnplugSpares`: unplugging an output that the active container is not on takes exactly the containers placed on it.
  All other containers and workspaces stay as they are, and neither they, the seat nor the view of a placed container
  points to what was freed. The view of a container that is placed nowhere, or went with the output, does: its
  `view->output` is not reset (see below).

### Properties of the protocols (`WorkspaceProtocol`)

- `ToldAlike`, `DoneComing`: clients have seen the state that was sent last, whenever they bound; whatever a client was
  sent without a done after it, a callback is scheduled.
- `SwitchesAtomically`: no client ever sees two workspaces of an output active, and when no done event is on its way it
  sees the one that is displayed.
- `SessionRefers`: no operation waits for a workspace that is gone.
- `LastRequestWins`: a commit carries out the operations of all clients in the order they were asked for, so that each
  output ends with the workspace asked for last, and one nobody asked about with the one it had.
- `CatchesUp` (liveness): a client whose picture is out of date catches up or goes, whatever else goes on.

### Properties of the geometry (`TilingTree`, `ViewGeometry`)

- `SharesKept`: percentages add up to one and each is one its child may have (`MayHave`), over every order of inserting,
  removing, dragging and swapping. That is the minimum at least, as long as there is enough for all of them; where there
  are more tiles, 21 with the minimum of 0.05 in the code, all have the equal part, which is less: inserting does not
  look at the minimum (container.c:558) and dragging refuses (:393). The drag in a tree of zero size that makes
  percentages NaN (see below) is left out of the model, and the property says nothing of it.
- `TilesFit`, `ShownInUsable`: what is seen is a tiling of the usable area of now, also when it changed, or children
  came and went, while the workspace was hidden or covered by a fullscreen container.
- `OneBoundaryMoves`, `SwapKeepsPlaces`: a drag moves one boundary; two that are swapped take over each other's box.
- `OppositeEdgeStays`: a resize by some edges moves none of the opposite ones, along either axis, whatever the client
  commits and when.
- `FloatingInStep`: the area of a floating container is what was asked for or answered, so the next grab or
  rearrangement starts from what is seen. Behind a fullscreen container it need not be: a tile that is made to float
  there is not arranged before the workspace uncovers it.
- `InPlaceFromTheRight`: a view that has answered all it was asked, in the size it was asked for, is where it was asked
  to be, for a user who never resizes from the left or the top. For others it does not hold, and one that refuses its
  width or its height is not moved along either axis, see below.

### Findings

Each violation run is a disagreement between the code and what the repository says, quoted in `PROJECT.json`:

- *Switching the tiling mode hides a fullscreen view.* `arrange_tree_children` (container.c:220) hangs every child under
  the tiling layer, which is disabled while there is a fullscreen container.
- *Swap across workspaces.* `swap_tiled_containers` (cursor.c:135-191) leaves `container->workspace` as it was.
- *Exclusive focus.* The layer shell protocol gives the keyboard to the topmost exclusive surface; `seat.c:395` returns
  early for a surface that is recorded as focused even when it has no keyboard focus.
- *A layer surface freed while focused.* Focus is given on the initial commit, before the map, and taken on unmap only;
  and an output that goes frees its layer surfaces without taking it.
- *Inert handles.* The requests of a handle whose workspace is gone follow its null pointer (cosmic-workspace-v1.c:211),
  where the protocol says they are ignored.

Met on the way, with no run of their own:

- `e_list_copy_to` clears its target (list.c:177) and never sets the count again, so the target ends up without contents
  and with items behind its count, where list.h speaks of replacing all items. Nothing calls it. `CopyLeavesNothing`
  proves it of any two lists, also when one is copied to itself.
- ext-workspace-v1.c:415 sends every handle of a group an event about every handle of a workspace; libwayland closes the
  connection of a client that would get another's object (`Killed`). The cosmic manager looks for the handles of one
  client (`SentOn`).
- `view->output` "may be NULL" (view.h:166) but is never set to it: container.c:163 sets it for a workspace and nothing
  resets it when the output goes. foreign_toplevel.c:152 reads it on the next map, view_container.c:134 on the next
  commit.
- An output destroys its scene tree, and `e_layer_surface_handle_node_destroy` disconnects the listener that would close
  the layer surface (layer_surface.c:300): the client is never told. When the active container goes with its output the
  seat keeps its pointer.
- xwayland_view.c:334 compares widths where its comment (:331) speaks of a specific size and toplevel_view.c:376
  compares either dimension: an X11 window with a fixed height is tiled, a toplevel floats (`WindowFloats`,
  `ToplevelFloats`).
- Without an output, `commands.c:206` uses the hovered output, which is NULL, and `view_container.c:288` rearranges the
  old workspace of a view, which is NULL for one mapped without an output. `ContainerTree` reaches both with `Headless =
  TRUE`; its runs have an output from the start.
- An assign operation of the ext protocol keeps a pointer to its group (ext-workspace-v1.c:213), and the removal of a
  group looks only at what an operation is on (:834): the pointer is left behind, harmlessly while no listener of
  `request_assign` exists.
- The grab goes on when its view is unmapped, and the next motion arranges it, which asserts that it has content
  (`toplevel_view.c:358`); a second grab links the destroy listener twice. `CursorGrab` has both steps and stops there.
- A resize from the left or the top, one answer before the release of the button and one after: the first answer
  overwrites `view_pending` (view_container.c:195), the second finds no grab and is not anchored, and the view is left
  displaced. `InPlace` in `ViewGeometry` is violated by such users.
- view_container.c:206-216 takes the axes together: a view that refuses its height, or has yet to answer it, is not
  moved by a configure that changes its x alone, and a commit that changes the height applies an x whose width is still
  to come.
- A commit that unmaps a layer surface and names it exclusive takes the focus from it and gives it back
  (layer_surface.c:195), though there is nothing to focus.
- With 21 tiles or more each has less than `CONTAINER_TILE_RESIZE_MIN_PERCENTAGE`, and none can be resized.
- A floating container that leaves fullscreen keeps the full area: `e_workspace_arrange` overwrote its area, and nothing
  remembers the one before.
- `grab_edges` are never reset, so a commit while a view is *moved* anchors the edge of an earlier resize.
- In a tree of zero size a drag divides by zero (cursor.c:271), and the percentages of two containers become NaN.
- When a keyboard is removed, `keyboard.c:134-148` leaves the seat without one even if others remain, until one of them
  is used, and the focus set meanwhile is recorded and not given; the actions `AddKeyboard`, `RemoveKeyboard` and
  `UseKeyboard` model it, and the properties of `SeatFocus` are stated for steps with a keyboard on both sides.

## 4. The proofs

Each theorem but those of `ListOps_proofs`, which are about operators, is `Spec => []P`, or `Spec => P` for an action
property or the refinement, for the specification of its module: for every set of views and outputs, any number of
workspaces per output, and whatever else the module takes.

| module | proved |
|---|---|
| `ListOps_proofs` | the array of `EList` does what `ListOps` says: `InsertKeepsContents`, `AddKeepsContents`, `FindsInContents`, `RemoveKeepsContents`, `SwapExchangesContents`; and `CopyLeavesNothing` |
| `ContainerTree_proofs` | `TypeOK`, `WellPlaced`, `FullscreenAgrees`, `DisplayAgrees`, `NoStrayNode`, `Settled`, `NothingLeftBehind`, `FocusReveals`, `ViewsComeAndGo`, for `~Headless` `NoAbort`, and `PlacementSpec`: the tree implements `Placement` |
| `ForeignToplevels_proofs` | `ForeignTypeOK`, `TaskbarLists`, `TaskbarTells`, `UnplugSpares` |
| `CursorGrab_proofs` | `GrabbedLives`, `ListsAgree`, `GoneUnused` |
| `SeatFocus_proofs` | `TypeOK`, `FocusGivenUp`, `KeyboardFollowsActive`, `LayerKeyboardRecorded`, `ExclusiveKeeps` |
| `WorkspaceProtocol_proofs` | `TypeOK`, `ToldAlike`, `DoneComing`, `SwitchesAtomically`, `SessionRefers`, `LastRequestWins` |
| `TilingTree_proofs` | `TypeOK`, `SharesKept`, `TilesFit`, `ShownInUsable`, `OneBoundaryMoves`, `SwapKeepsPlaces`; `TilesApart` also where shares are rounded |
| `ViewGeometry_proofs` | `TypeOK`, `FloatingInStep`, `InPlaceFromTheRight`, `OppositeEdgeStays` |

Assumptions. `TreeAssumption` (ContainerTreeOps): NULL is none of the objects; each output has at least one workspace,
its list has no duplicates and holds exactly the workspaces that name it, which is how `output_init_workspaces` makes
them. `HeadlessAssumption`: a Boolean. `PlaceAssumption`, `EntryAssumption`, `ForeignAssumption`: NULL is no place, no
entry and no title, `Freed` no output, and `Hints` are size hints. `SeatAssumption` and `ToplevelsAssumption` type the
constants of their modules, and so do `TilingAssumption` and `GeometryAssumption`. Nothing is assumed finite by these.
`SharesKept` and `TilesFit` alone are proved under one condition more, `ExactParts`: finitely many views, and a whole,
targets and a minimum that are multiples of factorials, so that no division of a share is ever rounded. That is how the
model stands for the floats of the code. It restricts the unit of percentages and not how many views there are:
percentages, targets and a minimum that are rational numbers become such multiples once they are all counted in parts
small enough. `MCTilingTree` states it of its instance. TLC evaluates each of these in the runs of its module.

The argument. None of the properties is inductive alone: unmapping preserves `Settled` only because the lists are what
the fields say; `ChangeFullscreen` preserves `FullscreenAgrees` only if at most one flag is set in a workspace, which is
`FullscreenAgrees` itself with `WellPlaced`. So the invariant is their conjunction. Within a handler it is broken in
parts: after `Leave`, and until the trailing `Arrange`, the layers of the old workspace do not fit its fullscreen
container, and containers of it may not be settled. The first half of `ContainerTree_proofs` therefore states what each
operator preserves relative to a set of workspaces that still have to be arranged: an operator may add to the set the
one workspace it disturbs, and `Arrange(t, w)` removes `w` from it. The second half has one lemma per action, each a
short composition of those facts ending with the empty set. `ListOps_proofs` has the facts about finding, removing from
and appending to a list that everything rests on.

The second part of `ListOps_proofs` goes below that, to the array, for every list that is well formed (`IsEList`) and
whose items are not NULL, which the operations assert. `ShiftedRightMoves` and `ShiftedLeftMoves` say what the loops
have done after k iterations, by induction over k with `UpTo`; that each iteration reads a slot no earlier one has
written is what the direction of the loops is for. `DoubledEnough` says that doubling reaches the capacity wanted,
`CapacityKeeps` that a larger array keeps the items and has no item in its new slots, and the theorems compare the slots
with the contents place by place. That `a` and `b` may be one list is a case of `SwapExchangesContents`.

`ViewGeometry_proofs` proves `TypeOK`, `FloatingInStep`, `InPlaceFromTheRight` and the action property
`OppositeEdgeStays`, for all places, drags, size hints, client sizes, users and numbers of outstanding configures, under
`GeometryAssumption` (places are boxes, a client never commits an empty size of its own). The properties speak of where
a view is drawn, which is decided a commit later; the invariant therefore speaks of the pending box: during a resize it
keeps the edges that the grab keeps, on each axis (`PendingAnchored`), and each commit draws up to those; for a user who
never resizes from the left or the top it is at the place asked for last, and it is the box asked for or the box drawn
(`PendingAsAsked`). So a commit that leaves no size pending, along either axis, moves the view there; that both axes are
needed is the test `Applies` makes.

`FocusReveals` and `ViewsComeAndGo` follow from one more fact about each operator: which outputs' displayed workspace it
changes, and that `Focus` ends with the workspace of its container displayed.

For the refinement, a tree is mapped to the place of each view and the fullscreen view of each workspace. Lemmas say
which places an operator of the tree leaves alone (`SamePlaces`: arranging, displaying, focusing) and which single one
it changes; each handler is then an `Appear`, `Vanish`, `Move`, `Retile` or `SetFull` of its view, or a stutter. It
needs `WellPlaced` and `FullscreenAgrees`: the place of a view is read off its own fields and the fullscreen view of a
workspace off the workspace, and the handlers decide by the lists and the flags.

`ForeignToplevels_proofs` has the invariant `FInv`: the invariant of the tree unless aborted, and what is left of it
then (`Kept`); the entries are those of the mapped views, and a container exists or is mapped only if its view is
(`Listed`); entries repeat their views (`Shows`); and the views know the truth (`Knows`). The last is what the taskbars
rest on: a view without an entry must be told all the same, because its next entry is filled from what it knows.
Removing an output is shown to preserve the invariant of the tree unless it leaves a pointer dangling, which the same
facts reduce to the active container: the lists of its workspaces hold exactly the containers that name them, so these
go and no other, and `Knows` says where the views of placed containers point (`UnplugSpares`).

In `CursorGrab_proofs`, `GrabbedLives` needs nothing of the tree: an action that frees no container leaves the grab or
begins one of a container that exists; one that frees containers ends the grab of any of them, or meets a stale link and
stops. The other two do need the tree, and cannot use the invariant of `ContainerTree_proofs`: a container dragged onto
one of another workspace is left in the tree of one workspace and in the name of another, and `WellPlaced` and what is
built on it is lost. `Consistent` is what survives: the lists hold what the fields say, once each, and the workspaces
that fields name are on outputs that are there. Every function on the tree preserves it, swapping included, and so does
every handler; removing an output does unless it leaves a pointer dangling, after which only the lists are claimed
(`DInv`).

`SeatFocus_proofs` treats the functions of the seat as steps between records. Two relations are transitive and hold of
each: one says when the keyboard follows the active view, the other (`Rises`) that exclusive focus passes upwards only;
a handler that calls several of them, unmap and then commit, is a chain. The inductive invariant adds that the list of
each output holds exactly its mapped layer surfaces (`OrderAgrees`), since unmapping passes the focus on to a member of
that list, which must exist, that a layer surface is on an output (`OnOutput`), and that the active view is mapped or
lost its container with its output (`ActiveMapped`). `FocusGivenUp` rests on `OrderAgrees`: an unmap takes the surface
out of the list of its output before the focus passes on, so none of the surfaces the focus may pass to is the one that
gave it up. The focused surface is never one that wants no keyboard (`FocusedLayerWants`, unless it was freed), which
covers a commit of interactivity none.

`WorkspaceProtocol_proofs` has the invariant `PInv`: besides the properties, each output that is there displays exactly
one of its workspaces (`OneEach`), the states told last have one active workspace per output at most (`AtMostOne`), and
clients have handles of what is there and see as active what they have a handle of. `DoneComing` needs the first: an
output that goes takes handles from clients and schedules no done event for that, but the workspace it displays loses
its active bit, which does. A commit carries out any number of operations one after the other; the proof takes the first
after which `OneEach` would fail. That the operations left in the session after a removal are about workspaces that are
there rests on counting positions (`NthIsOne`). `LastRequestWins` is shown by the first operation after which it would
fail: one about this output makes its workspace the displayed one and the last asked for so far, any other leaves both
as they were.

`TilingTree_proofs` is about sums over a list of any length. That the running sum of `arrange_tree_children` exists, and
what each sum makes of the one before, is an induction over places. The library states induction for an operator, which
the provers cannot instantiate, so `ListOps_proofs` derives it for a *set* of places from the least place that is
missing (`LeastOf`, `UpTo`), and from it the existence of functions defined by recursion (`Recursion`). One lemma,
`SumsShift`, then serves the handlers: where the shares of two tilings differ by the same amount, place by place and so
many places apart, their sums differ by so much more per place. After a removal a tiling is compared with the one before
it, up to the gap in the same places and behind it one place further on; dragging and swapping change two terms;
inserting makes all shares equal, which needs no comparison (`EqualSums`).

The inductive invariant `TInv` says that the shares sum to the whole at most, that what is seen is arranged (each box is
the one the present shares give), and, under `ExactParts`, that the shares sum to the whole exactly and each is one its
child may have and a multiple of (n - 1)! for n children. The last is the strengthening `SharesKept` needs: a share is
spread over n - 1 others when its child goes, the new shares over n - 2 after that, and so on to the last child; a drag
gives the one what it takes from the other and keeps the multiple, as its target and the minimum are multiples. Where
the children are too many for the minimum, their shares are equal: no two of them have enough for a drag (`NoneToDrag`),
and an equal part that is spread makes equal parts (`SpreadParts`), which, once there are few enough children, are the
minimum at least (`EqualParts`). Without `ExactParts` parts get lost and `SharesKept` is false (a whole of 10 parts
shared by three), as it is in the code by rounding errors of floats; that the children lie in order, do not overlap,
leave out less than a pixel between two of them and stay in the area is proved without it (`TilesApart`), because two
parts rounded down are together at most one less than their sum rounded down. The other three properties need no
exactness either: a drag changes the one sum at the boundary, a swap none.

Only model-checked: `CatchesUp`, since liveness under fairness is out of reach of the prover, as is `ENABLED`. All other
properties of the passing runs are stated by a theorem.

## 5. Not modelled, and why

The area of fullscreen containers and size increments, hit testing in the scene graph (a choice among what is on
screen), cursor images, popups, subsurfaces, selections, keymaps, starting programs, environment files, logging: pure
input and output, wlroots' state, or data no property depends on. Failing allocations: a handler that fails there logs
and goes on, and the hazards list says where that leaves a record half made. The teardown of the server at exit, which
runs once in a fixed order.

## 6. The plan

Done: the container tree, the views with their taskbars, outputs that come and go, the cursor on top of the tree, the
seat, the geometry of a view, the workspace protocols, the tiling and the array behind a list, with their proofs; the
refinement of `Placement`. What is left, in this order:

1. Operations of the protocols that name their client, to state what the shared session does to clients that come and
   go, and a second output in that instance.
2. Callers of `e_list_add` that go on when there is no memory, which needs a tree whose lists may lack a container.

The runs are kept to one for each question; a new one takes the place of one whose question it includes.
