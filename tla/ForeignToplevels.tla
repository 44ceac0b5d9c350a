--------------------------- MODULE ForeignToplevels ---------------------------
(***************************************************************************)
(* The views of the compositor (desktop/views) and the entries of a        *)
(* taskbar that mirror them (desktop/foreign_toplevel.c), over the desktop *)
(* of ContainerTree with outputs that come and go.  A view outlives its    *)
(* container when the container's output is unplugged, and has none at all *)
(* when there was no memory for one.                                       *)
(*                                                                         *)
(*   shell[v]    what the client made of v, kept by wlroots: its surface   *)
(*               ("none": no surface, "unmapped" or "mapped"), title and   *)
(*               size hints                                                *)
(*   views[v]    struct e_view                                             *)
(*   taskbar[v]  the state that taskbars are told of v (the wlr and the    *)
(*               ext handle of struct e_foreign_toplevel), NULL when v has *)
(*               no entry                                                  *)
(* The app id is kept like the title, and is left out.                     *)
(***************************************************************************)
EXTENDS OutputHotplug, Integers

CONSTANTS
    Toplevels,    \* the views that are xdg toplevels, the others are X11 windows
    Titles,       \* the titles a client may set
    Hints,        \* the size hints a client may set, 0 for one that is not set
    Freed         \* a pointer to memory that was freed

ASSUME ForeignAssumption ==
    /\ Toplevels \subseteq Views
    /\ NULL \notin Titles
    /\ Hints \subseteq [minWidth : Int, minHeight : Int, maxWidth : Int, maxHeight : Int,
                        dialog : BOOLEAN]
    /\ Freed \notin Outputs \cup {NULL}

VARIABLES shell, views, taskbar

allVars == <<view, tree, activeView, aborted, shell, views, taskbar>>

NoHints == [minWidth |-> 0, minHeight |-> 0, maxWidth |-> 0, maxHeight |-> 0, dialog |-> FALSE]

Shells ==
    [surface : {"none", "unmapped", "mapped"}, title : Titles \cup {NULL},
     hints : Hints \cup {NoHints}]

ViewRecords ==
    [exists : BOOLEAN, mapped : BOOLEAN, activated : BOOLEAN, fullscreen : BOOLEAN,
     output : Outputs \cup {NULL, Freed}, title : Titles \cup {NULL}]

Entries ==
    [activated : BOOLEAN, fullscreen : BOOLEAN, outputs : SUBSET Outputs,
     title : Titles \cup {NULL}]

ASSUME EntryAssumption == NULL \notin Entries

NoShell == [surface |-> "none", title |-> NULL, hints |-> NoHints]

\* e_view_init; a view that does not exist reads the same.
NewRecord(exists) ==
    [exists |-> exists, mapped |-> FALSE, activated |-> FALSE, fullscreen |-> FALSE,
     output |-> NULL, title |-> NULL]

ForeignInit ==
    /\ Init
    /\ shell = [v \in Views |-> NoShell]
    /\ views = [v \in Views |-> NewRecord(FALSE)]
    /\ taskbar = [v \in Views |-> NULL]

(***************************************************************************)
(* What a handler that changes the tree and the active container tells the *)
(* views, each of which tells its entry: V and T are the views and entries *)
(* when the handler of the view container begins.                          *)
(***************************************************************************)

\* e_view_set_activated, called by seat_set_active_view_container.
Switched == IF activeView' = activeView THEN {} ELSE {activeView, activeView'} \ {NULL}

\* Mutant: a container tells its view that it is fullscreen or not only when that
\* is news to the container.
FlaggedOnChange(V, asked) ==
    {v \in Views : V[v].mapped /\ tree'.fullscreen[v] # tree.fullscreen[v]}

\* e_view_set_fullscreen, called by e_container_set_fullscreen for mapped views;
\* asked are the containers set whatever they were before.
Flagged(V, asked) ==
    {v \in Views : V[v].mapped /\ (v \in asked \/ tree'.fullscreen[v] # tree.fullscreen[v])}

\* e_view_set_output, called by e_container_set_workspace for a workspace that is
\* not NULL.
Moved == {v \in Views : tree'.workspace[v] \notin {NULL, tree.workspace[v]}}

\* The outputs of an entry after e_view_set_output.
OutputsAfter(outputs, old, new) == (outputs \ {old}) \cup {new}

\* What view v is told, and tells its client (e_view_toplevel_set_activated,
\* e_view_toplevel_set_fullscreen).
ViewTold(v, V, asked) ==
    [V[v] EXCEPT
        !.activated = IF v \in Switched THEN v = activeView' ELSE @,
        !.fullscreen = IF v \in Flagged(V, asked) THEN tree'.fullscreen[v] ELSE @,
        !.output = IF v \in Moved THEN OutputOf[tree'.workspace[v]] ELSE @]

\* What its entry is told (e_foreign_toplevel_set_activated, _set_fullscreen,
\* _output_leave and _output_enter).
EntryTold(v, V, T, asked) ==
    [T[v] EXCEPT
        !.activated = IF v \in Switched THEN v = activeView' ELSE @,
        !.fullscreen = IF v \in Flagged(V, asked) THEN tree'.fullscreen[v] ELSE @,
        !.outputs = IF v \notin Moved THEN @
                    ELSE OutputsAfter(@, V[v].output, OutputOf[tree'.workspace[v]])]

Tell(V, T, asked) ==
    /\ views' = [v \in Views |-> ViewTold(v, V, asked)]
    /\ taskbar' = [v \in Views |-> IF T[v] = NULL THEN NULL ELSE EntryTold(v, V, T, asked)]

(***************************************************************************)
(* The life of a view                                                      *)
(***************************************************************************)

\* A view is created, with the title it has by then; when no container can be made
\* for it, it stays without one.
NewView(v, contained, surface, hints) ==
    /\ ~views[v].exists
    /\ IF contained THEN CreateView(v) ELSE UNCHANGED vars
    /\ shell' = [shell EXCEPT ![v].surface = surface, ![v].hints = hints]
    /\ views' = [views EXCEPT ![v] = NewRecord(TRUE)]
    /\ UNCHANGED taskbar

\* xdg_shell_new_toplevel.
NewToplevel(v, contained, hints) ==
    v \in Toplevels /\ NewView(v, contained, "unmapped", hints)

\* xwayland_new_surface.
NewWindow(v, contained, hints) ==
    v \notin Toplevels /\ NewView(v, contained, "none", hints)

\* An X11 window gets a surface: e_xwayland_view_associate.
Associate(v) ==
    /\ v \notin Toplevels
    /\ views[v].exists
    /\ shell[v].surface = "none"
    /\ shell' = [shell EXCEPT ![v].surface = "unmapped"]
    /\ UNCHANGED <<vars, views, taskbar>>

\* It loses it again, once it is unmapped: e_xwayland_view_dissociate.
Dissociate(v) ==
    /\ v \notin Toplevels
    /\ shell[v].surface = "unmapped"
    /\ shell' = [shell EXCEPT ![v].surface = "none"]
    /\ UNCHANGED <<vars, views, taskbar>>

\* e_view_toplevel_wants_floating: does the surface force a specific size?
ToplevelFloats(h) ==
    /\ h.minWidth > 0 \/ h.minHeight > 0
    /\ h.minWidth = h.maxWidth \/ h.minHeight = h.maxHeight

\* e_view_xwayland_wants_floating, where only the width is compared; dialog stands
\* for a modal window and for the window types that float.
WindowFloats(h) ==
    \/ h.dialog
    \/ /\ h.minWidth > 0 \/ h.minHeight > 0
       /\ h.minWidth = h.maxWidth

WantsFloating(v) ==
    IF v \in Toplevels THEN ToplevelFloats(shell[v].hints) ELSE WindowFloats(shell[v].hints)

\* e_foreign_toplevel_create: the entry of a view that is being mapped.
NewEntry(v) ==
    [activated |-> views[v].activated, fullscreen |-> views[v].fullscreen,
     outputs |-> {views[v].output} \ {NULL}, title |-> views[v].title]

\* e_view_map: the entry comes first, then the container is placed.  Without memory
\* for an entry the view stays unmapped; an entry for a view whose output was freed
\* reads what was freed.
ViewMap(v, full, out, hovered, created) ==
    /\ shell[v].surface = "unmapped"
    /\ shell' = [shell EXCEPT ![v].surface = "mapped"]
    /\ IF ~created
       THEN UNCHANGED <<vars, views, taskbar>>
       ELSE IF views[v].output = Freed
       THEN aborted' = TRUE /\ UNCHANGED <<view, tree, activeView, views, taskbar>>
       ELSE /\ IF view[v] = "none" THEN UNCHANGED vars
               ELSE MapView(v, full, out, WantsFloating(v), hovered)
            /\ Tell([views EXCEPT ![v].mapped = TRUE],
                    [taskbar EXCEPT ![v] = NewEntry(v)],
                    IF tree'.workspace[v] = NULL THEN {} ELSE {v})

\* e_toplevel_view_map.
MapToplevel(v, full, out, hovered, created) ==
    v \in Toplevels /\ ViewMap(v, full, out, hovered, created)

\* e_xwayland_view_map.
MapWindow(v, full, hovered, created) ==
    v \notin Toplevels /\ ViewMap(v, full, NULL, hovered, created)

\* Mutant: an entry outlives its view's mapping.
EntriesKept(v) == taskbar

\* The entries once that of v is destroyed: e_foreign_toplevel_destroy.
EntriesWithout(v) == [taskbar EXCEPT ![v] = NULL]

\* e_view_unmap, of a toplevel (e_toplevel_view_unmap) or of an X11 window
\* (e_xwayland_view_unmap): the entry goes first.
UnmapSurface(v) ==
    /\ shell[v].surface = "mapped"
    /\ shell' = [shell EXCEPT ![v].surface = "unmapped"]
    /\ IF view[v] = "mapped" THEN UnmapView(v) ELSE UNCHANGED vars
    /\ Tell([views EXCEPT ![v].mapped = FALSE], EntriesWithout(v), {})

\* The client's object is gone, wlroots has unmapped it before.
ViewGone(v, surface) ==
    /\ views[v].exists
    /\ shell[v].surface = surface
    /\ IF view[v] = "none" THEN UNCHANGED vars ELSE DestroyView(v)
    /\ shell' = [shell EXCEPT ![v] = NoShell]
    /\ views' = [views EXCEPT ![v] = NewRecord(FALSE)]
    /\ UNCHANGED taskbar

\* e_toplevel_view_destroy.
DestroyToplevel(v) == v \in Toplevels /\ ViewGone(v, "unmapped")

\* e_xwayland_view_destroy, once the surface is dissociated.
DestroyWindow(v) == v \notin Toplevels /\ ViewGone(v, "none")

\* e_foreign_toplevel_set_title, for a view that has an entry.
EntryTitled(v, title) ==
    [taskbar EXCEPT ![v] = IF @ = NULL THEN NULL ELSE [@ EXCEPT !.title = title]]

\* A client names its toplevel or window: e_toplevel_view_set_title,
\* e_xwayland_view_set_title.
SetTitle(v, title) ==
    /\ views[v].exists
    /\ shell' = [shell EXCEPT ![v].title = title]
    /\ views' = [views EXCEPT ![v].title = title]
    /\ taskbar' = EntryTitled(v, title)
    /\ UNCHANGED vars

\* A commit reaches the container of a toplevel, mapped or not (e_toplevel_view_commit),
\* and of a mapped X11 window.  One that changes the geometry reads the view's output
\* for the space of its popups (view_container_update_popup_space); otherwise it
\* changes geometry only, which is left out.
CommitReadsFreed(v) ==
    /\ view[v] # "none"
    /\ v \in Toplevels \/ shell[v].surface = "mapped"
    /\ views[v].output = Freed
    /\ aborted' = TRUE
    /\ UNCHANGED <<view, tree, activeView, shell, views, taskbar>>

(***************************************************************************)
(* Requests, and the rest of the desktop                                   *)
(***************************************************************************)

\* Fullscreen or its end is asked for.
AskFullscreen(v, full, out) ==
    /\ RequestFullscreen(v, full, out)
    /\ Tell(views, taskbar, IF tree'.workspace[v] = NULL THEN {v} ELSE {})
    /\ UNCHANGED shell

\* e_toplevel_view_request_fullscreen.
ToplevelAsks(v, full, out) == v \in Toplevels /\ AskFullscreen(v, full, out)

\* e_xwayland_view_request_fullscreen.
WindowAsks(v, full) == v \notin Toplevels /\ AskFullscreen(v, full, NULL)

\* wlr_handle_handle_request_fullscreen; a toplevel may ask for the same itself.
TaskbarAsks(v, full, out) == taskbar[v] # NULL /\ AskFullscreen(v, full, out)

\* A taskbar activates an entry: wlr_handle_handle_request_activate.
TaskbarActivates(v) ==
    /\ taskbar[v] # NULL
    /\ RequestActivate(v)
    /\ Tell(views, taskbar, {})
    /\ UNCHANGED shell

\* Handlers beside the views, which they reach through the tree and the seat.
Beside ==
    /\ \/ \E v \in Views : PointerMotion(v)
       \/ \E w \in Workspaces : ActivateWorkspace(w)
       \/ \E o \in Outputs : AddOutput(o)
       \/ Command
    /\ Tell(views, taskbar, {})
    /\ UNCHANGED shell

\* An output is unplugged: the views keep their pointers to it (view->output is set by
\* e_container_set_workspace only, for a workspace that is not NULL), and wlroots
\* takes it out of the entries.
Unplug(o) ==
    /\ RemoveOutput(o)
    /\ views' = [v \in Views |->
                    [views[v] EXCEPT !.output = IF @ = o THEN Freed ELSE @]]
    /\ taskbar' = [v \in Views |-> IF taskbar[v] = NULL THEN NULL
                                   ELSE [taskbar[v] EXCEPT !.outputs = @ \ {o}]]
    /\ UNCHANGED shell

ToplevelEvent(v) ==
    \/ \E contained \in BOOLEAN, hints \in Hints :
          NewToplevel(v, contained, hints) \/ NewWindow(v, contained, hints)
    \/ Associate(v)
    \/ Dissociate(v)
    \/ \E full, created \in BOOLEAN, hovered \in Hovered(tree) :
          \/ \E out \in Present(tree) \cup {NULL} : MapToplevel(v, full, out, hovered, created)
          \/ MapWindow(v, full, hovered, created)
    \/ UnmapSurface(v)
    \/ DestroyToplevel(v)
    \/ DestroyWindow(v)
    \/ \E title \in Titles : SetTitle(v, title)
    \/ CommitReadsFreed(v)
    \/ \E full \in BOOLEAN :
          \/ WindowAsks(v, full)
          \/ \E out \in Present(tree) \cup {NULL} :
                ToplevelAsks(v, full, out) \/ TaskbarAsks(v, full, out)
    \/ TaskbarActivates(v)

ForeignNext ==
    /\ ~aborted
    /\ \/ \E v \in Views : ToplevelEvent(v)
       \/ Beside
       \/ \E o \in Outputs : Unplug(o)

ForeignSpec == ForeignInit /\ [][ForeignNext]_allVars

-----------------------------------------------------------------------------
(***************************************************************************)
(* Properties                                                              *)
(***************************************************************************)

ForeignTypeOK ==
    /\ TypeOK
    /\ shell \in [Views -> Shells]
    /\ views \in [Views -> ViewRecords]
    /\ taskbar \in [Views -> Entries \cup {NULL}]

\* A taskbar lists exactly the views that are mapped, with or without a container,
\* and every container in a workspace is that of a view it lists.
TaskbarLists ==
    \A v \in Views :
        /\ taskbar[v] # NULL <=> views[v].mapped
        /\ tree.workspace[v] # NULL => taskbar[v] # NULL

\* A taskbar is told the truth of a view that is in a workspace: whether it is the
\* active one and whether it is fullscreen, the output it is on, and the title its
\* client gave it; whatever happened while it was unmapped or unplaced, when no
\* entry was there to tell.
TaskbarTells ==
    \A v \in Views :
        taskbar[v] # NULL /\ tree.workspace[v] # NULL =>
            taskbar[v] = [activated  |-> activeView = v,
                          fullscreen |-> tree.fullscreen[v],
                          outputs    |-> {OutputOf[tree.workspace[v]]},
                          title      |-> shell[v].title]

\* What a container is, and where it is.
ContainerOf(t, states, v) ==
    <<states[v], t.workspace[v], t.parent[v], t.fullscreen[v], t.node[v]>>

WorkspaceContent(t, w) ==
    <<t.children[w], t.floating[w], t.fsContainer[w], t.activated[w], t.enabled[w]>>

\* Is the active container, if there is one, not on output o?
ActiveElsewhere(o) ==
    activeView = NULL \/ tree.workspace[activeView] \notin WorkspacesOn(o)

\* A step takes the containers placed on o and no other, and what it leaves points to
\* nothing that is freed with o.
TakesOnly(o) ==
    /\ ~aborted'
    /\ \A v \in Views :
          IF tree.workspace[v] \in WorkspacesOn(o)
          THEN view'[v] = "none" /\ tree'.workspace[v] = NULL
          ELSE ContainerOf(tree', view', v) = ContainerOf(tree, view, v)
    /\ \A w \in Workspaces \ WorkspacesOn(o) :
          WorkspaceContent(tree', w) = WorkspaceContent(tree, w)
    /\ \A v \in Views : tree'.workspace[v] # NULL =>
          views'[v].output = OutputOf[tree'.workspace[v]]

\* Unplugging an output that the active container is not on takes every container
\* placed on it, and no other: other containers stay as and where they are, other
\* workspaces keep their lists, fullscreen container and state.  Then neither the
\* seat nor a container nor a workspace points to something freed, and the view of a
\* container in a workspace still points to the output of that workspace.  It is not
\* so for a view whose container is in no workspace, unmapped or gone with the
\* output: view->output keeps pointing to the freed output.
UnplugSpares ==
    [][\A o \in Outputs : Unplug(o) /\ ActiveElsewhere(o) => TakesOnly(o)]_allVars
=============================================================================
