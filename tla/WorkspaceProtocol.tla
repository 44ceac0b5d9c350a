-------------------------- MODULE WorkspaceProtocol --------------------------
(***************************************************************************)
(* How pagers see and switch the workspaces: the workspace managers of     *)
(* protocols/cosmic-workspace-v1.c and protocols/ext-workspace-v1.c, their *)
(* transaction session (protocols/transactions.c) and the calls the        *)
(* desktop makes into them.  The two files are twins; where they differ,   *)
(* protocol says which one is meant, and a behaviour is one of either.     *)
(*                                                                         *)
(* The manager m is a record:                                              *)
(*   m.outputs     the outputs that are there: each has a group and the    *)
(*                 workspaces of OutputOf                                  *)
(*   m.pending[w]  is the active bit set in pending_state?  The desktop's  *)
(*                 own active flag of w is set in the same call            *)
(*   m.state[w]    the active bit of state, what clients were told last    *)
(*   m.session     the workspaces whose activation is requested and not    *)
(*                 yet committed; an operation does not say whose it is    *)
(*   m.scheduled   is the idle callback of the done event scheduled?       *)
(*                                                                         *)
(* A client c is a record:                                                 *)
(*   c.manager     "none", "bound", "stopped" (it asked for no more        *)
(*                 events), or "killed" (its connection was closed because *)
(*                 it was sent another client's object)                    *)
(*   c.groups      outputs whose group the client has a handle of          *)
(*   c.handles     workspaces the client has a handle of                   *)
(*   c.seen[w]     was w active in the last state sent to that handle?     *)
(*   c.inert       has it a handle of a workspace or group that is gone?   *)
(*   c.dirty       was an event sent to it since its last done?            *)
(*                                                                         *)
(* Of all requests only activate is modelled: the others are queued in the *)
(* same session and their signals have no listener.  Names, coordinates,   *)
(* tiling states and capabilities never change.                            *)
(***************************************************************************)
EXTENDS Naturals, Sequences, FiniteSets

CONSTANTS
    Clients,
    Outputs,
    Workspaces,
    OutputOf,     \* the output a workspace is made for
    FirstOf,      \* the first workspace of each output
    Protocols,    \* "cosmic", "ext" or both
    MaxOps        \* bound: operations waiting for a commit

ASSUME ProtocolAssumption ==
    /\ OutputOf \in [Workspaces -> Outputs]
    /\ FirstOf \in [Outputs -> Workspaces]
    /\ \A o \in Outputs : OutputOf[FirstOf[o]] = o
    /\ Protocols \subseteq {"cosmic", "ext"}
    /\ MaxOps \in Nat

VARIABLES protocol, m, clients, aborted

vars == <<protocol, m, clients, aborted>>

WorkspacesOn(o) == {w \in Workspaces : OutputOf[w] = o}

Present == {w \in Workspaces : OutputOf[w] \in m.outputs}

Nowhere == [w \in Workspaces |-> FALSE]

Managers ==
    [outputs : SUBSET Outputs, pending : [Workspaces -> BOOLEAN],
     state : [Workspaces -> BOOLEAN], session : Seq(Workspaces), scheduled : BOOLEAN]

ClientStates ==
    [manager : {"none", "bound", "stopped", "killed"}, groups : SUBSET Outputs,
     handles : SUBSET Workspaces, seen : [Workspaces -> BOOLEAN],
     inert : BOOLEAN, dirty : BOOLEAN]

TypeOK ==
    /\ protocol \in Protocols
    /\ m \in Managers
    /\ clients \in [Clients -> ClientStates]
    /\ aborted \in BOOLEAN

\* A client without any object of the manager.
Without(manager) ==
    [manager |-> manager, groups |-> {}, handles |-> {}, seen |-> Nowhere,
     inert |-> FALSE, dirty |-> FALSE]

Init ==
    /\ protocol \in Protocols
    /\ m = [outputs |-> {}, pending |-> Nowhere, state |-> Nowhere,
            session |-> <<>>, scheduled |-> FALSE]
    /\ clients = [c \in Clients |-> Without("none")]
    /\ aborted = FALSE

Bound(c) == clients[c].manager = "bound"

(***************************************************************************)
(* What the desktop tells the manager                                      *)
(***************************************************************************)

\* Mutant: the workspace displayed before keeps its active bit.
ShowKeepsOld(mm, w) == [mm EXCEPT !.pending[w] = TRUE, !.scheduled = TRUE]

\* The active bits once w is displayed: the workspace displayed before loses its own.
Displaying(active, w) ==
    IF active[w] THEN active
    ELSE [x \in Workspaces |-> x = w \/ (active[x] /\ OutputOf[x] # OutputOf[w])]

\* e_output_display_workspace: each bit that changes schedules the done event.
Show(mm, w) ==
    [mm EXCEPT !.pending = Displaying(@, w), !.scheduled = @ \/ ~mm.pending[w]]

\* The user, a taskbar or a new active view switches workspaces.
ShowWorkspace(w) ==
    /\ w \in Present
    /\ ~m.pending[w]
    /\ m' = Show(m, w)
    /\ UNCHANGED <<protocol, clients, aborted>>

\* The clients whose handles of the workspaces of o are sent on the handle that c has
\* of the group of o.  In the cosmic protocol every handle of the group is sent the
\* handle that was made from it, for the same client (e_cosmic_workspace_create); in
\* the ext protocol each is sent the handles of all clients (group_send_workspace_enter
\* and group_send_workspace_leave).
SentOn(cs, c, o) ==
    {d \in Clients :
        /\ o \in cs[c].groups
        /\ cs[d].handles \cap WorkspacesOn(o) # {}
        /\ protocol = "cosmic" => d = c}

\* The clients that are sent another client's handle.
SentForeign(cs, o) == {c \in Clients : SentOn(cs, c, o) \ {c} # {}}

\* libwayland closes the connection of those clients.
Killed(cs, o) ==
    [c \in Clients |-> IF c \in SentForeign(cs, o) THEN Without("killed") ELSE cs[c]]

\* Handles of the group and workspaces of a new output, for each client that is
\* bound to the manager.
Announced(o) ==
    [c \in Clients |->
        IF ~Bound(c) THEN clients[c]
        ELSE [clients[c] EXCEPT !.groups = @ \cup {o},
                                !.handles = @ \cup WorkspacesOn(o),
                                !.dirty = TRUE]]

\* output_init_workspaces: a group, its workspaces, and the first one displayed.
AddOutput(o) ==
    /\ o \notin m.outputs
    /\ m' = [Show(m, FirstOf[o]) EXCEPT !.outputs = @ \cup {o}, !.scheduled = TRUE]
    /\ clients' = Killed(Announced(o), o)
    /\ UNCHANGED <<protocol, aborted>>

\* The handles of a client once the workspaces and the group of o are gone.
Retracted(cs, o) ==
    [c \in Clients |->
        LET had == o \in cs[c].groups \/ cs[c].handles \cap WorkspacesOn(o) # {}
        IN  [cs[c] EXCEPT
                !.groups = @ \ {o},
                !.handles = @ \ WorkspacesOn(o),
                !.seen = [w \in Workspaces |-> @[w] /\ OutputOf[w] # o],
                !.inert = @ \/ had,
                !.dirty = @ \/ had]]

\* Mutant: the workspaces go while one of them is displayed.
DisplayNothingOmitted(mm, o) == mm

\* e_output_display_workspace(NULL): the workspace displayed before loses its active
\* bit, and that schedules the done event.
DisplayNothing(mm, o) ==
    [mm EXCEPT !.pending = [w \in Workspaces |-> @[w] /\ OutputOf[w] # o],
               !.scheduled = @ \/ \E w \in WorkspacesOn(o) : mm.pending[w]]

\* Mutant: operations on the workspaces that go stay in the session.
SessionKept(o) == m.session

\* The position in a sequence of the k-th of the positions of the set S.
Nth(S, k) == CHOOSE i \in S : Cardinality({j \in S : j <= i}) = k

\* The session without the operations on the workspaces of o, in the order they were.
SessionWithout(o) ==
    LET kept == {i \in DOMAIN m.session : OutputOf[m.session[i]] # o}
    IN  [k \in 1..Cardinality(kept) |-> m.session[Nth(kept, k)]]

\* output_fini_workspaces: nothing is displayed, the workspaces are removed with the
\* operations on them, and then the group.  Leaving its group, which an ext
\* workspace does first, schedules the done event too.
RemoveOutput(o) ==
    /\ o \in m.outputs
    /\ m' = [DisplayNothing(m, o) EXCEPT
                !.outputs = @ \ {o},
                !.state = [w \in Workspaces |-> @[w] /\ OutputOf[w] # o],
                !.session = SessionWithout(o),
                !.scheduled = @ \/ protocol = "ext"]
    /\ clients' = Retracted(Killed(clients, o), o)
    /\ UNCHANGED <<protocol, aborted>>

(***************************************************************************)
(* The done event                                                          *)
(***************************************************************************)

\* Mutant: the callback sends done and leaves the states for the next time.
ToldNothing(c) == [clients[c] EXCEPT !.dirty = @ /\ ~Bound(c)]

\* A client after the pending states were sent, and done to those that are bound.
Told(c) ==
    LET changed == {w \in clients[c].handles : m.pending[w] # m.state[w]}
    IN  [clients[c] EXCEPT
            !.seen = [w \in Workspaces |-> IF w \in changed THEN m.pending[w] ELSE @[w]],
            !.dirty = (@ \/ changed # {}) /\ ~Bound(c)]

\* manager_idle_send_done_event.
SendDone ==
    /\ m.scheduled
    /\ m' = [m EXCEPT !.state = m.pending, !.scheduled = FALSE]
    /\ clients' = [c \in Clients |-> Told(c)]
    /\ UNCHANGED <<protocol, aborted>>

(***************************************************************************)
(* Clients                                                                 *)
(***************************************************************************)

\* Mutant: a client that binds is told the pending states.
FirstTold(w) == m.pending[w]

\* What a client that binds is told of w: workspace_send_state sends state.
InitialState(w) == m.state[w]

\* e_cosmic_workspace_manager_bind: handles of everything, the states, and done.
Bind(c) ==
    /\ clients[c].manager \in {"none", "killed"}
    /\ clients' = [clients EXCEPT ![c] =
          [manager |-> "bound", groups |-> m.outputs, handles |-> Present,
           seen |-> [w \in Workspaces |-> w \in Present /\ InitialState(w)],
           inert |-> FALSE, dirty |-> FALSE]]
    /\ UNCHANGED <<protocol, m, aborted>>

\* e_cosmic_workspace_manager_stop: the handles stay.
Stop(c) ==
    /\ Bound(c)
    /\ clients' = [clients EXCEPT ![c].manager = "stopped"]
    /\ UNCHANGED <<protocol, m, aborted>>

\* The client disconnects; what it requested stays in the session.
Disconnect(c) ==
    /\ clients[c].manager \in {"bound", "stopped"}
    /\ clients' = [clients EXCEPT ![c] = Without("none")]
    /\ UNCHANGED <<protocol, m, aborted>>

\* The client binds to an output it has the group of: an enter event and a done event
\* of its own, whatever else waits for the idle callback.
BindOutput(c) ==
    /\ Bound(c)
    /\ clients[c].groups \cap m.outputs # {}
    /\ clients' = [clients EXCEPT ![c].dirty = FALSE]
    /\ UNCHANGED <<protocol, m, aborted>>

\* The client destroys a handle, or those that are inert.
DestroyHandle(c) ==
    /\ \/ \E w \in clients[c].handles :
             clients' = [clients EXCEPT ![c].handles = @ \ {w}, ![c].seen[w] = FALSE]
       \/ \E o \in clients[c].groups :
             clients' = [clients EXCEPT ![c].groups = @ \ {o}]
       \/ clients[c].inert /\ clients' = [clients EXCEPT ![c].inert = FALSE]
    /\ UNCHANGED <<protocol, m, aborted>>

\* Mutant: the operation is about the workspace's group.
GroupOperation(w) == OutputOf[w]

Operation(w) == w

\* e_cosmic_workspace_request_activate.
RequestActivate(c, w) ==
    /\ w \in clients[c].handles
    /\ Len(m.session) < MaxOps
    /\ m' = [m EXCEPT !.session = Append(@, Operation(w))]
    /\ UNCHANGED <<protocol, clients, aborted>>

\* A request on a handle whose workspace is gone reads the workspace all the same,
\* and the handle's user data is NULL.
RequestOnInert(c) ==
    /\ clients[c].inert
    /\ aborted' = TRUE
    /\ UNCHANGED <<protocol, m, clients>>

\* Mutant: the session is carried out from its end.
RunsBackwards ==
    {run \in [0..Len(m.session) -> [Workspaces -> BOOLEAN]] :
        /\ run[0] = m.pending
        /\ \A i \in DOMAIN m.session :
              run[i] = Displaying(run[i - 1], m.session[Len(m.session) + 1 - i])}

\* The ways to carry out the session one operation after the other (there is one):
\* run[i] are the active bits after the first i operations.
Runs ==
    {run \in [0..Len(m.session) -> [Workspaces -> BOOLEAN]] :
        /\ run[0] = m.pending
        /\ \A i \in DOMAIN m.session : run[i] = Displaying(run[i - 1], m.session[i])}

\* e_cosmic_workspace_manager_commit: all operations of the session, of every client.
Commit(c) ==
    /\ Bound(c)
    /\ \E run \in Runs :
          m' = [m EXCEPT !.pending = run[Len(m.session)], !.session = <<>>, !.scheduled = TRUE]
    /\ UNCHANGED <<protocol, clients, aborted>>

ClientEvent(c) ==
    \/ Bind(c)
    \/ Stop(c)
    \/ BindOutput(c)
    \/ Disconnect(c)
    \/ DestroyHandle(c)
    \/ \E w \in Workspaces : RequestActivate(c, w)
    \/ RequestOnInert(c)
    \/ Commit(c)

Next ==
    /\ ~aborted
    /\ \/ \E c \in Clients : ClientEvent(c)
       \/ \E w \in Workspaces : ShowWorkspace(w)
       \/ \E o \in Outputs : AddOutput(o) \/ RemoveOutput(o)
       \/ SendDone

\* The event loop runs its idle callbacks before it waits for events again.
Spec == Init /\ [][Next]_vars /\ WF_vars(~aborted /\ SendDone)

-----------------------------------------------------------------------------
(***************************************************************************)
(* Properties                                                              *)
(***************************************************************************)

\* Every client's picture of a workspace it has a handle of is the one the manager
\* believes to have told: a client that binds between a change and its done event
\* is neither ahead of the others nor left behind by the next done event, which
\* sends only the states that differ from what was told.
ToldAlike ==
    \A c \in Clients : \A w \in clients[c].handles : clients[c].seen[w] = m.state[w]

\* A done event is on its way whenever a client's picture is out of date or has
\* changed since its last done event: removing workspaces and groups schedules
\* none itself and relies on the display of nothing before it.
DoneComing ==
    \/ m.scheduled
    \/ /\ m.pending = m.state
       /\ \A c \in Clients : Bound(c) => ~clients[c].dirty

\* A switch of workspaces is seen as one: no client ever sees two workspaces of an
\* output active, and one that has had the done event of a switch sees the one
\* that was displayed when it was sent.
SwitchesAtomically ==
    \A c \in Clients, o \in Outputs :
        LET active == {w \in WorkspacesOn(o) : clients[c].seen[w]}
        IN  /\ \A w, x \in active : w = x
            /\ ~m.scheduled /\ Bound(c) /\ WorkspacesOn(o) \cap Present # {}
                  => \A w \in clients[c].handles \cap WorkspacesOn(o) :
                        m.pending[w] <=> w \in active

\* No operation outlives its workspace: what a commit carries out, however late and
\* whoever commits, is about workspaces that are there.
SessionRefers ==
    \A i \in DOMAIN m.session : m.session[i] \in Present

\* A client is behind while its picture is not the present state.
Behind(c) ==
    /\ Bound(c)
    /\ \/ clients[c].dirty
       \/ \E w \in clients[c].handles : clients[c].seen[w] # m.pending[w]

\* A client that is behind catches up, or goes, whatever else keeps changing: the
\* done event cannot be put off for ever by changes that come in between, only by a
\* compositor that has crashed.
CatchesUp == \A c \in Clients : Behind(c) ~> (~Behind(c) \/ aborted)

\* The operations about the workspaces of o that wait for a commit.
Asked(o) == {i \in DOMAIN m.session : OutputOf[m.session[i]] = o}

\* A commit carries out what every client asked for since the last one, in the order
\* it was asked: whoever commits, each output then displays the workspace that was
\* asked for last, and an output that nobody asked about what it displayed.
LastRequestWins ==
    [][\A c \in Clients : Commit(c) =>
          \A w \in Workspaces :
              m'.pending[w] <=>
                  \/ \E i \in Asked(OutputOf[w]) :
                        m.session[i] = w /\ \A j \in Asked(OutputOf[w]) : j <= i
                  \/ Asked(OutputOf[w]) = {} /\ m.pending[w]]_vars

\* A request on a handle that has become inert is ignored.
InertIgnored == ~aborted
=============================================================================
