----------------------- MODULE WorkspaceProtocol_proofs -----------------------
(***************************************************************************)
(* The safety properties of WorkspaceProtocol, for any clients, outputs    *)
(* and workspaces, and any number of operations waiting.                   *)
(*                                                                         *)
(* The inductive invariant PInv adds to the properties that an output that *)
(* is there displays exactly one of its workspaces, and that clients have  *)
(* handles of what is there, active ones only.  The done event of an       *)
(* output that goes depends on the former: it is scheduled because the     *)
(* workspace displayed loses its active bit.                               *)
(***************************************************************************)
EXTENDS WorkspaceProtocol, ListOps_proofs, FiniteSetTheorems

-----------------------------------------------------------------------------
(***************************************************************************)
(* The session                                                             *)
(***************************************************************************)

\* The k-th position of a set of positions is one of them.
LEMMA NthIsOne ==
    ASSUME NEW n \in Nat, NEW S \in SUBSET (1..n), NEW k \in 1..Cardinality(S)
    PROVE  Nth(S, k) \in S
  <1> DEFINE Upto(i) == {j \in S : j <= i}
             Count(i) == Cardinality(Upto(i))
             Enough == {i \in 0..n : Count(i) >= k}
  <1>0. \A j \in S : j \in Nat /\ 1 <= j /\ j <= n
    OBVIOUS
  <1>1. IsFiniteSet(S) /\ Cardinality(S) \in Nat
    <2>1. IsFiniteSet(1..n)
      BY FS_Interval
    <2> QED
      BY <2>1, FS_Subset, FS_CardinalityType
  <1>2. \A i \in 0..n : IsFiniteSet(Upto(i)) /\ Count(i) \in Nat
    <2> TAKE i \in 0..n
    <2>1. Upto(i) \in SUBSET S
      OBVIOUS
    <2> HIDE DEF Upto
    <2> QED
      BY <1>1, <2>1, FS_Subset, FS_CardinalityType
  <1>3. n \in Enough
    <2>2. Upto(n) = S
      BY <1>0
    <2> QED
      BY <1>1, <2>2
  <1>4. PICK i \in Enough : \A j \in Enough : i <= j
    <2>1. Enough \in SUBSET Nat /\ Enough # {}
      BY <1>3
    <2> HIDE DEF Enough
    <2> QED
      BY <2>1, LeastOf
  <1>5. i # 0
    <2>0. \A j \in S : ~(j <= 0)
      BY <1>0
    <2>1. Upto(0) = {}
      BY <2>0
    <2>2. Count(0) = 0
      BY <2>1, FS_EmptySet
    <2>3. Count(i) >= k
      OBVIOUS
    <2> QED
      BY <2>2, <2>3, <1>1
  <1>6. i - 1 \in 0..n /\ ~(Count(i - 1) >= k)
    <2>1. i \in 0..n /\ i - 1 \in 0..n
      BY <1>5
    <2>2. i - 1 \notin Enough
      <3> HIDE DEF Enough
      <3> QED
        BY <1>4, <2>1
    <2> QED
      BY <2>1, <2>2
  <1>7. CASE i \in S
    <2>0. (\A j \in S : j <= i <=> j <= i - 1 \/ j = i) /\ ~(i <= i - 1)
      BY <1>0
    <2>1. Upto(i) = Upto(i - 1) \cup {i} /\ i \notin Upto(i - 1)
      BY <1>7, <2>0
    <2>2. Count(i) = Count(i - 1) + 1
      <3> HIDE DEF Upto
      <3> QED
        BY <2>1, <1>2, <1>6, FS_AddElement
    <2>3. Count(i) >= k /\ Count(i) \in Nat /\ Count(i - 1) \in Nat
      BY <1>2, <1>6
    <2>4. Count(i) = k
      <3> HIDE DEF Upto, Count
      <3> QED
        BY <2>2, <2>3, <1>1, <1>6
    <2>5. \E x \in S : Cardinality({j \in S : j <= x}) = k
      BY <1>7, <2>4
    <2> QED
      BY <2>5 DEF Nth
  <1>8. CASE i \notin S
    <2>0. \A j \in S : j <= i <=> j <= i - 1
      BY <1>0, <1>8
    <2>1. Upto(i) = Upto(i - 1)
      BY <2>0
    <2>2. Count(i) >= k
      OBVIOUS
    <2> QED
      BY <2>1, <2>2, <1>6
  <1> QED
    BY <1>7, <1>8

\* What is left of the session are operations of the session on other outputs.
LEMMA SessionLeft ==
    ASSUME m.session \in Seq(Workspaces), NEW o
    PROVE  LET left == SessionWithout(o) IN
           /\ left \in Seq(Workspaces)
           /\ \A k \in DOMAIN left : /\ OutputOf[left[k]] # o
                                     /\ \E i \in DOMAIN m.session : left[k] = m.session[i]
  <1> DEFINE s == m.session
             kept == {i \in DOMAIN s : OutputOf[s[i]] # o}
             left == SessionWithout(o)
  <1>1. Len(s) \in Nat /\ kept \in SUBSET (1..Len(s))
    OBVIOUS
  <1>2. Cardinality(kept) \in Nat
    <2>1. IsFiniteSet(1..Len(s))
      BY <1>1, FS_Interval
    <2> HIDE DEF kept
    <2> QED
      BY <1>1, <2>1, FS_Subset, FS_CardinalityType
  <1>3. \A k \in 1..Cardinality(kept) : Nth(kept, k) \in kept
    <2> HIDE DEF kept
    <2> QED
      BY <1>1, NthIsOne
  <1>4. left = [k \in 1..Cardinality(kept) |-> s[Nth(kept, k)]]
    BY DEF SessionWithout
  <1>5. \A k \in 1..Cardinality(kept) :
           /\ left[k] \in Workspaces
           /\ OutputOf[left[k]] # o
           /\ \E i \in DOMAIN s : left[k] = s[i]
    <2> TAKE k \in 1..Cardinality(kept)
    <2>1. PICK i \in kept : left[k] = s[i]
      <3> HIDE DEF kept, left
      <3> QED
        BY <1>3, <1>4
    <2> QED
      BY <2>1
  <1>6. left \in Seq(Workspaces) /\ DOMAIN left = 1..Cardinality(kept)
    <2> HIDE DEF kept, left
    <2> QED
      BY <1>2, <1>4, <1>5
  <1> QED
    BY <1>5, <1>6

-----------------------------------------------------------------------------
(***************************************************************************)
(* What is displayed                                                       *)
(***************************************************************************)

\* Active bits of workspaces of the outputs, of one workspace of an output at most.
AtMostOne(active, outputs) ==
    /\ \A w \in Workspaces : active[w] => OutputOf[w] \in outputs
    /\ \A w, x \in Workspaces :
          active[w] /\ active[x] /\ OutputOf[w] = OutputOf[x] => w = x

\* Of exactly one workspace of each output.
OneEach(active, outputs) ==
    /\ AtMostOne(active, outputs)
    /\ \A o \in outputs : \E w \in Workspaces : OutputOf[w] = o /\ active[w]

\* Displaying a workspace of one of the outputs.
LEMMA DisplayingKeeps ==
    ASSUME NEW active \in [Workspaces -> BOOLEAN], NEW outputs, OneEach(active, outputs),
           NEW w \in Workspaces, OutputOf[w] \in outputs
    PROVE  /\ Displaying(active, w) \in [Workspaces -> BOOLEAN]
           /\ OneEach(Displaying(active, w), outputs)
  <1>1. CASE active[w]
    BY <1>1 DEF Displaying
  <1>2. CASE ~active[w]
    <2> DEFINE after == Displaying(active, w)
    <2>1. /\ after \in [Workspaces -> BOOLEAN]
          /\ \A x \in Workspaces :
                after[x] <=> x = w \/ (active[x] /\ OutputOf[x] # OutputOf[w])
      BY <1>2 DEF Displaying
    <2> HIDE DEF after
    <2>2. AtMostOne(after, outputs)
      BY <2>1 DEF AtMostOne, OneEach
    <2>3. ASSUME NEW o \in outputs
          PROVE  \E x \in Workspaces : OutputOf[x] = o /\ after[x]
      <3>1. CASE o = OutputOf[w]
        BY <2>1, <3>1
      <3>2. CASE o # OutputOf[w]
        BY <2>1, <3>2 DEF OneEach
      <3> QED
        BY <3>1, <3>2
    <2>4. OneEach(after, outputs)
      BY <2>2, <2>3 DEF OneEach
    <2> QED
      BY <2>1, <2>4 DEF after
  <1> QED
    BY <1>1, <1>2

\* Displaying the first workspace of an output that is added.
LEMMA FirstDisplayed ==
    ASSUME NEW active \in [Workspaces -> BOOLEAN], NEW outputs, OneEach(active, outputs),
           NEW o \in Outputs, o \notin outputs
    PROVE  LET after == Displaying(active, FirstOf[o]) IN
           /\ ~active[FirstOf[o]]
           /\ after \in [Workspaces -> BOOLEAN]
           /\ OneEach(after, outputs \cup {o})
  <1> DEFINE w == FirstOf[o]
             after == Displaying(active, w)
  <1>1. w \in Workspaces /\ OutputOf[w] = o
    BY ProtocolAssumption
  <1>2. ~active[w]
    BY <1>1 DEF OneEach, AtMostOne
  <1>3. /\ after \in [Workspaces -> BOOLEAN]
        /\ \A x \in Workspaces : after[x] <=> x = w \/ (active[x] /\ OutputOf[x] # o)
    BY <1>1, <1>2 DEF Displaying
  <1> HIDE DEF after, w
  <1>4. AtMostOne(after, outputs \cup {o})
    BY <1>1, <1>3 DEF AtMostOne, OneEach
  <1>5. ASSUME NEW p \in outputs \cup {o}
        PROVE  \E x \in Workspaces : OutputOf[x] = p /\ after[x]
    <2>1. CASE p = o
      BY <1>1, <1>3, <2>1
    <2>2. CASE p # o
      BY <1>3, <2>2 DEF OneEach
    <2> QED
      BY <2>1, <2>2
  <1>6. OneEach(after, outputs \cup {o})
    BY <1>4, <1>5 DEF OneEach
  <1> QED
    BY <1>2, <1>3, <1>6 DEF after, w

\* Carrying out the session.
LEMMA RunKeeps ==
    ASSUME m.pending \in [Workspaces -> BOOLEAN], OneEach(m.pending, m.outputs),
           m.session \in Seq(Workspaces),
           \A i \in DOMAIN m.session : OutputOf[m.session[i]] \in m.outputs,
           NEW run \in Runs
    PROVE  /\ run[Len(m.session)] \in [Workspaces -> BOOLEAN]
           /\ OneEach(run[Len(m.session)], m.outputs)
  <1> DEFINE n == Len(m.session)
             Wrong == {i \in 0..n : ~OneEach(run[i], m.outputs)}
  <1>1. n \in Nat /\ DOMAIN m.session = 1..n
    OBVIOUS
  <1>2. /\ run[0] = m.pending
        /\ \A i \in 0..n : run[i] \in [Workspaces -> BOOLEAN]
        /\ \A i \in 1..n : run[i] = Displaying(run[i - 1], m.session[i])
    BY <1>1 DEF Runs
  <1>3. Wrong = {}
    <2> SUFFICES ASSUME Wrong # {} PROVE FALSE
      OBVIOUS
    <2>1. PICK i \in Wrong : \A j \in Wrong : i <= j
      <3>1. Wrong \in SUBSET Nat
        BY <1>1
      <3> HIDE DEF Wrong
      <3> QED
        BY <3>1, LeastOf
    <2>2. i \in 1..n /\ i - 1 \in 0..n
      <3>1. i # 0
        BY <1>2
      <3> QED
        BY <1>1, <3>1
    <2>3. OneEach(run[i - 1], m.outputs)
      <3>1. i - 1 \notin Wrong
        <4> HIDE DEF Wrong
        <4> QED
          BY <2>1, <2>2, <1>1
      <3> QED
        BY <2>2, <3>1
    <2>4. m.session[i] \in Workspaces /\ OutputOf[m.session[i]] \in m.outputs
      BY <1>1, <2>2
    <2>5. OneEach(run[i], m.outputs)
      BY <1>2, <2>2, <2>3, <2>4, DisplayingKeeps
    <2> QED
      BY <2>5
  <1>4. n \in 0..n
    BY <1>1
  <1> QED
    BY <1>2, <1>3, <1>4

-----------------------------------------------------------------------------
(***************************************************************************)
(* The invariant                                                           *)
(***************************************************************************)

\* The manager: an output displays one of its workspaces, which is about to be told
\* if it was not, and the operations are about workspaces that are there.
ManagerKept(mm) ==
    /\ mm \in Managers
    /\ OneEach(mm.pending, mm.outputs)
    /\ AtMostOne(mm.state, mm.outputs)
    /\ \A i \in DOMAIN mm.session : OutputOf[mm.session[i]] \in mm.outputs

\* A client: it has handles of what is there, and has seen what was told.
ClientKept(mm, client) ==
    /\ client \in ClientStates
    /\ client.groups \subseteq mm.outputs
    /\ \A w \in client.handles : OutputOf[w] \in mm.outputs
    /\ \A w \in Workspaces : client.seen[w] <=> w \in client.handles /\ mm.state[w]

\* A client that has no done event to come.
Done(client) == client.manager = "bound" => ~client.dirty

PInv ==
    /\ protocol \in Protocols
    /\ aborted \in BOOLEAN
    /\ ManagerKept(m)
    /\ DOMAIN clients = Clients
    /\ clients = [c \in Clients |-> clients[c]]
    /\ \A c \in Clients : ClientKept(m, clients[c])
    /\ m.scheduled \/ (m.pending = m.state /\ \A c \in Clients : Done(clients[c]))

LEMMA InitInv == Init => PInv
  <1> SUFFICES ASSUME Init PROVE PInv
    OBVIOUS
  <1>1. ManagerKept(m)
    BY DEF Init, ManagerKept, Managers, OneEach, AtMostOne, Nowhere
  <1>2. \A c \in Clients : /\ ClientKept(m, clients[c])
                          /\ Done(clients[c])
    BY DEF Init, ClientKept, ClientStates, Done, Without, Nowhere
  <1>3. m.pending = m.state
    BY DEF Init
  <1> QED
    BY <1>1, <1>2, <1>3 DEF Init, PInv

\* One client changes.
LEMMA ClientStep ==
    ASSUME PInv, NEW c \in Clients, NEW new, ClientKept(m, new),
           Done(clients[c]) => Done(new),
           clients' = [clients EXCEPT ![c] = new], UNCHANGED <<protocol, m, aborted>>
    PROVE  PInv'
  <1>1. \A d \in Clients : clients'[d] = IF d = c THEN new ELSE clients[d]
    BY DEF PInv
  <1>2. DOMAIN clients' = Clients /\ clients' = [d \in Clients |-> clients'[d]]
    BY DEF PInv
  <1>3. \A d \in Clients : ClientKept(m', clients'[d])
    BY <1>1 DEF PInv
  <1>4. (\A d \in Clients : Done(clients[d])) => \A d \in Clients : Done(clients'[d])
    BY <1>1
  <1> QED
    BY <1>2, <1>3, <1>4 DEF PInv, ManagerKept, ClientKept, Done

\* The manager changes and tells nobody.
LEMMA ManagerStep ==
    ASSUME PInv, ManagerKept(m'), m'.outputs = m.outputs, m'.state = m.state,
           \/ m'.scheduled
           \/ ~m.scheduled /\ m'.pending = m.pending,
           UNCHANGED <<protocol, clients>>, aborted' \in BOOLEAN
    PROVE  PInv'
  BY DEF PInv, ManagerKept, ClientKept, Done

-----------------------------------------------------------------------------
(***************************************************************************)
(* The actions                                                             *)
(***************************************************************************)

LEMMA ShowWorkspaceInv ==
    ASSUME PInv, NEW w \in Workspaces, ShowWorkspace(w)
    PROVE  PInv'
  <1>1. /\ OutputOf[w] \in m.outputs /\ ~m.pending[w]
        /\ m' = [m EXCEPT !.pending = Displaying(m.pending, w), !.scheduled = TRUE]
    BY DEF ShowWorkspace, Show, Present, PInv, ManagerKept, Managers
  <1>2. /\ Displaying(m.pending, w) \in [Workspaces -> BOOLEAN]
        /\ OneEach(Displaying(m.pending, w), m.outputs)
    BY <1>1, DisplayingKeeps DEF PInv, ManagerKept, Managers
  <1>3. ManagerKept(m')
    BY <1>1, <1>2 DEF PInv, ManagerKept, Managers
  <1>4. m'.outputs = m.outputs /\ m'.state = m.state /\ m'.scheduled
    BY <1>1 DEF PInv, ManagerKept, Managers
  <1> QED
    BY <1>3, <1>4, ManagerStep DEF ShowWorkspace, PInv

LEMMA RequestActivateInv ==
    ASSUME PInv, NEW c \in Clients, NEW w \in Workspaces, RequestActivate(c, w)
    PROVE  PInv'
  <1> DEFINE s == m.session
  <1>1. m' = [m EXCEPT !.session = Append(s, w)] /\ OutputOf[w] \in m.outputs
    BY DEF RequestActivate, Operation, PInv, ClientKept
  <1>2. /\ s \in Seq(Workspaces)
        /\ \A i \in DOMAIN s : OutputOf[s[i]] \in m.outputs
    BY DEF PInv, ManagerKept, Managers
  <1>3. /\ Append(s, w) \in Seq(Workspaces)
        /\ \A i \in DOMAIN Append(s, w) : OutputOf[Append(s, w)[i]] \in m.outputs
    <2> HIDE DEF s
    <2> QED
      BY <1>1, <1>2
  <1>4. ManagerKept(m')
    <2> HIDE DEF s
    <2> QED
      BY <1>1, <1>3 DEF PInv, ManagerKept, Managers
  <1>5. /\ m'.outputs = m.outputs /\ m'.state = m.state /\ m'.pending = m.pending
        /\ m'.scheduled = m.scheduled
    BY <1>1 DEF PInv, ManagerKept, Managers
  <1> QED
    BY <1>4, <1>5, ManagerStep DEF RequestActivate, PInv

LEMMA CommitInv ==
    ASSUME PInv, NEW c \in Clients, Commit(c)
    PROVE  PInv'
  <1>1. PICK run \in Runs :
           m' = [m EXCEPT !.pending = run[Len(m.session)], !.session = <<>>,
                          !.scheduled = TRUE]
    BY DEF Commit
  <1>2. /\ run[Len(m.session)] \in [Workspaces -> BOOLEAN]
        /\ OneEach(run[Len(m.session)], m.outputs)
    BY RunKeeps DEF PInv, ManagerKept, Managers
  <1>3. ManagerKept(m')
    <2>1. <<>> \in Seq(Workspaces) /\ DOMAIN <<>> = {}
      OBVIOUS
    <2>2. /\ m' \in Managers /\ m'.session = <<>> /\ m'.outputs = m.outputs
          /\ m'.state = m.state /\ m'.pending = run[Len(m.session)]
      BY <1>1, <1>2, <2>1 DEF PInv, ManagerKept, Managers
    <2>3. OneEach(m.pending, m.outputs) /\ AtMostOne(m.state, m.outputs)
      BY DEF PInv, ManagerKept
    <2> QED
      BY <1>2, <2>1, <2>2, <2>3 DEF ManagerKept
  <1>4. m'.outputs = m.outputs /\ m'.state = m.state /\ m'.scheduled
    BY <1>1 DEF PInv, ManagerKept, Managers
  <1> QED
    BY <1>3, <1>4, ManagerStep DEF Commit, PInv

LEMMA BindInv ==
    ASSUME PInv, NEW c \in Clients, Bind(c)
    PROVE  PInv'
  <1> DEFINE new == [manager |-> "bound", groups |-> m.outputs, handles |-> Present,
                     seen |-> [w \in Workspaces |-> w \in Present /\ InitialState(w)],
                     inert |-> FALSE, dirty |-> FALSE]
  <1>1. ClientKept(m, new)
    BY DEF ClientKept, ClientStates, Present, InitialState, PInv, ManagerKept, Managers
  <1>2. Done(new)
    BY DEF Done
  <1>3. clients' = [clients EXCEPT ![c] = new] /\ UNCHANGED <<protocol, m, aborted>>
    BY DEF Bind
  <1> HIDE DEF new
  <1> QED
    BY <1>1, <1>2, <1>3, ClientStep

\* The client stops, disconnects, binds to an output or destroys a handle.
LEMMA ClientAloneInv ==
    ASSUME PInv, NEW c \in Clients,
           Stop(c) \/ Disconnect(c) \/ BindOutput(c) \/ DestroyHandle(c)
    PROVE  PInv'
  <1> DEFINE old == clients[c]
  <1>1. ClientKept(m, old)
    BY DEF PInv
  <1>2. CASE Stop(c)
    <2> DEFINE new == [old EXCEPT !.manager = "stopped"]
    <2>1. ClientKept(m, new) /\ Done(new)
      BY <1>1 DEF ClientKept, ClientStates, Done
    <2>2. clients' = [clients EXCEPT ![c] = new] /\ UNCHANGED <<protocol, m, aborted>>
      BY <1>2 DEF Stop
    <2> HIDE DEF new, old
    <2> QED
      BY <2>1, <2>2, ClientStep
  <1>3. CASE Disconnect(c)
    <2> DEFINE new == Without("none")
    <2>1. ClientKept(m, new) /\ Done(new)
      BY DEF ClientKept, ClientStates, Done, Without, Nowhere
    <2>2. clients' = [clients EXCEPT ![c] = new] /\ UNCHANGED <<protocol, m, aborted>>
      BY <1>3 DEF Disconnect
    <2> HIDE DEF new, old
    <2> QED
      BY <2>1, <2>2, ClientStep
  <1>4. CASE BindOutput(c)
    <2> DEFINE new == [old EXCEPT !.dirty = FALSE]
    <2>1. ClientKept(m, new) /\ Done(new)
      BY <1>1 DEF ClientKept, ClientStates, Done
    <2>2. clients' = [clients EXCEPT ![c] = new] /\ UNCHANGED <<protocol, m, aborted>>
      BY <1>4 DEF BindOutput
    <2> HIDE DEF new, old
    <2> QED
      BY <2>1, <2>2, ClientStep
  <1>5. CASE DestroyHandle(c)
    <2>1. UNCHANGED <<protocol, m, aborted>>
      BY <1>5 DEF DestroyHandle
    <2>2. ASSUME NEW w \in old.handles,
                 clients' = [clients EXCEPT ![c].handles = @ \ {w}, ![c].seen[w] = FALSE]
          PROVE  PInv'
      <3> DEFINE new == [old EXCEPT !.handles = @ \ {w}, !.seen[w] = FALSE]
      <3>1. ClientKept(m, new)
        BY <1>1 DEF ClientKept, ClientStates
      <3>2. Done(old) => Done(new)
        BY <1>1 DEF ClientKept, ClientStates, Done
      <3>3. clients' = [clients EXCEPT ![c] = new]
        BY <2>2, <1>1 DEF PInv, ClientKept, ClientStates
      <3> HIDE DEF new
      <3> QED
        BY <3>1, <3>2, <3>3, <2>1, ClientStep
    <2>3. ASSUME NEW o \in old.groups,
                 clients' = [clients EXCEPT ![c].groups = @ \ {o}]
          PROVE  PInv'
      <3> DEFINE new == [old EXCEPT !.groups = @ \ {o}]
      <3>1. ClientKept(m, new) /\ (Done(old) => Done(new))
        BY <1>1 DEF ClientKept, ClientStates, Done
      <3>2. clients' = [clients EXCEPT ![c] = new]
        BY <2>3
      <3> HIDE DEF new
      <3> QED
        BY <3>1, <3>2, <2>1, ClientStep
    <2>4. ASSUME clients' = [clients EXCEPT ![c].inert = FALSE]
          PROVE  PInv'
      <3> DEFINE new == [old EXCEPT !.inert = FALSE]
      <3>1. ClientKept(m, new) /\ (Done(old) => Done(new))
        BY <1>1 DEF ClientKept, ClientStates, Done
      <3>2. clients' = [clients EXCEPT ![c] = new]
        BY <2>4
      <3> HIDE DEF new
      <3> QED
        BY <3>1, <3>2, <2>1, ClientStep
    <2> QED
      BY <1>5, <2>2, <2>3, <2>4 DEF DestroyHandle
  <1> QED
    BY <1>2, <1>3, <1>4, <1>5

\* The manager and any of the clients change.
LEMMA AllStep ==
    ASSUME PInv, ManagerKept(m'), NEW new, clients' = [c \in Clients |-> new[c]],
           \A c \in Clients : ClientKept(m', new[c]),
           m'.scheduled \/ (m'.pending = m'.state /\ \A c \in Clients : Done(new[c])),
           UNCHANGED <<protocol, aborted>>
    PROVE  PInv'
  <1>1. \A c \in Clients : clients'[c] = new[c]
    OBVIOUS
  <1>2. DOMAIN clients' = Clients /\ clients' = [c \in Clients |-> clients'[c]]
    BY <1>1
  <1>3. \A c \in Clients : ClientKept(m', clients'[c])
    BY <1>1
  <1>4. (\A c \in Clients : Done(new[c])) => \A c \in Clients : Done(clients'[c])
    BY <1>1
  <1> QED
    BY <1>2, <1>3, <1>4 DEF PInv, ManagerKept, ClientKept, Done

\* What is left of a client that is sent another client's handle, or not.
LEMMA KilledKept ==
    ASSUME NEW mm, NEW cs, NEW o, NEW c \in Clients, ClientKept(mm, cs[c])
    PROVE  ClientKept(mm, Killed(cs, o)[c])
  <1>1. ClientKept(mm, Without("killed"))
    BY DEF ClientKept, ClientStates, Without, Nowhere
  <1>2. Killed(cs, o)[c] \in {Without("killed"), cs[c]}
    BY DEF Killed
  <1> QED
    BY <1>1, <1>2

LEMMA AddOutputInv ==
    ASSUME PInv, NEW o \in Outputs, AddOutput(o)
    PROVE  PInv'
  <1> DEFINE after == Displaying(m.pending, FirstOf[o])
  <1>1. o \notin m.outputs
    BY DEF AddOutput
  <1>2. /\ after \in [Workspaces -> BOOLEAN]
        /\ OneEach(after, m.outputs \cup {o})
    BY <1>1, FirstDisplayed DEF PInv, ManagerKept, Managers
  <1>3. m' = [m EXCEPT !.pending = after, !.scheduled = TRUE, !.outputs = m.outputs \cup {o}]
    BY DEF AddOutput, Show, PInv, ManagerKept, Managers
  <1> HIDE DEF after
  <1>4. /\ m' \in Managers /\ m'.outputs = m.outputs \cup {o} /\ m'.pending = after
        /\ m'.state = m.state /\ m'.session = m.session /\ m'.scheduled
    BY <1>2, <1>3 DEF PInv, ManagerKept, Managers
  <1>5. ManagerKept(m')
    BY <1>2, <1>4 DEF PInv, ManagerKept, AtMostOne
  <1>6. ASSUME NEW c \in Clients
        PROVE  ClientKept(m', Announced(o)[c])
    <2> DEFINE old == clients[c]
               new == [old EXCEPT !.groups = @ \cup {o}, !.handles = @ \cup WorkspacesOn(o),
                                  !.dirty = TRUE]
    <2>1. ClientKept(m, old)
      BY DEF PInv
    <2>2. ClientKept(m', old)
      BY <1>4, <2>1 DEF ClientKept
    <2>3. \A w \in WorkspacesOn(o) : w \in Workspaces /\ OutputOf[w] = o /\ ~m.state[w]
      BY <1>1 DEF WorkspacesOn, PInv, ManagerKept, AtMostOne
    <2>4. /\ new \in ClientStates /\ new.groups = old.groups \cup {o}
          /\ new.handles = old.handles \cup WorkspacesOn(o)
          /\ new.seen = old.seen /\ new.manager = old.manager
      BY <2>1, <2>3 DEF ClientKept, ClientStates
    <2>5. ClientKept(m', new)
      <3> HIDE DEF old, new
      <3> QED
        BY <2>1, <2>3, <2>4, <1>4 DEF ClientKept
    <2>6. Announced(o)[c] = IF ~Bound(c) THEN old ELSE new
      BY DEF Announced
    <2> HIDE DEF old, new
    <2> QED
      BY <2>1, <2>2, <2>5, <2>6
  <1>7. \A c \in Clients : /\ ClientKept(m', Killed(Announced(o), o)[c])
    BY <1>6, KilledKept
  <1>8. clients' = [c \in Clients |-> Killed(Announced(o), o)[c]]
    BY DEF AddOutput, Killed
  <1> QED
    BY <1>4, <1>5, <1>7, <1>8, AllStep DEF AddOutput

LEMMA RemoveOutputInv ==
    ASSUME PInv, NEW o \in Outputs, RemoveOutput(o)
    PROVE  PInv'
  <1> DEFINE pending == [w \in Workspaces |-> m.pending[w] /\ OutputOf[w] # o]
             state == [w \in Workspaces |-> m.state[w] /\ OutputOf[w] # o]
             K == Killed(clients, o)
  <1>1. o \in m.outputs
    BY DEF RemoveOutput
  <1>2. \E w \in WorkspacesOn(o) : m.pending[w]
    BY <1>1 DEF WorkspacesOn, PInv, ManagerKept, OneEach
  <1>3. /\ SessionWithout(o) \in Seq(Workspaces)
        /\ \A k \in DOMAIN SessionWithout(o) :
              OutputOf[SessionWithout(o)[k]] \in m.outputs \ {o}
    BY SessionLeft DEF PInv, ManagerKept, Managers
  <1>4. m' = [m EXCEPT !.pending = pending, !.scheduled = TRUE, !.outputs = m.outputs \ {o},
                       !.state = state, !.session = SessionWithout(o)]
    BY <1>2 DEF RemoveOutput, DisplayNothing, PInv, ManagerKept, Managers
  <1>5. pending \in [Workspaces -> BOOLEAN] /\ state \in [Workspaces -> BOOLEAN]
    BY DEF PInv, ManagerKept, Managers
  <1>6. /\ \A w \in Workspaces : pending[w] <=> m.pending[w] /\ OutputOf[w] # o
        /\ \A w \in Workspaces : state[w] <=> m.state[w] /\ OutputOf[w] # o
    OBVIOUS
  <1> HIDE DEF pending, state, K
  <1>7. /\ m' \in Managers /\ m'.outputs = m.outputs \ {o} /\ m'.pending = pending
        /\ m'.state = state /\ m'.session = SessionWithout(o) /\ m'.scheduled
    BY <1>3, <1>4, <1>5 DEF PInv, ManagerKept, Managers
  <1>8. ManagerKept(m')
    <2>1. OneEach(m.pending, m.outputs) /\ AtMostOne(m.state, m.outputs)
      BY DEF PInv, ManagerKept
    <2>2. AtMostOne(pending, m.outputs \ {o}) /\ AtMostOne(state, m.outputs \ {o})
      BY <1>6, <2>1 DEF AtMostOne, OneEach
    <2>3. \A p \in m.outputs \ {o} : \E w \in Workspaces : OutputOf[w] = p /\ pending[w]
      BY <1>6, <2>1 DEF OneEach
    <2> QED
      BY <1>3, <1>7, <2>2, <2>3 DEF ManagerKept, OneEach
  <1>9. ASSUME NEW c \in Clients
        PROVE  ClientKept(m', Retracted(K, o)[c])
    <2> DEFINE old == K[c]
               new == Retracted(K, o)[c]
               seen == [w \in Workspaces |-> old.seen[w] /\ OutputOf[w] # o]
    <2>1. ClientKept(m, old)
      BY KilledKept DEF K, PInv
    <2>2. /\ seen \in [Workspaces -> BOOLEAN]
          /\ \A w \in Workspaces : seen[w] <=> old.seen[w] /\ OutputOf[w] # o
      BY <2>1 DEF ClientKept, ClientStates
    <2>3. PICK had \in BOOLEAN :
             new = [old EXCEPT !.groups = @ \ {o}, !.handles = @ \ WorkspacesOn(o),
                               !.seen = seen, !.inert = @ \/ had, !.dirty = @ \/ had]
      BY DEF Retracted
    <2> HIDE DEF seen, new, old
    <2>4. /\ new \in ClientStates /\ new.groups = old.groups \ {o}
          /\ new.handles = old.handles \ WorkspacesOn(o)
          /\ new.seen = seen /\ new.manager = old.manager
      <3>1. (old.inert \/ had) \in BOOLEAN /\ (old.dirty \/ had) \in BOOLEAN
        OBVIOUS
      <3>2. old \in ClientStates
        BY <2>1 DEF ClientKept
      <3> QED
        BY <2>2, <2>3, <3>1, <3>2 DEF ClientStates
    <2>5. ClientKept(m', new)
      BY <1>6, <1>7, <2>1, <2>2, <2>4 DEF ClientKept, WorkspacesOn, ClientStates
    <2> QED
      BY <2>5 DEF new
  <1>10. clients' = [c \in Clients |-> Retracted(K, o)[c]]
    BY DEF RemoveOutput, Retracted, K
  <1> QED
    BY <1>7, <1>8, <1>9, <1>10, AllStep DEF RemoveOutput

LEMMA SendDoneInv ==
    ASSUME PInv, SendDone
    PROVE  PInv'
  <1>1. m' = [m EXCEPT !.state = m.pending, !.scheduled = FALSE]
    BY DEF SendDone
  <1>2. /\ m' \in Managers /\ m'.outputs = m.outputs /\ m'.pending = m.pending
        /\ m'.state = m.pending /\ m'.session = m.session
    BY <1>1 DEF PInv, ManagerKept, Managers
  <1>3. ManagerKept(m')
    BY <1>2 DEF PInv, ManagerKept, OneEach
  <1>4. ASSUME NEW c \in Clients
        PROVE  ClientKept(m', Told(c)) /\ Done(Told(c))
    <2> DEFINE old == clients[c]
               changed == {w \in old.handles : m.pending[w] # m.state[w]}
               seen == [w \in Workspaces |->
                           IF w \in changed THEN m.pending[w] ELSE old.seen[w]]
               new == [old EXCEPT !.seen = seen,
                                  !.dirty = (@ \/ changed # {}) /\ ~Bound(c)]
    <2>1. ClientKept(m, old)
      BY DEF PInv
    <2>2. m.pending \in [Workspaces -> BOOLEAN] /\ m.state \in [Workspaces -> BOOLEAN]
      BY DEF PInv, ManagerKept, Managers
    <2>3. seen \in [Workspaces -> BOOLEAN]
      BY <2>1, <2>2 DEF ClientKept, ClientStates
    <2>4. ASSUME NEW w \in Workspaces
          PROVE  seen[w] <=> w \in old.handles /\ m.pending[w]
      <3>1. CASE w \in changed
        BY <3>1
      <3>2. CASE w \notin changed
        <4>1. seen[w] = old.seen[w]
          BY <3>2
        <4>2. w \in old.handles => m.pending[w] = m.state[w]
          BY <3>2
        <4>3. old.seen[w] <=> w \in old.handles /\ m.state[w]
          BY <2>1 DEF ClientKept
        <4> QED
          BY <4>1, <4>2, <4>3
      <3> QED
        BY <3>1, <3>2
    <2>5. Told(c) = new
      BY DEF Told
    <2> HIDE DEF seen, changed
    <2>6. /\ new \in ClientStates /\ new.groups = old.groups /\ new.handles = old.handles
          /\ new.seen = seen /\ new.manager = old.manager
          /\ new.dirty => ~Bound(c)
      BY <2>1, <2>3 DEF ClientKept, ClientStates
    <2>7. ClientKept(m', new)
      <3> HIDE DEF new, old
      <3> QED
        BY <1>2, <2>1, <2>4, <2>6 DEF ClientKept
    <2>8. Done(new)
      <3> HIDE DEF new
      <3> QED
        BY <2>6 DEF Done, Bound
    <2> QED
      BY <2>5, <2>7, <2>8
  <1> DEFINE new == [c \in Clients |-> Told(c)]
  <1>5. clients' = [c \in Clients |-> new[c]]
    BY DEF SendDone
  <1>6. \A c \in Clients : ClientKept(m', new[c]) /\ Done(new[c])
    BY <1>4
  <1> HIDE DEF new
  <1> QED
    BY <1>2, <1>3, <1>5, <1>6, AllStep DEF SendDone

LEMMA NextInv == PInv /\ [Next]_vars => PInv'
  <1> SUFFICES ASSUME PInv, [Next]_vars PROVE PInv'
    OBVIOUS
  <1>1. CASE UNCHANGED vars
    BY <1>1 DEF vars, PInv, ManagerKept, ClientKept, Done
  <1>2. ASSUME NEW c \in Clients, ClientEvent(c) PROVE PInv'
    <2>1. CASE RequestOnInert(c)
      BY <2>1 DEF RequestOnInert, PInv, ManagerKept, ClientKept, Done
    <2> QED
      BY <1>2, <2>1, BindInv, ClientAloneInv, RequestActivateInv, CommitInv
         DEF ClientEvent
  <1>3. ASSUME NEW w \in Workspaces, ShowWorkspace(w) PROVE PInv'
    BY <1>3, ShowWorkspaceInv
  <1>4. ASSUME NEW o \in Outputs, AddOutput(o) \/ RemoveOutput(o) PROVE PInv'
    BY <1>4, AddOutputInv, RemoveOutputInv
  <1>5. CASE SendDone
    BY <1>5, SendDoneInv
  <1> QED
    BY <1>1, <1>2, <1>3, <1>4, <1>5 DEF Next

LEMMA SpecInv == Spec => []PInv
  BY InitInv, NextInv, PTL DEF Spec

-----------------------------------------------------------------------------
(***************************************************************************)
(* The theorems                                                            *)
(***************************************************************************)

\* The manager and its clients keep their types.
THEOREM TypeCorrect == Spec => []TypeOK
  <1>1. PInv => TypeOK
    BY DEF PInv, TypeOK, ManagerKept, ClientKept
  <1> QED
    BY <1>1, SpecInv, PTL

\* Every client's picture of a workspace is the one the manager believes to have told,
\* whenever it bound (e_cosmic_workspace_manager_bind) and whatever changed since.
THEOREM AllToldAlike == Spec => []ToldAlike
  <1>1. PInv => ToldAlike
    <2> SUFFICES ASSUME PInv, NEW c \in Clients, NEW w \in clients[c].handles
                 PROVE  clients[c].seen[w] = m.state[w]
      BY DEF ToldAlike
    <2>1. ClientKept(m, clients[c]) /\ m \in Managers
      BY DEF PInv, ManagerKept
    <2>2. w \in Workspaces
      BY <2>1 DEF ClientKept, ClientStates
    <2>3. clients[c].seen[w] <=> m.state[w]
      BY <2>1, <2>2 DEF ClientKept
    <2>4. clients[c].seen[w] \in BOOLEAN /\ m.state[w] \in BOOLEAN
      BY <2>1, <2>2 DEF ClientKept, ClientStates, Managers
    <2> QED
      BY <2>3, <2>4
  <1> QED
    BY <1>1, SpecInv, PTL

\* Whatever a client was sent without a done event after it, one is scheduled.
THEOREM DoneScheduled == Spec => []DoneComing
  <1>1. PInv => DoneComing
    BY DEF PInv, DoneComing, Done, Bound
  <1> QED
    BY <1>1, SpecInv, PTL

\* No client sees two workspaces of an output active, and one with nothing to come
\* sees the one that is displayed.
THEOREM SwitchesSeenAtOnce == Spec => []SwitchesAtomically
  <1>1. PInv => SwitchesAtomically
    <2> SUFFICES ASSUME PInv, NEW c \in Clients, NEW o \in Outputs
                 PROVE  LET active == {w \in WorkspacesOn(o) : clients[c].seen[w]} IN
                        /\ \A w, x \in active : w = x
                        /\ ~m.scheduled /\ Bound(c) /\ WorkspacesOn(o) \cap Present # {}
                              => \A w \in clients[c].handles \cap WorkspacesOn(o) :
                                    m.pending[w] <=> w \in active
      BY DEF SwitchesAtomically
    <2> DEFINE active == {w \in WorkspacesOn(o) : clients[c].seen[w]}
    <2>1. \A w \in Workspaces :
             clients[c].seen[w] <=> w \in clients[c].handles /\ m.state[w]
      BY DEF PInv, ClientKept
    <2>2. \A w \in WorkspacesOn(o) : w \in Workspaces /\ OutputOf[w] = o
      BY DEF WorkspacesOn
    <2>3. \A w, x \in active : w = x
      BY <2>1, <2>2 DEF PInv, ManagerKept, AtMostOne
    <2>4. ASSUME ~m.scheduled, NEW w \in clients[c].handles \cap WorkspacesOn(o)
          PROVE  m.pending[w] <=> w \in active
      <3>1. m.pending[w] = m.state[w]
        BY <2>4 DEF PInv
      <3> QED
        BY <2>1, <2>2, <3>1
    <2> QED
      BY <2>3, <2>4
  <1> QED
    BY <1>1, SpecInv, PTL

\* No operation outlives its workspace (e_cosmic_workspace_remove).
THEOREM SessionSafe == Spec => []SessionRefers
  <1>1. PInv => SessionRefers
    BY DEF PInv, ManagerKept, Managers, SessionRefers, Present
  <1> QED
    BY <1>1, SpecInv, PTL

\* After i of the operations, a workspace is active when the last of them about its
\* output is about it, or when none is and it was active before.
ActiveAfter(i, w) ==
    LET asked == {j \in Asked(OutputOf[w]) : j <= i}
    IN  \/ \E j \in asked : m.session[j] = w /\ \A k \in asked : k <= j
        \/ asked = {} /\ m.pending[w]

\* One more operation.
LEMMA OneMoreActive ==
    ASSUME PInv, NEW i \in 1..Len(m.session), NEW active \in [Workspaces -> BOOLEAN],
           OneEach(active, m.outputs),
           \A w \in Workspaces : active[w] <=> ActiveAfter(i - 1, w)
    PROVE  \A w \in Workspaces :
              Displaying(active, m.session[i])[w] <=> ActiveAfter(i, w)
  <1> DEFINE x == m.session[i]
             Until(w, n) == {j \in Asked(OutputOf[w]) : j <= n}
  <1>1. /\ m.session \in Seq(Workspaces) /\ i \in DOMAIN m.session /\ x \in Workspaces
        /\ DOMAIN m.session = 1..Len(m.session)
    BY DEF PInv, ManagerKept, Managers
  <1>2. \A w \in Workspaces :
           Displaying(active, x)[w] <=> w = x \/ (active[w] /\ OutputOf[w] # OutputOf[x])
    <2>1. CASE active[x]
      BY <1>1, <2>1 DEF Displaying, OneEach, AtMostOne
    <2>2. CASE ~active[x]
      BY <1>1, <2>2 DEF Displaying
    <2> QED
      BY <2>1, <2>2
  <1> TAKE w \in Workspaces
  <1>3. \A j \in Asked(OutputOf[w]) : j \in 1..Len(m.session)
    BY <1>1 DEF Asked
  <1>4. CASE OutputOf[w] = OutputOf[x]
    <2>1. i \in Until(w, i) /\ \A j \in Until(w, i) : j <= i
      BY <1>1, <1>3, <1>4 DEF Asked
    <2>2. ActiveAfter(i, w) <=> w = x
      <3>1. ActiveAfter(i, w) <=>
               \E j \in Until(w, i) : m.session[j] = w /\ \A k \in Until(w, i) : k <= j
        BY <2>1 DEF ActiveAfter
      <3>2. \A j \in Until(w, i) : (\A k \in Until(w, i) : k <= j) => j = i
        BY <1>3, <2>1
      <3> HIDE DEF Until
      <3> QED
        BY <2>1, <3>1, <3>2
    <2> HIDE DEF x, Until
    <2> QED
      BY <1>2, <1>4, <2>2 DEF x
  <1>5. CASE OutputOf[w] # OutputOf[x]
    <2>1. Until(w, i) = Until(w, i - 1)
      <3>1. i \notin Asked(OutputOf[w])
        BY <1>5 DEF Asked
      <3>2. \A j \in Asked(OutputOf[w]) : j <= i <=> j <= i - 1
        BY <1>3, <3>1
      <3> QED
        BY <3>2
    <2>2. ActiveAfter(i, w) <=> ActiveAfter(i - 1, w)
      BY <2>1 DEF ActiveAfter
    <2> HIDE DEF x
    <2> QED
      BY <1>2, <1>5, <2>2 DEF x
  <1> QED
    BY <1>4, <1>5

\* Carrying out the whole session.
LEMMA RunShowsLast ==
    ASSUME PInv, NEW run \in Runs
    PROVE  \A w \in Workspaces : run[Len(m.session)][w] <=> ActiveAfter(Len(m.session), w)
  <1> DEFINE n == Len(m.session)
             Right(i) == /\ OneEach(run[i], m.outputs)
                         /\ \A w \in Workspaces : run[i][w] <=> ActiveAfter(i, w)
             Wrong == {i \in 0..n : ~Right(i)}
  <1>1. /\ m.session \in Seq(Workspaces) /\ n \in Nat /\ DOMAIN m.session = 1..n
        /\ OneEach(m.pending, m.outputs)
        /\ \A i \in 1..n : m.session[i] \in Workspaces /\ OutputOf[m.session[i]] \in m.outputs
    BY DEF PInv, ManagerKept, Managers
  <1>2. /\ run[0] = m.pending
        /\ \A i \in 0..n : run[i] \in [Workspaces -> BOOLEAN]
        /\ \A i \in 1..n : run[i] = Displaying(run[i - 1], m.session[i])
    BY <1>1 DEF Runs
  <1>3. Right(0)
    <2>1. \A w \in Workspaces : {j \in Asked(OutputOf[w]) : j <= 0} = {}
      BY <1>1 DEF Asked
    <2> QED
      BY <1>1, <1>2, <2>1 DEF ActiveAfter
  <1>4. ASSUME NEW i \in 1..n, Right(i - 1) PROVE Right(i)
    <2>1. i - 1 \in 0..n /\ run[i - 1] \in [Workspaces -> BOOLEAN]
      BY <1>1, <1>2
    <2>2. run[i] = Displaying(run[i - 1], m.session[i])
      BY <1>2
    <2>3. OneEach(run[i], m.outputs)
      BY <1>1, <1>4, <2>1, <2>2, DisplayingKeeps
    <2>4. \A w \in Workspaces : run[i][w] <=> ActiveAfter(i, w)
      BY <1>4, <2>1, <2>2, OneMoreActive
    <2> QED
      BY <2>3, <2>4
  <1>5. Wrong = {}
    <2> SUFFICES ASSUME Wrong # {} PROVE FALSE
      OBVIOUS
    <2>1. PICK i \in Wrong : \A j \in Wrong : i <= j
      <3>1. Wrong \in SUBSET Nat
        BY <1>1
      <3> HIDE DEF Wrong
      <3> QED
        BY <3>1, LeastOf
    <2> HIDE DEF Right
    <2>2. i \in 1..n /\ i - 1 \in 0..n
      <3>1. i # 0
        BY <1>3
      <3> QED
        BY <1>1, <3>1
    <2>3. i - 1 \notin Wrong
      <3> HIDE DEF Wrong
      <3> QED
        BY <1>1, <2>1, <2>2
    <2> QED
      BY <1>4, <2>2, <2>3
  <1>6. n \in 0..n
    BY <1>1
  <1> QED
    <2>1. Right(n)
      <3> HIDE DEF Right
      <3> QED
        BY <1>5, <1>6
    <2> QED
      BY <2>1

\* A commit leaves each output with the workspace that was asked for last, by whichever
\* client, and an output nobody asked about as it was.
THEOREM LastRequestShown == Spec => LastRequestWins
  <1>1. ASSUME PInv, NEW c \in Clients, Commit(c), NEW w \in Workspaces
        PROVE  m'.pending[w] <=>
                   \/ \E i \in Asked(OutputOf[w]) :
                         m.session[i] = w /\ \A j \in Asked(OutputOf[w]) : j <= i
                   \/ Asked(OutputOf[w]) = {} /\ m.pending[w]
    <2>1. PICK run \in Runs :
             m' = [m EXCEPT !.pending = run[Len(m.session)], !.session = <<>>,
                            !.scheduled = TRUE]
      BY <1>1 DEF Commit
    <2>2. m'.pending = run[Len(m.session)]
      BY <1>1, <2>1 DEF PInv, ManagerKept, Managers
    <2>3. run[Len(m.session)][w] <=> ActiveAfter(Len(m.session), w)
      BY <1>1, RunShowsLast
    <2>4. {j \in Asked(OutputOf[w]) : j <= Len(m.session)} = Asked(OutputOf[w])
      BY <1>1 DEF Asked, PInv, ManagerKept, Managers
    <2> QED
      BY <2>2, <2>3, <2>4 DEF ActiveAfter
  <1> DEFINE Last ==
        \A c \in Clients : Commit(c) =>
          \A w \in Workspaces :
              m'.pending[w] <=>
                  \/ \E i \in Asked(OutputOf[w]) :
                        m.session[i] = w /\ \A j \in Asked(OutputOf[w]) : j <= i
                  \/ Asked(OutputOf[w]) = {} /\ m.pending[w]
  <1>2. PInv /\ [Next]_vars => [Last]_vars
    BY <1>1
  <1>3. LastRequestWins <=> [][Last]_vars
    BY DEF LastRequestWins
  <1> HIDE DEF Last
  <1> QED
    BY <1>2, <1>3, SpecInv, PTL DEF Spec
=============================================================================
