---------------------------- MODULE OutputHotplug ----------------------------
(***************************************************************************)
(* Outputs that are unplugged (e_output_handle_destroy of                  *)
(* desktop/output.c).  An output takes its workspaces with it, and they    *)
(* take the containers of their lists.  The views of those containers live *)
(* on: a client has not asked for anything.  view[v] = "none" therefore    *)
(* says that there is no container of the name v; what becomes of a view   *)
(* without one is told in ForeignToplevels.                                *)
(***************************************************************************)
EXTENDS ContainerTree

\* The workspaces output_fini_workspaces destroys.
WorkspacesOn(o) == {w \in Workspaces : OutputOf[w] = o}

\* Mutant: the floating containers of a workspace outlive it.
DestroyedTiledOnly(t, o) ==
    UNION {Items(t.children[w]) : w \in WorkspacesOn(o)}

\* The containers e_workspace_destroy destroys: those in the lists of the
\* workspaces, whatever workspace they themselves name.
DestroyedWith(t, o) ==
    UNION {Items(t.children[w]) \cup Items(t.floating[w]) : w \in WorkspacesOn(o)}

\* The tree once o, its workspaces and their containers are freed.  A freed
\* workspace or container has no state; the fields read as in EmptyTree.
WithoutOutput(t, o) ==
    LET freed == DestroyedWith(t, o)
        Views_(old, none) == [v \in Views |-> IF v \in freed THEN none ELSE old[v]]
        Workspaces_(old, none) ==
            [w \in Workspaces |-> IF w \in WorkspacesOn(o) THEN none ELSE old[w]]
    IN  [workspace   |-> Views_(t.workspace, NULL),
         parent      |-> Views_(t.parent, NULL),
         fullscreen  |-> Views_(t.fullscreen, FALSE),
         node        |-> Views_(t.node, Pending),
         children    |-> Workspaces_(t.children, <<>>),
         floating    |-> Workspaces_(t.floating, <<>>),
         fsContainer |-> Workspaces_(t.fsContainer, NULL),
         activated   |-> Workspaces_(t.activated, FALSE),
         enabled     |-> Workspaces_(t.enabled, "none"),
         displayed   |-> [t.displayed EXCEPT ![o] = NULL]]

\* Something of the tree or the seat that lives on still points to what is freed
\* with o: the seat to its active container, a container to its workspace, or a
\* workspace to its fullscreen container.  What the next read finds there is
\* undefined.  The pointer of a view to its output, which dangles as well, belongs to
\* ForeignToplevels.
LeavesDangling(t, active, o) ==
    LET freed == DestroyedWith(t, o)
    IN  \/ active \in freed
        \/ \E v \in Views \ freed : t.workspace[v] \in WorkspacesOn(o)
        \/ \E w \in Workspaces \ WorkspacesOn(o) : t.fsContainer[w] \in freed

\* e_output_handle_destroy.
RemoveOutput(o) ==
    /\ o \in Present(tree)
    /\ tree' = WithoutOutput(tree, o)
    /\ view' = [v \in Views |-> IF v \in DestroyedWith(tree, o) THEN "none" ELSE view[v]]
    /\ aborted' = LeavesDangling(tree, activeView, o)
    /\ UNCHANGED activeView

-----------------------------------------------------------------------------
(***************************************************************************)
(* Properties                                                              *)
(***************************************************************************)

\* Unless the compositor runs into freed memory, nothing refers to a workspace of an
\* output that is gone, and a container is in a list only while it exists: however
\* outputs come and go, an output that is plugged in again starts out empty.
GoneUnused ==
    \/ aborted
    \/ /\ \A v \in Views : tree.workspace[v] # NULL => OutputOf[tree.workspace[v]] \in Present(tree)
       /\ \A w \in Workspaces : OutputOf[w] \notin Present(tree) =>
             /\ tree.children[w] = <<>> /\ tree.floating[w] = <<>>
             /\ tree.fsContainer[w] = NULL /\ ~tree.activated[w]
       /\ \A v \in Views : view[v] = "none" =>
             activeView # v /\ \A w \in Workspaces :
                 v \notin Items(tree.children[w]) \cup Items(tree.floating[w])
=============================================================================
