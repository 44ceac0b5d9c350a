--------------------------- MODULE MCContainerTree ---------------------------
(***************************************************************************)
(* Instances of ContainerTree for TLC: every output has the same number of *)
(* workspaces, the i-th workspace of output o is <<o, i>>.                 *)
(* The arrays of EList are evaluated here, with views as their items.      *)
(***************************************************************************)
EXTENDS ContainerTree, EList, TLC

CONSTANT WorkspaceCount     \* workspaces of each output

MCWorkspaces == Outputs \X (1..WorkspaceCount)
MCOutputOf == [w \in MCWorkspaces |-> w[1]]
MCWorkspacesOf == [o \in Outputs |-> [i \in 1..WorkspaceCount |-> <<o, i>>]]

Symmetry == Permutations(Views) \cup Permutations(Outputs)
ViewSymmetry == Permutations(Views)

\* The arrays of a capacity.
Arrays(capacity) ==
    {l \in [items : [0..(capacity - 1) -> Views \cup {NullItem}], count : 0..capacity,
            capacity : {capacity}] : IsEList(l, Views)}

\* What the operations on one array promise, up to the doubling of the second array.
ASSUME \A l \in Arrays(1) \cup Arrays(2) \cup Arrays(3), v \in Views :
    /\ \A memory \in BOOLEAN :
          /\ \A index \in -1..4 : InsertImplements(l, v, index, memory, Views)
          /\ AddImplements(l, v, memory, Views)
    /\ FindImplements(l, v)
    /\ RemoveImplements(l, v, Views)

\* And those on two arrays, or twice on the same.
ASSUME \A l, other \in Arrays(1) \cup Arrays(2), a, b \in {1, 2} :
    /\ \A i, j \in -1..2 : SwapImplements(<<l, other>>, a, i, b, j, Views)
    /\ \A memory \in BOOLEAN : CopyEmpties(<<l, other>>, a, b, memory)
=============================================================================
