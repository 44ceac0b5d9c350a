-------------------------- MODULE MCForeignToplevels --------------------------
(***************************************************************************)
(* Instances of ForeignToplevels for TLC, with the workspaces of           *)
(* MCContainerTree.                                                        *)
(***************************************************************************)
EXTENDS ForeignToplevels, TLC

CONSTANT WorkspaceCount     \* workspaces of each output

MCWorkspaces == Outputs \X (1..WorkspaceCount)
MCOutputOf == [w \in MCWorkspaces |-> w[1]]
MCWorkspacesOf == [o \in Outputs |-> [i \in 1..WorkspaceCount |-> <<o, i>>]]

MCHints == {NoHints}

Symmetry == Permutations(Outputs)
=============================================================================
