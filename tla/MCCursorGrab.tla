---------------------------- MODULE MCCursorGrab ----------------------------
(***************************************************************************)
(* Instances of CursorGrab for TLC, with the workspaces of                 *)
(* MCContainerTree.                                                        *)
(***************************************************************************)
EXTENDS CursorGrab, TLC

CONSTANT WorkspaceCount     \* workspaces of each output

MCWorkspaces == Outputs \X (1..WorkspaceCount)
MCOutputOf == [w \in MCWorkspaces |-> w[1]]
MCWorkspacesOf == [o \in Outputs |-> [i \in 1..WorkspaceCount |-> <<o, i>>]]

Symmetry == Permutations(Toplevels) \cup Permutations(Views \ Toplevels)
                \cup Permutations(Outputs)
=============================================================================
