------------------------- MODULE MCWorkspaceProtocol -------------------------
(***************************************************************************)
(* Instances of WorkspaceProtocol for TLC: every output has the same       *)
(* number of workspaces, the i-th workspace of output o is <<o, i>>.       *)
(***************************************************************************)
EXTENDS WorkspaceProtocol

CONSTANT WorkspaceCount     \* workspaces of each output

MCWorkspaces == Outputs \X (1..WorkspaceCount)
MCOutputOf == [w \in MCWorkspaces |-> w[1]]
MCFirstOf == [o \in Outputs |-> <<o, 1>>]
=============================================================================
