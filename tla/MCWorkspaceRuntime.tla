------------------------- MODULE MCWorkspaceRuntime -------------------------
(* Instances of WorkspaceRuntime for TLC: see the configurations.          *)
EXTENDS WorkspaceRuntime
=============================================================================
