-------------------------- MODULE MCWorkspaceSync --------------------------
(***************************************************************************)
(* Small instances of WorkspaceSync.                                        *)
(***************************************************************************)
EXTENDS WorkspaceSync, TLC

CONSTANTS w1, w2, k1, k2

WarpSymmetry == Permutations({k1, k2})

=============================================================================
