---------------------------- MODULE MCTaskTree ----------------------------
(* A task of the session and a task of that task. *)
EXTENDS TaskTree, TLC

CONSTANTS a, b

MCParent == (a :> Root) @@ (b :> a)

=============================================================================
