----------------------------- MODULE MCToolTurn -----------------------------
(* Two tool calls of one turn, each with its request; the second repeats      *)
(* itself and needs a permission for that too.                                 *)
EXTENDS ToolTurn, TLC

CONSTANTS c1, c2, a1, d2

MCToolAsk == (c1 :> a1) @@ (c2 :> None)
MCDoomAsk == (c1 :> None) @@ (c2 :> d2)
MCCanInterrupt == {d2}

=============================================================================
