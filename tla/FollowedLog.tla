---------------------------- MODULE FollowedLog ----------------------------
(***************************************************************************)
(* What following a log promises: the writer appends, and the copy is       *)
(* always a beginning of the writer's log and never gets shorter.           *)
(***************************************************************************)
EXTENDS Sequences, Integers

CONSTANT Entry

VARIABLES
  log,   \* the writer's log
  copy   \* what the follower has of it

vars == <<log, copy>>

Init ==
  /\ log \in Seq(Entry)
  /\ copy = <<>>

Write ==
  /\ Len(log') = Len(log) + 1
  /\ SubSeq(log', 1, Len(log)) = log
  /\ log'[Len(log')] \in Entry
  /\ UNCHANGED copy

\* The follower gets the next entry.
Follow ==
  /\ Len(copy) < Len(log)
  /\ copy' = Append(copy, log[Len(copy) + 1])
  /\ UNCHANGED log

Next == Write \/ Follow

Spec == Init /\ [][Next]_vars

=============================================================================
