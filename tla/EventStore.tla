----------------------------- MODULE EventStore -----------------------------
(***************************************************************************)
(* The event log that one database keeps for one session, and the           *)
(* transactions of core/src/event.ts on it.                                 *)
(*                                                                         *)
(* A store is the session's row of EventSequenceTable (seq, owner_id) with  *)
(* its rows of EventTable.  Transactions are immediate, so each is one      *)
(* function from a store to the next.  An event is known by who published   *)
(* it and the number it got there; "to" is the place of the session that    *)
(* the event's projector writes into SessionTable (every session.updated    *)
(* carries the publisher's whole record of the session).                    *)
(***************************************************************************)
EXTENDS Integers

CONSTANTS
  Control,     \* the database that the user works on (the control plane)
  Workspaces,  \* the databases of the remote workspaces
  None         \* no owner

ASSUME NodesAssumption ==
  /\ Control \notin Workspaces
  /\ None \notin Workspaces \cup {Control}

Nodes == {Control} \cup Workspaces

\* As a place of the session and as an owner, Control stands for the project's own
\* directory: workspace_id is null, and owner_id is the project's id.
Row == [seq : Nat, by : Nodes, to : Nodes]

Store == [seq : Nat \cup {-1}, owner : Nodes \cup {None}, rows : SUBSET Row]

\* No row of either table.
Empty == [seq |-> -1, owner |-> None, rows |-> {}]

Latest(s) == CHOOSE r \in s.rows : r.seq = s.seq

\* SessionTable.workspace_id, which the latest event has written.
PlaceOf(s) == Latest(s).to

\* A commit: the sequence row is made with the owner of the first event, and
\* afterwards only its number changes.
Insert(s, r, o) ==
  [seq   |-> r.seq,
   owner |-> IF s.seq = -1 THEN o ELSE s.owner,
   rows  |-> s.rows \cup {r}]

\* publish: the next number, whoever owns the session.
NewRow(s, n, p) == [seq |-> s.seq + 1, by |-> n, to |-> p]
Published(s, n, p) == Insert(s, NewRow(s, n, p), None)

\* replay, by someone who speaks for owner o (None: no ownerID is given).
Duplicate(s, r) == r.seq <= s.seq
Foreign(s, o)   == s.owner # None /\ s.owner # o
Gap(s, r)       == r.seq # s.seq + 1

\* Mutant: what the log has is taken again.
AcceptsDuplicates(s, r, o) == ~Foreign(s, o) /\ r.seq <= s.seq + 1

\* Mutant: the owner is not looked at.
AcceptsForeign(s, r, o) == ~Duplicate(s, r) /\ ~Gap(s, r)

Accepts(s, r, o) == ~Duplicate(s, r) /\ ~Foreign(s, o) /\ ~Gap(s, r)

\* The transaction dies, and with it the fiber that replays.
Dies(s, r, o) == ~Duplicate(s, r) /\ ~Foreign(s, o) /\ Gap(s, r)

\* Mutant: the event gets the log's next number.
ReplayedRenumbered(s, r, o) ==
  IF Foreign(s, o) THEN s ELSE Insert(s, [r EXCEPT !.seq = s.seq + 1], o)

Replayed(s, r, o) == IF Accepts(s, r, o) THEN Insert(s, r, o) ELSE s

\* claim: an update, which matches nothing while there is no row.
Claimed(s, o) == IF s.seq = -1 THEN s ELSE [s EXCEPT !.owner = o]

\* Mutant: one event too few.
SinceNext(s, n) == {r \in s.rows : r.seq > n + 1}

\* The history handler: what the asker, who knows up to n, lacks.
Since(s, n) == {r \in s.rows : r.seq > n}

\* The rows of a response are handled in the order of their numbers: the next row
\* (one row, as the log they come from is whole).
Firsts(rows) == {r \in rows : \A q \in rows : r.seq <= q.seq}

\* Every number from 0 to seq has exactly one row.
Whole(s) ==
  /\ {r.seq : r \in s.rows} = 0 .. s.seq
  /\ \A q, r \in s.rows : q.seq = r.seq => q = r

=============================================================================
