----------------------------- MODULE Permission -----------------------------
(***************************************************************************)
(* permission/index.ts: the gate between a tool and the user.  ask decides  *)
(* from the rules or puts a request in the table and waits on its Deferred; *)
(* reply answers a request and, for a rejection or an "always", goes on to  *)
(* other requests of the same session; disposing of the instance rejects    *)
(* what is pending.                                                         *)
(*                                                                         *)
(* A step runs to the next suspension.  Publishing an event is one: the     *)
(* table may change, and the fiber may be interrupted, while it lasts.      *)
(*                                                                         *)
(* A pattern stands for a (permission, pattern) pair, and a rule matches    *)
(* the pattern it names.  The rules of a request are given by what its      *)
(* ruleset says of each pattern; approved rules come last and so win.       *)
(***************************************************************************)
EXTENDS Naturals

CONSTANTS
  Asks,          \* calls of ask: one request each
  Replies,       \* calls of reply
  Sessions,
  SessionOf,     \* the session of a request
  Pattern,
  Patterns,      \* the patterns a request asks for
  Always,        \* the patterns an "always" answer to it approves
  Rule,          \* what the request's own ruleset says of a pattern
  MaxDisposals,  \* bound on disposals of the instance
  None

Action == {"allow", "deny", "ask"}

ASSUME PermissionAssumption ==
  /\ SessionOf \in [Asks -> Sessions]
  /\ Patterns \in [Asks -> SUBSET Pattern]
  /\ Always \in [Asks -> SUBSET Pattern]
  /\ Rule \in [Asks -> [Pattern -> Action]]
  /\ MaxDisposals \in Nat
  /\ None \notin Asks

VARIABLES
  approved,   \* patterns of the rules that "always" answers have added
  pending,    \* pending[a]: the place of a in the table, a Map; 0 when absent
  last,       \* the last place given out
  ask,        \* ask[a]: where the call of ask stands
  answer,     \* answer[a]: the Deferred of the request
  reply,      \* reply[r]: where the call of reply stands
  disposals   \* how often the instance has been disposed of

pvars == <<approved, pending, last, ask, answer, reply, disposals>>

Rejections == {"reject", "correct"}
Kind == {"once", "always"} \cup Rejections
Answer == {"granted", "rejected", "corrected"}
Asking == {"publishing", "waiting"}
AskState == {"new", "allowed", "denied", "interrupted"} \cup Asking \cup Answer

\* held: the request taken out of the table whose Deferred is still to be
\* completed.  at: the place the loop over the table has reached.  upto: the
\* last place there was when the call began.  stale: the table it works on
\* belongs to an instance that is gone.
Reply == [pc : {"new", "publishing", "returned", "interrupted", "notFound"},
          kind : Kind \cup {None}, target : Asks \cup {None},
          held : Asks \cup {None}, at : Nat, upto : Nat, stale : BOOLEAN]

NewReply == [pc |-> "new", kind |-> None, target |-> None, held |-> None,
             at |-> 0, upto |-> 0, stale |-> FALSE]

InTable(a) == pending[a] > 0

\* evaluate: the last matching rule, of the ruleset followed by approved.
Evaluate(a, p) == IF p \in approved THEN "allow" ELSE Rule[a][p]

PInit ==
  /\ approved = {}
  /\ pending = [a \in Asks |-> 0]
  /\ last = 0
  /\ ask = [a \in Asks |-> "new"]
  /\ answer = [a \in Asks |-> "none"]
  /\ reply = [r \in Replies |-> NewReply]
  /\ disposals = 0

-----------------------------------------------------------------------------
(* ask *)

\* The rules decide, without a request: one denied pattern denies the call.
Decide(a) ==
  /\ ask[a] = "new"
  /\ \/ /\ \E p \in Patterns[a] : Evaluate(a, p) = "deny"
        /\ ask' = [ask EXCEPT ![a] = "denied"]
     \/ /\ \A p \in Patterns[a] : Evaluate(a, p) = "allow"
        /\ ask' = [ask EXCEPT ![a] = "allowed"]
  /\ UNCHANGED <<approved, pending, last, answer, reply, disposals>>

\* The request enters the table and its event is published.
Enter(a) ==
  /\ ask[a] = "new"
  /\ \A p \in Patterns[a] : Evaluate(a, p) # "deny"
  /\ \E p \in Patterns[a] : Evaluate(a, p) = "ask"
  /\ last' = last + 1
  /\ pending' = [pending EXCEPT ![a] = last + 1]
  /\ ask' = [ask EXCEPT ![a] = "publishing"]
  /\ UNCHANGED <<approved, answer, reply, disposals>>

\* Mutant: a request that has left the table meanwhile counts as granted.
AwaitLooks(a) ==
  /\ ask[a] = "publishing"
  /\ ask' = [ask EXCEPT ![a] = IF InTable(a) THEN "waiting" ELSE "granted"]
  /\ UNCHANGED <<approved, pending, last, answer, reply, disposals>>

\* Asked has been published: the call awaits the Deferred.
Await(a) ==
  /\ ask[a] = "publishing"
  /\ ask' = [ask EXCEPT ![a] = "waiting"]
  /\ UNCHANGED <<approved, pending, last, answer, reply, disposals>>

\* The Deferred is complete: the finalizer deletes the entry, if still there.
Settle(a) ==
  /\ ask[a] = "waiting"
  /\ answer[a] # "none"
  /\ ask' = [ask EXCEPT ![a] = answer[a]]
  /\ pending' = [pending EXCEPT ![a] = 0]
  /\ UNCHANGED <<approved, last, answer, reply, disposals>>

\* The caller's fiber is interrupted.  The finalizer guards the wait only: an
\* interruption while Asked is published leaves the entry in the table.
InterruptAsk(a) ==
  /\ ask[a] \in Asking
  /\ ask' = [ask EXCEPT ![a] = "interrupted"]
  /\ pending' = [pending EXCEPT ![a] = IF ask[a] = "waiting" THEN 0 ELSE @]
  /\ UNCHANGED <<approved, last, answer, reply, disposals>>

-----------------------------------------------------------------------------
(* reply *)

\* reply of a request that is not in the table: NotFoundError.
NotFound(r, a) ==
  /\ reply[r].pc = "new"
  /\ ask[a] # "new"
  /\ ~InTable(a)
  /\ reply' = [reply EXCEPT ![r].pc = "notFound"]
  /\ UNCHANGED <<approved, pending, last, ask, answer, disposals>>

\* reply: the request leaves the table, and Replied is published.
Take(r, a, kind) ==
  /\ reply[r].pc = "new"
  /\ InTable(a)
  /\ pending' = [pending EXCEPT ![a] = 0]
  /\ reply' = [reply EXCEPT ![r] =
       [@ EXCEPT !.pc = "publishing", !.kind = kind, !.target = a,
                 !.held = a, !.upto = last]]
  /\ UNCHANGED <<approved, last, ask, answer, disposals>>

AnswerOf(r) ==
  CASE reply[r].kind \in {"once", "always"} -> "granted"
    [] reply[r].kind = "correct" /\ reply[r].held = reply[r].target -> "corrected"
    [] OTHER -> "rejected"

\* Mutant: the loop is over once the request replied to is answered.
MatchesNone(r, rules) == {}

\* Mutant: the new rules alone decide, and not those added before.
MatchesNew(r, rules) ==
  {i \in Asks :
     /\ pending[i] > reply[r].at
     /\ ~reply[r].stale
     /\ SessionOf[i] = SessionOf[reply[r].target]
     /\ \/ reply[r].kind \in Rejections
        \/ /\ reply[r].kind = "always"
           /\ Patterns[i] \subseteq Always[reply[r].target]}

\* What the loop over the table still finds after the place it has reached:
\* every request of the session for a rejection; for an "always", those that
\* the approved rules, rules, allow by themselves.
Matches(r, rules) ==
  {i \in Asks :
     /\ pending[i] > reply[r].at
     /\ ~reply[r].stale
     /\ SessionOf[i] = SessionOf[reply[r].target]
     /\ \/ reply[r].kind \in Rejections
        \/ reply[r].kind = "always" /\ Patterns[i] \subseteq rules}

\* The rules once the call has gone on: "always" adds its own after its first
\* answer, to a list that nobody reads any more when the instance is gone.
Rules(r) ==
  IF /\ reply[r].kind = "always"
     /\ reply[r].held = reply[r].target
     /\ ~reply[r].stale
  THEN approved \cup Always[reply[r].target] ELSE approved

\* A Deferred keeps its first completion.
First(old, new) == IF old = "none" THEN new ELSE old

\* Replied has been published: the Deferred of the request held is completed
\* (which does nothing if it is already), and the loop goes on to the next
\* request it matches, in the order of the table, or ends.
Complete(r) ==
  LET found == Matches(r, Rules(r))
      a == reply[r].held
  IN /\ reply[r].pc = "publishing"
     /\ answer' = [answer EXCEPT ![a] = First(@, AnswerOf(r))]
     /\ approved' = Rules(r)
     /\ \/ /\ found = {}
           /\ reply' = [reply EXCEPT ![r] = [@ EXCEPT !.pc = "returned", !.held = None]]
           /\ UNCHANGED pending
        \/ \E i \in found :
             /\ \A j \in found : pending[i] <= pending[j]
             /\ reply' = [reply EXCEPT ![r] = [@ EXCEPT !.held = i, !.at = pending[i]]]
             /\ pending' = [pending EXCEPT ![i] = 0]
     /\ UNCHANGED <<last, ask, disposals>>

\* The request that carries the reply is aborted while Replied is published:
\* the request held is in no table and will not be answered by this call.
InterruptReply(r) ==
  /\ reply[r].pc = "publishing"
  /\ reply' = [reply EXCEPT ![r].pc = "interrupted"]
  /\ UNCHANGED <<approved, pending, last, ask, answer, disposals>>

-----------------------------------------------------------------------------
\* Mutant: the table is cleared before its requests are rejected.
DisposeForgets ==
  /\ disposals < MaxDisposals
  /\ pending' = [a \in Asks |-> 0]
  /\ approved' = {}
  /\ reply' = [r \in Replies |->
       IF reply[r].pc = "new" THEN reply[r] ELSE [reply[r] EXCEPT !.stale = TRUE]]
  /\ disposals' = disposals + 1
  /\ UNCHANGED <<last, ask, answer>>

\* The finalizer of the instance's state: every request in the table is
\* rejected; the next call builds an empty table and has no approved rule.
Dispose ==
  /\ disposals < MaxDisposals
  /\ answer' = [a \in Asks |->
       IF InTable(a) THEN First(answer[a], "rejected") ELSE answer[a]]
  /\ pending' = [a \in Asks |-> 0]
  /\ approved' = {}
  /\ reply' = [r \in Replies |->
       IF reply[r].pc = "new" THEN reply[r] ELSE [reply[r] EXCEPT !.stale = TRUE]]
  /\ disposals' = disposals + 1
  /\ UNCHANGED <<last, ask>>

ReplyStep(r) ==
  \/ \E a \in Asks : NotFound(r, a) \/ \E kind \in Kind : Take(r, a, kind)
  \/ Complete(r)
  \/ InterruptReply(r)

AskStep(a) == Decide(a) \/ Enter(a) \/ Await(a) \/ Settle(a) \/ InterruptAsk(a)

PNext ==
  \/ \E a \in Asks : AskStep(a)
  \/ \E r \in Replies : ReplyStep(r)
  \/ Dispose

PermissionSpec == PInit /\ [][PNext]_pvars

-----------------------------------------------------------------------------
PTypeOK ==
  /\ approved \subseteq Pattern
  /\ pending \in [Asks -> Nat]
  /\ last \in Nat
  /\ ask \in [Asks -> AskState]
  /\ answer \in [Asks -> Answer \cup {"none"}]
  /\ reply \in [Replies -> Reply]
  /\ disposals \in 0..MaxDisposals

\* A call that waits can still be answered: it is in the table, or its Deferred
\* is complete, or a reply holds it.  Nothing else loses a request, whatever
\* replies, disposals and interruptions overlap; only a reply that is itself
\* interrupted can.
NoForgottenAsk ==
  \A a \in Asks : ask[a] \in Asking =>
    \/ InTable(a)
    \/ answer[a] # "none"
    \/ \E r \in Replies : /\ reply[r].held = a
                          /\ reply[r].pc \in {"publishing", "interrupted"}

\* Two replies never hold the same request, so that none is answered twice.
HeldOnce ==
  \A r, q \in Replies :
    reply[r].held # None /\ reply[r].held = reply[q].held => r = q

\* A rejection that has returned has taken with it every request its session
\* had in the table when it came, the requests of parallel tool calls among
\* them, whatever other replies did to the table meanwhile.
RejectionIsWhole ==
  \A r \in Replies : reply[r].pc = "returned" /\ reply[r].kind \in Rejections =>
    \A a \in Asks : /\ InTable(a)
                    /\ SessionOf[a] = SessionOf[reply[r].target]
                    => pending[a] > reply[r].upto

\* The patterns that the replies of a session have added to the rules.
Added(s) ==
  UNION {Always[reply[r].target] :
           r \in {q \in Replies : /\ reply[q].kind = "always"
                                  /\ reply[q].held # reply[q].target
                                  /\ ~reply[q].stale
                                  /\ SessionOf[reply[q].target] = s}}

\* A request that the answers "always" of its own session allow does not stay
\* in the table: some reply of the session has still to reach it (unless that
\* reply was interrupted), even when several replies together allow it.
AlwaysReaches ==
  \A a \in Asks :
    InTable(a) /\ Patterns[a] \subseteq Added(SessionOf[a]) =>
      \E r \in Replies : /\ reply[r].kind = "always"
                         /\ reply[r].pc \in {"publishing", "interrupted"}
                         /\ ~reply[r].stale
                         /\ reply[r].at < pending[a]
                         /\ SessionOf[reply[r].target] = SessionOf[a]

\* The caller's side of the gate: publishing is part of waiting.
Gate == INSTANCE PermissionGate WITH
  CanInterrupt <- Asks,
  ask <- [a \in Asks |-> IF ask[a] = "publishing" THEN "waiting" ELSE ask[a]]

\* The table, the replies and the disposals together do what the gate promises:
\* one answer for each request, for good, and its caller is told that one.
ImplementsGate == Gate!GateSpec

=============================================================================
