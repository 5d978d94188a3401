-------------------------- MODULE PermissionProofs --------------------------
(***************************************************************************)
(* Permission.tla for any number of requests, replies and disposals, any     *)
(* sessions and any rules.  The table, the Deferreds and the replies are     *)
(* tied together by one invariant: a request is in the table, or held by one *)
(* reply, or answered, and a reply knows which part of the table it has left *)
(* behind.                                                                   *)
(***************************************************************************)
EXTENDS Permission, TLAPS

Begun(r) == reply[r].pc \in {"publishing", "returned", "interrupted"}

\* What a reply carries: nothing before it has found its request, and while it
\* loops over the table the request it holds.
ReplyOK ==
  \A r \in Replies :
    /\ Begun(r) => reply[r].kind \in Kind /\ reply[r].target \in Asks
    /\ reply[r].pc = "new" => reply[r] = NewReply
    /\ ~Begun(r) => reply[r].kind = None /\ reply[r].target = None /\ reply[r].held = None
    /\ reply[r].pc = "publishing" => reply[r].held \in Asks
    /\ reply[r].pc = "returned" => reply[r].held = None
    /\ Begun(r) /\ reply[r].held = reply[r].target => reply[r].at = 0

\* The request replied to has left the table for good.
TargetLeft ==
  \A r \in Replies : Begun(r) =>
    ask[reply[r].target] # "new" /\ pending[reply[r].target] = 0

\* A request in the table or held by a reply has no answer, and its caller waits
\* or has gone.
Unanswered(a) == ask[a] \in Asking \cup {"interrupted"} /\ answer[a] = "none"

Fresh == \A a \in Asks : ask[a] = "new" => answer[a] = "none"

Open == \A a \in Asks : InTable(a) => Unanswered(a)

Held ==
  \A r \in Replies : reply[r].held # None =>
    Unanswered(reply[r].held) /\ pending[reply[r].held] = 0

\* Places are given out once, in order.
Places ==
  /\ \A a \in Asks : pending[a] <= last
  /\ \A a, b \in Asks : InTable(a) /\ pending[a] = pending[b] => a = b

Reached == \A r \in Replies : reply[r].at <= last /\ reply[r].upto <= last

\* What is in the table has come after every reply that belongs to an earlier
\* instance, and after the place to which a rejection has swept its session.
Swept ==
  \A r \in Replies, a \in Asks : InTable(a) =>
    /\ Begun(r) /\ reply[r].stale => pending[a] > reply[r].upto
    /\ /\ reply[r].pc = "publishing" /\ ~reply[r].stale
       /\ reply[r].kind \in Rejections
       /\ SessionOf[a] = SessionOf[reply[r].target]
       => pending[a] > reply[r].at

\* What the answers "always" of the living instance add is approved.
AddedApproved == \A s \in Sessions : Added(s) \subseteq approved

IInv ==
  /\ PTypeOK /\ ReplyOK /\ TargetLeft /\ Fresh /\ Open /\ Held
  /\ Places /\ Reached /\ Swept
  /\ HeldOnce /\ NoForgottenAsk /\ RejectionIsWhole
  /\ AddedApproved /\ AlwaysReaches

USE PermissionAssumption

-----------------------------------------------------------------------------
\* The range of each field of a reply.
LEMMA Fields ==
  ASSUME PTypeOK, NEW r \in Replies
  PROVE  /\ reply[r].kind \in Kind \cup {None} /\ reply[r].target \in Asks \cup {None}
         /\ reply[r].held \in Asks \cup {None} /\ reply[r].stale \in BOOLEAN
         /\ reply[r].at \in Nat /\ reply[r].upto \in Nat
BY DEF PTypeOK, Reply

(* What each action does, entry by entry. *)

LEMMA DecideEffect ==
  ASSUME PTypeOK, NEW a \in Asks, Decide(a)
  PROVE  /\ ask[a] = "new" /\ ask'[a] \in {"denied", "allowed"}
         /\ \A b \in Asks : b # a => ask'[b] = ask[b]
         /\ ask' \in [Asks -> AskState]
         /\ UNCHANGED <<approved, pending, last, answer, reply, disposals>>
BY DEF PTypeOK, Decide, AskState

LEMMA EnterEffect ==
  ASSUME PTypeOK, NEW a \in Asks, Enter(a)
  PROVE  /\ ask[a] = "new" /\ ask'[a] = "publishing"
         /\ \A b \in Asks : b # a => ask'[b] = ask[b]
         /\ ask' \in [Asks -> AskState]
         /\ last' = last + 1 /\ pending'[a] = last + 1
         /\ \A b \in Asks : b # a => pending'[b] = pending[b]
         /\ pending' \in [Asks -> Nat]
         /\ ~(Patterns[a] \subseteq approved)
         /\ UNCHANGED <<approved, answer, reply, disposals>>
BY DEF PTypeOK, Enter, AskState, Asking, Evaluate

LEMMA AwaitEffect ==
  ASSUME PTypeOK, NEW a \in Asks, Await(a)
  PROVE  /\ ask[a] = "publishing" /\ ask'[a] = "waiting"
         /\ \A b \in Asks : b # a => ask'[b] = ask[b]
         /\ ask' \in [Asks -> AskState]
         /\ UNCHANGED <<approved, pending, last, answer, reply, disposals>>
BY DEF PTypeOK, Await, AskState, Asking

LEMMA SettleEffect ==
  ASSUME PTypeOK, NEW a \in Asks, Settle(a)
  PROVE  /\ ask[a] = "waiting" /\ answer[a] \in Answer /\ ask'[a] = answer[a]
         /\ \A b \in Asks : b # a => ask'[b] = ask[b]
         /\ ask' \in [Asks -> AskState]
         /\ pending'[a] = 0
         /\ \A b \in Asks : b # a => pending'[b] = pending[b]
         /\ pending' \in [Asks -> Nat]
         /\ UNCHANGED <<approved, last, answer, reply, disposals>>
BY DEF PTypeOK, Settle, AskState

LEMMA InterruptAskEffect ==
  ASSUME PTypeOK, NEW a \in Asks, InterruptAsk(a)
  PROVE  /\ ask[a] \in Asking /\ ask'[a] = "interrupted"
         /\ \A b \in Asks : b # a => ask'[b] = ask[b]
         /\ ask' \in [Asks -> AskState]
         /\ pending'[a] \in {0, pending[a]}
         /\ \A b \in Asks : b # a => pending'[b] = pending[b]
         /\ pending' \in [Asks -> Nat]
         /\ UNCHANGED <<approved, last, answer, reply, disposals>>
BY DEF PTypeOK, InterruptAsk, AskState, Asking

\* The edits that the actions make to what a reply carries.
LEMMA Edits ==
  ASSUME NEW x \in Reply
  PROVE  /\ [x EXCEPT !.pc = "notFound"] \in Reply
         /\ [x EXCEPT !.pc = "interrupted"] \in Reply
         /\ [x EXCEPT !.pc = "returned", !.held = None] \in Reply
         /\ [x EXCEPT !.stale = TRUE] \in Reply
         /\ \A i \in Asks, n \in Nat : [x EXCEPT !.held = i, !.at = n] \in Reply
         /\ \A a \in Asks, k \in Kind, n \in Nat :
              [x EXCEPT !.pc = "publishing", !.kind = k, !.target = a,
                        !.held = a, !.upto = n] \in Reply
BY DEF Reply

\* What the actions do to them, field by field.
LEMMA NotFoundEffect ==
  ASSUME PTypeOK, NEW r \in Replies, NEW a, NotFound(r, a)
  PROVE  /\ reply[r].pc = "new"
         /\ UNCHANGED <<approved, pending, last, ask, answer, disposals>>
         /\ reply' \in [Replies -> Reply]
         /\ \A q \in Replies : q # r => reply'[q] = reply[q]
         /\ reply'[r].pc = "notFound" /\ reply'[r].kind = reply[r].kind
         /\ reply'[r].target = reply[r].target /\ reply'[r].held = reply[r].held
         /\ reply'[r].at = reply[r].at /\ reply'[r].upto = reply[r].upto
         /\ reply'[r].stale = reply[r].stale
<1>. DEFINE x == reply[r]
            y == [x EXCEPT !.pc = "notFound"]
<1>1. x \in Reply
  BY DEF PTypeOK
<1>2. reply \in [Replies -> Reply] /\ reply' = [reply EXCEPT ![r] = y]
  BY DEF PTypeOK, NotFound
<1>3. y \in Reply
  BY <1>1, Edits
<1>4. /\ y.pc = "notFound" /\ y.kind = x.kind /\ y.target = x.target
      /\ y.held = x.held /\ y.at = x.at /\ y.upto = x.upto /\ y.stale = x.stale
  BY <1>1 DEF Reply
<1>. HIDE DEF y
<1>5. pending \in [Asks -> Nat]
  BY DEF PTypeOK
<1>. QED
  BY <1>2, <1>3, <1>4, <1>5 DEF NotFound

LEMMA TakeEffect ==
  ASSUME PTypeOK, NEW r \in Replies, NEW a \in Asks, NEW kind \in Kind, Take(r, a, kind)
  PROVE  /\ reply[r].pc = "new" /\ InTable(a)
         /\ pending'[a] = 0 /\ pending' \in [Asks -> Nat]
         /\ \A b \in Asks : b # a => pending'[b] = pending[b]
         /\ UNCHANGED <<approved, last, ask, answer, disposals>>
         /\ reply' \in [Replies -> Reply]
         /\ \A q \in Replies : q # r => reply'[q] = reply[q]
         /\ reply'[r].pc = "publishing" /\ reply'[r].kind = kind
         /\ reply'[r].target = a /\ reply'[r].held = a
         /\ reply'[r].at = reply[r].at /\ reply'[r].upto = last
         /\ reply'[r].stale = reply[r].stale
<1>. DEFINE x == reply[r]
            y == [x EXCEPT !.pc = "publishing", !.kind = kind, !.target = a,
                           !.held = a, !.upto = last]
<1>1. x \in Reply /\ last \in Nat
  BY DEF PTypeOK
<1>2. reply \in [Replies -> Reply] /\ reply' = [reply EXCEPT ![r] = y]
  BY DEF PTypeOK, Take
<1>3. y \in Reply
  BY <1>1, Edits
<1>4. /\ y.pc = "publishing" /\ y.kind = kind /\ y.target = a
      /\ y.held = a /\ y.at = x.at /\ y.upto = last /\ y.stale = x.stale
  BY <1>1 DEF Reply
<1>. HIDE DEF y
<1>5. pending \in [Asks -> Nat]
  BY DEF PTypeOK
<1>. QED
  BY <1>2, <1>3, <1>4, <1>5 DEF Take

LEMMA InterruptReplyEffect ==
  ASSUME PTypeOK, NEW r \in Replies, InterruptReply(r)
  PROVE  /\ reply[r].pc = "publishing"
         /\ UNCHANGED <<approved, pending, last, ask, answer, disposals>>
         /\ reply' \in [Replies -> Reply]
         /\ \A q \in Replies : q # r => reply'[q] = reply[q]
         /\ reply'[r].pc = "interrupted" /\ reply'[r].kind = reply[r].kind
         /\ reply'[r].target = reply[r].target /\ reply'[r].held = reply[r].held
         /\ reply'[r].at = reply[r].at /\ reply'[r].upto = reply[r].upto
         /\ reply'[r].stale = reply[r].stale
<1>. DEFINE x == reply[r]
            y == [x EXCEPT !.pc = "interrupted"]
<1>1. x \in Reply
  BY DEF PTypeOK
<1>2. reply \in [Replies -> Reply] /\ reply' = [reply EXCEPT ![r] = y]
  BY DEF PTypeOK, InterruptReply
<1>3. y \in Reply
  BY <1>1, Edits
<1>4. /\ y.pc = "interrupted" /\ y.kind = x.kind /\ y.target = x.target
      /\ y.held = x.held /\ y.at = x.at /\ y.upto = x.upto /\ y.stale = x.stale
  BY <1>1 DEF Reply
<1>. HIDE DEF y
<1>5. pending \in [Asks -> Nat]
  BY DEF PTypeOK
<1>. QED
  BY <1>2, <1>3, <1>4, <1>5 DEF InterruptReply

LEMMA DisposeEffect ==
  ASSUME PTypeOK, Dispose
  PROVE  /\ \A a \in Asks : /\ pending'[a] = 0
                            /\ answer'[a] = IF InTable(a) THEN First(answer[a], "rejected")
                                            ELSE answer[a]
         /\ pending' \in [Asks -> Nat] /\ answer' \in [Asks -> Answer \cup {"none"}]
         /\ approved' = {} /\ disposals' \in 0..MaxDisposals
         /\ UNCHANGED <<last, ask>>
         /\ reply' \in [Replies -> Reply]
         /\ \A r \in Replies :
              /\ reply'[r].pc = reply[r].pc /\ reply'[r].kind = reply[r].kind
              /\ reply'[r].target = reply[r].target /\ reply'[r].held = reply[r].held
              /\ reply'[r].at = reply[r].at /\ reply'[r].upto = reply[r].upto
              /\ reply'[r].stale = (reply[r].pc # "new" \/ reply[r].stale)
              /\ reply[r].pc = "new" => reply'[r] = reply[r]
<1>1. \A x \in Reply : /\ [x EXCEPT !.stale = TRUE] \in Reply
                       /\ [x EXCEPT !.stale = TRUE].pc = x.pc
                       /\ [x EXCEPT !.stale = TRUE].kind = x.kind
                       /\ [x EXCEPT !.stale = TRUE].target = x.target
                       /\ [x EXCEPT !.stale = TRUE].held = x.held
                       /\ [x EXCEPT !.stale = TRUE].at = x.at
                       /\ [x EXCEPT !.stale = TRUE].upto = x.upto
                       /\ [x EXCEPT !.stale = TRUE].stale
  BY DEF Reply
<1>2. /\ reply \in [Replies -> Reply]
      /\ \A x \in Reply : x.stale \in BOOLEAN
  BY DEF PTypeOK, Reply
<1>3. \A r \in Replies : reply'[r] = IF reply[r].pc = "new" THEN reply[r]
                                     ELSE [reply[r] EXCEPT !.stale = TRUE]
  BY DEF Dispose
<1>4. reply' = [r \in Replies |-> reply'[r]]
  BY <1>3 DEF Dispose
<1>5. ASSUME NEW r \in Replies
      PROVE  /\ reply'[r] \in Reply
             /\ reply'[r].pc = reply[r].pc /\ reply'[r].kind = reply[r].kind
             /\ reply'[r].target = reply[r].target /\ reply'[r].held = reply[r].held
             /\ reply'[r].at = reply[r].at /\ reply'[r].upto = reply[r].upto
             /\ reply'[r].stale = (reply[r].pc # "new" \/ reply[r].stale)
             /\ reply[r].pc = "new" => reply'[r] = reply[r]
  <2>1. reply[r] \in Reply
    BY <1>2
  <2>2. CASE reply[r].pc = "new"
    BY <1>2, <1>3, <2>1, <2>2
  <2>3. CASE reply[r].pc # "new"
    <3>. DEFINE y == [reply[r] EXCEPT !.stale = TRUE]
    <3>1. reply'[r] = y
      BY <1>3, <2>3
    <3>2. /\ y \in Reply /\ y.pc = reply[r].pc /\ y.kind = reply[r].kind
          /\ y.target = reply[r].target /\ y.held = reply[r].held
          /\ y.at = reply[r].at /\ y.upto = reply[r].upto /\ y.stale = TRUE
      <4>. HIDE DEF y
      <4>1. /\ y \in Reply /\ y.pc = reply[r].pc /\ y.kind = reply[r].kind
            /\ y.target = reply[r].target /\ y.held = reply[r].held
            /\ y.at = reply[r].at /\ y.upto = reply[r].upto /\ y.stale
        BY <1>1, <2>1 DEF y
      <4>2. y.stale \in BOOLEAN
        BY <1>2, <4>1
      <4>. QED
        BY <4>1, <4>2
    <3>. HIDE DEF y
    <3>. QED
      BY <2>3, <3>1, <3>2
  <2>. QED
    BY <2>2, <2>3
<1>6. answer' \in [Asks -> Answer \cup {"none"}]
  BY DEF PTypeOK, Dispose, First, Answer
<1>7. /\ pending' \in [Asks -> Nat] /\ approved' = {} /\ disposals' \in 0..MaxDisposals
      /\ UNCHANGED <<last, ask>>
      /\ \A a \in Asks : /\ pending'[a] = 0
                         /\ answer'[a] = IF InTable(a) THEN First(answer[a], "rejected")
                                         ELSE answer[a]
  BY DEF PTypeOK, Dispose
<1>. QED
  BY <1>4, <1>5, <1>6, <1>7

\* A completion answers the request held, and ends the reply or moves it on.
LEMMA CompleteEffect ==
  ASSUME IInv, NEW r \in Replies, Complete(r)
  PROVE  /\ reply[r].pc = "publishing"
         /\ AnswerOf(r) \in Answer
         /\ reply[r].held \in Asks
         /\ answer' \in [Asks -> Answer \cup {"none"}]
         /\ answer'[reply[r].held] = AnswerOf(r)
         /\ \A a \in Asks : a # reply[r].held => answer'[a] = answer[a]
         /\ approved' = Rules(r)
         /\ UNCHANGED <<last, ask, disposals>>
         /\ reply' \in [Replies -> Reply]
         /\ \A q \in Replies : q # r => reply'[q] = reply[q]
         /\ reply'[r].kind = reply[r].kind /\ reply'[r].target = reply[r].target
         /\ reply'[r].upto = reply[r].upto /\ reply'[r].stale = reply[r].stale
         /\ \/ /\ Matches(r, Rules(r)) = {}
               /\ reply'[r].pc = "returned" /\ reply'[r].held = None
               /\ reply'[r].at = reply[r].at
               /\ UNCHANGED pending
            \/ \E i \in Matches(r, Rules(r)) :
                 /\ i \in Asks /\ InTable(i)
                 /\ \A j \in Matches(r, Rules(r)) : pending[i] <= pending[j]
                 /\ reply'[r].pc = "publishing" /\ reply'[r].held = i
                 /\ reply'[r].at = pending[i]
                 /\ pending' \in [Asks -> Nat] /\ pending'[i] = 0
                 /\ \A a \in Asks : a # i => pending'[a] = pending[a]
<1>. DEFINE x == reply[r]
            found == Matches(r, Rules(r))
            Ended == [x EXCEPT !.pc = "returned", !.held = None]
            Moved(i) == [x EXCEPT !.held = i, !.at = pending[i]]
<1>1. /\ reply \in [Replies -> Reply] /\ x \in Reply
      /\ pending \in [Asks -> Nat] /\ found \subseteq Asks
  BY DEF IInv, PTypeOK, Matches
<1>2. x.pc = "publishing"
  BY DEF Complete
<1>3. x.held \in Asks /\ answer[x.held] = "none"
  <2>1. ReplyOK /\ Held
    BY DEF IInv
  <2>2. x.held \in Asks
    BY <1>2, <2>1 DEF ReplyOK
  <2>. QED
    BY <2>1, <2>2 DEF Held, Unanswered
<1>4. AnswerOf(r) \in Answer
  BY DEF AnswerOf, Answer
<1>5. /\ answer' \in [Asks -> Answer \cup {"none"}]
      /\ answer'[x.held] = AnswerOf(r)
      /\ \A a \in Asks : a # x.held => answer'[a] = answer[a]
      /\ approved' = Rules(r)
      /\ UNCHANGED <<last, ask, disposals>>
  <2>1. answer \in [Asks -> Answer \cup {"none"}]
    BY DEF IInv, PTypeOK
  <2>2. answer' = [answer EXCEPT ![x.held] = AnswerOf(r)]
    BY <1>3 DEF Complete, First
  <2>3. approved' = Rules(r) /\ UNCHANGED <<last, ask, disposals>>
    BY DEF Complete
  <2>. QED
    BY <1>3, <1>4, <2>1, <2>2, <2>3
<1>a. Ended \in Reply
  BY <1>1, Edits
<1>6. /\ Ended \in Reply
      /\ Ended.pc = "returned" /\ Ended.held = None /\ Ended.at = x.at
      /\ Ended.kind = x.kind /\ Ended.target = x.target
      /\ Ended.upto = x.upto /\ Ended.stale = x.stale
  BY <1>1, <1>a DEF Reply
<1>7. ASSUME NEW i \in Asks
      PROVE  /\ Moved(i) \in Reply
             /\ Moved(i).pc = x.pc /\ Moved(i).held = i /\ Moved(i).at = pending[i]
             /\ Moved(i).kind = x.kind /\ Moved(i).target = x.target
             /\ Moved(i).upto = x.upto /\ Moved(i).stale = x.stale
  <2>1. pending[i] \in Nat
    BY <1>1
  <2>2. Moved(i) \in Reply
    BY <1>1, <2>1, Edits
  <2>. QED
    BY <1>1, <2>2 DEF Reply
<1>8. \/ /\ found = {} /\ reply' = [reply EXCEPT ![r] = Ended] /\ UNCHANGED pending
      \/ \E i \in found : /\ \A j \in found : pending[i] <= pending[j]
                          /\ reply' = [reply EXCEPT ![r] = Moved(i)]
                          /\ pending' = [pending EXCEPT ![i] = 0]
  BY <1>1 DEF Complete
<1>. HIDE DEF Ended, Moved
<1>9. CASE found = {} /\ reply' = [reply EXCEPT ![r] = Ended] /\ UNCHANGED pending
  BY <1>1, <1>2, <1>3, <1>4, <1>5, <1>6, <1>9
<1>10. CASE \E i \in found : /\ \A j \in found : pending[i] <= pending[j]
                             /\ reply' = [reply EXCEPT ![r] = Moved(i)]
                             /\ pending' = [pending EXCEPT ![i] = 0]
  <2>1. PICK i \in found : /\ \A j \in found : pending[i] <= pending[j]
                           /\ reply' = [reply EXCEPT ![r] = Moved(i)]
                           /\ pending' = [pending EXCEPT ![i] = 0]
    BY <1>10
  <2>2. i \in Asks /\ InTable(i)
    BY <1>1, <2>1 DEF Matches, InTable, IInv, PTypeOK, Reply
  <2>3. /\ reply' \in [Replies -> Reply] /\ reply'[r] = Moved(i)
        /\ \A q \in Replies : q # r => reply'[q] = reply[q]
    BY <1>1, <1>7, <2>1, <2>2
  <2>. QED
    BY <1>1, <1>2, <1>3, <1>4, <1>5, <1>7, <2>1, <2>2, <2>3
<1>. QED
  BY <1>8, <1>9, <1>10

-----------------------------------------------------------------------------
(* Every step preserves each part of the invariant. *)

\* Only a new request gets a place; every other step leaves a request at its
\* place or takes it out of the table.
Shrinks == last' = last /\ \A x \in Asks : pending'[x] = pending[x] \/ pending'[x] = 0

LEMMA TableStep ==
  ASSUME IInv, [PNext]_pvars, ~ \E a \in Asks : Enter(a)
  PROVE  Shrinks
<1>a. PTypeOK
  BY DEF IInv
<1>1. ASSUME NEW a \in Asks, Decide(a) PROVE Shrinks
  BY <1>1, <1>a, DecideEffect DEF Shrinks, PTypeOK
<1>3. ASSUME NEW a \in Asks, Await(a) PROVE Shrinks
  BY <1>3, <1>a, AwaitEffect DEF Shrinks, PTypeOK
<1>4. ASSUME NEW a \in Asks, Settle(a) PROVE Shrinks
  BY <1>4, <1>a, SettleEffect DEF Shrinks, PTypeOK
<1>5. ASSUME NEW a \in Asks, InterruptAsk(a) PROVE Shrinks
  BY <1>5, <1>a, InterruptAskEffect DEF Shrinks, PTypeOK
<1>6. ASSUME NEW r \in Replies, NEW a \in Asks, NotFound(r, a) PROVE Shrinks
  BY <1>6, <1>a, NotFoundEffect DEF Shrinks, PTypeOK
<1>7. ASSUME NEW r \in Replies, NEW a \in Asks, NEW kind \in Kind, Take(r, a, kind) PROVE Shrinks
  BY <1>7, <1>a, TakeEffect DEF Shrinks, PTypeOK
<1>8. ASSUME NEW r \in Replies, Complete(r) PROVE Shrinks
  BY <1>8, <1>a, CompleteEffect DEF Shrinks, PTypeOK
<1>9. ASSUME NEW r \in Replies, InterruptReply(r) PROVE Shrinks
  BY <1>9, <1>a, InterruptReplyEffect DEF Shrinks, PTypeOK
<1>10. CASE Dispose
  BY <1>10, <1>a, DisposeEffect DEF Shrinks, PTypeOK
<1>11. CASE UNCHANGED pvars
  BY <1>11, <1>a DEF Shrinks, PTypeOK, pvars
<1>. QED
  BY <1>1, <1>3, <1>4, <1>5, <1>6, <1>7, <1>8, <1>9, <1>10, <1>11 DEF PNext, AskStep, ReplyStep

LEMMA FreshStep ==
  ASSUME IInv, [PNext]_pvars
  PROVE  Fresh'
<1>a. PTypeOK /\ ReplyOK /\ Fresh /\ Open /\ Held
  BY DEF IInv
<1>1. ASSUME NEW a \in Asks, Decide(a) PROVE Fresh'
  BY <1>1, <1>a, DecideEffect DEF Fresh
<1>2. ASSUME NEW a \in Asks, Enter(a) PROVE Fresh'
  BY <1>2, <1>a, EnterEffect DEF Fresh
<1>3. ASSUME NEW a \in Asks, Await(a) PROVE Fresh'
  BY <1>3, <1>a, AwaitEffect DEF Fresh
<1>4. ASSUME NEW a \in Asks, Settle(a) PROVE Fresh'
  <2>1. ask'[a] # "new"
    BY <1>4, <1>a, SettleEffect DEF Answer
  <2>. QED
    BY <1>4, <1>a, <2>1, SettleEffect DEF Fresh
<1>5. ASSUME NEW a \in Asks, InterruptAsk(a) PROVE Fresh'
  BY <1>5, <1>a, InterruptAskEffect DEF Fresh
<1>6. ASSUME NEW r \in Replies, NEW a \in Asks, NotFound(r, a) PROVE Fresh'
  BY <1>6, <1>a, NotFoundEffect DEF Fresh
<1>7. ASSUME NEW r \in Replies, NEW a \in Asks, NEW kind \in Kind, Take(r, a, kind) PROVE Fresh'
  BY <1>7, <1>a, TakeEffect DEF Fresh
<1>8. ASSUME NEW r \in Replies, Complete(r) PROVE Fresh'
  BY <1>8, <1>a, CompleteEffect DEF Fresh, Held, Unanswered, Asking
<1>9. ASSUME NEW r \in Replies, InterruptReply(r) PROVE Fresh'
  BY <1>9, <1>a, InterruptReplyEffect DEF Fresh
<1>10. CASE Dispose
  BY SMTT(20), <1>10, <1>a, DisposeEffect DEF Fresh, Open, Unanswered, Asking
<1>11. CASE UNCHANGED pvars
  BY <1>11, <1>a DEF Fresh, pvars
<1>. QED
  BY <1>1, <1>2, <1>3, <1>4, <1>5, <1>6, <1>7, <1>8, <1>9, <1>10, <1>11 DEF PNext, AskStep, ReplyStep

LEMMA OpenStep ==
  ASSUME IInv, [PNext]_pvars
  PROVE  Open'
<1>a. PTypeOK /\ ReplyOK /\ Fresh /\ Open /\ Held
  BY DEF IInv
<1>f. /\ pending \in [Asks -> Nat] /\ last \in Nat
      /\ \A r \in Replies : /\ reply[r].held \in Asks \cup {None}
                            /\ reply[r].target \in Asks \cup {None}
                            /\ reply[r].at \in Nat /\ reply[r].upto \in Nat
  BY <1>a, Fields DEF PTypeOK
<1>1. ASSUME NEW a \in Asks, Decide(a) PROVE Open'
  BY <1>1, <1>a, DecideEffect DEF Open, Unanswered, InTable, Asking
<1>2. ASSUME NEW a \in Asks, Enter(a) PROVE Open'
  <2>1. answer[a] = "none"
    BY <1>2, <1>a, EnterEffect DEF Fresh
  <2>. QED
    BY <1>2, <1>a, <2>1, EnterEffect DEF Open, Unanswered, InTable, Asking
<1>3. ASSUME NEW a \in Asks, Await(a) PROVE Open'
  BY <1>3, <1>a, AwaitEffect DEF Open, Unanswered, InTable, Asking
<1>4. ASSUME NEW a \in Asks, Settle(a) PROVE Open'
  BY <1>4, <1>a, SettleEffect DEF Open, Unanswered, InTable, Asking
<1>5. ASSUME NEW a \in Asks, InterruptAsk(a) PROVE Open'
  BY <1>5, <1>a, InterruptAskEffect DEF Open, Unanswered, InTable, Asking
<1>6. ASSUME NEW r \in Replies, NEW a \in Asks, NotFound(r, a) PROVE Open'
  BY <1>6, <1>a, NotFoundEffect DEF Open, Unanswered, InTable, Asking
<1>7. ASSUME NEW r \in Replies, NEW a \in Asks, NEW kind \in Kind, Take(r, a, kind) PROVE Open'
  BY <1>7, <1>a, TakeEffect DEF Open, Unanswered, InTable, Asking
<1>8. ASSUME NEW r \in Replies, Complete(r) PROVE Open'
  <2>1. reply[r].held \in Asks /\ pending[reply[r].held] = 0
    BY <1>8, <1>a, CompleteEffect, PermissionAssumption DEF Held
  <2>2. Shrinks
    BY <1>8, CompleteEffect DEF Shrinks
  <2>3. ASSUME NEW a \in Asks, InTable(a)'
        PROVE  Unanswered(a)'
    <3>1. pending[a] = pending'[a] /\ pending[a] > 0
      BY <1>f, <2>2, <2>3 DEF Shrinks, InTable
    <3>2. a # reply[r].held
      BY <2>1, <3>1
    <3>3. Unanswered(a)
      BY <1>a, <3>1 DEF Open, InTable
    <3>. QED
      BY <1>8, <3>2, <3>3, CompleteEffect DEF Unanswered
  <2>. QED
    BY <2>3 DEF Open
<1>9. ASSUME NEW r \in Replies, InterruptReply(r) PROVE Open'
  BY <1>9, <1>a, InterruptReplyEffect DEF Open, Unanswered, InTable, Asking
<1>10. CASE Dispose
  BY <1>10, <1>a, DisposeEffect DEF Open, Unanswered, InTable, Asking
<1>11. CASE UNCHANGED pvars
  BY <1>11, <1>a DEF Open, Unanswered, InTable, Asking, pvars
<1>. QED
  BY <1>1, <1>2, <1>3, <1>4, <1>5, <1>6, <1>7, <1>8, <1>9, <1>10, <1>11 DEF PNext, AskStep, ReplyStep

LEMMA HeldStep ==
  ASSUME IInv, [PNext]_pvars
  PROVE  Held'
<1>a. PTypeOK /\ ReplyOK /\ Open /\ Held /\ HeldOnce
  BY DEF IInv
<1>f. /\ pending \in [Asks -> Nat] /\ last \in Nat
      /\ \A r \in Replies : /\ reply[r].held \in Asks \cup {None}
                            /\ reply[r].target \in Asks \cup {None}
                            /\ reply[r].at \in Nat /\ reply[r].upto \in Nat
  BY <1>a, Fields DEF PTypeOK
<1>1. ASSUME NEW a \in Asks, Decide(a) PROVE Held'
  <2>1. ASSUME NEW q \in Replies, reply'[q].held # None
        PROVE  (Unanswered(reply[q].held) /\ pending[reply[q].held] = 0)'
    <3>1. reply'[q] = reply[q] /\ reply[q].held \in Asks
      BY <1>1, <1>a, <1>f, <1>f, <2>1, DecideEffect
    <3>2. Unanswered(reply[q].held) /\ pending[reply[q].held] = 0
      BY <1>a, <2>1, <3>1 DEF Held
    <3>. QED
      BY <1>1, <1>a, <1>f, <3>1, <3>2, DecideEffect DEF Unanswered, Asking, Answer
  <2>. QED
    BY <2>1 DEF Held
<1>2. ASSUME NEW a \in Asks, Enter(a) PROVE Held'
  BY <1>2, <1>a, <1>f, EnterEffect DEF Held, Open, Unanswered, InTable, Asking
<1>3. ASSUME NEW a \in Asks, Await(a) PROVE Held'
  <2>1. ASSUME NEW q \in Replies, reply'[q].held # None
        PROVE  (Unanswered(reply[q].held) /\ pending[reply[q].held] = 0)'
    <3>1. reply'[q] = reply[q] /\ reply[q].held \in Asks
      BY <1>3, <1>a, <1>f, <1>f, <2>1, AwaitEffect
    <3>2. Unanswered(reply[q].held) /\ pending[reply[q].held] = 0
      BY <1>a, <2>1, <3>1 DEF Held
    <3>. QED
      BY <1>3, <1>a, <1>f, <3>1, <3>2, AwaitEffect DEF Unanswered, Asking, Answer
  <2>. QED
    BY <2>1 DEF Held
<1>4. ASSUME NEW a \in Asks, Settle(a) PROVE Held'
  <2>1. ASSUME NEW q \in Replies, reply'[q].held # None
        PROVE  (Unanswered(reply[q].held) /\ pending[reply[q].held] = 0)'
    <3>1. reply'[q] = reply[q] /\ reply[q].held \in Asks
      BY <1>4, <1>a, <1>f, <1>f, <2>1, SettleEffect
    <3>2. Unanswered(reply[q].held) /\ pending[reply[q].held] = 0
      BY <1>a, <2>1, <3>1 DEF Held
    <3>. QED
      BY <1>4, <1>a, <1>f, <3>1, <3>2, SettleEffect DEF Unanswered, Asking, Answer
  <2>. QED
    BY <2>1 DEF Held
<1>5. ASSUME NEW a \in Asks, InterruptAsk(a) PROVE Held'
  BY <1>5, <1>a, <1>f, InterruptAskEffect DEF Held, Open, Unanswered, InTable, Asking
<1>6. ASSUME NEW r \in Replies, NEW a \in Asks, NotFound(r, a) PROVE Held'
  BY <1>6, <1>a, <1>f, NotFoundEffect DEF Held, Open, Unanswered, InTable, Asking
<1>7. ASSUME NEW r \in Replies, NEW a \in Asks, NEW kind \in Kind, Take(r, a, kind) PROVE Held'
  BY <1>7, <1>a, <1>f, TakeEffect DEF Held, Open, Unanswered, InTable, Asking
<1>8. ASSUME NEW r \in Replies, Complete(r) PROVE Held'
  BY <1>8, <1>a, <1>f, CompleteEffect DEF Held, Open, Unanswered, InTable, Asking, HeldOnce
<1>9. ASSUME NEW r \in Replies, InterruptReply(r) PROVE Held'
  BY <1>9, <1>a, <1>f, InterruptReplyEffect DEF Held, Open, Unanswered, InTable, Asking
<1>10. CASE Dispose
  BY <1>10, <1>a, <1>f, DisposeEffect DEF Held, Open, Unanswered, InTable, Asking
<1>11. CASE UNCHANGED pvars
  BY <1>11, <1>a, <1>f DEF Held, Open, Unanswered, InTable, Asking, pvars
<1>. QED
  BY <1>1, <1>2, <1>3, <1>4, <1>5, <1>6, <1>7, <1>8, <1>9, <1>10, <1>11 DEF PNext, AskStep, ReplyStep

LEMMA PlacesStep ==
  ASSUME IInv, [PNext]_pvars
  PROVE  Places'
<1>a. PTypeOK /\ Places
  BY DEF IInv
<1>f. pending \in [Asks -> Nat] /\ last \in Nat
  BY <1>a DEF PTypeOK
<1>1. ASSUME NEW a \in Asks, Enter(a) PROVE Places'
  <2>1. \A b \in Asks : pending[b] < last + 1
    BY <1>a, <1>f DEF Places
  <2>2. /\ last' = last + 1 /\ pending'[a] = last + 1
        /\ \A b \in Asks : b # a => pending'[b] = pending[b]
    BY <1>1, <1>a, EnterEffect
  <2>3. \A b \in Asks : pending'[b] <= last'
    BY <1>f, <2>1, <2>2
  <2>4. ASSUME NEW b \in Asks, NEW c \in Asks, InTable(b)', pending'[b] = pending'[c]
        PROVE  b = c
    BY <1>a, <1>f, <2>1, <2>2, <2>4 DEF Places, InTable
  <2>. QED
    BY <2>3, <2>4 DEF Places
<1>2. CASE ~ \E a \in Asks : Enter(a)
  <2>1. Shrinks
    BY <1>2, TableStep
  <2>2. \A b \in Asks : pending'[b] <= last'
    BY <1>a, <1>f, <2>1 DEF Shrinks, Places
  <2>3. ASSUME NEW b \in Asks, NEW c \in Asks, InTable(b)', pending'[b] = pending'[c]
        PROVE  b = c
    <3>1. pending'[b] = pending[b] /\ pending'[c] = pending[c] /\ InTable(b)
      BY <1>f, <2>1, <2>3 DEF Shrinks, InTable
    <3>. QED
      BY <1>a, <2>3, <3>1 DEF Places
  <2>. QED
    BY <2>2, <2>3 DEF Places
<1>. QED
  BY <1>1, <1>2

LEMMA ReachedStep ==
  ASSUME IInv, [PNext]_pvars
  PROVE  Reached'
<1>a. PTypeOK /\ Places /\ Reached
  BY DEF IInv
<1>f. /\ pending \in [Asks -> Nat] /\ last \in Nat
      /\ \A r \in Replies : /\ reply[r].held \in Asks \cup {None}
                            /\ reply[r].target \in Asks \cup {None}
                            /\ reply[r].at \in Nat /\ reply[r].upto \in Nat
  BY <1>a, Fields DEF PTypeOK
<1>1. ASSUME NEW a \in Asks, Decide(a) PROVE Reached'
  BY <1>1, <1>a, <1>f, DecideEffect DEF Reached
<1>2. ASSUME NEW a \in Asks, Enter(a) PROVE Reached'
  BY <1>2, <1>a, <1>f, EnterEffect DEF Reached
<1>3. ASSUME NEW a \in Asks, Await(a) PROVE Reached'
  BY <1>3, <1>a, <1>f, AwaitEffect DEF Reached
<1>4. ASSUME NEW a \in Asks, Settle(a) PROVE Reached'
  BY <1>4, <1>a, <1>f, SettleEffect DEF Reached
<1>5. ASSUME NEW a \in Asks, InterruptAsk(a) PROVE Reached'
  BY <1>5, <1>a, <1>f, InterruptAskEffect DEF Reached
<1>6. ASSUME NEW r \in Replies, NEW a \in Asks, NotFound(r, a) PROVE Reached'
  BY <1>6, <1>a, <1>f, NotFoundEffect DEF Reached
<1>7. ASSUME NEW r \in Replies, NEW a \in Asks, NEW kind \in Kind, Take(r, a, kind) PROVE Reached'
  BY <1>7, <1>a, <1>f, TakeEffect DEF Reached
<1>8. ASSUME NEW r \in Replies, Complete(r) PROVE Reached'
  BY <1>8, <1>a, <1>f, CompleteEffect DEF Reached, Places
<1>9. ASSUME NEW r \in Replies, InterruptReply(r) PROVE Reached'
  BY <1>9, <1>a, <1>f, InterruptReplyEffect DEF Reached
<1>10. CASE Dispose
  BY <1>10, <1>a, <1>f, DisposeEffect DEF Reached
<1>11. CASE UNCHANGED pvars
  BY <1>11, <1>a, <1>f DEF Reached, pvars
<1>. QED
  BY <1>1, <1>2, <1>3, <1>4, <1>5, <1>6, <1>7, <1>8, <1>9, <1>10, <1>11 DEF PNext, AskStep, ReplyStep

LEMMA HeldOnceStep ==
  ASSUME IInv, [PNext]_pvars
  PROVE  HeldOnce'
<1>a. PTypeOK /\ ReplyOK /\ Open /\ Held /\ HeldOnce
  BY DEF IInv
<1>f. /\ pending \in [Asks -> Nat] /\ last \in Nat
      /\ \A r \in Replies : /\ reply[r].held \in Asks \cup {None}
                            /\ reply[r].target \in Asks \cup {None}
                            /\ reply[r].at \in Nat /\ reply[r].upto \in Nat
  BY <1>a, Fields DEF PTypeOK
<1>1. ASSUME NEW a \in Asks, Decide(a) PROVE HeldOnce'
  BY <1>1, <1>a, <1>f, DecideEffect DEF HeldOnce, Held, InTable
<1>2. ASSUME NEW a \in Asks, Enter(a) PROVE HeldOnce'
  BY <1>2, <1>a, <1>f, EnterEffect DEF HeldOnce, Held, InTable
<1>3. ASSUME NEW a \in Asks, Await(a) PROVE HeldOnce'
  BY <1>3, <1>a, <1>f, AwaitEffect DEF HeldOnce, Held, InTable
<1>4. ASSUME NEW a \in Asks, Settle(a) PROVE HeldOnce'
  BY <1>4, <1>a, <1>f, SettleEffect DEF HeldOnce, Held, InTable
<1>5. ASSUME NEW a \in Asks, InterruptAsk(a) PROVE HeldOnce'
  BY <1>5, <1>a, <1>f, InterruptAskEffect DEF HeldOnce, Held, InTable
<1>6. ASSUME NEW r \in Replies, NEW a \in Asks, NotFound(r, a) PROVE HeldOnce'
  BY <1>6, <1>a, <1>f, NotFoundEffect DEF HeldOnce, Held, InTable
<1>7. ASSUME NEW r \in Replies, NEW a \in Asks, NEW kind \in Kind, Take(r, a, kind) PROVE HeldOnce'
  BY <1>7, <1>a, <1>f, TakeEffect DEF HeldOnce, Held, InTable
<1>8. ASSUME NEW r \in Replies, Complete(r) PROVE HeldOnce'
  BY <1>8, <1>a, <1>f, CompleteEffect DEF HeldOnce, Held, InTable
<1>9. ASSUME NEW r \in Replies, InterruptReply(r) PROVE HeldOnce'
  BY <1>9, <1>a, <1>f, InterruptReplyEffect DEF HeldOnce, Held, InTable
<1>10. CASE Dispose
  BY <1>10, <1>a, <1>f, DisposeEffect DEF HeldOnce, Held, InTable
<1>11. CASE UNCHANGED pvars
  BY <1>11, <1>a, <1>f DEF HeldOnce, Held, InTable, pvars
<1>. QED
  BY <1>1, <1>2, <1>3, <1>4, <1>5, <1>6, <1>7, <1>8, <1>9, <1>10, <1>11 DEF PNext, AskStep, ReplyStep

LEMMA NoForgottenStep ==
  ASSUME IInv, [PNext]_pvars
  PROVE  NoForgottenAsk'
<1>a. PTypeOK /\ ReplyOK /\ NoForgottenAsk
  BY DEF IInv
<1>1. ASSUME NEW a \in Asks, Decide(a) PROVE NoForgottenAsk'
  BY <1>1, <1>a, DecideEffect DEF NoForgottenAsk, InTable, Asking
<1>2. ASSUME NEW a \in Asks, Enter(a) PROVE NoForgottenAsk'
  BY <1>2, <1>a, EnterEffect DEF NoForgottenAsk, InTable, PTypeOK
<1>3. ASSUME NEW a \in Asks, Await(a) PROVE NoForgottenAsk'
  BY <1>3, <1>a, AwaitEffect DEF NoForgottenAsk, InTable, Asking
<1>4. ASSUME NEW a \in Asks, Settle(a) PROVE NoForgottenAsk'
  BY SMTT(20), <1>4, <1>a, SettleEffect DEF NoForgottenAsk, InTable, Asking, Answer
<1>5. ASSUME NEW a \in Asks, InterruptAsk(a) PROVE NoForgottenAsk'
  BY <1>5, <1>a, InterruptAskEffect DEF NoForgottenAsk, InTable, Asking
<1>6. ASSUME NEW r \in Replies, NEW a \in Asks, NotFound(r, a) PROVE NoForgottenAsk'
  BY <1>6, <1>a, NotFoundEffect DEF NoForgottenAsk, InTable
<1>7. ASSUME NEW r \in Replies, NEW a \in Asks, NEW kind \in Kind, Take(r, a, kind) PROVE NoForgottenAsk'
  <2>1. ASSUME NEW b \in Asks, ask'[b] \in Asking
        PROVE  \/ InTable(b)' \/ answer'[b] # "none"
               \/ \E q \in Replies : /\ reply'[q].held = b
                                     /\ reply'[q].pc \in {"publishing", "interrupted"}
    <3>1. CASE b = a
      BY <1>7, <1>a, <3>1, TakeEffect
    <3>2. CASE b # a
      <4>1. ask[b] \in Asking /\ pending'[b] = pending[b] /\ answer'[b] = answer[b]
        BY <1>7, <1>a, <2>1, <3>2, TakeEffect
      <4>2. \A q \in Replies : reply[q].pc # "new" => reply'[q] = reply[q]
        BY <1>7, <1>a, TakeEffect
      <4>. QED
        BY <1>a, <4>1, <4>2 DEF NoForgottenAsk, InTable
    <3>. QED
      BY <3>1, <3>2
  <2>. QED
    BY <2>1 DEF NoForgottenAsk
<1>8. ASSUME NEW r \in Replies, Complete(r) PROVE NoForgottenAsk'
  <2>1. ASSUME NEW b \in Asks, ask'[b] \in Asking
        PROVE  \/ InTable(b)' \/ answer'[b] # "none"
               \/ \E q \in Replies : /\ reply'[q].held = b
                                     /\ reply'[q].pc \in {"publishing", "interrupted"}
    <3>1. CASE b = reply[r].held
      BY <1>8, <3>1, CompleteEffect DEF Answer
    <3>2. CASE b # reply[r].held
      <4>1. ask[b] \in Asking /\ answer'[b] = answer[b]
        BY <1>8, <2>1, <3>2, CompleteEffect
      <4>2. CASE InTable(b)
        BY <1>8, <4>2, CompleteEffect DEF InTable
      <4>3. CASE ~InTable(b)
        BY <1>8, <1>a, <3>2, <4>1, <4>3, CompleteEffect DEF NoForgottenAsk
      <4>. QED
        BY <4>2, <4>3
    <3>. QED
      BY <3>1, <3>2
  <2>. QED
    BY <2>1 DEF NoForgottenAsk
<1>9. ASSUME NEW r \in Replies, InterruptReply(r) PROVE NoForgottenAsk'
  BY <1>9, <1>a, InterruptReplyEffect DEF NoForgottenAsk, InTable
<1>10. CASE Dispose
  <2>1. ASSUME NEW b \in Asks, ask'[b] \in Asking
        PROVE  \/ InTable(b)' \/ answer'[b] # "none"
               \/ \E q \in Replies : /\ reply'[q].held = b
                                     /\ reply'[q].pc \in {"publishing", "interrupted"}
    <3>1. CASE InTable(b)
      BY <1>10, <1>a, <3>1, DisposeEffect DEF First
    <3>2. CASE ~InTable(b)
      <4>1. ask[b] \in Asking /\ answer'[b] = answer[b]
        BY <1>10, <1>a, <2>1, <3>2, DisposeEffect
      <4>2. \A q \in Replies : reply'[q].held = reply[q].held /\ reply'[q].pc = reply[q].pc
        BY <1>10, <1>a, DisposeEffect
      <4>. QED
        BY <1>a, <3>2, <4>1, <4>2 DEF NoForgottenAsk
    <3>. QED
      BY <3>1, <3>2
  <2>. QED
    BY <2>1 DEF NoForgottenAsk
<1>11. CASE UNCHANGED pvars
  BY <1>11, <1>a DEF NoForgottenAsk, InTable, pvars
<1>. QED
  BY <1>1, <1>2, <1>3, <1>4, <1>5, <1>6, <1>7, <1>8, <1>9, <1>10, <1>11 DEF PNext, AskStep, ReplyStep

\* What the loop matches and has not taken is still ahead of it.
LEMMA CompleteLeaves ==
  ASSUME IInv, NEW r \in Replies, Complete(r),
         NEW a \in Asks, InTable(a)', a \in Matches(r, Rules(r))
  PROVE  reply'[r].pc = "publishing" /\ reply'[r].at < pending'[a]
<1>1. pending \in [Asks -> Nat] /\ Places
  BY DEF IInv, PTypeOK
<1>2. PICK i \in Asks : /\ InTable(i) /\ \A j \in Matches(r, Rules(r)) : pending[i] <= pending[j]
                        /\ reply'[r].pc = "publishing" /\ reply'[r].at = pending[i]
                        /\ pending'[i] = 0
                        /\ \A b \in Asks : b # i => pending'[b] = pending[b]
  BY CompleteEffect
<1>3. a # i /\ pending'[a] = pending[a]
  BY <1>2 DEF InTable
<1>4. pending[i] # pending[a]
  BY <1>1, <1>2, <1>3 DEF Places
<1>5. pending[i] <= pending[a]
  BY <1>2
<1>6. pending[i] \in Nat /\ pending[a] \in Nat
  BY <1>1
<1>7. pending[i] < pending[a]
  <2>1. \A m, n \in Nat : m <= n /\ m # n => m < n
    OBVIOUS
  <2>. QED
    BY <1>4, <1>5, <1>6, <2>1
<1>. QED
  BY <1>2, <1>3, <1>7

LEMMA SweptStep ==
  ASSUME IInv, [PNext]_pvars
  PROVE  Swept'
<1>a. PTypeOK /\ ReplyOK /\ Places /\ Reached /\ Swept
  BY DEF IInv
<1>f. /\ pending \in [Asks -> Nat] /\ last \in Nat
      /\ \A r \in Replies : /\ reply[r].held \in Asks \cup {None}
                            /\ reply[r].target \in Asks \cup {None}
                            /\ reply[r].at \in Nat /\ reply[r].upto \in Nat
  BY <1>a, Fields DEF PTypeOK
<1>1. ASSUME NEW a \in Asks, Decide(a) PROVE Swept'
  BY <1>1, <1>a, <1>f, DecideEffect DEF Swept, Begun, InTable
<1>2. ASSUME NEW a \in Asks, Enter(a) PROVE Swept'
  BY <1>2, <1>a, <1>f, EnterEffect DEF Swept, Begun, InTable, Reached
<1>3. ASSUME NEW a \in Asks, Await(a) PROVE Swept'
  BY <1>3, <1>a, <1>f, AwaitEffect DEF Swept, Begun, InTable
<1>4. ASSUME NEW a \in Asks, Settle(a) PROVE Swept'
  BY <1>4, <1>a, <1>f, SettleEffect DEF Swept, Begun, InTable
<1>5. ASSUME NEW a \in Asks, InterruptAsk(a) PROVE Swept'
  BY <1>5, <1>a, <1>f, InterruptAskEffect DEF Swept, Begun, InTable
<1>6. ASSUME NEW r \in Replies, NEW a \in Asks, NotFound(r, a) PROVE Swept'
  BY <1>6, <1>a, <1>f, NotFoundEffect DEF Swept, Begun, InTable
<1>7. ASSUME NEW r \in Replies, NEW a \in Asks, NEW kind \in Kind, Take(r, a, kind) PROVE Swept'
  BY SMTT(20), <1>7, <1>a, <1>f, TakeEffect DEF Swept, Begun, InTable, ReplyOK, NewReply
<1>8. ASSUME NEW r \in Replies, Complete(r) PROVE Swept'
  <2>1. ASSUME NEW q \in Replies, NEW a \in Asks, InTable(a)'
        PROVE  /\ Begun(q)' /\ reply'[q].stale => pending'[a] > reply'[q].upto
               /\ /\ reply'[q].pc = "publishing" /\ ~reply'[q].stale
                  /\ reply'[q].kind \in Rejections
                  /\ SessionOf[a] = SessionOf[reply'[q].target]
                  => pending'[a] > reply'[q].at
    <3>1. pending'[a] = pending[a] /\ InTable(a)
      BY <1>8, <1>f, <2>1, CompleteEffect DEF InTable
    <3>2. CASE q # r
      BY <1>8, <1>a, <1>f, <3>1, <3>2, CompleteEffect DEF Swept, Begun
    <3>3. CASE q = r
      <4>1. Begun(q)' /\ reply'[q].stale => pending'[a] > reply'[q].upto
        BY <1>8, <1>a, <1>f, <3>1, <3>3, CompleteEffect DEF Swept, Begun
      <4>2. ASSUME ~reply'[q].stale, reply'[q].kind \in Rejections,
                   SessionOf[a] = SessionOf[reply'[q].target]
            PROVE  a \in Matches(r, Rules(r))
        BY <1>8, <1>a, <1>f, <3>1, <3>3, <4>2, CompleteEffect DEF Swept, Matches
      <4>. QED
        BY <1>8, <1>f, <2>1, <3>1, <3>3, <4>1, <4>2, CompleteEffect, CompleteLeaves
    <3>. QED
      BY <3>2, <3>3
  <2>. QED
    BY <2>1 DEF Swept
<1>9. ASSUME NEW r \in Replies, InterruptReply(r) PROVE Swept'
  BY <1>9, <1>a, <1>f, InterruptReplyEffect DEF Swept, Begun, InTable
<1>10. CASE Dispose
  BY <1>10, <1>a, <1>f, DisposeEffect DEF Swept, Begun, InTable
<1>11. CASE UNCHANGED pvars
  BY <1>11, <1>a, <1>f DEF Swept, Begun, InTable, pvars
<1>. QED
  BY <1>1, <1>2, <1>3, <1>4, <1>5, <1>6, <1>7, <1>8, <1>9, <1>10, <1>11 DEF PNext, AskStep, ReplyStep

LEMMA RejectionStep ==
  ASSUME IInv, [PNext]_pvars
  PROVE  RejectionIsWhole'
<1>a. PTypeOK /\ ReplyOK /\ Places /\ Reached /\ Swept /\ RejectionIsWhole
  BY DEF IInv
<1>f. /\ pending \in [Asks -> Nat] /\ last \in Nat
      /\ \A r \in Replies : /\ reply[r].held \in Asks \cup {None}
                            /\ reply[r].target \in Asks \cup {None}
                            /\ reply[r].at \in Nat /\ reply[r].upto \in Nat
  BY <1>a, Fields DEF PTypeOK
<1>1. ASSUME NEW a \in Asks, Decide(a) PROVE RejectionIsWhole'
  BY <1>1, <1>a, <1>f, DecideEffect DEF RejectionIsWhole, InTable
<1>2. ASSUME NEW a \in Asks, Enter(a) PROVE RejectionIsWhole'
  BY <1>2, <1>a, <1>f, EnterEffect DEF RejectionIsWhole, InTable, Reached
<1>3. ASSUME NEW a \in Asks, Await(a) PROVE RejectionIsWhole'
  BY <1>3, <1>a, <1>f, AwaitEffect DEF RejectionIsWhole, InTable
<1>4. ASSUME NEW a \in Asks, Settle(a) PROVE RejectionIsWhole'
  BY <1>4, <1>a, <1>f, SettleEffect DEF RejectionIsWhole, InTable
<1>5. ASSUME NEW a \in Asks, InterruptAsk(a) PROVE RejectionIsWhole'
  BY <1>5, <1>a, <1>f, InterruptAskEffect DEF RejectionIsWhole, InTable
<1>6. ASSUME NEW r \in Replies, NEW a \in Asks, NotFound(r, a) PROVE RejectionIsWhole'
  BY <1>6, <1>a, <1>f, NotFoundEffect DEF RejectionIsWhole, InTable
<1>7. ASSUME NEW r \in Replies, NEW a \in Asks, NEW kind \in Kind, Take(r, a, kind) PROVE RejectionIsWhole'
  <2>1. ASSUME NEW q \in Replies, reply'[q].pc = "returned", reply'[q].kind \in Rejections,
               NEW i \in Asks, InTable(i)', SessionOf[i] = SessionOf[reply'[q].target]
        PROVE  pending'[i] > reply'[q].upto
    <3>1. q # r /\ reply'[q] = reply[q]
      BY <1>7, <1>a, <2>1, TakeEffect
    <3>2. pending'[i] = pending[i] /\ InTable(i)
      BY <1>7, <1>a, <1>f, <2>1, TakeEffect DEF InTable
    <3>. QED
      BY <1>a, <2>1, <3>1, <3>2 DEF RejectionIsWhole
  <2>. QED
    BY <2>1 DEF RejectionIsWhole
<1>8. ASSUME NEW r \in Replies, Complete(r) PROVE RejectionIsWhole'
  <2>1. ASSUME NEW q \in Replies, reply'[q].pc = "returned", reply'[q].kind \in Rejections,
               NEW a \in Asks, InTable(a)', SessionOf[a] = SessionOf[reply'[q].target]
        PROVE  pending'[a] > reply'[q].upto
    <3>1. pending'[a] = pending[a] /\ InTable(a)
      BY <1>8, <1>f, <2>1, CompleteEffect DEF InTable
    <3>2. CASE q # r
      BY <1>8, <1>a, <1>f, <2>1, <3>1, <3>2, CompleteEffect DEF RejectionIsWhole
    <3>3. CASE q = r /\ ~reply[r].stale
      <4>1. a \in Matches(r, Rules(r))
        BY <1>8, <1>a, <1>f, <2>1, <3>1, <3>3, CompleteEffect DEF Swept, Matches
      <4>. QED
        BY <1>8, <2>1, <3>3, <4>1, CompleteEffect
    <3>4. CASE q = r /\ reply[r].stale
      BY <1>8, <1>a, <1>f, <3>1, <3>4, CompleteEffect DEF Swept, Begun
    <3>. QED
      BY <3>2, <3>3, <3>4
  <2>. QED
    BY <2>1 DEF RejectionIsWhole
<1>9. ASSUME NEW r \in Replies, InterruptReply(r) PROVE RejectionIsWhole'
  BY <1>9, <1>a, <1>f, InterruptReplyEffect DEF RejectionIsWhole, InTable
<1>10. CASE Dispose
  BY <1>10, <1>a, <1>f, DisposeEffect DEF RejectionIsWhole, InTable
<1>11. CASE UNCHANGED pvars
  BY <1>11, <1>a, <1>f DEF RejectionIsWhole, InTable, pvars
<1>. QED
  BY <1>1, <1>2, <1>3, <1>4, <1>5, <1>6, <1>7, <1>8, <1>9, <1>10, <1>11 DEF PNext, AskStep, ReplyStep

-----------------------------------------------------------------------------
(* "always" *)

\* r has added its rules to those of the session s.
Adds(r, s) ==
  /\ reply[r].kind = "always" /\ reply[r].held # reply[r].target
  /\ ~reply[r].stale /\ SessionOf[reply[r].target] = s

LEMMA AddedIs ==
  /\ \A s, p : p \in Added(s) <=> \E r \in Replies : Adds(r, s) /\ p \in Always[reply[r].target]
  /\ \A s, p : p \in Added(s)' <=>
       \E r \in Replies : Adds(r, s)' /\ p \in Always[reply'[r].target]
BY DEF Added, Adds

\* The additions of a session change only when a reply moves on from the request
\* it was sent for, or goes stale.
LEMMA AddedStep ==
  ASSUME IInv, NEW r \in Replies,
         \E a \in Asks : NotFound(r, a) \/ \E k \in Kind : Take(r, a, k),
         NEW s
  PROVE  Added(s)' = Added(s)
<1>a. PTypeOK /\ ReplyOK
  BY DEF IInv
<1>1. /\ reply[r].held = reply[r].target
      /\ \A q \in Replies : q # r => reply'[q] = reply[q]
  BY <1>a, NotFoundEffect, TakeEffect DEF ReplyOK, NewReply
<1>2. reply'[r].held = reply'[r].target
  BY <1>a, <1>1, NotFoundEffect, TakeEffect
<1>3. \A q \in Replies : Adds(q, s)' <=> Adds(q, s)
  BY <1>1, <1>2 DEF Adds
<1>4. \A q \in Replies : Adds(q, s) => reply'[q].target = reply[q].target
  BY <1>1 DEF Adds
<1>5. \A p : p \in Added(s)' <=> p \in Added(s)
  BY <1>3, <1>4, AddedIs
<1>. QED
  BY <1>5

LEMMA AddedApprovedStep ==
  ASSUME IInv, [PNext]_pvars
  PROVE  AddedApproved'
<1>a. PTypeOK /\ ReplyOK /\ AddedApproved
  BY DEF IInv
<1>1. CASE UNCHANGED <<reply, approved>>
  BY <1>a, <1>1 DEF AddedApproved, Added
<1>2. ASSUME NEW r \in Replies, \E a \in Asks : NotFound(r, a) \/ \E k \in Kind : Take(r, a, k)
      PROVE  AddedApproved'
  <2>1. approved' = approved
    BY <1>2 DEF NotFound, Take
  <2>. QED
    BY <1>a, <1>2, <2>1, AddedStep DEF AddedApproved
<1>3. ASSUME NEW r \in Replies, InterruptReply(r) PROVE AddedApproved'
  <2>1. ASSUME NEW s PROVE Added(s)' = Added(s)
    <3>1. \A q \in Replies : (Adds(q, s)' <=> Adds(q, s)) /\ reply'[q].target = reply[q].target
      BY <1>a, <1>3, InterruptReplyEffect DEF Adds
    <3>2. \A p : p \in Added(s)' <=> p \in Added(s)
      BY <3>1, AddedIs
    <3>. QED
      BY <3>2
  <2>. QED
    BY <1>a, <1>3, <2>1, InterruptReplyEffect DEF AddedApproved
<1>4. CASE Dispose
  <2>1. \A q \in Replies : reply'[q].stale \/ reply'[q].held = reply'[q].target
    <3>1. ASSUME NEW q \in Replies PROVE reply'[q].stale \/ reply'[q].held = reply'[q].target
      <4>1. CASE reply[q].pc = "new"
        BY <1>a, <1>4, <4>1, DisposeEffect DEF ReplyOK, NewReply
      <4>2. CASE reply[q].pc # "new"
        BY <1>a, <1>4, <4>2, DisposeEffect
      <4>. QED
        BY <4>1, <4>2
    <3>. QED
      BY <3>1
  <2>2. \A q \in Replies : \A s : ~Adds(q, s)'
    BY <2>1 DEF Adds
  <2>. QED
    BY <2>2, AddedIs DEF AddedApproved
<1>5. ASSUME NEW r \in Replies, Complete(r) PROVE AddedApproved'
  <2>1. ASSUME NEW s \in Sessions, NEW p, p \in Added(s)' PROVE p \in approved'
    <3>1. PICK q \in Replies : Adds(q, s)' /\ p \in Always[reply'[q].target]
      BY <2>1, AddedIs
    <3>2. approved' = Rules(r) /\ approved \subseteq Rules(r)
      BY <1>5, CompleteEffect DEF Rules
    <3>3. CASE Adds(q, s) /\ reply'[q].target = reply[q].target
      BY <1>a, <3>1, <3>2, <3>3, AddedIs DEF AddedApproved
    <3>4. CASE ~(Adds(q, s) /\ reply'[q].target = reply[q].target)
      <4>1. q = r
        BY <1>5, <3>1, <3>4, CompleteEffect DEF Adds
      <4>2. /\ reply[r].kind = "always" /\ reply[r].held = reply[r].target /\ ~reply[r].stale
            /\ reply'[r].target = reply[r].target
        BY <1>5, <3>1, <3>4, <4>1, CompleteEffect DEF Adds
      <4>. QED
        BY <3>1, <3>2, <4>1, <4>2 DEF Rules
    <3>. QED
      BY <3>3, <3>4
  <2>. QED
    BY <2>1 DEF AddedApproved
<1>6. ASSUME NEW a \in Asks, AskStep(a) PROVE UNCHANGED <<reply, approved>>
  BY <1>6 DEF AskStep, Decide, Enter, Await, Settle, InterruptAsk
<1>. QED
  BY <1>1, <1>2, <1>3, <1>4, <1>5, <1>6 DEF PNext, ReplyStep, pvars

\* The reply r is on its way, through a table that still matters, for an
\* "always" answer to a request of the session of a, and has a ahead of it.
Reaches(r, a) ==
  /\ reply[r].kind = "always" /\ reply[r].pc \in {"publishing", "interrupted"}
  /\ ~reply[r].stale /\ reply[r].at < pending[a]
  /\ SessionOf[reply[r].target] = SessionOf[a]

LEMMA AlwaysReachesStep ==
  ASSUME IInv, [PNext]_pvars
  PROVE  AlwaysReaches'
<1>a. PTypeOK /\ ReplyOK /\ Places /\ AddedApproved /\ AlwaysReaches
  BY DEF IInv
<1>f. pending \in [Asks -> Nat] /\ last \in Nat
  BY <1>a DEF PTypeOK
<1>w. \A b \in Asks : InTable(b) /\ Patterns[b] \subseteq Added(SessionOf[b]) =>
        \E q \in Replies : Reaches(q, b)
  BY <1>a DEF AlwaysReaches, Reaches
<1>s. SUFFICES ASSUME NEW b \in Asks, InTable(b)', Patterns[b] \subseteq Added(SessionOf[b])'
               PROVE  \E q \in Replies : Reaches(q, b)'
  BY DEF AlwaysReaches, Reaches
\* Steps that leave the replies alone.
<1>1. ASSUME pending'[b] = pending[b], reply' = reply PROVE \E q \in Replies : Reaches(q, b)'
  <2>1. Added(SessionOf[b])' = Added(SessionOf[b]) /\ InTable(b)
    BY <1>1, <1>s DEF Added, InTable
  <2>2. PICK q \in Replies : Reaches(q, b)
    BY <1>s, <1>w, <2>1
  <2>. QED
    BY <1>1, <2>2 DEF Reaches
<1>2. ASSUME NEW a \in Asks, Enter(a) PROVE \E q \in Replies : Reaches(q, b)'
  <2>1. CASE a = b
    <3>1. Added(SessionOf[b])' = Added(SessionOf[b])
      BY <1>2, <1>a, EnterEffect DEF Added
    <3>2. Added(SessionOf[b]) \subseteq approved
      BY <1>a, PermissionAssumption DEF AddedApproved
    <3>. QED
      BY <1>2, <1>a, <1>s, <2>1, <3>1, <3>2, EnterEffect
  <2>2. CASE a # b
    BY <1>1, <1>2, <1>a, <2>2, EnterEffect
  <2>. QED
    BY <2>1, <2>2
<1>3. ASSUME NEW a \in Asks, Decide(a) \/ Await(a) \/ Settle(a) \/ InterruptAsk(a)
      PROVE  \E q \in Replies : Reaches(q, b)'
  <2>1. reply' = reply /\ Shrinks
    <3>1. ~ \E c \in Asks : Enter(c)
      BY <1>3, <1>a, DecideEffect, AwaitEffect, SettleEffect, InterruptAskEffect, EnterEffect
    <3>. QED
      BY <1>3, <1>a, <3>1, TableStep, DecideEffect, AwaitEffect, SettleEffect, InterruptAskEffect
  <2>2. pending'[b] = pending[b]
    BY <1>s, <2>1 DEF Shrinks, InTable
  <2>. QED
    BY <1>1, <2>1, <2>2
\* Steps of a reply that is not yet, or no longer, on its way.
<1>4. ASSUME NEW r \in Replies, \E a \in Asks : NotFound(r, a) \/ \E k \in Kind : Take(r, a, k)
      PROVE  \E q \in Replies : Reaches(q, b)'
  <2>1. /\ reply[r].pc = "new" /\ pending'[b] = pending[b]
        /\ \A q \in Replies : q # r => reply'[q] = reply[q]
    BY <1>4, <1>a, <1>s, NotFoundEffect, TakeEffect DEF InTable
  <2>2. InTable(b) /\ Patterns[b] \subseteq Added(SessionOf[b])
    BY <1>4, <1>s, <2>1, AddedStep DEF InTable
  <2>3. PICK q \in Replies : Reaches(q, b)
    BY <1>w, <2>2
  <2>4. q # r
    BY <2>1, <2>3 DEF Reaches
  <2>. QED
    BY <2>1, <2>3, <2>4 DEF Reaches
<1>5. ASSUME NEW r \in Replies, InterruptReply(r) PROVE \E q \in Replies : Reaches(q, b)'
  <2>1. \A p : p \in Added(SessionOf[b])' <=> p \in Added(SessionOf[b])
    <3>1. \A q \in Replies : /\ Adds(q, SessionOf[b])' <=> Adds(q, SessionOf[b])
                             /\ reply'[q].target = reply[q].target
      BY <1>a, <1>5, InterruptReplyEffect DEF Adds
    <3>. QED
      BY <3>1, AddedIs
  <2>2. PICK q \in Replies : Reaches(q, b)
    BY <1>5, <1>a, <1>s, <1>w, <2>1, InterruptReplyEffect DEF InTable
  <2>. QED
    BY <1>5, <1>a, <2>2, InterruptReplyEffect DEF Reaches
<1>6. CASE Dispose
  BY <1>6, <1>a, <1>s, DisposeEffect DEF InTable
<1>7. ASSUME NEW r \in Replies, Complete(r) PROVE \E q \in Replies : Reaches(q, b)'
  <2>1. pending'[b] = pending[b] /\ InTable(b)
    BY <1>7, <1>s, CompleteEffect DEF InTable
  <2>2. approved' = Rules(r) /\ approved \subseteq Rules(r)
    BY <1>7, CompleteEffect DEF Rules
  <2>3. Patterns[b] \subseteq Rules(r)
    <3>1. AddedApproved' /\ SessionOf[b] \in Sessions
      BY AddedApprovedStep, PermissionAssumption
    <3>. QED
      BY <1>s, <2>2, <3>1 DEF AddedApproved
  <2>4. CASE \E q \in Replies : q # r /\ Reaches(q, b)
    BY <1>7, <2>1, <2>4, CompleteEffect DEF Reaches
  <2>5. CASE /\ reply[r].kind = "always" /\ ~reply[r].stale /\ reply[r].at < pending[b]
             /\ SessionOf[reply[r].target] = SessionOf[b]
    <3>1. b \in Matches(r, Rules(r))
      BY <1>7, <1>a, <1>f, <2>3, <2>5, Fields DEF Matches
    <3>2. reply'[r].pc = "publishing" /\ reply'[r].at < pending'[b]
      BY <1>7, <1>s, <3>1, CompleteLeaves
    <3>. QED
      BY <1>7, <2>5, <3>2, CompleteEffect DEF Reaches
  <2>6. CASE Patterns[b] \subseteq Added(SessionOf[b])
    BY <1>w, <2>1, <2>4, <2>5, <2>6 DEF Reaches
  <2>7. CASE ~(Patterns[b] \subseteq Added(SessionOf[b]))
    <3>1. PICK p : p \in Added(SessionOf[b])' /\ p \notin Added(SessionOf[b])
      BY <1>s, <2>7
    <3>2. PICK q \in Replies : Adds(q, SessionOf[b])' /\ p \in Always[reply'[q].target]
      BY <3>1, AddedIs
    <3>3. q = r
      <4>1. CASE q # r
        <5>1. Adds(q, SessionOf[b]) /\ p \in Always[reply[q].target]
          BY <1>7, <3>2, <4>1, CompleteEffect DEF Adds
        <5>. QED
          BY <3>1, <5>1, AddedIs
      <4>. QED
        BY <4>1
    <3>4. /\ reply[r].kind = "always" /\ ~reply[r].stale /\ reply'[r].target = reply[r].target
          /\ SessionOf[reply[r].target] = SessionOf[b]
      BY <1>7, <3>2, <3>3, CompleteEffect DEF Adds
    <3>5. reply[r].held = reply[r].target
      BY <3>1, <3>2, <3>3, <3>4, AddedIs DEF Adds
    <3>6. reply[r].at = 0
      BY <1>7, <1>a, <3>5, CompleteEffect DEF ReplyOK, Begun
    <3>. QED
      BY <1>f, <2>1, <2>5, <3>4, <3>6 DEF InTable
  <2>. QED
    BY <2>6, <2>7
<1>8. CASE UNCHANGED pvars
  BY <1>1, <1>8 DEF pvars
<1>. QED
  BY <1>2, <1>3, <1>4, <1>5, <1>6, <1>7, <1>8 DEF PNext, AskStep, ReplyStep

LEMMA ReplyOKStep ==
  ASSUME IInv, [PNext]_pvars
  PROVE  ReplyOK'
<1>a. PTypeOK /\ ReplyOK /\ TargetLeft
  BY DEF IInv
<1>1. ASSUME NEW a \in Asks, Decide(a) PROVE ReplyOK'
  BY <1>1, <1>a, DecideEffect DEF PTypeOK, ReplyOK, Begun
<1>2. ASSUME NEW a \in Asks, Enter(a) PROVE ReplyOK'
  BY <1>2, <1>a, EnterEffect DEF PTypeOK, ReplyOK, Begun
<1>3. ASSUME NEW a \in Asks, Await(a) PROVE ReplyOK'
  BY <1>3, <1>a, AwaitEffect DEF PTypeOK, ReplyOK, Begun
<1>4. ASSUME NEW a \in Asks, Settle(a) PROVE ReplyOK'
  BY <1>4, <1>a, SettleEffect DEF PTypeOK, ReplyOK, Begun
<1>5. ASSUME NEW a \in Asks, InterruptAsk(a) PROVE ReplyOK'
  BY <1>5, <1>a, InterruptAskEffect DEF PTypeOK, ReplyOK, Begun
<1>6. ASSUME NEW r \in Replies, NEW a \in Asks, NotFound(r, a) PROVE ReplyOK'
  BY <1>6, <1>a, NotFoundEffect DEF PTypeOK, ReplyOK, Begun
<1>7. ASSUME NEW r \in Replies, NEW a \in Asks, NEW kind \in Kind, Take(r, a, kind) PROVE ReplyOK'
  <2>1. reply[r].at = 0
    BY <1>7, <1>a, TakeEffect DEF ReplyOK, NewReply
  <2>2. a # None
    BY PermissionAssumption
  <2>3. ASSUME NEW q \in Replies PROVE reply'[q].pc = "new" => reply'[q] = NewReply
    BY <1>7, <1>a, <2>3, TakeEffect DEF ReplyOK
  <2>4. ASSUME NEW q \in Replies, q # r PROVE reply'[q] = reply[q]
    BY <1>7, <1>a, <2>4, TakeEffect
  <2>. QED
    BY <1>7, <1>a, <2>1, <2>2, <2>3, <2>4, TakeEffect DEF ReplyOK, Begun
<1>8. ASSUME NEW r \in Replies, Complete(r) PROVE ReplyOK'
  BY <1>8, <1>a, CompleteEffect DEF PTypeOK, ReplyOK, Begun, TargetLeft, InTable
<1>9. ASSUME NEW r \in Replies, InterruptReply(r) PROVE ReplyOK'
  BY <1>9, <1>a, InterruptReplyEffect DEF PTypeOK, ReplyOK, Begun
<1>10. CASE Dispose
  BY <1>10, <1>a, DisposeEffect DEF PTypeOK, ReplyOK, Begun
<1>11. CASE UNCHANGED pvars
  BY <1>11, <1>a DEF PTypeOK, ReplyOK, Begun, pvars
<1>. QED
  BY <1>1, <1>2, <1>3, <1>4, <1>5, <1>6, <1>7, <1>8, <1>9, <1>10, <1>11 DEF PNext, AskStep, ReplyStep

LEMMA TargetLeftStep ==
  ASSUME IInv, [PNext]_pvars
  PROVE  TargetLeft'
<1>a. PTypeOK /\ ReplyOK /\ TargetLeft /\ Open
  BY DEF IInv
<1>1. ASSUME NEW a \in Asks, Decide(a) PROVE TargetLeft'
  BY <1>1, <1>a, DecideEffect DEF PTypeOK, ReplyOK, TargetLeft, Begun, InTable, Open, Unanswered, Asking
<1>2. ASSUME NEW a \in Asks, Enter(a) PROVE TargetLeft'
  BY <1>2, <1>a, EnterEffect DEF PTypeOK, ReplyOK, TargetLeft, Begun, InTable, Open, Unanswered, Asking
<1>3. ASSUME NEW a \in Asks, Await(a) PROVE TargetLeft'
  BY <1>3, <1>a, AwaitEffect DEF PTypeOK, ReplyOK, TargetLeft, Begun, InTable, Open, Unanswered, Asking
<1>4. ASSUME NEW a \in Asks, Settle(a) PROVE TargetLeft'
  <2>1. ask'[a] # "new"
    BY <1>4, <1>a, SettleEffect DEF Answer
  <2>. QED
    BY <1>4, <1>a, <2>1, SettleEffect DEF TargetLeft, Begun, ReplyOK, PTypeOK
<1>5. ASSUME NEW a \in Asks, InterruptAsk(a) PROVE TargetLeft'
  BY <1>5, <1>a, InterruptAskEffect DEF PTypeOK, ReplyOK, TargetLeft, Begun, InTable, Open, Unanswered, Asking
<1>6. ASSUME NEW r \in Replies, NEW a \in Asks, NotFound(r, a) PROVE TargetLeft'
  BY <1>6, <1>a, NotFoundEffect DEF PTypeOK, ReplyOK, TargetLeft, Begun, InTable, Open, Unanswered, Asking
<1>7. ASSUME NEW r \in Replies, NEW a \in Asks, NEW kind \in Kind, Take(r, a, kind) PROVE TargetLeft'
  BY <1>7, <1>a, TakeEffect DEF PTypeOK, ReplyOK, TargetLeft, Begun, InTable, Open, Unanswered, Asking
<1>8. ASSUME NEW r \in Replies, Complete(r) PROVE TargetLeft'
  BY <1>8, <1>a, CompleteEffect DEF PTypeOK, ReplyOK, TargetLeft, Begun, InTable, Open, Unanswered, Asking
<1>9. ASSUME NEW r \in Replies, InterruptReply(r) PROVE TargetLeft'
  BY <1>9, <1>a, InterruptReplyEffect DEF PTypeOK, ReplyOK, TargetLeft, Begun, InTable, Open, Unanswered, Asking
<1>10. CASE Dispose
  BY <1>10, <1>a, DisposeEffect DEF PTypeOK, ReplyOK, TargetLeft, Begun, InTable, Open, Unanswered, Asking
<1>11. CASE UNCHANGED pvars
  BY <1>11, <1>a DEF PTypeOK, ReplyOK, TargetLeft, Begun, InTable, Open, Unanswered, Asking, pvars
<1>. QED
  BY <1>1, <1>2, <1>3, <1>4, <1>5, <1>6, <1>7, <1>8, <1>9, <1>10, <1>11 DEF PNext, AskStep, ReplyStep

LEMMA TypeStep ==
  ASSUME IInv, [PNext]_pvars
  PROVE  PTypeOK'
<1>a. PTypeOK /\ ReplyOK
  BY DEF IInv
<1>1. ASSUME NEW a \in Asks, Decide(a) PROVE PTypeOK'
  BY <1>1, <1>a, DecideEffect DEF PTypeOK
<1>2. ASSUME NEW a \in Asks, Enter(a) PROVE PTypeOK'
  BY <1>2, <1>a, EnterEffect DEF PTypeOK
<1>3. ASSUME NEW a \in Asks, Await(a) PROVE PTypeOK'
  BY <1>3, <1>a, AwaitEffect DEF PTypeOK
<1>4. ASSUME NEW a \in Asks, Settle(a) PROVE PTypeOK'
  BY <1>4, <1>a, SettleEffect DEF PTypeOK
<1>5. ASSUME NEW a \in Asks, InterruptAsk(a) PROVE PTypeOK'
  BY <1>5, <1>a, InterruptAskEffect DEF PTypeOK
<1>6. ASSUME NEW r \in Replies, NEW a \in Asks, NotFound(r, a) PROVE PTypeOK'
  BY <1>6, <1>a, NotFoundEffect DEF PTypeOK
<1>7. ASSUME NEW r \in Replies, NEW a \in Asks, NEW kind \in Kind, Take(r, a, kind) PROVE PTypeOK'
  BY <1>7, <1>a, TakeEffect DEF PTypeOK
<1>8. ASSUME NEW r \in Replies, Complete(r) PROVE PTypeOK'
  <2>1. Rules(r) \subseteq Pattern
    BY <1>8, <1>a, PermissionAssumption DEF PTypeOK, ReplyOK, Begun, Rules, Complete
  <2>. QED
    BY <1>8, <1>a, <2>1, CompleteEffect DEF PTypeOK
<1>9. ASSUME NEW r \in Replies, InterruptReply(r) PROVE PTypeOK'
  BY <1>9, <1>a, InterruptReplyEffect DEF PTypeOK
<1>10. CASE Dispose
  BY <1>10, <1>a, DisposeEffect DEF PTypeOK
<1>11. CASE UNCHANGED pvars
  BY <1>11, <1>a DEF PTypeOK, pvars
<1>. QED
  BY <1>1, <1>2, <1>3, <1>4, <1>5, <1>6, <1>7, <1>8, <1>9, <1>10, <1>11 DEF PNext, AskStep, ReplyStep

LEMMA InvInit ==
  ASSUME PInit
  PROVE  IInv
<1>1. \A r \in Replies : reply[r] = NewReply
  BY DEF PInit
<1>2. NewReply \in Reply
  BY DEF NewReply, Reply
<1>3. PTypeOK
  BY <1>2, PermissionAssumption DEF PInit, PTypeOK, AskState
<1>4. ReplyOK /\ TargetLeft
  <2>1. \A r \in Replies : /\ reply[r].pc = "new" /\ reply[r].kind = None
                          /\ reply[r].target = None /\ reply[r].held = None
    BY <1>1 DEF NewReply
  <2>. QED
    BY <1>1, <2>1 DEF ReplyOK, TargetLeft, Begun
<1>5. Fresh /\ Open /\ Places
  BY DEF PInit, Fresh, Open, Places, InTable
<1>6. Held /\ Reached /\ HeldOnce
  BY <1>1 DEF PInit, Held, Reached, HeldOnce, NewReply
<1>7. Swept /\ NoForgottenAsk /\ RejectionIsWhole /\ AlwaysReaches
  BY <1>1 DEF PInit, Swept, NoForgottenAsk, RejectionIsWhole, AlwaysReaches, InTable, Asking
<1>8. AddedApproved
  BY <1>1, AddedIs DEF Adds, NewReply, AddedApproved
<1>. QED
  BY <1>3, <1>4, <1>5, <1>6, <1>7, <1>8 DEF IInv

LEMMA InvStep ==
  ASSUME IInv, [PNext]_pvars
  PROVE  IInv'
BY TypeStep, ReplyOKStep, TargetLeftStep, FreshStep, OpenStep, HeldStep, PlacesStep,
   ReachedStep, SweptStep, HeldOnceStep, NoForgottenStep, RejectionStep,
   AddedApprovedStep, AlwaysReachesStep
DEF IInv

\* The invariant that ties the table, the Deferreds and the replies together holds
\* in every state.
THEOREM Invariant == PermissionSpec => []IInv
<1>1. PInit => IInv
  BY InvInit
<1>2. IInv /\ [PNext]_pvars => IInv'
  BY InvStep
<1>. QED
  BY <1>1, <1>2, PTL DEF PermissionSpec

\* Every variable of permission/index.ts keeps its type.
THEOREM Typing == PermissionSpec => []PTypeOK
<1>1. IInv => PTypeOK
  BY DEF IInv
<1>. QED
  BY <1>1, Invariant, PTL

\* A call of ask that waits is in the table, answered, or held by a reply, for any
\* number of requests, replies and disposals.
THEOREM NobodyIsForgotten == PermissionSpec => []NoForgottenAsk
<1>1. IInv => NoForgottenAsk
  BY DEF IInv
<1>. QED
  BY <1>1, Invariant, PTL

\* No two calls of reply have the same request in hand.
THEOREM HeldByOne == PermissionSpec => []HeldOnce
<1>1. IInv => HeldOnce
  BY DEF IInv
<1>. QED
  BY <1>1, Invariant, PTL

\* A rejection that has returned has left none of the requests that its session
\* had in the table when it came.
THEOREM RejectionTakesAll == PermissionSpec => []RejectionIsWhole
<1>1. IInv => RejectionIsWhole
  BY DEF IInv
<1>. QED
  BY <1>1, Invariant, PTL

\* A request that the "always" answers of its session allow is still ahead of one
\* of the replies that gave them.
THEOREM AlwaysReachesAll == PermissionSpec => []AlwaysReaches
<1>1. IInv => AlwaysReaches
  BY DEF IInv
<1>. QED
  BY <1>1, Invariant, PTL

-----------------------------------------------------------------------------
(* The gate. *)

\* What a caller of ask sees of the request a.
Seen == [a \in Asks |-> IF ask[a] = "publishing" THEN "waiting" ELSE ask[a]]

LEMMA GateInit ==
  ASSUME PInit
  PROVE  Gate!GInit
BY DEF PInit, Gate!GInit

\* A step that answers the requests of S, and no other, is one of the gate.
LEMMA GateAnswers ==
  ASSUME NEW S \in SUBSET Asks, NEW x \in Answer, UNCHANGED ask,
         \A a \in S : Unanswered(a),
         answer' = [a \in Asks |-> IF a \in S THEN x ELSE answer[a]]
  PROVE  Gate!GNext
<1>1. \A a \in S : Seen[a] \in {"waiting", "interrupted"} /\ answer[a] = "none"
  BY DEF Unanswered, Asking, Seen
<1>2. Seen' = Seen
  BY DEF Seen
<1>3. Gate!Answers(S)
  BY <1>1, <1>2 DEF Gate!Answers, Gate!Answer, Answer, Seen
<1>. QED
  BY <1>3 DEF Gate!GNext

\* A step of one call of ask is one of the gate, or none.
LEMMA GateAsk ==
  ASSUME IInv, NEW a \in Asks, AskStep(a)
  PROVE  [Gate!GNext]_(Gate!gvars)
<1>a. PTypeOK
  BY DEF IInv
<1>0. Seen \in [Asks -> AskState \ {"publishing"}] /\ Seen' \in [Asks -> AskState \ {"publishing"}] /\ answer' = answer
  <2>1. PTypeOK' /\ ask \in [Asks -> AskState] /\ "waiting" \in AskState
    <3>1. [PNext]_pvars
      BY DEF PNext
    <3>. QED
      BY <1>a, <3>1, TypeStep DEF PTypeOK, AskState, Asking
  <2>2. answer' = answer
    BY DEF AskStep, Decide, Enter, Await, Settle, InterruptAsk
  <2>. QED
    BY <2>1, <2>2 DEF Seen, PTypeOK
<1>b. ASSUME NEW v, ask'[a] = v \/ (v = "waiting" /\ ask'[a] = "publishing"), v # "publishing",
             \A b \in Asks : b # a => ask'[b] = ask[b]
      PROVE  Seen' = [Seen EXCEPT ![a] = v]
  <2>1. Seen' = [b \in Asks |-> IF b = a THEN v ELSE Seen[b]]
    BY <1>b DEF Seen
  <2>. QED
    BY <1>0, <2>1
<1>1. CASE Decide(a)
  <2>1. PICK v \in {"denied", "allowed"} : Seen' = [Seen EXCEPT ![a] = v]
    BY <1>1, <1>a, <1>b, DecideEffect
  <2>2. Gate!Ask(a)
    BY <1>1, <1>a, <1>0, <2>1, DecideEffect DEF Gate!Ask, Seen
  <2>. QED
    BY <2>2 DEF Gate!GNext
<1>2. CASE Enter(a)
  <2>1. Seen' = [Seen EXCEPT ![a] = "waiting"]
    BY <1>2, <1>a, <1>b, EnterEffect
  <2>2. Gate!Ask(a)
    BY <1>2, <1>a, <1>0, <2>1, EnterEffect DEF Gate!Ask, Seen
  <2>. QED
    BY <2>2 DEF Gate!GNext
<1>3. CASE Await(a)
  <2>1. Seen' = Seen
    BY <1>3, <1>a, AwaitEffect DEF Seen
  <2>. QED
    BY <1>0, <2>1 DEF Gate!gvars, Seen
<1>4. CASE Settle(a)
  <2>1. Seen' = [Seen EXCEPT ![a] = answer[a]]
    BY <1>4, <1>a, <1>b, SettleEffect DEF Answer
  <2>2. Gate!Told(a)
    BY <1>4, <1>a, <1>0, <2>1, SettleEffect DEF Gate!Told, Seen, Answer
  <2>. QED
    BY <2>2 DEF Gate!GNext
<1>5. CASE InterruptAsk(a)
  <2>1. Seen' = [Seen EXCEPT ![a] = "interrupted"]
    BY <1>5, <1>a, <1>b, InterruptAskEffect
  <2>2. Gate!Interrupted(a)
    BY <1>5, <1>a, <1>0, <2>1, InterruptAskEffect DEF Gate!Interrupted, Seen, Asking
  <2>. QED
    BY <2>2 DEF Gate!GNext
<1>. QED
  BY <1>1, <1>2, <1>3, <1>4, <1>5 DEF AskStep

LEMMA GateStep ==
  ASSUME IInv, [PNext]_pvars
  PROVE  [Gate!GNext]_(Gate!gvars)
<1>a. PTypeOK /\ Open /\ Held
  BY DEF IInv
<1>1. CASE UNCHANGED <<ask, answer>>
  BY <1>1 DEF Gate!gvars
<1>2. ASSUME NEW a \in Asks, AskStep(a) PROVE [Gate!GNext]_(Gate!gvars)
  BY <1>2, GateAsk
<1>3. ASSUME NEW r \in Replies, Complete(r) PROVE Gate!GNext
  <2>. DEFINE h == reply[r].held
              S == {h}
              x == AnswerOf(r)
  <2>1. h \in Asks /\ UNCHANGED ask /\ AnswerOf(r) \in Answer
    BY <1>3, CompleteEffect
  <2>2. Unanswered(h)
    BY <1>a, <2>1, PermissionAssumption DEF Held
  <2>3. answer' = [a \in Asks |-> IF a \in S THEN x ELSE answer[a]]
    <3>1. answer' = [a \in Asks |-> answer'[a]]
      BY <1>3, CompleteEffect
    <3>2. \A a \in Asks : answer'[a] = IF a \in S THEN x ELSE answer[a]
      BY <1>3, <2>1, CompleteEffect
    <3>. QED
      BY <3>1, <3>2
  <2>4. S \in SUBSET Asks /\ x \in Answer /\ UNCHANGED ask
    BY <2>1
  <2>5. \A a \in S : Unanswered(a)
    BY <2>2
  <2>. HIDE DEF S, x
  <2>. QED
    BY <2>3, <2>4, <2>5, GateAnswers
<1>4. CASE Dispose
  <2>. DEFINE S == {a \in Asks : InTable(a)}
  <2>1. \A a \in S : Unanswered(a)
    BY <1>a DEF Open
  <2>2. answer' = [a \in Asks |-> IF a \in S THEN "rejected" ELSE answer[a]]
    BY <1>4, <2>1 DEF Dispose, First, Unanswered
  <2>3. UNCHANGED ask /\ "rejected" \in Answer
    BY <1>4 DEF Dispose, Answer
  <2>4. S \in SUBSET Asks
    OBVIOUS
  <2>. HIDE DEF S
  <2>. QED
    BY <2>1, <2>2, <2>3, <2>4, GateAnswers
<1>5. ASSUME NEW r \in Replies,
             InterruptReply(r) \/ \E a \in Asks : NotFound(r, a) \/ \E k \in Kind : Take(r, a, k)
      PROVE  UNCHANGED <<ask, answer>>
  BY <1>5 DEF InterruptReply, NotFound, Take
<1>. QED
  BY <1>1, <1>2, <1>3, <1>4, <1>5 DEF PNext, ReplyStep, pvars

\* The table, the replies and the disposals implement the gate that a caller of
\* ask is promised: one answer for each request, for good.
THEOREM RefinesGate == PermissionSpec => ImplementsGate
<1>1. PInit => Gate!GInit
  BY GateInit
<1>2. IInv /\ [PNext]_pvars => [Gate!GNext]_(Gate!gvars)
  BY GateStep
<1>. QED
  BY <1>1, <1>2, Invariant, PTL DEF PermissionSpec, ImplementsGate, Gate!GateSpec


=============================================================================
