--------------------------- MODULE PermissionGate ---------------------------
(***************************************************************************)
(* What permission/index.ts promises to a caller of ask: the rules decide,  *)
(* or the caller waits for an answer.  A request gets one answer, which     *)
(* nothing changes and which is what its caller is told, however the        *)
(* replies, rejections of whole sessions and disposals behind it overlap.   *)
(***************************************************************************)
CONSTANTS
  Asks,          \* calls of ask: one request each
  CanInterrupt   \* the requests whose caller can be interrupted while it waits

VARIABLES
  ask,      \* ask[a]: where the call stands, or how it has ended
  answer    \* answer[a]: the Deferred of the request

gvars == <<ask, answer>>

Answer == {"granted", "rejected", "corrected"}
Refused == {"denied", "rejected", "corrected"}
Permitted == {"allowed", "granted"}

GInit ==
  /\ ask = [a \in Asks |-> "new"]
  /\ answer = [a \in Asks |-> "none"]

\* The call returns at once, or it waits.
Ask(a) ==
  /\ ask[a] = "new"
  /\ \E decision \in {"allowed", "denied", "waiting"} :
       ask' = [ask EXCEPT ![a] = decision]
  /\ UNCHANGED answer

\* Requests that wait, and have no answer yet, are answered: several by one
\* disposal, and also those whose caller has gone.
Answers(S) ==
  /\ \A a \in S : ask[a] \in {"waiting", "interrupted"} /\ answer[a] = "none"
  /\ \E x \in Answer :
       answer' = [a \in Asks |-> IF a \in S THEN x ELSE answer[a]]
  /\ UNCHANGED ask

\* The caller is told.
Told(a) ==
  /\ ask[a] = "waiting"
  /\ answer[a] # "none"
  /\ ask' = [ask EXCEPT ![a] = answer[a]]
  /\ UNCHANGED answer

Interrupted(a) ==
  /\ a \in CanInterrupt
  /\ ask[a] = "waiting"
  /\ ask' = [ask EXCEPT ![a] = "interrupted"]
  /\ UNCHANGED answer

GNext ==
  \/ \E a \in Asks : Ask(a) \/ Told(a) \/ Interrupted(a)
  \/ \E S \in SUBSET Asks : Answers(S)

GateSpec == GInit /\ [][GNext]_gvars

=============================================================================
