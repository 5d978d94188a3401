------------------------------ MODULE ToolTurn ------------------------------
(***************************************************************************)
(* session/processor.ts over one assistant message, with the               *)
(* PermissionGate its tools ask at. The loop's fiber handles the events of *)
(* the model stream one after the other and writes the part of each tool   *)
(* call; every call is executed by a fiber of its own (session/tools.ts,   *)
(* started by the language-model library through EffectBridge.promise),    *)
(* which nothing interrupts: an aborted turn only sets the call's abort    *)
(* signal. Both write the same parts, by a read and a later write.         *)
(*                                                                         *)
(* A step runs to the next suspension; a read or a write of a part is one,  *)
(* except where what is written does not depend on what anybody else could  *)
(* have changed since the read: those two are one step.                     *)
(* Text, reasoning, snapshots and metadata of the message are left out.     *)
(***************************************************************************)
EXTENDS PermissionGate, Naturals

CONSTANTS
  Calls,        \* tool calls of the message
  ToolAsk,      \* the request that the tool of a call makes, or None
  DoomAsk,      \* the request for a call that repeats itself, or None
  ShouldBreak,  \* experimental.continue_loop_on_deny is not set
  MaxRetries,   \* bound on the failures of the stream that are retried
  None

ASSUME ToolTurnAssumption ==
  /\ ToolAsk \in [Calls -> Asks \cup {None}]
  /\ DoomAsk \in [Calls -> Asks \cup {None}]
  /\ \A c, d \in Calls : ToolAsk[c] = ToolAsk[d] /\ ToolAsk[c] # None => c = d
  /\ \A c, d \in Calls : DoomAsk[c] = DoomAsk[d] /\ DoomAsk[c] # None => c = d
  /\ \A c, d \in Calls : ToolAsk[c] = DoomAsk[d] => ToolAsk[c] = None
  /\ ShouldBreak \in BOOLEAN
  /\ MaxRetries \in Nat
  /\ None \notin Calls

VARIABLES
  part,        \* part[c]: the status stored of the call's part
  registered,  \* the calls in ctx.toolcalls
  next,        \* next[c]: the event of the call that the stream has still to give
  cut,         \* the calls whose abort signal was set before their last event
  tool,        \* tool[c]: the fiber that executes the call
  loop,        \* the fiber of process
  retries

tvars == <<part, registered, next, cut, tool, loop, retries>>
vars == <<gvars, tvars>>

Status == {"absent", "pending", "running", "completed", "error", "aborted"}
Settled == {"completed", "error", "aborted"}

\* seen: the part as it was read, for the write to come.
Tool == [pc : {"none", "running", "asking", "metadata", "complete",
               "completed", "settle", "ended"},
         seen : Status, result : {"none", "ok", "failed", "rejected"}]

\* at: the call whose event is handled, or which cleanup has reached.  sweep:
\* the calls cleanup has still to look at.
Loop == [pc : {"stream", "register", "doom", "settle",
               "backoff", "await", "cleanup", "sweep", "returned"},
         at : Calls \cup {None}, sweep : SUBSET Calls,
         aborted : BOOLEAN, blocked : BOOLEAN, error : BOOLEAN,
         compact : BOOLEAN]

TInit ==
  /\ part = [c \in Calls |-> "absent"]
  /\ registered = {}
  /\ next = [c \in Calls |-> "start"]
  /\ cut = {}
  /\ tool = [c \in Calls |-> [pc |-> "none", seen |-> "absent", result |-> "none"]]
  /\ loop = [pc |-> "stream", at |-> None, sweep |-> {}, aborted |-> FALSE,
             blocked |-> FALSE, error |-> FALSE, compact |-> FALSE]
  /\ retries = 0

Init == GInit /\ TInit

Goto(pc, c) == loop' = [loop EXCEPT !.pc = pc, !.at = c]

\* The stream gives an event of a call: the loop's fiber is free, and the
\* attempt that the call belongs to is not over.
Event(c, e) == loop.pc = "stream" /\ next[c] = e /\ c \notin cut

\* A call that the current attempt has brought and not finished.
Live == {c \in Calls : next[c] # "over" /\ (next[c] # "start" \/ tool[c].pc # "none")}

-----------------------------------------------------------------------------
(* The loop's fiber: handleEvent *)

\* tool-input-start, or tool-call without it: the call is not in the registry,
\* and ensureToolCall inserts its part ...
InputStart(c) ==
  /\ Event(c, "start")
  /\ next' = [next EXCEPT ![c] = "call"]
  /\ part' = [part EXCEPT ![c] = "pending"]
  /\ Goto("register", c)
  /\ UNCHANGED <<gvars, registered, cut, tool, retries>>

\* ... and registers it.
Register(c) ==
  /\ loop.pc = "register" /\ loop.at = c
  /\ registered' = registered \cup {c}
  /\ Goto("stream", None)
  /\ UNCHANGED <<gvars, part, next, cut, tool, retries>>

\* tool-call: updateToolCall writes the part as running, whatever it has read.
\* A call that repeats the two before it has to be permitted.
ToolCall(c) ==
  /\ Event(c, "call")
  /\ part' = [part EXCEPT ![c] = "running"]
  /\ registered' = registered \cup {c}
  /\ next' = [next EXCEPT ![c] = "end"]
  /\ IF DoomAsk[c] = None THEN Goto("stream", None) ELSE Goto("doom", c)
  /\ UNCHANGED <<gvars, cut, tool, retries>>

\* The repeated call is permitted, or the refusal fails the stream: it is an
\* error that no retry follows, and halt records it.
DoomDecided(c) ==
  /\ loop.pc = "doom" /\ loop.at = c
  /\ \/ /\ ask[DoomAsk[c]] \in Permitted
        /\ Goto("stream", None)
        /\ UNCHANGED cut
     \/ /\ ask[DoomAsk[c]] \in Refused
        /\ loop' = [loop EXCEPT !.pc = "await", !.at = None, !.error = TRUE]
        /\ cut' = cut \cup Live
  /\ UNCHANGED <<gvars, part, registered, next, tool, retries>>

StatusOf(result) == IF result = "ok" THEN "completed" ELSE "error"

\* tool-result and tool-error: completeToolCall and failToolCall do something
\* to a registered call whose part is running only, and write the part ...
ToolEnd(c) ==
  /\ Event(c, "end")
  /\ tool[c].pc = "ended"
  /\ IF c \in registered /\ part[c] = "running"
     THEN /\ part' = [part EXCEPT ![c] = StatusOf(tool[c].result)]
          /\ Goto("settle", c)
          /\ UNCHANGED next
     ELSE /\ next' = [next EXCEPT ![c] = "over"]
          /\ UNCHANGED <<part, loop>>
  /\ UNCHANGED <<gvars, registered, cut, tool, retries>>

\* Mutant: the call stays in the registry.
EndSettleKeeps(c) ==
  /\ loop.pc = "settle" /\ loop.at = c
  /\ next' = [next EXCEPT ![c] = "over"]
  /\ loop' = [loop EXCEPT !.pc = "stream", !.at = None,
       !.blocked = IF tool[c].result = "rejected" THEN ShouldBreak ELSE @]
  /\ UNCHANGED <<gvars, part, registered, cut, tool, retries>>

\* Mutant: the last result decides whether the turn is blocked.
EndSettleLast(c) ==
  /\ loop.pc = "settle" /\ loop.at = c
  /\ registered' = registered \ {c}
  /\ next' = [next EXCEPT ![c] = "over"]
  /\ loop' = [loop EXCEPT !.pc = "stream", !.at = None,
       !.blocked = tool[c].result = "rejected" /\ ShouldBreak]
  /\ UNCHANGED <<gvars, part, cut, tool, retries>>

\* ... note a rejection and settle the call.
EndSettle(c) ==
  /\ loop.pc = "settle" /\ loop.at = c
  /\ registered' = registered \ {c}
  /\ next' = [next EXCEPT ![c] = "over"]
  /\ loop' = [loop EXCEPT !.pc = "stream", !.at = None,
       !.blocked = IF tool[c].result = "rejected" THEN ShouldBreak ELSE @]
  /\ UNCHANGED <<gvars, part, cut, tool, retries>>

-----------------------------------------------------------------------------
(* The loop's fiber: the end of the stream *)

\* The last event has been handled, or step-finish has found that the context is
\* too long.  The library gives the result of every call that it executes before
\* it ends the stream; a call whose input began and was never called, or that was
\* called in an answer which stopped for another reason, is left as it is.
StreamEnds ==
  /\ loop.pc = "stream"
  /\ \A c \in Live \ cut : tool[c].pc = "none"
  /\ \E overflow \in BOOLEAN :
       loop' = [loop EXCEPT !.pc = "await", !.compact = overflow]
  /\ UNCHANGED <<gvars, part, registered, next, cut, tool, retries>>

\* The stream fails.  Its scope closes, which sets the abort signal of the
\* calls that are still executed; their entries stay in the registry.
StreamFails ==
  /\ loop.pc = "stream"
  /\ cut' = cut \cup Live
  /\ \/ /\ retries < MaxRetries
        /\ retries' = retries + 1
        /\ loop' = [loop EXCEPT !.pc = "backoff"]
     \/ /\ loop' = [loop EXCEPT !.pc = "await", !.error = TRUE]
        /\ UNCHANGED retries
     \/ /\ loop' = [loop EXCEPT !.pc = "await", !.compact = TRUE]
        /\ UNCHANGED retries
  /\ UNCHANGED <<gvars, part, registered, next, tool>>

\* After the backoff process asks for a new stream.
Retry ==
  /\ loop.pc = "backoff"
  /\ loop' = [loop EXCEPT !.pc = "stream"]
  /\ UNCHANGED <<gvars, part, registered, next, cut, tool, retries>>

\* The turn is cancelled: the fiber is interrupted where it is suspended, and
\* what it was about to write is not written.
Abort ==
  /\ loop.pc \in {"stream", "register", "doom", "settle",
                  "backoff"}
  /\ cut' = cut \cup Live
  /\ loop' = [loop EXCEPT !.pc = "await", !.at = None, !.aborted = TRUE,
                          !.error = loop.pc # "backoff"]
  /\ IF loop.pc = "doom" /\ ask[DoomAsk[loop.at]] = "waiting"
     THEN Interrupted(DoomAsk[loop.at]) ELSE UNCHANGED gvars
  /\ UNCHANGED <<part, registered, next, tool, retries>>

-----------------------------------------------------------------------------
(* The loop's fiber: cleanup, which is not interrupted *)

\* Mutant: no time limit on the wait.
AwaitAll ==
  /\ loop.pc = "await"
  /\ \A c \in registered : tool[c].pc = "ended"
  /\ loop' = [loop EXCEPT !.pc = "cleanup", !.sweep = registered]
  /\ UNCHANGED <<gvars, part, registered, next, cut, tool, retries>>

\* Each registered call is awaited for 250 ms at most, a time that no tool
\* keeps to; then the calls still registered are gone through.
AwaitDone ==
  /\ loop.pc = "await"
  /\ loop' = [loop EXCEPT !.pc = "cleanup", !.sweep = registered]
  /\ UNCHANGED <<gvars, part, registered, next, cut, tool, retries>>

\* Mutant: only a call that was executed is marked.
SweepReadRunning(c) ==
  /\ loop.pc = "cleanup"
  /\ c \in loop.sweep
  /\ loop' = [loop EXCEPT !.sweep = @ \ {c},
       !.pc = IF c \in registered /\ part[c] = "running" THEN "sweep" ELSE @,
       !.at = IF c \in registered /\ part[c] = "running" THEN c ELSE @]
  /\ UNCHANGED <<gvars, part, registered, next, cut, tool, retries>>

SweepRead(c) ==
  /\ loop.pc = "cleanup"
  /\ c \in loop.sweep
  /\ loop' = [loop EXCEPT !.sweep = @ \ {c},
       !.pc = IF c \in registered THEN "sweep" ELSE @,
       !.at = IF c \in registered THEN c ELSE @]
  /\ UNCHANGED <<gvars, part, registered, next, cut, tool, retries>>

\* "Tool execution aborted", whatever the part was.
SweepWrite(c) ==
  /\ loop.pc = "sweep" /\ loop.at = c
  /\ part' = [part EXCEPT ![c] = "aborted"]
  /\ Goto("cleanup", None)
  /\ UNCHANGED <<gvars, registered, next, cut, tool, retries>>

Return ==
  /\ loop.pc = "cleanup"
  /\ loop.sweep = {}
  /\ registered' = {}
  /\ Goto("returned", None)
  /\ UNCHANGED <<gvars, part, next, cut, tool, retries>>

-----------------------------------------------------------------------------
(* The fiber of a call: execute *)

ToolGoto(c, pc) == tool' = [tool EXCEPT ![c].pc = pc]
ToolEnds(c, result) ==
  tool' = [tool EXCEPT ![c] = [@ EXCEPT !.pc = "ended", !.result = result]]

\* The library executes the call once the model has given it, which may be
\* before the loop's fiber has handled its first event.
Execute(c) ==
  /\ tool[c].pc = "none"
  /\ c \notin cut /\ next[c] # "over"
  /\ loop.pc \notin {"backoff", "await", "cleanup", "sweep", "returned"}
  /\ ToolGoto(c, "running")
  /\ UNCHANGED <<gvars, part, registered, next, cut, loop, retries>>

\* context.ask: the fiber goes on with the answer, a refusal ends it.
StartAsk(c) ==
  /\ tool[c].pc = "running"
  /\ ToolAsk[c] # None
  /\ ask[ToolAsk[c]] = "new"
  /\ ToolGoto(c, "asking")
  /\ UNCHANGED <<gvars, part, registered, next, cut, loop, retries>>

Asked(c) ==
  /\ tool[c].pc = "asking"
  /\ CASE ask[ToolAsk[c]] \in Permitted -> ToolGoto(c, "running")
       [] ask[ToolAsk[c]] \in {"denied", "corrected"} -> ToolEnds(c, "failed")
       [] ask[ToolAsk[c]] = "rejected" -> ToolEnds(c, "rejected")
       [] OTHER -> FALSE
  /\ UNCHANGED <<gvars, part, registered, next, cut, loop, retries>>

\* context.metadata: updateToolCall of a registered call reads the part ...
MetadataRead(c) ==
  /\ tool[c].pc = "running"
  /\ c \in registered
  /\ tool' = [tool EXCEPT ![c] = [@ EXCEPT !.pc = "metadata", !.seen = part[c]]]
  /\ UNCHANGED <<gvars, part, registered, next, cut, loop, retries>>

\* ... writes it, as running if it was not settled, and registers the call.
MetadataWrite(c) ==
  /\ tool[c].pc = "metadata"
  /\ part' = [part EXCEPT ![c] =
       IF tool[c].seen \in Settled THEN tool[c].seen ELSE "running"]
  /\ registered' = registered \cup {c}
  /\ tool' = [tool EXCEPT ![c] = [@ EXCEPT !.pc = "running", !.seen = "absent"]]
  /\ UNCHANGED <<gvars, next, cut, loop, retries>>

\* The tool is done; the stream gives its end, unless the signal is set: then
\* the fiber completes the call itself.
ToolDone(c) ==
  /\ tool[c].pc = "running"
  /\ \/ ToolEnds(c, "failed")
     \/ c \notin cut /\ ToolEnds(c, "ok")
     \/ c \in cut /\ ToolGoto(c, "complete")
  /\ UNCHANGED <<gvars, part, registered, next, cut, loop, retries>>

CompleteRead(c) ==
  /\ tool[c].pc = "complete"
  /\ IF c \in registered /\ part[c] = "running"
     THEN ToolGoto(c, "completed") ELSE ToolEnds(c, "ok")
  /\ UNCHANGED <<gvars, part, registered, next, cut, loop, retries>>

CompleteWrite(c) ==
  /\ tool[c].pc = "completed"
  /\ part' = [part EXCEPT ![c] = "completed"]
  /\ ToolGoto(c, "settle")
  /\ UNCHANGED <<gvars, registered, next, cut, loop, retries>>

CompleteSettle(c) ==
  /\ tool[c].pc = "settle"
  /\ registered' = registered \ {c}
  /\ ToolEnds(c, "ok")
  /\ UNCHANGED <<gvars, part, next, cut, loop, retries>>

-----------------------------------------------------------------------------
LoopEvent(c) ==
  \/ InputStart(c) \/ Register(c) \/ ToolCall(c) \/ DoomDecided(c)
  \/ ToolEnd(c) \/ EndSettle(c)

Cleanup ==
  \/ AwaitDone
  \/ \E c \in Calls : SweepRead(c) \/ SweepWrite(c)
  \/ Return

ToolStep(c) ==
  \/ Execute(c) \/ StartAsk(c) \/ Asked(c) \/ MetadataRead(c) \/ MetadataWrite(c)
  \/ ToolDone(c) \/ CompleteRead(c) \/ CompleteWrite(c) \/ CompleteSettle(c)

\* Somebody stands at the gate with the request.  The fiber of a tool is never
\* interrupted there; the loop's is, by Abort.
AtGate(a) ==
  \E c \in Calls : \/ a = ToolAsk[c] /\ tool[c].pc = "asking"
                   \/ a = DoomAsk[c] /\ loop.pc = "doom" /\ loop.at = c

GateStep ==
  /\ \/ \E a \in Asks : AtGate(a) /\ (Ask(a) \/ Told(a))
     \/ \E S \in SUBSET Asks : Answers(S)
  /\ UNCHANGED tvars

Next ==
  \/ \E c \in Calls : LoopEvent(c) \/ ToolStep(c)
  \/ StreamEnds \/ StreamFails \/ Retry \/ Abort \/ Cleanup
  \/ GateStep

Spec == Init /\ [][Next]_vars

\* The loop's fiber is scheduled once it is interrupted.  Nothing is asked of
\* the tools, of the model or of the user.
FairSpec == Spec /\ WF_vars(Cleanup)

-----------------------------------------------------------------------------
Returned == loop.pc = "returned"

\* What process answers to the prompt loop.
Outcome ==
  IF loop.aborted THEN "interrupted"
  ELSE IF loop.compact THEN "compact"
  ELSE IF loop.blocked \/ loop.error THEN "stop"
  ELSE "continue"

TypeOK ==
  /\ part \in [Calls -> Status]
  /\ registered \subseteq Calls
  /\ next \in [Calls -> {"start", "call", "end", "over"}]
  /\ cut \subseteq Calls
  /\ tool \in [Calls -> Tool]
  /\ loop \in Loop
  /\ retries \in 0..MaxRetries

\* A call that no failure and no abort cut off is settled when process returns.
\* If it was executed, its tool has ended and the part says what the tool did,
\* whatever other calls, retries, rejections, late writes of metadata and cleanup
\* do; if the stream ended without its execution, cleanup has marked it.
UncutIsSettled ==
  Returned => \A c \in Calls \ cut :
    IF tool[c].pc = "none"
    THEN part[c] = IF next[c] = "start" THEN "absent" ELSE "aborted"
    ELSE tool[c].pc = "ended" /\ part[c] = StatusOf(tool[c].result)

\* Why a part can still be unsettled when process has returned: the turn was
\* aborted before it had registered the call, or the tool's fiber, which goes
\* on, wrote metadata over the mark of cleanup.
UnsettledIsExplained ==
  Returned => \A c \in Calls :
    /\ part[c] = "pending" => loop.aborted /\ next[c] = "call"
    /\ part[c] = "running" => c \in cut /\ tool[c].pc # "none"

\* A rejection by the user of a call that was not cut off does not let the loop
\* go on with the model, unless the context has to be compacted first; what the
\* other calls do after it, errors and corrections among it, does not take it
\* back.  (The result of a call that was cut off is never handled.)
RejectStops ==
  Returned /\ (\E c \in Calls \ cut : tool[c].result = "rejected") /\ ShouldBreak
    => Outcome # "continue"

\* An aborted turn returns, though its tools may hang and nobody may answer.
AbortReturns == loop.aborted ~> Returned

=============================================================================
