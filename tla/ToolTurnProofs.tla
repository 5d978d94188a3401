--------------------------- MODULE ToolTurnProofs ---------------------------
(***************************************************************************)
(* ToolTurn.tla for any number of calls, whichever of them ask, and any     *)
(* number of retries: what the turn stores of a call that is not cut off is *)
(* what its tool did, in the order of the stream's events; a call that is   *)
(* cut off is marked by cleanup, unless it was never registered or its tool *)
(* writes once more.  The invariant follows a call through the two fibers   *)
(* that write its part.                                                     *)
(***************************************************************************)
EXTENDS ToolTurn, TLAPS

\* The fiber of a call that has ended has a result, and no other has; one that
\* completes its call by itself had its signal set.
Fiber(c) ==
  /\ tool[c].pc = "ended" <=> tool[c].result # "none"
  /\ tool[c].pc \in {"complete", "completed", "settle"} => c \in cut
  /\ tool[c].pc = "settle" => part[c] \in Settled

\* A call that the stream has begun and that nobody has executed.
Begun(c) == tool[c].pc = "none" /\ next[c] \in {"call", "end"}

\* The call whose event the loop's fiber is handling is none of those cut off;
\* cleanup marks only those, and what was never executed.
LoopAt ==
  /\ loop.pc \in {"register", "doom", "settle"} => loop.at \in Calls \ cut
  /\ loop.pc = "register" => next[loop.at] = "call"
  /\ loop.pc \in {"doom", "settle"} => next[loop.at] = "end"
  /\ loop.pc = "doom" => DoomAsk[loop.at] \in Asks
  /\ loop.pc = "settle" => /\ tool[loop.at].pc = "ended"
                           /\ part[loop.at] = StatusOf(tool[loop.at].result)
  /\ loop.pc = "sweep" => loop.at \in Calls /\ (loop.at \in cut \/ Begun(loop.at))

Sweeping == {"cleanup", "sweep", "returned"}
Pausing == {"backoff", "await"} \cup Sweeping

\* Cleanup has marked a call that was never executed.
Marked(c) == loop.pc \in Sweeping /\ tool[c].pc = "none" /\ part[c] = "aborted"

\* What is stored of a call that is not cut off, event by event.
BeforeStart(c) == part[c] = "absent" /\ c \notin registered /\ tool[c].pc # "metadata"
Started(c) ==
  \/ c \in registered /\ part[c] \in {"pending", "running"}
  \/ /\ loop.pc = "register" /\ loop.at = c
     /\ c \notin registered /\ part[c] = "pending" /\ tool[c].pc # "metadata"
Given(c) == /\ c \in registered
            /\ part[c] = "running" \/ (loop.pc = "settle" /\ loop.at = c)
Over(c) ==
  /\ tool[c].pc = "ended" /\ c \notin registered
  /\ part[c] = StatusOf(tool[c].result)
  /\ tool[c].result = "rejected" /\ ShouldBreak => loop.blocked

Uncut(c) ==
  c \notin cut =>
    /\ next[c] = "start" => BeforeStart(c)
    /\ next[c] = "call" => Started(c) \/ Marked(c)
    /\ next[c] = "end" => Given(c) \/ Marked(c)
    /\ next[c] = "over" => Over(c)
    /\ tool[c].pc = "metadata" => tool[c].seen \in {"pending", "running"}
    /\ loop.pc \in Pausing => next[c] = "over" \/ tool[c].pc = "none"

\* Cleanup has not reached the call yet, and will.
Listed(c) ==
  \/ c \in registered /\ loop.pc \notin {"cleanup", "sweep", "returned"}
  \/ c \in registered /\ c \in loop.sweep /\ loop.pc \in {"cleanup", "sweep"}
  \/ loop.pc = "sweep" /\ loop.at = c

Unsettled(c) ==
  /\ part[c] = "pending" =>
       /\ next[c] = "call"
       /\ \/ loop.aborted /\ c \in cut
          \/ Listed(c)
          \/ loop.pc = "register" /\ loop.at = c
  /\ part[c] = "running" /\ tool[c].pc = "none" => Listed(c)

IInv ==
  /\ TypeOK
  /\ LoopAt
  /\ \A c \in Calls : Fiber(c) /\ Uncut(c) /\ Unsettled(c)

-----------------------------------------------------------------------------
(* The records, and how a step changes them. *)

ToolPlaces == {"none", "running", "asking", "metadata", "complete",
               "completed", "settle", "ended"}
LoopPlaces == {"stream", "register", "doom", "settle",
               "backoff", "await", "cleanup", "sweep", "returned"}
Results == {"none", "ok", "failed", "rejected"}

LEMMA TypeIs ==
  ASSUME TypeOK
  PROVE  /\ part \in [Calls -> Status] /\ next \in [Calls -> {"start", "call", "end", "over"}]
         /\ tool \in [Calls -> Tool] /\ loop \in Loop
         /\ registered \subseteq Calls /\ cut \subseteq Calls
         /\ loop.pc \in LoopPlaces /\ loop.at \in Calls \cup {None} /\ loop.sweep \subseteq Calls
         /\ \A c \in Calls : /\ tool[c].pc \in ToolPlaces /\ tool[c].seen \in Status
                             /\ tool[c].result \in Results
<1>1. loop \in Loop /\ tool \in [Calls -> Tool]
  BY DEF TypeOK
<1>2. loop.pc \in LoopPlaces /\ loop.at \in Calls \cup {None} /\ loop.sweep \subseteq Calls
  BY <1>1 DEF Loop, LoopPlaces
<1>3. ASSUME NEW c \in Calls
      PROVE  /\ tool[c].pc \in ToolPlaces /\ tool[c].seen \in Status /\ tool[c].result \in Results
  <2>1. tool[c] \in Tool
    BY <1>1
  <2>. QED
    BY <2>1 DEF Tool, ToolPlaces, Results
<1>. QED
  BY <1>1, <1>2, <1>3 DEF TypeOK

\* The loop's fiber is at a place, with a call and the calls left to sweep.
Loops(pc, at, sweep, aborted, blocked) ==
  /\ loop' \in Loop /\ loop'.pc = pc /\ loop'.at = at /\ loop'.sweep = sweep
  /\ loop'.aborted = aborted /\ loop'.blocked = blocked

LEMMA GotoIs ==
  ASSUME TypeOK, NEW pc \in LoopPlaces, NEW at \in Calls \cup {None}, Goto(pc, at)
  PROVE  Loops(pc, at, loop.sweep, loop.aborted, loop.blocked)
<1>1. loop \in Loop
  BY DEF TypeOK
<1>. QED
  BY <1>1 DEF Goto, Loops, Loop, LoopPlaces

\* The fiber of a call is at a place; the fibers of the others stay.
ToolIs(c, pc, seen, result) ==
  /\ tool' \in [Calls -> Tool]
  /\ tool'[c].pc = pc /\ tool'[c].seen = seen /\ tool'[c].result = result
  /\ \A d \in Calls : d # c => tool'[d] = tool[d]

LEMMA ToolChange ==
  ASSUME TypeOK, NEW c \in Calls, NEW r \in Tool, tool' = [tool EXCEPT ![c] = r]
  PROVE  ToolIs(c, r.pc, r.seen, r.result)
BY DEF TypeOK, ToolIs

LEMMA ToolMoves ==
  ASSUME TypeOK, NEW c \in Calls
  PROVE  /\ \A pc \in ToolPlaces :
              ToolGoto(c, pc) => ToolIs(c, pc, tool[c].seen, tool[c].result)
         /\ \A result \in Results :
              ToolEnds(c, result) => ToolIs(c, "ended", tool[c].seen, result)
<1>1. tool \in [Calls -> Tool] /\ tool[c] \in Tool
  BY DEF TypeOK
<1>2. ASSUME NEW pc \in ToolPlaces, ToolGoto(c, pc)
      PROVE  ToolIs(c, pc, tool[c].seen, tool[c].result)
  <2>. DEFINE r == [tool[c] EXCEPT !.pc = pc]
  <2>1. r \in Tool /\ r.pc = pc /\ r.seen = tool[c].seen /\ r.result = tool[c].result
    BY <1>1 DEF Tool, ToolPlaces
  <2>2. tool' = [tool EXCEPT ![c] = r]
    BY <1>1, <1>2 DEF ToolGoto
  <2>. HIDE DEF r
  <2>. QED
    BY <2>1, <2>2, ToolChange
<1>3. ASSUME NEW result \in Results, ToolEnds(c, result)
      PROVE  ToolIs(c, "ended", tool[c].seen, result)
  <2>. DEFINE r == [tool[c] EXCEPT !.pc = "ended", !.result = result]
  <2>1. r \in Tool /\ r.pc = "ended" /\ r.seen = tool[c].seen /\ r.result = result
    BY <1>1 DEF Tool, Results
  <2>2. tool' = [tool EXCEPT ![c] = r]
    BY <1>1, <1>3 DEF ToolEnds
  <2>. HIDE DEF r
  <2>. QED
    BY <2>1, <2>2, ToolChange
<1>. QED
  BY <1>2, <1>3

-----------------------------------------------------------------------------
(* What a step leaves alone. *)

\* A call that the step does not touch.
Same(c) ==
  /\ part'[c] = part[c] /\ next'[c] = next[c] /\ tool'[c] = tool[c]
  /\ c \in registered' <=> c \in registered
  /\ c \in cut' <=> c \in cut

\* A step of the loop's fiber that does not concern the call.
LoopKeeps(c) ==
  /\ loop.pc \in {"register", "settle"} /\ loop.at = c =>
       loop'.pc = loop.pc /\ loop'.at = loop.at
  /\ loop.blocked /\ ShouldBreak => loop'.blocked
  /\ loop.aborted => loop'.aborted
  /\ loop'.pc \in Pausing => loop.pc \in Pausing
  /\ loop.pc \in Sweeping => loop'.pc \in Sweeping
  /\ Listed(c) => Listed(c)'

LEMMA Elsewhere ==
  ASSUME NEW c \in Calls, Fiber(c), Uncut(c), Unsettled(c), Same(c), LoopKeeps(c)
  PROVE  Fiber(c)' /\ Uncut(c)' /\ Unsettled(c)'
<1>1. Fiber(c)'
  BY DEF Fiber, Same
<1>2. Uncut(c)'
  <2>. SUFFICES ASSUME c \notin cut' PROVE Uncut(c)'
    BY DEF Uncut
  <2>0. c \notin cut
    BY DEF Same
  <2>1. next'[c] = "start" => BeforeStart(c)'
    BY <2>0 DEF Uncut, BeforeStart, Same
  <2>2. next'[c] = "call" => Started(c)' \/ Marked(c)'
    BY <2>0 DEF Uncut, Started, Marked, Same, LoopKeeps
  <2>3. next'[c] = "end" => Given(c)' \/ Marked(c)'
    BY <2>0 DEF Uncut, Given, Marked, Same, LoopKeeps
  <2>4. next'[c] = "over" => Over(c)'
    BY <2>0 DEF Uncut, Over, Same, LoopKeeps, StatusOf
  <2>5. tool'[c].pc = "metadata" => tool'[c].seen \in {"pending", "running"}
    BY <2>0 DEF Uncut, Same
  <2>6. loop'.pc \in Pausing => next'[c] = "over" \/ tool'[c].pc = "none"
    BY <2>0 DEF Uncut, Same, LoopKeeps
  <2>. QED
    BY <2>1, <2>2, <2>3, <2>4, <2>5, <2>6 DEF Uncut
<1>3. Unsettled(c)'
  BY DEF Unsettled, Same, LoopKeeps
<1>. QED
  BY <1>1, <1>2, <1>3

Kept == LoopAt' /\ \A c \in Calls : Fiber(c)' /\ Uncut(c)' /\ Unsettled(c)'

InStream == {"stream", "register", "doom", "settle"}

\* A step of the loop's fiber for one call of the stream.
Handles(x) ==
  /\ loop.pc \in InStream /\ loop'.pc \in InStream
  /\ loop.pc # "stream" => loop.at = x
  /\ loop'.aborted = loop.aborted /\ (loop.blocked /\ ShouldBreak => loop'.blocked)
  /\ \A c \in Calls : c # x => Same(c)

LEMMA HandlesIs ==
  ASSUME IInv, NEW x \in Calls, Handles(x), LoopAt', Fiber(x)', Uncut(x)', Unsettled(x)'
  PROVE  Kept
<1>1. ASSUME NEW c \in Calls, c # x PROVE LoopKeeps(c)
  BY <1>1 DEF Handles, LoopKeeps, Listed, InStream, Pausing, Sweeping, Same
<1>2. ASSUME NEW c \in Calls, c # x PROVE Fiber(c)' /\ Uncut(c)' /\ Unsettled(c)'
  BY <1>1, <1>2, Elsewhere DEF IInv, Handles
<1>. QED
  BY <1>2 DEF Kept

\* A step of the fiber of one call.
Works(x) ==
  /\ tool[x].pc # "ended" /\ (tool[x].pc = "none" => loop.pc \notin Pausing)
  /\ UNCHANGED <<next, cut, loop>>
  /\ \A c \in Calls : c # x => Same(c)

LEMMA WorksIs ==
  ASSUME IInv, NEW x \in Calls, Works(x), Fiber(x)', Uncut(x)', Unsettled(x)'
  PROVE  Kept
<1>1. ASSUME NEW c \in Calls, c # x PROVE LoopKeeps(c)
  BY <1>1 DEF Works, LoopKeeps, Listed, Same
<1>2. ASSUME NEW c \in Calls, c # x PROVE Fiber(c)' /\ Uncut(c)' /\ Unsettled(c)'
  BY <1>1, <1>2, Elsewhere DEF IInv, Works
<1>3. LoopAt'
  BY DEF IInv, LoopAt, Works, Same, StatusOf, Begun, Pausing, Sweeping
<1>. QED
  BY <1>2, <1>3 DEF Kept

-----------------------------------------------------------------------------
(* The fiber of a call. *)

\* A call that its tool is executing and nobody cut off: the stream still has an
\* event of it to give.
LEMMA Executed ==
  ASSUME NEW x \in Calls, Uncut(x), x \notin cut, tool[x].pc \notin {"none", "ended"}
  PROVE  loop.pc \notin Pausing /\ next[x] # "over"
BY DEF Uncut, Over

LEMMA ToolType ==
  ASSUME TypeOK, tool' \in [Calls -> Tool], part' \in [Calls -> Status],
         registered' \subseteq Calls, UNCHANGED <<next, cut, loop, retries>>
  PROVE  TypeOK'
BY DEF TypeOK

LEMMA ExecuteKeeps ==
  ASSUME IInv, NEW x \in Calls, Execute(x)
  PROVE  TypeOK' /\ Kept
<1>a. TypeOK /\ LoopAt /\ Fiber(x) /\ Uncut(x) /\ Unsettled(x)
  BY DEF IInv
<1>b. tool[x].pc = "none" /\ x \notin cut /\ next[x] # "over" /\ loop.pc \notin Pausing /\ UNCHANGED <<next, cut, loop, retries>>
  BY DEF Execute, Pausing, Sweeping
<1>c. ToolIs(x, "running", tool[x].seen, tool[x].result)
  BY <1>a, <1>b, ToolMoves DEF Execute, ToolPlaces, Results
<1>d. /\ tool' \in [Calls -> Tool] /\ \A c \in Calls : c # x => tool'[c] = tool[c]
  BY <1>c DEF ToolIs
<1>e. UNCHANGED <<part, registered>>
  BY DEF Execute
<1>f. TypeOK'
  BY <1>a, <1>b, <1>d, <1>e, ToolType DEF TypeOK
<1>g. Works(x)
  BY <1>b, <1>d, <1>e DEF Works, Same
<1>1. Fiber(x)'
  BY <1>a, <1>b, <1>c, <1>e DEF Fiber, ToolIs
<1>2. Uncut(x)'
  BY <1>a, <1>b, <1>c, <1>e DEF Uncut, BeforeStart, Started, Given, Marked, ToolIs, Pausing
<1>3. Unsettled(x)'
  BY <1>a, <1>b, <1>c, <1>e DEF Unsettled, Listed, ToolIs
<1>. QED
  BY <1>f, <1>g, <1>1, <1>2, <1>3, WorksIs

LEMMA StartAskKeeps ==
  ASSUME IInv, NEW x \in Calls, StartAsk(x)
  PROVE  TypeOK' /\ Kept
<1>a. TypeOK /\ LoopAt /\ Fiber(x) /\ Uncut(x) /\ Unsettled(x)
  BY DEF IInv
<1>b. tool[x].pc = "running" /\ UNCHANGED <<next, cut, loop, retries>>
  BY DEF StartAsk
<1>c. ToolIs(x, "asking", tool[x].seen, tool[x].result)
  BY <1>a, <1>b, ToolMoves DEF StartAsk, ToolPlaces, Results
<1>d. /\ tool' \in [Calls -> Tool] /\ \A c \in Calls : c # x => tool'[c] = tool[c]
  BY <1>c DEF ToolIs
<1>e. UNCHANGED <<part, registered>>
  BY DEF StartAsk
<1>f. TypeOK'
  BY <1>a, <1>b, <1>d, <1>e, ToolType DEF TypeOK
<1>g. Works(x)
  BY <1>b, <1>d, <1>e DEF Works, Same
<1>1. Fiber(x)'
  BY <1>a, <1>b, <1>c, <1>e DEF Fiber, ToolIs
<1>2. Uncut(x)'
  <2>. SUFFICES ASSUME x \notin cut PROVE Uncut(x)'
    BY <1>b DEF Uncut
  <2>1. loop.pc \notin Pausing /\ next[x] # "over"
    BY <1>a, <1>b, Executed
  <2>. QED
    BY <1>a, <1>b, <1>c, <1>e, <2>1 DEF Uncut, BeforeStart, Started, Given, ToolIs, Marked
<1>3. Unsettled(x)'
  BY <1>a, <1>b, <1>c, <1>e DEF Unsettled, Listed, ToolIs
<1>. QED
  BY <1>f, <1>g, <1>1, <1>2, <1>3, WorksIs

LEMMA AskedKeeps ==
  ASSUME IInv, NEW x \in Calls, Asked(x)
  PROVE  TypeOK' /\ Kept
<1>a. TypeOK /\ LoopAt /\ Fiber(x) /\ Uncut(x) /\ Unsettled(x)
  BY DEF IInv
<1>b. tool[x].pc = "asking" /\ UNCHANGED <<next, cut, loop, retries>>
  BY DEF Asked
<1>c. \/ ToolIs(x, "running", tool[x].seen, tool[x].result)
      \/ ToolIs(x, "ended", tool[x].seen, "failed")
      \/ ToolIs(x, "ended", tool[x].seen, "rejected")
  <2>1. \/ ToolGoto(x, "running")
        \/ ToolEnds(x, "failed")
        \/ ToolEnds(x, "rejected")
    BY DEF Asked
  <2>. QED
    BY <1>a, <2>1, ToolMoves DEF ToolPlaces, Results
<1>d. /\ tool' \in [Calls -> Tool] /\ \A c \in Calls : c # x => tool'[c] = tool[c]
  BY <1>c DEF ToolIs
<1>e. UNCHANGED <<part, registered>>
  BY DEF Asked
<1>f. TypeOK'
  BY <1>a, <1>b, <1>d, <1>e, ToolType DEF TypeOK
<1>g. Works(x)
  BY <1>b, <1>d, <1>e DEF Works, Same
<1>1. Fiber(x)'
  BY <1>a, <1>b, <1>c, <1>e DEF Fiber, ToolIs
<1>2. Uncut(x)'
  <2>. SUFFICES ASSUME x \notin cut PROVE Uncut(x)'
    BY <1>b DEF Uncut
  <2>1. loop.pc \notin Pausing /\ next[x] # "over"
    BY <1>a, <1>b, Executed
  <2>. QED
    BY <1>a, <1>b, <1>c, <1>e, <2>1 DEF Uncut, BeforeStart, Started, Given, ToolIs, Marked
<1>3. Unsettled(x)'
  BY <1>a, <1>b, <1>c, <1>e DEF Unsettled, Listed, ToolIs
<1>. QED
  BY <1>f, <1>g, <1>1, <1>2, <1>3, WorksIs

LEMMA MetadataReadKeeps ==
  ASSUME IInv, NEW x \in Calls, MetadataRead(x)
  PROVE  TypeOK' /\ Kept
<1>a. TypeOK /\ LoopAt /\ Fiber(x) /\ Uncut(x) /\ Unsettled(x)
  BY DEF IInv
<1>b. tool[x].pc = "running" /\ x \in registered /\ UNCHANGED <<next, cut, loop, retries>>
  BY DEF MetadataRead
<1>c. ToolIs(x, "metadata", part[x], tool[x].result)
  <2>. DEFINE r == [tool[x] EXCEPT !.pc = "metadata", !.seen = part[x]]
  <2>1. tool \in [Calls -> Tool] /\ tool[x] \in Tool /\ part[x] \in Status
    BY <1>a DEF TypeOK
  <2>2. r \in Tool /\ r.pc = "metadata" /\ r.seen = part[x] /\ r.result = tool[x].result
    BY <2>1 DEF Tool
  <2>3. tool' = [tool EXCEPT ![x] = r]
    BY <2>1 DEF MetadataRead
  <2>. HIDE DEF r
  <2>. QED
    BY <1>a, <2>2, <2>3, ToolChange
<1>d. /\ tool' \in [Calls -> Tool] /\ \A c \in Calls : c # x => tool'[c] = tool[c]
  BY <1>c DEF ToolIs
<1>e. UNCHANGED <<part, registered>>
  BY DEF MetadataRead
<1>f. TypeOK'
  BY <1>a, <1>b, <1>d, <1>e, ToolType DEF TypeOK
<1>g. Works(x)
  BY <1>b, <1>d, <1>e DEF Works, Same
<1>1. Fiber(x)'
  BY <1>a, <1>b, <1>c, <1>e DEF Fiber, ToolIs
<1>2. Uncut(x)'
  <2>. SUFFICES ASSUME x \notin cut PROVE Uncut(x)'
    BY <1>b DEF Uncut
  <2>1. loop.pc \notin Pausing /\ next[x] # "over"
    BY <1>a, <1>b, Executed
  <2>2. next[x] # "start" /\ part[x] \in {"pending", "running"}
    <3>1. next[x] # "start"
      BY <1>a, <1>b DEF Uncut, BeforeStart
    <3>2. ~(loop.pc = "settle" /\ loop.at = x)
      BY <1>a, <1>b DEF LoopAt, Begun
    <3>3. next[x] \in {"call", "end"}
      BY <1>a, <2>1, <3>1, TypeIs
    <3>. QED
      BY <1>a, <2>1, <3>1, <3>2, <3>3 DEF Uncut, Started, Given, Marked, Pausing
  <2>3. next[x] = "call" => Started(x)'
    BY <1>a, <1>b, <1>e, <2>2 DEF Uncut, Started, Marked
  <2>4. next[x] = "end" => Given(x)'
    BY <1>a, <1>b, <1>e, <2>2 DEF Uncut, Given, Marked
  <2>. QED
    BY <1>b, <1>c, <2>1, <2>2, <2>3, <2>4 DEF Uncut, ToolIs
<1>3. Unsettled(x)'
  BY <1>a, <1>b, <1>c, <1>e DEF Unsettled, Listed, ToolIs
<1>. QED
  BY <1>f, <1>g, <1>1, <1>2, <1>3, WorksIs

LEMMA MetadataWriteKeeps ==
  ASSUME IInv, NEW x \in Calls, MetadataWrite(x)
  PROVE  TypeOK' /\ Kept
<1>a. TypeOK /\ LoopAt /\ Fiber(x) /\ Uncut(x) /\ Unsettled(x)
  BY DEF IInv
<1>b. tool[x].pc = "metadata" /\ UNCHANGED <<next, cut, loop, retries>>
  BY DEF MetadataWrite
<1>c. ToolIs(x, "running", "absent", tool[x].result)
  <2>. DEFINE r == [tool[x] EXCEPT !.pc = "running", !.seen = "absent"]
  <2>1. tool \in [Calls -> Tool] /\ tool[x] \in Tool
    BY <1>a DEF TypeOK
  <2>2. r \in Tool /\ r.pc = "running" /\ r.seen = "absent" /\ r.result = tool[x].result
    BY <2>1 DEF Tool, Status
  <2>3. tool' = [tool EXCEPT ![x] = r]
    BY <2>1 DEF MetadataWrite
  <2>. HIDE DEF r
  <2>. QED
    BY <1>a, <2>2, <2>3, ToolChange
<1>d. /\ tool' \in [Calls -> Tool] /\ \A c \in Calls : c # x => tool'[c] = tool[c]
  BY <1>c DEF ToolIs
<1>e. /\ part' \in [Calls -> Status] /\ registered' \subseteq Calls
      /\ x \in registered'
      /\ part'[x] = IF tool[x].seen \in Settled THEN tool[x].seen ELSE "running"
      /\ \A c \in Calls : c # x => /\ part'[c] = part[c]
                                   /\ c \in registered' <=> c \in registered
  <2>1. part \in [Calls -> Status] /\ registered \subseteq Calls
    BY <1>a, TypeIs
  <2>2. /\ registered' = registered \cup {x}
        /\ part' = [part EXCEPT ![x] =
             IF tool[x].seen \in Settled THEN tool[x].seen ELSE "running"]
    BY DEF MetadataWrite
  <2>. QED
    BY <2>1, <2>2 DEF Status, Settled
<1>f. TypeOK'
  BY <1>a, <1>b, <1>d, <1>e, ToolType
<1>g. Works(x)
  BY <1>b, <1>d, <1>e DEF Works, Same
<1>1. Fiber(x)'
  BY <1>a, <1>b, <1>c, <1>e DEF Fiber, ToolIs
<1>2. Uncut(x)'
  <2>. SUFFICES ASSUME x \notin cut PROVE Uncut(x)'
    BY <1>b DEF Uncut
  <2>1. loop.pc \notin Pausing /\ next[x] # "over"
    BY <1>a, <1>b, Executed
  <2>2. next[x] # "start"
    BY <1>a, <1>b DEF Uncut, BeforeStart
  <2>3. part'[x] = "running"
    BY <1>a, <1>b, <1>e DEF Uncut, Settled
  <2>4. Started(x)' /\ Given(x)'
    BY <1>e, <2>3 DEF Started, Given
  <2>. QED
    BY <1>b, <1>c, <2>1, <2>2, <2>4 DEF Uncut, ToolIs
<1>3. Unsettled(x)'
  BY <1>a, <1>b, <1>c, <1>e DEF Unsettled, ToolIs, Settled
<1>. QED
  BY <1>f, <1>g, <1>1, <1>2, <1>3, WorksIs

LEMMA ToolDoneKeeps ==
  ASSUME IInv, NEW x \in Calls, ToolDone(x)
  PROVE  TypeOK' /\ Kept
<1>a. TypeOK /\ LoopAt /\ Fiber(x) /\ Uncut(x) /\ Unsettled(x)
  BY DEF IInv
<1>b. tool[x].pc = "running" /\ UNCHANGED <<next, cut, loop, retries>>
  BY DEF ToolDone
<1>c. \/ ToolIs(x, "ended", tool[x].seen, "failed")
      \/ ToolIs(x, "ended", tool[x].seen, "ok")
      \/ x \in cut /\ ToolIs(x, "complete", tool[x].seen, tool[x].result)
  <2>1. \/ ToolEnds(x, "failed")
        \/ ToolEnds(x, "ok")
        \/ x \in cut /\ ToolGoto(x, "complete")
    BY DEF ToolDone
  <2>. QED
    BY <1>a, <2>1, ToolMoves DEF ToolPlaces, Results
<1>d. /\ tool' \in [Calls -> Tool] /\ \A c \in Calls : c # x => tool'[c] = tool[c]
  BY <1>c DEF ToolIs
<1>e. UNCHANGED <<part, registered>>
  BY DEF ToolDone
<1>f. TypeOK'
  BY <1>a, <1>b, <1>d, <1>e, ToolType DEF TypeOK
<1>g. Works(x)
  BY <1>b, <1>d, <1>e DEF Works, Same
<1>1. Fiber(x)'
  BY <1>a, <1>b, <1>c, <1>e DEF Fiber, ToolIs
<1>2. Uncut(x)'
  <2>. SUFFICES ASSUME x \notin cut PROVE Uncut(x)'
    BY <1>b DEF Uncut
  <2>1. loop.pc \notin Pausing /\ next[x] # "over"
    BY <1>a, <1>b, Executed
  <2>. QED
    BY <1>a, <1>b, <1>c, <1>e, <2>1 DEF Uncut, BeforeStart, Started, Given, ToolIs, Marked
<1>3. Unsettled(x)'
  BY <1>a, <1>b, <1>c, <1>e DEF Unsettled, Listed, ToolIs
<1>. QED
  BY <1>f, <1>g, <1>1, <1>2, <1>3, WorksIs

LEMMA CompleteReadKeeps ==
  ASSUME IInv, NEW x \in Calls, CompleteRead(x)
  PROVE  TypeOK' /\ Kept
<1>a. TypeOK /\ LoopAt /\ Fiber(x) /\ Uncut(x) /\ Unsettled(x)
  BY DEF IInv
<1>b. tool[x].pc = "complete" /\ UNCHANGED <<next, cut, loop, retries>>
  BY DEF CompleteRead
<1>c. \/ ToolIs(x, "completed", tool[x].seen, tool[x].result)
      \/ ToolIs(x, "ended", tool[x].seen, "ok")
  <2>1. ToolGoto(x, "completed") \/ ToolEnds(x, "ok")
    BY DEF CompleteRead
  <2>. QED
    BY <1>a, <2>1, ToolMoves DEF ToolPlaces, Results
<1>d. /\ tool' \in [Calls -> Tool] /\ \A c \in Calls : c # x => tool'[c] = tool[c]
  BY <1>c DEF ToolIs
<1>e. UNCHANGED <<part, registered>>
  BY DEF CompleteRead
<1>f. TypeOK'
  BY <1>a, <1>b, <1>d, <1>e, ToolType DEF TypeOK
<1>g. Works(x)
  BY <1>b, <1>d, <1>e DEF Works, Same
<1>1. Fiber(x)'
  BY <1>a, <1>b, <1>c, <1>e DEF Fiber, ToolIs
<1>2. Uncut(x)'
  <2>1. x \in cut
    BY <1>a, <1>b DEF Fiber
  <2>. QED
    BY <1>b, <2>1 DEF Uncut
<1>3. Unsettled(x)'
  BY <1>a, <1>b, <1>c, <1>e DEF Unsettled, Listed, ToolIs
<1>. QED
  BY <1>f, <1>g, <1>1, <1>2, <1>3, WorksIs

LEMMA CompleteWriteKeeps ==
  ASSUME IInv, NEW x \in Calls, CompleteWrite(x)
  PROVE  TypeOK' /\ Kept
<1>a. TypeOK /\ LoopAt /\ Fiber(x) /\ Uncut(x) /\ Unsettled(x)
  BY DEF IInv
<1>b. tool[x].pc = "completed" /\ UNCHANGED <<next, cut, loop, retries>>
  BY DEF CompleteWrite
<1>c. ToolIs(x, "settle", tool[x].seen, tool[x].result)
  BY <1>a, <1>b, ToolMoves DEF CompleteWrite, ToolPlaces, Results
<1>d. /\ tool' \in [Calls -> Tool] /\ \A c \in Calls : c # x => tool'[c] = tool[c]
  BY <1>c DEF ToolIs
<1>e. /\ part' \in [Calls -> Status] /\ registered' \subseteq Calls /\ part'[x] = "completed"
      /\ \A c \in Calls : c # x => part'[c] = part[c]
      /\ registered' = registered
  BY <1>a, TypeIs DEF CompleteWrite, Status
<1>f. TypeOK'
  BY <1>a, <1>b, <1>d, <1>e, ToolType
<1>g. Works(x)
  BY <1>b, <1>d, <1>e DEF Works, Same
<1>1. Fiber(x)'
  BY <1>a, <1>b, <1>c, <1>e DEF Fiber, ToolIs, Settled
<1>2. Uncut(x)'
  <2>1. x \in cut
    BY <1>a, <1>b DEF Fiber
  <2>. QED
    BY <1>b, <2>1 DEF Uncut
<1>3. Unsettled(x)'
  BY <1>a, <1>b, <1>c, <1>e DEF Unsettled, Listed, ToolIs
<1>. QED
  BY <1>f, <1>g, <1>1, <1>2, <1>3, WorksIs

LEMMA CompleteSettleKeeps ==
  ASSUME IInv, NEW x \in Calls, CompleteSettle(x)
  PROVE  TypeOK' /\ Kept
<1>a. TypeOK /\ LoopAt /\ Fiber(x) /\ Uncut(x) /\ Unsettled(x)
  BY DEF IInv
<1>b. tool[x].pc = "settle" /\ UNCHANGED <<next, cut, loop, retries>>
  BY DEF CompleteSettle
<1>c. ToolIs(x, "ended", tool[x].seen, "ok")
  BY <1>a, <1>b, ToolMoves DEF CompleteSettle, ToolPlaces, Results
<1>d. /\ tool' \in [Calls -> Tool] /\ \A c \in Calls : c # x => tool'[c] = tool[c]
  BY <1>c DEF ToolIs
<1>e. /\ part' = part /\ part' \in [Calls -> Status] /\ registered' \subseteq Calls
      /\ registered' = registered \ {x}
  BY <1>a, TypeIs DEF CompleteSettle
<1>f. TypeOK'
  BY <1>a, <1>b, <1>d, <1>e, ToolType
<1>g. Works(x)
  BY <1>b, <1>d, <1>e DEF Works, Same
<1>1. Fiber(x)'
  BY <1>a, <1>b, <1>c, <1>e DEF Fiber, ToolIs
<1>2. Uncut(x)'
  <2>1. x \in cut
    BY <1>a, <1>b DEF Fiber
  <2>. QED
    BY <1>b, <2>1 DEF Uncut
<1>3. Unsettled(x)'
  BY <1>a, <1>b, <1>e DEF Fiber, Unsettled, Settled
<1>. QED
  BY <1>f, <1>g, <1>1, <1>2, <1>3, WorksIs

-----------------------------------------------------------------------------
(* The fiber of the loop: the events of a call. *)

LEMMA InputStartKeeps ==
  ASSUME IInv, NEW x \in Calls, InputStart(x)
  PROVE  TypeOK' /\ Kept
<1>a. TypeOK /\ LoopAt /\ Fiber(x) /\ Uncut(x) /\ Unsettled(x)
  BY DEF IInv
<1>b. /\ loop.pc = "stream" /\ next[x] = "start" /\ x \notin cut
      /\ UNCHANGED <<registered, cut, tool, retries>>
  BY DEF InputStart, Event
<1>c. Loops("register", x, loop.sweep, loop.aborted, loop.blocked)
  BY <1>a, GotoIs DEF InputStart, LoopPlaces
<1>d. /\ next' \in [Calls -> {"start", "call", "end", "over"}] /\ next'[x] = "call"
      /\ part' \in [Calls -> Status] /\ part'[x] = "pending"
      /\ \A c \in Calls : c # x => next'[c] = next[c] /\ part'[c] = part[c]
  BY <1>a, TypeIs DEF InputStart, Status
<1>e. TypeOK'
  BY <1>a, <1>b, <1>c, <1>d DEF TypeOK, Loops
<1>f. BeforeStart(x)
  BY <1>a, <1>b DEF Uncut
<1>1. Fiber(x)'
  BY <1>a, <1>b DEF Fiber
<1>2. Uncut(x)'
  BY <1>b, <1>c, <1>d, <1>f DEF Uncut, Started, BeforeStart, Loops, Pausing, Sweeping, Marked
<1>3. Unsettled(x)'
  BY <1>c, <1>d DEF Unsettled, Loops
<1>5. LoopAt'
  BY <1>b, <1>c, <1>d DEF LoopAt, Loops, Begun
<1>4. Handles(x)
  BY <1>a, <1>b, <1>c, <1>d DEF Handles, Loops, InStream, Same
<1>. QED
  BY <1>e, <1>1, <1>2, <1>3, <1>4, <1>5, HandlesIs

LEMMA RegisterKeeps ==
  ASSUME IInv, NEW x \in Calls, Register(x)
  PROVE  TypeOK' /\ Kept
<1>a. TypeOK /\ LoopAt /\ Fiber(x) /\ Uncut(x) /\ Unsettled(x)
  BY DEF IInv
<1>b. /\ loop.pc = "register" /\ loop.at = x /\ registered' = registered \cup {x}
      /\ UNCHANGED <<part, next, cut, tool, retries>>
  BY DEF Register
<1>c. Loops("stream", None, loop.sweep, loop.aborted, loop.blocked)
  BY <1>a, GotoIs DEF Register, LoopPlaces
<1>d. x \notin cut /\ next[x] = "call" /\ part[x] \in {"pending", "running"}
  BY <1>a, <1>b DEF LoopAt, Uncut, Started, Marked, Sweeping
<1>e. TypeOK'
  BY <1>a, <1>b, <1>c DEF TypeOK, Loops
<1>1. Fiber(x)'
  BY <1>a, <1>b DEF Fiber
<1>2. Uncut(x)'
  BY <1>a, <1>b, <1>c, <1>d DEF Uncut, Started, Loops, Pausing, Sweeping, Marked
<1>3. Unsettled(x)'
  BY <1>a, <1>b, <1>c, <1>d DEF Unsettled, Listed, Loops
<1>5. LoopAt'
  BY <1>c DEF LoopAt, Loops, Begun
<1>4. Handles(x)
  BY <1>a, <1>b, <1>c, <1>d DEF Handles, Loops, InStream, Same
<1>. QED
  BY <1>e, <1>1, <1>2, <1>3, <1>4, <1>5, HandlesIs

LEMMA ToolCallKeeps ==
  ASSUME IInv, NEW x \in Calls, ToolCall(x)
  PROVE  TypeOK' /\ Kept
<1>a. TypeOK /\ LoopAt /\ Fiber(x) /\ Uncut(x) /\ Unsettled(x)
  BY DEF IInv
<1>b. /\ loop.pc = "stream" /\ next[x] = "call" /\ x \notin cut
      /\ registered' = registered \cup {x}
      /\ UNCHANGED <<cut, tool, retries>>
  BY DEF ToolCall, Event
<1>c. \/ Loops("stream", None, loop.sweep, loop.aborted, loop.blocked)
      \/ /\ Loops("doom", x, loop.sweep, loop.aborted, loop.blocked)
         /\ DoomAsk[x] \in Asks
  <2>1. Goto("stream", None) \/ (Goto("doom", x) /\ DoomAsk[x] \in Asks)
    BY ToolTurnAssumption DEF ToolCall
  <2>. QED
    BY <1>a, <2>1, GotoIs DEF LoopPlaces
<1>d. /\ next' \in [Calls -> {"start", "call", "end", "over"}] /\ next'[x] = "end"
      /\ part' \in [Calls -> Status] /\ part'[x] = "running"
      /\ \A c \in Calls : c # x => next'[c] = next[c] /\ part'[c] = part[c]
  BY <1>a, TypeIs DEF ToolCall, Status
<1>e. TypeOK'
  BY <1>a, <1>b, <1>c, <1>d DEF TypeOK, Loops
<1>1. Fiber(x)'
  BY <1>a, <1>b DEF Fiber
<1>2. Uncut(x)'
  BY <1>a, <1>b, <1>c, <1>d DEF Uncut, Given, Marked, Loops, Pausing, Sweeping
<1>3. Unsettled(x)'
  BY <1>b, <1>c, <1>d DEF Unsettled, Listed, Loops
<1>5. LoopAt'
  BY <1>b, <1>c, <1>d DEF LoopAt, Loops, Begun
<1>4. Handles(x)
  BY <1>a, <1>b, <1>c, <1>d DEF Handles, Loops, InStream, Same
<1>. QED
  BY <1>e, <1>1, <1>2, <1>3, <1>4, <1>5, HandlesIs

LEMMA ToolEndKeeps ==
  ASSUME IInv, NEW x \in Calls, ToolEnd(x)
  PROVE  TypeOK' /\ Kept
<1>a. TypeOK /\ LoopAt /\ Fiber(x) /\ Uncut(x) /\ Unsettled(x)
  BY DEF IInv
<1>b. /\ loop.pc = "stream" /\ next[x] = "end" /\ x \notin cut /\ tool[x].pc = "ended"
      /\ UNCHANGED <<registered, cut, tool, retries>>
  BY DEF ToolEnd, Event
\* The call is registered and running: the other branch is for a call cut off.
<1>f. x \in registered /\ part[x] = "running"
  BY <1>a, <1>b DEF Uncut, Given, Marked
<1>c. Loops("settle", x, loop.sweep, loop.aborted, loop.blocked)
  <2>1. Goto("settle", x)
    BY <1>f DEF ToolEnd
  <2>. QED
    BY <1>a, <2>1, GotoIs DEF LoopPlaces
<1>d. /\ UNCHANGED next
      /\ part' \in [Calls -> Status] /\ part'[x] = StatusOf(tool[x].result)
      /\ \A c \in Calls : c # x => next'[c] = next[c] /\ part'[c] = part[c]
  BY <1>a, <1>f, TypeIs DEF ToolEnd, Status, StatusOf
<1>e. TypeOK'
  BY <1>a, <1>b, <1>c, <1>d DEF TypeOK, Loops
<1>1. Fiber(x)'
  BY <1>a, <1>b DEF Fiber
<1>2. Uncut(x)'
  BY <1>b, <1>c, <1>d, <1>f DEF Uncut, Given, Marked, Loops, Pausing, Sweeping
<1>3. Unsettled(x)'
  BY <1>d DEF Unsettled, StatusOf
<1>5. LoopAt'
  BY <1>b, <1>c, <1>d DEF LoopAt, Loops, StatusOf, Begun
<1>4. Handles(x)
  BY <1>a, <1>b, <1>c, <1>d DEF Handles, Loops, InStream, Same
<1>. QED
  BY <1>e, <1>1, <1>2, <1>3, <1>4, <1>5, HandlesIs

LEMMA SettlingKeeps ==
  ASSUME IInv, NEW x \in Calls, EndSettle(x)
  PROVE  TypeOK' /\ Kept
<1>a. TypeOK /\ LoopAt /\ Fiber(x) /\ Uncut(x) /\ Unsettled(x)
  BY DEF IInv
<1>b. /\ loop.pc = "settle" /\ loop.at = x /\ registered' = registered \ {x}
      /\ UNCHANGED <<part, cut, tool, retries>>
  BY DEF EndSettle
<1>c. Loops("stream", None, loop.sweep, loop.aborted,
            IF tool[x].result = "rejected" THEN ShouldBreak ELSE loop.blocked)
  <2>. DEFINE b == IF tool[x].result = "rejected" THEN ShouldBreak ELSE loop.blocked
              r == [loop EXCEPT !.pc = "stream", !.at = None, !.blocked = b]
  <2>1. loop \in Loop /\ b \in BOOLEAN
    BY <1>a, ToolTurnAssumption DEF TypeOK, Loop
  <2>2. loop' = r
    BY DEF EndSettle
  <2>. HIDE DEF b
  <2>3. /\ r \in Loop /\ r.pc = "stream" /\ r.at = None /\ r.sweep = loop.sweep
        /\ r.aborted = loop.aborted /\ r.blocked = b
    BY <2>1 DEF Loop
  <2>. HIDE DEF r
  <2>4. Loops("stream", None, loop.sweep, loop.aborted, b)
    BY <2>2, <2>3 DEF Loops
  <2>. QED
    BY <2>4 DEF b
<1>d. /\ x \notin cut /\ next[x] = "end" /\ tool[x].pc = "ended"
      /\ part[x] = StatusOf(tool[x].result)
      /\ next' \in [Calls -> {"start", "call", "end", "over"}] /\ next'[x] = "over"
      /\ \A c \in Calls : c # x => next'[c] = next[c] /\ part'[c] = part[c]
  BY <1>a, <1>b, TypeIs DEF EndSettle, LoopAt, Begun
<1>e. TypeOK'
  BY <1>a, <1>b, <1>c, <1>d DEF TypeOK, Loops
<1>1. Fiber(x)'
  BY <1>a, <1>b DEF Fiber
<1>2. Uncut(x)'
  BY <1>b, <1>c, <1>d DEF Uncut, Over, Loops, Pausing, Sweeping, StatusOf
<1>3. Unsettled(x)'
  BY <1>b, <1>d DEF Unsettled, StatusOf
<1>5. LoopAt'
  BY <1>c DEF LoopAt, Loops, Begun
<1>4. Handles(x)
  BY <1>a, <1>b, <1>c, <1>d DEF Handles, Loops, InStream, Same
<1>. QED
  BY <1>e, <1>1, <1>2, <1>3, <1>4, <1>5, HandlesIs

-----------------------------------------------------------------------------
(* The fiber of the loop: the end of the stream, and the calls it cuts off. *)

CutsOff ==
  /\ cut' = cut \cup Live
  /\ UNCHANGED <<part, registered, next, tool>>
  /\ loop' \in Loop /\ loop'.pc \in {"backoff", "await"}
  /\ loop.pc \in InStream \cup {"backoff"}
  /\ loop'.blocked = loop.blocked /\ (loop.aborted => loop'.aborted)
  /\ loop.pc = "register" => loop'.aborted

\* A call that is not cut off has its last event handled, or none was given and
\* nobody executes it.
LEMMA CutsOffIs ==
  ASSUME IInv, CutsOff, retries' \in 0 .. MaxRetries
  PROVE  TypeOK' /\ Kept
<1>1. TypeOK'
  <2>1. cut' \subseteq Calls
    BY DEF IInv, TypeOK, CutsOff, Live
  <2>. QED
    BY <2>1 DEF IInv, TypeOK, CutsOff
<1>2. LoopAt'
  BY DEF CutsOff, LoopAt, Begun
<1>3. ASSUME NEW c \in Calls PROVE Fiber(c)' /\ Uncut(c)' /\ Unsettled(c)'
  <2>a. Fiber(c) /\ Uncut(c) /\ Unsettled(c)
    BY DEF IInv
  <2>1. Fiber(c)'
    BY <2>a DEF Fiber, CutsOff
  <2>2. ASSUME c \notin cut' PROVE Uncut(c)'
    <3>1. c \notin cut /\ (next[c] = "over" \/ (next[c] = "start" /\ tool[c].pc = "none"))
      BY <2>2 DEF CutsOff, Live
    <3>2. next[c] = "over" => Over(c)'
      BY <2>a, <3>1 DEF Uncut, Over, CutsOff, StatusOf
    <3>3. next[c] = "start" => BeforeStart(c)'
      BY <2>a, <3>1 DEF Uncut, BeforeStart, CutsOff
    <3>4. tool[c].pc # "metadata"
      BY <2>a, <3>1 DEF Uncut, Over
    <3>. QED
      BY <3>1, <3>2, <3>3, <3>4 DEF Uncut, CutsOff
  <2>3. Listed(c) => Listed(c)'
    BY DEF Listed, CutsOff, InStream
  <2>4. Unsettled(c)'
    BY <2>a, <2>3 DEF Unsettled, CutsOff, Live
  <2>. QED
    BY <2>1, <2>2, <2>4 DEF Uncut
<1>. QED
  BY <1>1, <1>2, <1>3 DEF Kept

LEMMA DoomDecidedKeeps ==
  ASSUME IInv, NEW x \in Calls, DoomDecided(x)
  PROVE  TypeOK' /\ Kept
<1>a. TypeOK /\ LoopAt /\ Fiber(x) /\ Uncut(x) /\ Unsettled(x) /\ loop \in Loop
  BY DEF IInv, TypeOK
<1>b. loop.pc = "doom" /\ loop.at = x /\ UNCHANGED <<part, registered, next, tool, retries>>
  BY DEF DoomDecided
<1>1. CASE Goto("stream", None) /\ UNCHANGED cut
  <2>1. Loops("stream", None, loop.sweep, loop.aborted, loop.blocked)
    BY <1>a, <1>1, GotoIs DEF LoopPlaces
  <2>2. TypeOK'
    BY <1>a, <1>b, <1>1, <2>1 DEF TypeOK, Loops
  <2>3. Handles(x)
    BY <1>b, <1>1, <2>1 DEF Handles, Loops, InStream, Same
  <2>4. Same(x) /\ LoopKeeps(x)
    BY <1>b, <1>1, <2>1 DEF Same, LoopKeeps, Loops, Pausing, Sweeping, Listed
  <2>5. LoopAt'
    BY <2>1 DEF LoopAt, Loops, Begun
  <2>. QED
    BY <1>a, <2>2, <2>3, <2>4, <2>5, HandlesIs, Elsewhere
<1>2. CASE /\ loop' = [loop EXCEPT !.pc = "await", !.at = None, !.error = TRUE]
           /\ cut' = cut \cup Live
  <2>1. CutsOff
    BY <1>a, <1>b, <1>2 DEF CutsOff, Loop, InStream
  <2>. QED
    BY <1>a, <1>b, <2>1, CutsOffIs DEF TypeOK
<1>. QED
  BY <1>1, <1>2 DEF DoomDecided

\* The stream ends of its own accord: a call that is not over was not executed.
LEMMA StreamEndsKeeps ==
  ASSUME IInv, StreamEnds
  PROVE  TypeOK' /\ Kept
<1>1. loop \in Loop
  BY DEF IInv, TypeOK
<1>2. PICK overflow \in BOOLEAN : loop' = [loop EXCEPT !.pc = "await", !.compact = overflow]
  BY DEF StreamEnds
<1>3. loop.pc = "stream" /\ UNCHANGED <<part, registered, next, cut, tool, retries>>
  BY DEF StreamEnds
<1>4. /\ loop' \in Loop /\ loop'.pc = "await" /\ loop'.blocked = loop.blocked
      /\ loop'.aborted = loop.aborted
  BY <1>1, <1>2 DEF Loop
<1>5. TypeOK' /\ LoopAt'
  BY <1>3, <1>4 DEF IInv, TypeOK, LoopAt
<1>6. ASSUME NEW c \in Calls PROVE Fiber(c)' /\ Uncut(c)' /\ Unsettled(c)'
  <2>1. Fiber(c) /\ Uncut(c) /\ Unsettled(c)
    BY DEF IInv
  <2>2. Fiber(c)'
    BY <1>3, <2>1 DEF Fiber
  <2>3. ASSUME c \notin cut PROVE Uncut(c)'
    <3>1. next[c] = "over" \/ tool[c].pc = "none"
      BY <2>3 DEF StreamEnds, Live
    <3>2. /\ next[c] = "start" => BeforeStart(c)'
          /\ next[c] = "call" => Started(c)'
          /\ next[c] = "end" => Given(c)'
          /\ next[c] = "over" => Over(c)'
          /\ tool[c].pc = "metadata" => tool[c].seen \in {"pending", "running"}
      BY <1>3, <1>4, <2>1, <2>3
      DEF Uncut, BeforeStart, Started, Given, Over, Marked, Sweeping, StatusOf
    <3>. QED
      BY <1>3, <3>1, <3>2 DEF Uncut
  <2>4. Unsettled(c)'
    BY <1>3, <1>4, <2>1 DEF Unsettled, Listed
  <2>. QED
    BY <1>3, <2>2, <2>3, <2>4 DEF Uncut
<1>. QED
  BY <1>5, <1>6 DEF Kept

LEMMA StreamFailsKeeps ==
  ASSUME IInv, StreamFails
  PROVE  TypeOK' /\ Kept
<1>1. loop \in Loop /\ retries \in 0 .. MaxRetries
  BY DEF IInv, TypeOK
<1>2. /\ loop.pc = "stream" /\ cut' = cut \cup Live
      /\ UNCHANGED <<part, registered, next, tool>>
      /\ \/ loop' = [loop EXCEPT !.pc = "backoff"]
         \/ loop' = [loop EXCEPT !.pc = "await", !.error = TRUE]
         \/ loop' = [loop EXCEPT !.pc = "await", !.compact = TRUE]
  BY DEF StreamFails
<1>3. retries' \in 0 .. MaxRetries
  BY <1>1, ToolTurnAssumption DEF StreamFails
<1>4. CutsOff
  BY <1>1, <1>2 DEF CutsOff, Loop, InStream
<1>. QED
  BY <1>3, <1>4, CutsOffIs

LEMMA AbortKeeps ==
  ASSUME IInv, Abort
  PROVE  TypeOK' /\ Kept
<1>1. loop \in Loop /\ retries \in 0 .. MaxRetries /\ retries' = retries
  BY DEF IInv, TypeOK, Abort
<1>2. /\ loop.pc \in InStream \cup {"backoff"} /\ cut' = cut \cup Live
      /\ UNCHANGED <<part, registered, next, tool>>
      /\ loop' = [loop EXCEPT !.pc = "await", !.at = None, !.aborted = TRUE,
                              !.error = loop.pc # "backoff"]
  BY DEF Abort, InStream
<1>3. CutsOff
  BY <1>1, <1>2 DEF CutsOff, Loop
<1>. QED
  BY <1>1, <1>3, CutsOffIs

-----------------------------------------------------------------------------
(* The fiber of the loop: backoff and cleanup. *)

\* A step of the loop's fiber that touches no call.
LEMMA LoopOnly ==
  ASSUME IInv, UNCHANGED <<part, registered, next, cut, tool, retries>>,
         loop' \in Loop, LoopAt', \A c \in Calls : LoopKeeps(c)
  PROVE  TypeOK' /\ Kept
<1>1. TypeOK'
  BY DEF IInv, TypeOK
<1>2. \A c \in Calls : Same(c)
  BY DEF Same
<1>3. \A c \in Calls : Fiber(c)' /\ Uncut(c)' /\ Unsettled(c)'
  BY <1>2, Elsewhere DEF IInv
<1>. QED
  BY <1>1, <1>3 DEF Kept

LEMMA RetryKeeps ==
  ASSUME IInv, Retry
  PROVE  TypeOK' /\ Kept
<1>1. loop \in Loop
  BY DEF IInv, TypeOK
<1>2. /\ loop.pc = "backoff" /\ loop' = [loop EXCEPT !.pc = "stream"]
      /\ UNCHANGED <<part, registered, next, cut, tool, retries>>
  BY DEF Retry
<1>3. /\ loop' \in Loop /\ loop'.pc = "stream" /\ loop'.blocked = loop.blocked
      /\ loop'.aborted = loop.aborted
  BY <1>1, <1>2 DEF Loop
<1>4. LoopAt' /\ \A c \in Calls : LoopKeeps(c)
  BY <1>2, <1>3 DEF LoopAt, LoopKeeps, Listed, Pausing, Sweeping, Begun
<1>. QED
  BY <1>2, <1>3, <1>4, LoopOnly

LEMMA AwaitDoneKeeps ==
  ASSUME IInv, AwaitDone
  PROVE  TypeOK' /\ Kept
<1>1. loop \in Loop /\ registered \subseteq Calls
  BY DEF IInv, TypeOK
<1>2. /\ loop.pc = "await"
      /\ loop' = [loop EXCEPT !.pc = "cleanup", !.sweep = registered]
      /\ UNCHANGED <<part, registered, next, cut, tool, retries>>
  BY DEF AwaitDone
<1>3. /\ loop' \in Loop /\ loop'.pc = "cleanup" /\ loop'.blocked = loop.blocked
      /\ loop'.aborted = loop.aborted /\ loop'.sweep = registered
  BY <1>1, <1>2 DEF Loop
<1>4. LoopAt' /\ \A c \in Calls : LoopKeeps(c)
  BY <1>2, <1>3 DEF LoopAt, LoopKeeps, Listed, Pausing, Sweeping, Begun
<1>. QED
  BY <1>2, <1>3, <1>4, LoopOnly

LEMMA SweepReadKeeps ==
  ASSUME IInv, NEW x \in Calls, SweepRead(x)
  PROVE  TypeOK' /\ Kept
<1>1. loop \in Loop /\ Uncut(x)
  BY DEF IInv, TypeOK
<1>2. loop.pc = "cleanup" /\ UNCHANGED <<part, registered, next, cut, tool, retries>>
  BY DEF SweepRead
<1>3. /\ loop' \in Loop /\ loop'.blocked = loop.blocked
      /\ loop'.aborted = loop.aborted /\ loop'.sweep = loop.sweep \ {x}
      /\ \/ x \in registered /\ loop'.pc = "sweep" /\ loop'.at = x
         \/ x \notin registered /\ loop'.pc = "cleanup"
  <2>. DEFINE pc == IF x \in registered THEN "sweep" ELSE loop.pc
              at == IF x \in registered THEN x ELSE loop.at
  <2>1. loop' = [loop EXCEPT !.sweep = loop.sweep \ {x}, !.pc = pc, !.at = at]
    BY DEF SweepRead
  <2>2. pc \in {"sweep", "cleanup"} /\ at \in Calls \cup {None} /\ loop.sweep \ {x} \subseteq Calls
    BY <1>1, <1>2 DEF Loop
  <2>. HIDE DEF pc, at
  <2>3. /\ loop' \in Loop /\ loop'.blocked = loop.blocked
        /\ loop'.aborted = loop.aborted /\ loop'.sweep = loop.sweep \ {x}
        /\ loop'.pc = pc /\ loop'.at = at
    BY <1>1, <2>1, <2>2 DEF Loop
  <2>. QED
    BY <1>2, <2>3 DEF pc, at
\* What is registered still is a call that was cut off, or never executed.
<1>4. x \in registered => x \in cut \/ Begun(x)
  <2>1. next[x] \in {"start", "call", "end", "over"}
    BY TypeIs DEF IInv
  <2>. QED
    BY <1>1, <1>2, <2>1 DEF Uncut, Pausing, Sweeping, Over, BeforeStart, Begun
<1>5. LoopAt' /\ \A c \in Calls : LoopKeeps(c)
  BY <1>2, <1>3, <1>4 DEF LoopAt, LoopKeeps, Listed, Pausing, Sweeping, Begun
<1>. QED
  BY <1>2, <1>3, <1>5, LoopOnly

LEMMA SweepWriteKeeps ==
  ASSUME IInv, NEW x \in Calls, SweepWrite(x)
  PROVE  TypeOK' /\ Kept
<1>a. TypeOK /\ LoopAt /\ Fiber(x)
  BY DEF IInv
<1>b. loop.pc = "sweep" /\ loop.at = x /\ UNCHANGED <<registered, next, cut, tool, retries>>
  BY DEF SweepWrite
<1>c. Loops("cleanup", None, loop.sweep, loop.aborted, loop.blocked)
  BY <1>a, GotoIs DEF SweepWrite, LoopPlaces
<1>d. /\ part' \in [Calls -> Status] /\ part'[x] = "aborted"
      /\ \A c \in Calls : c # x => part'[c] = part[c]
  BY <1>a, TypeIs DEF SweepWrite, Status
<1>1. TypeOK' /\ LoopAt'
  BY <1>a, <1>b, <1>c, <1>d DEF TypeOK, LoopAt, Loops, Begun
<1>2. ASSUME NEW c \in Calls, c # x PROVE Fiber(c)' /\ Uncut(c)' /\ Unsettled(c)'
  <2>1. Same(c) /\ LoopKeeps(c)
    BY <1>b, <1>c, <1>d, <1>2 DEF Same, LoopKeeps, Loops, Listed, Pausing, Sweeping
  <2>. QED
    BY <2>1, Elsewhere DEF IInv
<1>3. Fiber(x)' /\ Uncut(x)' /\ Unsettled(x)'
  <2>1. x \in cut \/ Begun(x)
    BY <1>a, <1>b DEF LoopAt
  <2>2. Fiber(x)' /\ Unsettled(x)'
    BY <1>a, <1>b, <1>d DEF Fiber, Unsettled, Settled
  <2>3. Begun(x) => Marked(x)' /\ UNCHANGED <<next, tool>>
    BY <1>b, <1>c, <1>d DEF Begun, Marked, Sweeping, Loops
  <2>. QED
    BY <1>b, <2>1, <2>2, <2>3 DEF Uncut, Begun
<1>. QED
  BY <1>1, <1>2, <1>3 DEF Kept

LEMMA ReturnKeeps ==
  ASSUME IInv, Return
  PROVE  TypeOK' /\ Kept
<1>a. TypeOK
  BY DEF IInv
<1>b. /\ loop.pc = "cleanup" /\ loop.sweep = {} /\ registered' = {}
      /\ UNCHANGED <<part, next, cut, tool, retries>>
  BY DEF Return
<1>c. Loops("returned", None, loop.sweep, loop.aborted, loop.blocked)
  BY <1>a, GotoIs DEF Return, LoopPlaces
<1>1. TypeOK' /\ LoopAt'
  BY <1>a, <1>b, <1>c DEF TypeOK, LoopAt, Loops, Begun
<1>2. ASSUME NEW c \in Calls PROVE Fiber(c)' /\ Uncut(c)' /\ Unsettled(c)'
  <2>a. Fiber(c) /\ Uncut(c) /\ Unsettled(c)
    BY DEF IInv
  <2>1. Fiber(c)'
    BY <1>b, <2>a DEF Fiber
  <2>2. ASSUME c \notin cut PROVE Uncut(c)'
    <3>1. next[c] = "over" \/ tool[c].pc = "none"
      BY <1>b, <2>a, <2>2 DEF Uncut, Pausing, Sweeping
    <3>2. next[c] = "over" => Over(c)'
      BY <1>b, <1>c, <2>a, <2>2 DEF Uncut, Over, Loops, StatusOf
    <3>3. next[c] = "start" => BeforeStart(c)'
      BY <1>b, <2>a, <2>2 DEF Uncut, BeforeStart
    <3>4. tool[c].pc # "metadata"
      BY <2>a, <2>2, <3>1 DEF Uncut, Over
    <3>5. next[c] \in {"call", "end"} => Marked(c)'
      <4>1. ASSUME next[c] \in {"call", "end"} PROVE tool[c].pc = "none" /\ part[c] = "aborted"
        <5>1. tool[c].pc = "none"
          BY <3>1, <4>1
        <5>2. part[c] \notin {"pending", "running"}
          BY <1>b, <2>a, <2>2, <5>1 DEF Unsettled, Listed
        <5>. QED
          BY <1>b, <2>a, <2>2, <4>1, <5>1, <5>2 DEF Uncut, Started, Given, Marked
      <4>. QED
        BY <1>b, <1>c, <4>1 DEF Marked, Sweeping, Loops
    <3>. QED
      BY <1>b, <3>1, <3>2, <3>3, <3>4, <3>5 DEF Uncut
  <2>3. ~Listed(c)
    BY <1>b DEF Listed
  <2>4. Unsettled(c)'
    BY <1>b, <1>c, <2>a, <2>3 DEF Unsettled, Loops
  <2>. QED
    BY <1>b, <2>1, <2>2, <2>4 DEF Uncut
<1>. QED
  BY <1>1, <1>2 DEF Kept

-----------------------------------------------------------------------------
(* The theorems. *)

LEMMA InvInit == Init => IInv
<1>. SUFFICES ASSUME Init PROVE IInv
  OBVIOUS
<1>1. TypeOK
  BY ToolTurnAssumption DEF Init, TInit, TypeOK, Status, Tool, Loop
<1>2. LoopAt
  BY DEF Init, TInit, LoopAt, Begun
<1>3. ASSUME NEW c \in Calls PROVE Fiber(c) /\ Uncut(c) /\ Unsettled(c)
  BY DEF Init, TInit, Fiber, Uncut, BeforeStart, Unsettled, Pausing, Sweeping
<1>. QED
  BY <1>1, <1>2, <1>3 DEF IInv

LEMMA InvNext == IInv /\ [Next]_vars => IInv'
<1>. SUFFICES ASSUME IInv, [Next]_vars PROVE TypeOK' /\ Kept
  BY DEF IInv, Kept
<1>1. ASSUME NEW x \in Calls, LoopEvent(x) PROVE TypeOK' /\ Kept
  BY <1>1, InputStartKeeps, RegisterKeeps, ToolCallKeeps, DoomDecidedKeeps,
     ToolEndKeeps, SettlingKeeps DEF LoopEvent
<1>2. ASSUME NEW x \in Calls, ToolStep(x) PROVE TypeOK' /\ Kept
  BY <1>2, ExecuteKeeps, StartAskKeeps, AskedKeeps, MetadataReadKeeps, MetadataWriteKeeps,
     ToolDoneKeeps, CompleteReadKeeps, CompleteWriteKeeps, CompleteSettleKeeps DEF ToolStep
<1>3. CASE StreamEnds \/ StreamFails \/ Retry \/ Abort
  BY <1>3, StreamEndsKeeps, StreamFailsKeeps, RetryKeeps, AbortKeeps
<1>4. CASE Cleanup
  BY <1>4, AwaitDoneKeeps, SweepReadKeeps, SweepWriteKeeps, ReturnKeeps DEF Cleanup
<1>5. CASE UNCHANGED tvars
  <2>1. TypeOK' /\ LoopAt'
    BY <1>5 DEF IInv, tvars, TypeOK, LoopAt, StatusOf, Begun
  <2>2. ASSUME NEW c \in Calls PROVE Same(c) /\ LoopKeeps(c)
    BY <1>5 DEF tvars, Same, LoopKeeps, Listed
  <2>3. ASSUME NEW c \in Calls PROVE Fiber(c)' /\ Uncut(c)' /\ Unsettled(c)'
    BY <2>2, Elsewhere DEF IInv
  <2>. QED
    BY <2>1, <2>3 DEF Kept
<1>6. CASE GateStep \/ UNCHANGED vars
  BY <1>5, <1>6 DEF GateStep, vars
<1>. QED
  BY <1>1, <1>2, <1>3, <1>4, <1>6 DEF Next

\* Every reachable state satisfies the inductive invariant.
THEOREM Invariant == Spec => []IInv
BY InvInit, InvNext, PTL DEF Spec

\* The parts, the registry and the two kinds of fibers keep their ranges.
THEOREM Typing == Spec => []TypeOK
<1>1. IInv => TypeOK
  BY DEF IInv
<1>. QED
  BY <1>1, Invariant, PTL

\* A call that no failure and no abort cut off is settled when process returns: with
\* the status of its tool's result (completeToolCall, failToolCall) and never with
\* cleanup's mark if it was executed, whatever the other calls, retries and late
\* metadata do; with that mark if the stream ended and left it unexecuted.
THEOREM UncutCallsAreSettled == Spec => []UncutIsSettled
<1>1. IInv => UncutIsSettled
  <2>. SUFFICES ASSUME IInv, Returned, NEW c \in Calls \ cut
                PROVE  IF tool[c].pc = "none"
                       THEN part[c] = IF next[c] = "start" THEN "absent" ELSE "aborted"
                       ELSE tool[c].pc = "ended" /\ part[c] = StatusOf(tool[c].result)
    BY DEF UncutIsSettled
  <2>1. Uncut(c) /\ Unsettled(c) /\ c \notin cut /\ loop.pc = "returned"
    BY DEF IInv, Returned
  <2>2. next[c] \in {"start", "call", "end", "over"}
    BY TypeIs DEF IInv
  <2>3. CASE next[c] = "over"
    BY <2>1, <2>3 DEF Uncut, Over
  <2>4. CASE next[c] # "over"
    <3>1. tool[c].pc = "none"
      BY <2>1, <2>4 DEF Uncut, Pausing, Sweeping
    <3>2. part[c] \notin {"pending", "running"}
      BY <2>1, <3>1 DEF Unsettled, Listed
    <3>. QED
      BY <2>1, <2>2, <2>4, <3>1, <3>2 DEF Uncut, BeforeStart, Started, Given, Marked
  <2>. QED
    BY <2>3, <2>4
<1>. QED
  BY <1>1, Invariant, PTL

\* A part that is still pending when process has returned belongs to a call that an
\* abort kept from being registered; one that is still running, to a call that was
\* cut off and whose fiber went on after cleanup had marked it.
THEOREM UnsettledCallsAreExplained == Spec => []UnsettledIsExplained
<1>1. IInv => UnsettledIsExplained
  <2>. SUFFICES ASSUME IInv, Returned, NEW c \in Calls
                PROVE  /\ part[c] = "pending" => loop.aborted /\ next[c] = "call"
                       /\ part[c] = "running" => c \in cut /\ tool[c].pc # "none"
    BY DEF UnsettledIsExplained
  <2>1. Uncut(c) /\ Unsettled(c) /\ loop.pc = "returned"
    BY DEF IInv, Returned
  <2>2. ~Listed(c)
    BY <2>1 DEF Listed
  <2>3. part[c] = "running" => c \in cut
    BY <2>1, <2>2 DEF Uncut, Unsettled, Over, Pausing, Sweeping, StatusOf
  <2>. QED
    BY <2>1, <2>2, <2>3 DEF Unsettled
<1>. QED
  BY <1>1, Invariant, PTL

\* The rejection of a call that was not cut off stops the loop (ctx.blocked),
\* however many results of other calls are handled after it.
THEOREM RejectionsStop == Spec => []RejectStops
<1>1. IInv => RejectStops
  <2>. SUFFICES ASSUME IInv, Returned, ShouldBreak,
                       NEW c \in Calls \ cut, tool[c].result = "rejected"
                PROVE  Outcome # "continue"
    BY DEF RejectStops
  <2>1. Uncut(c) /\ Fiber(c) /\ loop.pc \in Pausing
    BY DEF IInv, Returned, Pausing, Sweeping
  <2>2. next[c] = "over"
    BY <2>1 DEF Uncut, Fiber
  <2>3. loop.blocked
    BY <2>1, <2>2 DEF Uncut, Over
  <2>. QED
    BY <2>3 DEF Outcome
<1>. QED
  BY <1>1, Invariant, PTL

\* The turn uses the permission gate only as PermissionGate.tla lets its callers:
\* the abort of the loop's fiber leaves a request as Interrupted does, and no step
\* of a tool takes an answer back.
THEOREM TurnKeepsGate == Spec => GateSpec
<1>1. Init => GInit
  BY DEF Init
<1>2. IInv /\ [Next]_vars => [GNext]_gvars
  <2>. SUFFICES ASSUME IInv, [Next]_vars PROVE [GNext]_gvars
    OBVIOUS
  <2>1. ASSUME NEW c \in Calls, LoopEvent(c) PROVE UNCHANGED gvars
    BY <2>1 DEF LoopEvent, InputStart, Register, ToolCall, DoomDecided, ToolEnd, EndSettle
  <2>2. ASSUME NEW c \in Calls, ToolStep(c) PROVE UNCHANGED gvars
    BY <2>2 DEF ToolStep, Execute, StartAsk, Asked, MetadataRead, MetadataWrite,
       ToolDone, CompleteRead, CompleteWrite, CompleteSettle
  <2>3. CASE StreamEnds \/ StreamFails \/ Retry \/ Cleanup
    BY <2>3 DEF StreamEnds, StreamFails, Retry, Cleanup, AwaitDone, SweepRead, SweepWrite, Return
  <2>4. CASE Abort
    <3>1. CASE loop.pc = "doom"
      <4>1. DoomAsk[loop.at] \in Asks
        BY <3>1 DEF IInv, LoopAt, Begun
      <4>2. Interrupted(DoomAsk[loop.at]) \/ UNCHANGED gvars
        BY <2>4 DEF Abort
      <4>. QED
        BY <4>1, <4>2 DEF GNext
    <3>2. CASE loop.pc # "doom"
      BY <2>4, <3>2 DEF Abort
    <3>. QED
      BY <3>1, <3>2
  <2>5. CASE GateStep
    BY <2>5 DEF GateStep, GNext
  <2>6. CASE UNCHANGED vars
    BY <2>6 DEF vars
  <2>. QED
    BY <2>1, <2>2, <2>3, <2>4, <2>5, <2>6 DEF Next
<1>. QED
  BY <1>1, <1>2, Invariant, PTL DEF Spec, GateSpec

=============================================================================
