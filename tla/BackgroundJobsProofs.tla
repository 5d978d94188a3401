------------------------ MODULE BackgroundJobsProofs ------------------------
(***************************************************************************)
(* What holds of BackgroundJobs for any finite sets of starts and extends,  *)
(* any waits and cancellations and any number of disposals.                 *)
(*                                                                         *)
(* Whatever runs belongs to the job in the table, and that job runs (Owned): *)
(* so its pending count is the number of fibers that run, and the last to   *)
(* succeed finds that every other of the group has succeeded before.        *)
(***************************************************************************)
EXTENDS BackgroundJobs, FiniteSetTheorems, TLAPS

Runs == job.status = "running"
Working == {f \in Fibers : fiber[f].phase = "running"}

\* A fiber has a generation once it is forked, and that generation was started.
Forks ==
  /\ \A f \in Fibers : fiber[f].phase = "none" <=> fiber[f].token = None
  /\ \A f \in Fibers : fiber[f].token # None => fiber[fiber[f].token].phase # "none"
  /\ \A t \in Starts : fiber[t].phase = "none" => done[t] = "none" /\ job.token # t

Owned ==
  \A f \in Fibers :
    /\ fiber[f].phase = "running" => Runs /\ fiber[f].token = job.token
    /\ fiber[f].phase = "interrupted" => ~(Runs /\ fiber[f].token = job.token)

Counted == Runs => job.pending = Cardinality(Working)

\* The group of a job that runs: what has ended has succeeded, and its output or
\* a later one is kept; the latest extension has the last number.
GroupOK ==
  Runs =>
    /\ job.output = None \/ job.output < job.next
    /\ \E f \in Group(job.token) : fiber[f].seq = job.next - 1
    /\ \A f \in Group(job.token) :
         /\ fiber[f].seq < job.next
         /\ fiber[f].phase = "ended" =>
              fiber[f].exit = "success" /\ job.output # None /\ fiber[f].seq <= job.output

\* When a job has completed nothing of its group is left.
CompletedOK ==
  job.status = "completed" =>
    /\ \A f \in Group(job.token) : fiber[f].phase = "ended" /\ fiber[f].exit = "success"
    /\ job.output = job.next - 1

\* What is lost is open for ever; nobody in the table is lost.
LostOK == \A t \in lost : job.token # t /\ fiber[t].phase # "none"

\* What a cancellation has taken was started and does not run any more.
CancelOK ==
  \A k \in Cancels :
    /\ cancel[k].pc = "new" => cancel[k].token = None
    /\ cancel[k].pc = "closing" => cancel[k].token # None
    /\ cancel[k].token # None =>
         /\ fiber[cancel[k].token].phase # "none"
         /\ ~(Runs /\ job.token = cancel[k].token)

\* Whoever waits knows a generation.
WaitOK == \A w \in Waits : wait[w].pc = "waiting" => wait[w].token \in Starts

IInv ==
  /\ TypeOK /\ Forks /\ Owned /\ Counted /\ GroupOK /\ CompletedOK
  /\ LostOK /\ DoneMatchesJob /\ WaitOK /\ CancelOK
  /\ CancelledHasStopped

-----------------------------------------------------------------------------
(* What each action does, field by field. *)

\* The job in the table is a record of a generation unless the table is empty.
LEMMA JobIs ==
  ASSUME TypeOK, job.status # "none"
  PROVE  /\ job \in Job /\ job.token \in Starts /\ job.status \in Status
         /\ job.pending \in Nat /\ job.next \in Nat /\ job.output \in Nat \cup {None}
BY DEF TypeOK, NoJob, Job

LEMMA KeptOutputIs ==
  ASSUME NEW j, j.output \in Nat \cup {None}, NEW seq \in Nat, NEW exit
  PROVE  /\ KeptOutput(j, exit, seq) \in Nat \cup {None}
         /\ exit # "success" => KeptOutput(j, exit, seq) = j.output
         /\ exit = "success" =>
              /\ KeptOutput(j, exit, seq) \in {seq, j.output} \ {None}
              /\ seq <= KeptOutput(j, exit, seq)
              /\ j.output # None => j.output <= KeptOutput(j, exit, seq)
BY CallsAssumption DEF KeptOutput

\* The edits that the actions make to a fiber.
LEMMA FiberEdits ==
  ASSUME NEW x \in Fiber
  PROVE  /\ [x EXCEPT !.phase = "interrupted"] \in Fiber
         /\ [x EXCEPT !.phase = "interrupted"].phase = "interrupted"
         /\ [x EXCEPT !.phase = "interrupted"].token = x.token
         /\ [x EXCEPT !.phase = "interrupted"].seq = x.seq
         /\ [x EXCEPT !.phase = "interrupted"].exit = x.exit
BY DEF Fiber

LEMMA EndedIs ==
  ASSUME TypeOK, NEW f \in Fibers, NEW exit \in {"success", "failure", "interrupt"}
  PROVE  /\ Ended(fiber, f, exit) \in [Fibers -> Fiber]
         /\ Ended(fiber, f, exit)[f].phase = "ended" /\ Ended(fiber, f, exit)[f].exit = exit
         /\ Ended(fiber, f, exit)[f].token = fiber[f].token
         /\ Ended(fiber, f, exit)[f].seq = fiber[f].seq
         /\ \A g \in Fibers : g # f => Ended(fiber, f, exit)[g] = fiber[g]
<1>. DEFINE x == fiber[f]
            y == [x EXCEPT !.phase = "ended", !.exit = exit]
<1>1. x \in Fiber /\ fiber \in [Fibers -> Fiber]
  BY DEF TypeOK
<1>2. /\ y \in Fiber /\ y.phase = "ended" /\ y.exit = exit
      /\ y.token = x.token /\ y.seq = x.seq
  BY <1>1 DEF Fiber
<1>3. Ended(fiber, f, exit) = [fiber EXCEPT ![f] = y]
  BY <1>1 DEF Ended
<1>. HIDE DEF y
<1>. QED
  BY <1>1, <1>2, <1>3

\* The closing of the Scope of a generation touches the fibers of it that run.
LEMMA ClosedIs ==
  ASSUME NEW fs \in [Fibers -> Fiber], NEW t
  PROVE  /\ CloseScope(fs, t) \in [Fibers -> Fiber]
         /\ \A g \in Fibers :
              /\ CloseScope(fs, t)[g].token = fs[g].token
              /\ CloseScope(fs, t)[g].seq = fs[g].seq
              /\ CloseScope(fs, t)[g].exit = fs[g].exit
              /\ CloseScope(fs, t)[g].phase =
                   IF fs[g].token = t /\ fs[g].phase = "running" THEN "interrupted"
                                                                  ELSE fs[g].phase
<1>1. ASSUME NEW g \in Fibers
      PROVE  /\ CloseScope(fs, t)[g] \in Fiber
             /\ CloseScope(fs, t)[g].token = fs[g].token
             /\ CloseScope(fs, t)[g].seq = fs[g].seq
             /\ CloseScope(fs, t)[g].exit = fs[g].exit
             /\ CloseScope(fs, t)[g].phase =
                  IF fs[g].token = t /\ fs[g].phase = "running" THEN "interrupted"
                                                                 ELSE fs[g].phase
  <2>1. CASE fs[g].token = t /\ fs[g].phase = "running"
    <3>1. CloseScope(fs, t)[g] = [fs[g] EXCEPT !.phase = "interrupted"]
      BY <2>1 DEF CloseScope
    <3>. QED
      BY <2>1, <3>1, FiberEdits
  <2>2. CASE ~(fs[g].token = t /\ fs[g].phase = "running")
    <3>1. CloseScope(fs, t)[g] = fs[g]
      BY <2>2 DEF CloseScope
    <3>. QED
      BY <2>2, <3>1
  <2>. QED
    BY <2>1, <2>2
<1>2. CloseScope(fs, t) = [g \in Fibers |-> CloseScope(fs, t)[g]]
  BY DEF CloseScope
<1>. QED
  BY <1>1, <1>2

LEMMA StartEffect ==
  ASSUME TypeOK, NEW c \in Starts, Start(c)
  PROVE  /\ fiber[c].phase = "none" /\ job.status # "running"
         /\ job' \in Job /\ job'.token = c /\ job'.status = "running"
         /\ job'.pending = 1 /\ job'.next = 1 /\ job'.output = None
         /\ fiber' \in [Fibers -> Fiber]
         /\ fiber'[c].phase = "running" /\ fiber'[c].token = c /\ fiber'[c].seq = 0
         /\ \A g \in Fibers : g # c => fiber'[g] = fiber[g]
         /\ done' \in [Starts -> Final \cup {"none", "pending"}] /\ done'[c] = "pending"
         /\ \A t \in Starts : t # c => done'[t] = done[t]
         /\ UNCHANGED <<wait, cancel, lost, disposals>>
<1>. DEFINE y == Forked(c, 0)
<1>1. y \in Fiber /\ y.phase = "running" /\ y.token = c /\ y.seq = 0
  BY DEF Forked, Fiber
<1>2. /\ fiber \in [Fibers -> Fiber] /\ fiber' = [fiber EXCEPT ![c] = y] /\ c \in Fibers
      /\ done \in [Starts -> Final \cup {"none", "pending"}] /\ done' = [done EXCEPT ![c] = "pending"]
      /\ fiber[c].phase = "none" /\ job.status # "running"
      /\ UNCHANGED <<wait, cancel, lost, disposals>>
  BY DEF TypeOK, Start, Fibers, kept
<1>3. /\ job' \in Job /\ job'.token = c /\ job'.status = "running"
      /\ job'.pending = 1 /\ job'.next = 1 /\ job'.output = None
  BY DEF Start, Job, Status
<1>. HIDE DEF y
<1>. QED
  BY <1>1, <1>2, <1>3

LEMMA ExtendEffect ==
  ASSUME TypeOK, NEW c \in Extends, Extend(c)
  PROVE  /\ fiber[c].phase = "none" /\ job.status = "running" /\ job \in Job
         /\ job' \in Job /\ job'.token = job.token /\ job'.status = "running"
         /\ job'.pending = job.pending + 1 /\ job'.next = job.next + 1
         /\ job'.output = job.output
         /\ fiber' \in [Fibers -> Fiber]
         /\ fiber'[c].phase = "running" /\ fiber'[c].token = job.token
         /\ fiber'[c].seq = job.next
         /\ \A g \in Fibers : g # c => fiber'[g] = fiber[g]
         /\ UNCHANGED <<done, wait, cancel, lost, disposals>>
<1>. DEFINE y == Forked(job.token, job.next)
<1>1. job.status = "running" /\ job \in Job /\ job.token \in Starts /\ job.next \in Nat
  BY JobIs DEF Extend
<1>2. y \in Fiber /\ y.phase = "running" /\ y.token = job.token /\ y.seq = job.next
  BY <1>1 DEF Forked, Fiber
<1>3. /\ fiber \in [Fibers -> Fiber] /\ fiber' = [fiber EXCEPT ![c] = y] /\ c \in Fibers
      /\ fiber[c].phase = "none"
      /\ UNCHANGED <<done, wait, cancel, lost, disposals>>
  BY DEF TypeOK, Extend, Fibers, kept
<1>4. /\ job' \in Job /\ job'.token = job.token /\ job'.status = "running"
      /\ job'.pending = job.pending + 1 /\ job'.next = job.next + 1
      /\ job'.output = job.output
  <2>. DEFINE n == job.pending + 1
              m == job.next + 1
  <2>1. job' = [job EXCEPT !.pending = n, !.next = m]
    BY DEF Extend
  <2>2. n \in Nat /\ m \in Nat
    BY <1>1, JobIs
  <2>. HIDE DEF n, m
  <2>3. /\ job' \in Job /\ job'.token = job.token /\ job'.status = job.status
        /\ job'.pending = n /\ job'.next = m /\ job'.output = job.output
    BY <1>1, <2>1, <2>2 DEF Job
  <2>. QED
    BY <1>1, <2>3 DEF n, m
<1>. HIDE DEF y
<1>. QED
  BY <1>1, <1>2, <1>3, <1>4

\* A fiber settles: what it settles with, and what becomes of it.
Settles(f, exit) ==
  /\ Live(f) /\ exit \in {"success", "failure", "interrupt"}
  /\ SettleStale(f, exit) \/ SettlePart(f, exit) \/ SettleLast(f, exit)
  /\ UNCHANGED <<wait, cancel, lost, disposals>>

LEMMA SettleIs ==
  ASSUME NEW f \in Fibers, Settle(f)
  PROVE  \E exit \in {"success", "failure", "interrupt"} : Settles(f, exit)
BY DEF Settle, Settles, Exits, kept

LEMMA StaleEffect ==
  ASSUME TypeOK, NEW f \in Fibers, NEW exit, Settles(f, exit), SettleStale(f, exit)
  PROVE  /\ ~IsCurrent(f) /\ UNCHANGED <<job, done>>
         /\ fiber' \in [Fibers -> Fiber]
         /\ fiber'[f].phase = "ended" /\ fiber'[f].token = fiber[f].token
         /\ fiber'[f].seq = fiber[f].seq
         /\ \A g \in Fibers : g # f => fiber'[g] = fiber[g]
BY EndedIs DEF SettleStale, Settles

LEMMA PartEffect ==
  ASSUME TypeOK, NEW f \in Fibers, NEW exit, Settles(f, exit), SettlePart(f, exit)
  PROVE  /\ IsCurrent(f) /\ exit = "success" /\ job \in Job /\ job.pending > 1
         /\ UNCHANGED done
         /\ job' \in Job /\ job'.token = job.token /\ job'.status = job.status
         /\ job'.pending = job.pending - 1 /\ job'.next = job.next
         /\ job'.output = KeptOutput(job, "success", fiber[f].seq)
         /\ fiber' \in [Fibers -> Fiber]
         /\ fiber'[f].phase = "ended" /\ fiber'[f].token = fiber[f].token
         /\ fiber'[f].seq = fiber[f].seq /\ fiber'[f].exit = "success"
         /\ \A g \in Fibers : g # f => fiber'[g] = fiber[g]
<1>. DEFINE o == KeptOutput(job, exit, fiber[f].seq)
<1>1. /\ exit = "success" /\ job.status = "running" /\ IsCurrent(f) /\ job.pending > 1
      /\ job' = [job EXCEPT !.pending = @ - 1, !.output = o]
      /\ fiber' = Ended(fiber, f, exit) /\ UNCHANGED done
  BY DEF SettlePart, IsCurrent
<1>2. job \in Job /\ job.output \in Nat \cup {None} /\ job.pending \in Nat
  BY <1>1, JobIs
<1>3. fiber[f].seq \in Nat
  BY DEF TypeOK, Fiber
<1>4. o \in Nat \cup {None}
  BY <1>2, <1>3, KeptOutputIs
<1>. HIDE DEF o
<1>5. /\ job' \in Job /\ job'.token = job.token /\ job'.status = job.status
      /\ job'.pending = job.pending - 1 /\ job'.next = job.next /\ job'.output = o
  <2>. DEFINE n == job.pending - 1
  <2>1. job' = [job EXCEPT !.pending = n, !.output = o]
    BY <1>1
  <2>2. n \in Nat
    BY <1>1, <1>2
  <2>. HIDE DEF n
  <2>3. /\ job' \in Job /\ job'.token = job.token /\ job'.status = job.status
        /\ job'.pending = n /\ job'.next = job.next /\ job'.output = o
    BY <1>2, <1>4, <2>1, <2>2 DEF Job
  <2>. QED
    BY <2>3 DEF n
<1>. QED
  BY <1>1, <1>2, <1>5, EndedIs DEF o

LEMMA LastEffect ==
  ASSUME TypeOK, NEW f \in Fibers, NEW exit, Settles(f, exit), SettleLast(f, exit)
  PROVE  /\ IsCurrent(f) /\ job \in Job /\ (exit = "success" => job.pending <= 1)
         /\ job' \in Job /\ job'.token = job.token /\ job'.status = StatusOf(exit)
         /\ job'.status \in Final /\ (job'.status = "completed" => exit = "success")
         /\ job'.next = job.next /\ job'.output = KeptOutput(job, exit, fiber[f].seq)
         /\ done' \in [Starts -> Final \cup {"none", "pending"}]
         /\ done'[job.token] = job'.status
         /\ \A t \in Starts : t # job.token => done'[t] = done[t]
         /\ fiber' \in [Fibers -> Fiber]
         /\ fiber'[f].phase = "ended" /\ fiber'[f].exit = exit
         /\ \A g \in Fibers :
              /\ fiber'[g].token = fiber[g].token /\ fiber'[g].seq = fiber[g].seq
              /\ g # f => /\ fiber'[g].exit = fiber[g].exit
                          /\ fiber'[g].phase =
                               IF fiber[g].token = job.token /\ fiber[g].phase = "running"
                               THEN "interrupted" ELSE fiber[g].phase
<1>. DEFINE o == KeptOutput(job, exit, fiber[f].seq)
            fs == Ended(fiber, f, exit)
<1>1. /\ exit \in {"success", "failure", "interrupt"} /\ job.status = "running" /\ IsCurrent(f)
      /\ exit # "success" \/ job.pending <= 1
      /\ job' = [job EXCEPT !.pending = 0, !.status = StatusOf(exit), !.output = o]
      /\ fiber' = CloseScope(fs, job.token)
      /\ done' = [done EXCEPT ![job.token] = StatusOf(exit)]
  BY DEF SettleLast, IsCurrent, Settles
<1>2. job \in Job /\ job.output \in Nat \cup {None} /\ job.pending \in Nat /\ job.token \in Starts
  BY <1>1, JobIs
<1>3. fiber[f].seq \in Nat
  BY DEF TypeOK, Fiber
<1>4. o \in Nat \cup {None}
  BY <1>2, <1>3, KeptOutputIs
<1>5. StatusOf(exit) \in Final /\ (StatusOf(exit) = "completed" => exit = "success")
  BY <1>1 DEF StatusOf, Final
<1>6. /\ fs \in [Fibers -> Fiber] /\ fs[f].phase = "ended" /\ fs[f].exit = exit
      /\ fs[f].token = fiber[f].token /\ fs[f].seq = fiber[f].seq
      /\ \A g \in Fibers : g # f => fs[g] = fiber[g]
  BY <1>1, EndedIs
<1>. HIDE DEF o, fs
<1>7. /\ job' \in Job /\ job'.token = job.token /\ job'.status = StatusOf(exit)
      /\ job'.next = job.next /\ job'.output = o
  BY <1>1, <1>2, <1>4, <1>5 DEF Job, Status
<1>8. /\ done' \in [Starts -> Final \cup {"none", "pending"}]
      /\ done'[job.token] = StatusOf(exit)
      /\ \A t \in Starts : t # job.token => done'[t] = done[t]
  BY <1>1, <1>2, <1>5 DEF TypeOK
<1>9. /\ fiber' \in [Fibers -> Fiber]
      /\ \A g \in Fibers :
           /\ fiber'[g].token = fs[g].token /\ fiber'[g].seq = fs[g].seq
           /\ fiber'[g].exit = fs[g].exit
           /\ fiber'[g].phase = IF fs[g].token = job.token /\ fs[g].phase = "running"
                                THEN "interrupted" ELSE fs[g].phase
  BY <1>1, <1>6, ClosedIs
<1>10. fiber'[f].phase = "ended" /\ fiber'[f].exit = exit
  BY <1>6, <1>9
<1>11. ASSUME NEW g \in Fibers
       PROVE  /\ fiber'[g].token = fiber[g].token /\ fiber'[g].seq = fiber[g].seq
              /\ g # f => /\ fiber'[g].exit = fiber[g].exit
                          /\ fiber'[g].phase =
                               IF fiber[g].token = job.token /\ fiber[g].phase = "running"
                               THEN "interrupted" ELSE fiber[g].phase
  BY <1>6, <1>9
<1>12. job'.output = KeptOutput(job, exit, fiber[f].seq)
  BY <1>7 DEF o
<1>. QED
  BY <1>1, <1>2, <1>5, <1>7, <1>8, <1>9, <1>10, <1>11, <1>12

LEMMA CancelEffect ==
  ASSUME TypeOK, NEW k \in Cancels, CancelRunning(k)
  PROVE  /\ job.status = "running" /\ job \in Job /\ cancel[k].pc = "new"
         /\ job' \in Job /\ job'.token = job.token /\ job'.status = "cancelled"
         /\ job'.next = job.next /\ job'.output = job.output
         /\ done' \in [Starts -> Final \cup {"none", "pending"}]
         /\ done'[job.token] = "cancelled"
         /\ \A t \in Starts : t # job.token => done'[t] = done[t]
         /\ fiber' \in [Fibers -> Fiber]
         /\ \A g \in Fibers :
              /\ fiber'[g].token = fiber[g].token /\ fiber'[g].seq = fiber[g].seq
              /\ fiber'[g].exit = fiber[g].exit
              /\ fiber'[g].phase =
                   IF fiber[g].token = job.token /\ fiber[g].phase = "running"
                   THEN "interrupted" ELSE fiber[g].phase
         /\ cancel' = [cancel EXCEPT ![k] = [pc |-> "closing", token |-> job.token]]
         /\ UNCHANGED <<wait, lost, disposals>>
<1>1. /\ job.status = "running" /\ cancel[k].pc = "new"
      /\ job' = [job EXCEPT !.pending = 0, !.status = "cancelled"]
      /\ fiber' = CloseScope(fiber, job.token)
      /\ done' = [done EXCEPT ![job.token] = "cancelled"]
      /\ cancel' = [cancel EXCEPT ![k] = [pc |-> "closing", token |-> job.token]]
      /\ UNCHANGED <<wait, lost, disposals>>
  BY DEF CancelRunning, kept
<1>2. job \in Job /\ job.token \in Starts
  BY <1>1, JobIs
<1>3. fiber \in [Fibers -> Fiber] /\ done \in [Starts -> Final \cup {"none", "pending"}]
  BY DEF TypeOK
<1>4. /\ job' \in Job /\ job'.token = job.token /\ job'.status = "cancelled"
      /\ job'.next = job.next /\ job'.output = job.output
  BY <1>1, <1>2 DEF Job, Status, Final
<1>5. /\ done' \in [Starts -> Final \cup {"none", "pending"}]
      /\ done'[job.token] = "cancelled"
      /\ \A t \in Starts : t # job.token => done'[t] = done[t]
  BY <1>1, <1>2, <1>3 DEF Final
<1>. QED
  BY <1>1, <1>2, <1>3, <1>4, <1>5, ClosedIs

LEMMA DisposeEffect ==
  ASSUME TypeOK, Dispose
  PROVE  /\ job' = NoJob /\ disposals' # disposals /\ disposals' \in 0..MaxDisposals
         /\ lost' = IF Runs THEN lost \cup {job.token} ELSE lost
         /\ fiber' \in [Fibers -> Fiber]
         /\ \A g \in Fibers :
              /\ fiber'[g].token = fiber[g].token /\ fiber'[g].seq = fiber[g].seq
              /\ fiber'[g].phase = IF fiber[g].phase = "running" THEN "interrupted"
                                                                 ELSE fiber[g].phase
         /\ UNCHANGED <<done, wait, cancel>>
<1>1. fiber \in [Fibers -> Fiber] /\ disposals \in 0..MaxDisposals /\ MaxDisposals \in Nat
  BY CallsAssumption DEF TypeOK
<1>2. ASSUME NEW g \in Fibers
      PROVE  /\ fiber'[g] \in Fiber
             /\ fiber'[g].token = fiber[g].token /\ fiber'[g].seq = fiber[g].seq
             /\ fiber'[g].phase = IF fiber[g].phase = "running" THEN "interrupted"
                                                                ELSE fiber[g].phase
  <2>1. CASE fiber[g].phase = "running"
    <3>1. fiber'[g] = [fiber[g] EXCEPT !.phase = "interrupted"] /\ fiber[g] \in Fiber
      BY <1>1, <2>1 DEF Dispose
    <3>. QED
      BY <2>1, <3>1, FiberEdits
  <2>2. CASE fiber[g].phase # "running"
    BY <1>1, <2>2 DEF Dispose
  <2>. QED
    BY <2>1, <2>2
<1>3. fiber' = [g \in Fibers |-> fiber'[g]]
  BY DEF Dispose
<1>4. /\ job' = NoJob /\ disposals' # disposals /\ disposals' \in 0..MaxDisposals
      /\ lost' = (IF Runs THEN lost \cup {job.token} ELSE lost)
      /\ UNCHANGED <<done, wait, cancel>>
  BY <1>1 DEF Dispose, Runs
<1>. QED
  BY <1>2, <1>3, <1>4

\* What is left: steps of callers that touch neither the job nor its fibers.
Quiet ==
  /\ UNCHANGED <<job, fiber, done, lost, disposals>>
  /\ UNCHANGED cancel \/ \E k \in Cancels : CancelOver(k) \/ CancelReturn(k)

LEMMA NextIs ==
  ASSUME [Next]_vars
  PROVE  \/ \E c \in Starts : Start(c)
         \/ \E c \in Extends : Extend(c)
         \/ \E f \in Fibers, exit \in {"success", "failure", "interrupt"} :
              Settles(f, exit) /\ (SettleStale(f, exit) \/ SettlePart(f, exit) \/ SettleLast(f, exit))
         \/ \E k \in Cancels : CancelRunning(k)
         \/ Dispose
         \/ Quiet
<1>1. CASE UNCHANGED vars
  BY <1>1 DEF vars, Quiet
<1>2. ASSUME NEW f \in Fibers, Settle(f)
      PROVE  \E exit \in {"success", "failure", "interrupt"} :
               Settles(f, exit) /\ (SettleStale(f, exit) \/ SettlePart(f, exit) \/ SettleLast(f, exit))
  BY <1>2, SettleIs DEF Settles
<1>3. ASSUME NEW w \in Waits, WaitOver(w) \/ WaitRunning(w) \/ WaitDone(w) \/ WaitTimeout(w)
      PROVE  Quiet
  BY <1>3 DEF WaitOver, WaitRunning, WaitDone, WaitTimeout, Quiet, kept
<1>4. ASSUME NEW k \in Cancels, CancelOver(k) \/ CancelReturn(k) PROVE Quiet
  BY <1>4 DEF CancelOver, CancelReturn, Quiet, kept
<1>. QED
  BY <1>1, <1>2, <1>3, <1>4 DEF Next

-----------------------------------------------------------------------------
(* Every step preserves each part of the invariant. *)

LEMMA ForksStep ==
  ASSUME IInv, [Next]_vars
  PROVE  Forks'
<1>a. TypeOK /\ Forks
  BY DEF IInv
<1>f. /\ fiber \in [Fibers -> Fiber] /\ None \notin Starts /\ Starts \subseteq Fibers
      /\ \A f \in Fibers : fiber[f].token \in Starts \cup {None}
      /\ job.token \in Starts \cup {None}
  BY <1>a, CallsAssumption DEF TypeOK, Fiber, Fibers, Job, NoJob
<1>1. ASSUME NEW c \in Starts, Start(c)
      PROVE  Forks'
  BY <1>1, <1>a, <1>f, StartEffect DEF Forks, Fibers
<1>2. ASSUME NEW c \in Extends, Extend(c)
      PROVE  Forks'
  <2>1. job.token \in Starts
    BY <1>2, <1>a, <1>f, ExtendEffect, JobIs
  <2>. QED
    BY <1>2, <1>a, <1>f, <2>1, ExtendEffect DEF Forks, Fibers
<1>3. ASSUME NEW f \in Fibers, NEW exit, Settles(f, exit), SettleStale(f, exit)
      PROVE  Forks'
  BY <1>3, <1>a, <1>f, StaleEffect DEF Forks, Settles, Live
<1>4. ASSUME NEW f \in Fibers, NEW exit, Settles(f, exit), SettlePart(f, exit)
      PROVE  Forks'
  BY <1>4, <1>a, <1>f, PartEffect DEF Forks, Settles, Live, IsCurrent
<1>5. ASSUME NEW f \in Fibers, NEW exit, Settles(f, exit), SettleLast(f, exit)
      PROVE  Forks'
  BY <1>5, <1>a, <1>f, LastEffect DEF Forks, Settles, Live, IsCurrent
<1>6. ASSUME NEW k \in Cancels, CancelRunning(k)
      PROVE  Forks'
  BY <1>6, <1>a, <1>f, CancelEffect DEF Forks
<1>7. CASE Dispose
  BY <1>7, <1>a, <1>f, DisposeEffect DEF Forks, NoJob
<1>8. CASE Quiet
  BY <1>8, <1>a, <1>f DEF Forks, Quiet
<1>. QED
  BY <1>1, <1>2, <1>3, <1>4, <1>5, <1>6, <1>7, <1>8, NextIs

LEMMA OwnedStep ==
  ASSUME IInv, [Next]_vars
  PROVE  Owned'
<1>a. TypeOK /\ Forks /\ Owned
  BY DEF IInv
<1>f. /\ fiber \in [Fibers -> Fiber] /\ None \notin Starts /\ Starts \subseteq Fibers
      /\ \A f \in Fibers : fiber[f].token \in Starts \cup {None}
      /\ job.token \in Starts \cup {None}
  BY <1>a, CallsAssumption DEF TypeOK, Fiber, Fibers, Job, NoJob
<1>1. ASSUME NEW c \in Starts, Start(c)
      PROVE  Owned'
  BY <1>1, <1>a, <1>f, StartEffect DEF Owned, Runs, Forks
<1>2. ASSUME NEW c \in Extends, Extend(c)
      PROVE  Owned'
  BY <1>2, <1>a, <1>f, ExtendEffect DEF Owned, Runs
<1>3. ASSUME NEW f \in Fibers, NEW exit, Settles(f, exit), SettleStale(f, exit)
      PROVE  Owned'
  BY <1>3, <1>a, <1>f, StaleEffect DEF Owned, Runs
<1>4. ASSUME NEW f \in Fibers, NEW exit, Settles(f, exit), SettlePart(f, exit)
      PROVE  Owned'
  BY <1>4, <1>a, <1>f, PartEffect DEF Owned, Runs, IsCurrent
<1>5. ASSUME NEW f \in Fibers, NEW exit, Settles(f, exit), SettleLast(f, exit)
      PROVE  Owned'
  BY <1>5, <1>a, <1>f, LastEffect DEF Owned, Runs, IsCurrent, Final
<1>6. ASSUME NEW k \in Cancels, CancelRunning(k)
      PROVE  Owned'
  BY <1>6, <1>a, <1>f, CancelEffect DEF Owned, Runs
<1>7. CASE Dispose
  BY <1>7, <1>a, <1>f, DisposeEffect DEF Owned, Runs, NoJob
<1>8. CASE Quiet
  BY <1>8, <1>a, <1>f DEF Owned, Runs, Quiet
<1>. QED
  BY <1>1, <1>2, <1>3, <1>4, <1>5, <1>6, <1>7, <1>8, NextIs

LEMMA LostStep ==
  ASSUME IInv, [Next]_vars
  PROVE  LostOK'
<1>a. TypeOK /\ Forks /\ LostOK
  BY DEF IInv
<1>f. /\ fiber \in [Fibers -> Fiber] /\ None \notin Starts /\ Starts \subseteq Fibers
      /\ \A f \in Fibers : fiber[f].token \in Starts \cup {None}
      /\ job.token \in Starts \cup {None}
  BY <1>a, CallsAssumption DEF TypeOK, Fiber, Fibers, Job, NoJob
<1>1. ASSUME NEW c \in Starts, Start(c)
      PROVE  LostOK'
  BY <1>1, <1>a, <1>f, StartEffect DEF LostOK, TypeOK
<1>2. ASSUME NEW c \in Extends, Extend(c)
      PROVE  LostOK'
  BY <1>2, <1>a, <1>f, ExtendEffect DEF LostOK, TypeOK, Fibers
<1>3. ASSUME NEW f \in Fibers, NEW exit, Settles(f, exit), SettleStale(f, exit)
      PROVE  LostOK'
  BY <1>3, <1>a, <1>f, StaleEffect DEF LostOK, TypeOK, Fibers, Settles
<1>4. ASSUME NEW f \in Fibers, NEW exit, Settles(f, exit), SettlePart(f, exit)
      PROVE  LostOK'
  BY <1>4, <1>a, <1>f, PartEffect DEF LostOK, TypeOK, Settles
<1>5. ASSUME NEW f \in Fibers, NEW exit, Settles(f, exit), SettleLast(f, exit)
      PROVE  LostOK'
  BY <1>5, <1>a, <1>f, LastEffect DEF LostOK, TypeOK, Settles
<1>6. ASSUME NEW k \in Cancels, CancelRunning(k)
      PROVE  LostOK'
  BY <1>6, <1>a, <1>f, CancelEffect DEF LostOK, TypeOK
<1>7. CASE Dispose
  <2>1. Runs => job.token \in Starts /\ fiber[job.token].phase # "none"
    BY <1>a, JobIs DEF Runs, Forks
  <2>2. job'.token = None
    BY <1>7, <1>a, <1>f, DisposeEffect DEF NoJob
  <2>3. \A t \in lost' : t \in Starts /\ fiber[t].phase # "none"
    BY <1>7, <1>a, <1>f, <2>1, DisposeEffect DEF LostOK, TypeOK
  <2>4. \A g \in Fibers : fiber[g].phase # "none" => fiber'[g].phase # "none"
    BY <1>7, <1>a, <1>f, DisposeEffect
  <2>. QED
    BY <1>a, <1>f, <2>2, <2>3, <2>4 DEF LostOK
<1>8. CASE Quiet
  BY <1>8, <1>a, <1>f DEF LostOK, Quiet
<1>. QED
  BY <1>1, <1>2, <1>3, <1>4, <1>5, <1>6, <1>7, <1>8, NextIs

LEMMA DoneStep ==
  ASSUME IInv, [Next]_vars
  PROVE  DoneMatchesJob'
<1>a. TypeOK /\ Forks /\ LostOK /\ DoneMatchesJob
  BY DEF IInv
<1>f. /\ fiber \in [Fibers -> Fiber] /\ None \notin Starts /\ Starts \subseteq Fibers
      /\ \A f \in Fibers : fiber[f].token \in Starts \cup {None}
      /\ job.token \in Starts \cup {None}
  BY <1>a, CallsAssumption DEF TypeOK, Fiber, Fibers, Job, NoJob
<1>1. ASSUME NEW c \in Starts, Start(c)
      PROVE  DoneMatchesJob'
  BY <1>1, <1>a, <1>f, StartEffect DEF DoneMatchesJob, LostOK, Final, Forks
<1>2. ASSUME NEW c \in Extends, Extend(c)
      PROVE  DoneMatchesJob'
  BY <1>2, <1>a, <1>f, ExtendEffect DEF DoneMatchesJob
<1>3. ASSUME NEW f \in Fibers, NEW exit, Settles(f, exit), SettleStale(f, exit)
      PROVE  DoneMatchesJob'
  BY <1>3, <1>a, <1>f, StaleEffect DEF DoneMatchesJob, Settles
<1>4. ASSUME NEW f \in Fibers, NEW exit, Settles(f, exit), SettlePart(f, exit)
      PROVE  DoneMatchesJob'
  BY <1>4, <1>a, <1>f, PartEffect DEF DoneMatchesJob, Settles, Final
<1>5. ASSUME NEW f \in Fibers, NEW exit, Settles(f, exit), SettleLast(f, exit)
      PROVE  DoneMatchesJob'
  BY <1>5, <1>a, <1>f, LastEffect DEF DoneMatchesJob, Settles, Final, LostOK, IsCurrent
<1>6. ASSUME NEW k \in Cancels, CancelRunning(k)
      PROVE  DoneMatchesJob'
  BY <1>6, <1>a, <1>f, CancelEffect DEF DoneMatchesJob, Final, LostOK
<1>7. CASE Dispose
  BY <1>7, <1>a, <1>f, DisposeEffect DEF DoneMatchesJob, NoJob, Final, Runs
<1>8. CASE Quiet
  BY <1>8, <1>a, <1>f DEF DoneMatchesJob, Quiet
<1>. QED
  BY <1>1, <1>2, <1>3, <1>4, <1>5, <1>6, <1>7, <1>8, NextIs

LEMMA CountedStep ==
  ASSUME IInv, [Next]_vars
  PROVE  Counted'
<1>a. TypeOK /\ Forks /\ Owned /\ Counted
  BY DEF IInv
<1>w. IsFiniteSet(Working)
  <2>1. IsFiniteSet(Fibers)
    BY CallsAssumption, FS_Union DEF Fibers
  <2>. QED
    BY <2>1, FS_Subset DEF Working
<1>1. ASSUME NEW c \in Starts, Start(c)
      PROVE  Counted'
  <2>1. Working = {}
    BY <1>1, <1>a, StartEffect DEF Working, Owned, Runs
  <2>2. Working' = {c}
    BY <1>1, <1>a, <2>1, StartEffect DEF Working, Fibers
  <2>3. Cardinality(Working') = 1
    BY <2>2, FS_Singleton
  <2>. QED
    BY <1>1, <1>a, <2>3, StartEffect DEF Counted
<1>2. ASSUME NEW c \in Extends, Extend(c)
      PROVE  Counted'
  <2>1. Working' = Working \cup {c} /\ c \notin Working
    BY <1>2, <1>a, ExtendEffect DEF Working, Fibers
  <2>2. Cardinality(Working') = Cardinality(Working) + 1
    BY <1>w, <2>1, FS_AddElement
  <2>. QED
    BY <1>2, <1>a, <2>2, ExtendEffect DEF Counted, Runs
<1>3. ASSUME NEW f \in Fibers, NEW exit, Settles(f, exit), SettleStale(f, exit)
      PROVE  Counted'
  <2>1. CASE Runs
    <3>1. fiber[f].phase = "interrupted"
      BY <1>3, <1>a, <2>1, StaleEffect DEF Owned, IsCurrent, Runs, Settles, Live
    <3>2. Working' = Working
      BY <1>3, <1>a, <3>1, StaleEffect DEF Working
    <3>. QED
      BY <1>3, <1>a, <3>2, StaleEffect DEF Counted, Runs
  <2>2. CASE ~Runs
    BY <1>3, <1>a, <2>2, StaleEffect DEF Counted, Runs
  <2>. QED
    BY <2>1, <2>2
<1>4. ASSUME NEW f \in Fibers, NEW exit, Settles(f, exit), SettlePart(f, exit)
      PROVE  Counted'
  <2>1. job.pending = Cardinality(Working) /\ fiber[f].phase = "running"
    BY <1>4, <1>a, PartEffect DEF Counted, Runs, IsCurrent, Owned, Settles, Live
  <2>2. Working' = Working \ {f} /\ f \in Working
    BY <1>4, <1>a, <2>1, PartEffect DEF Working
  <2>3. Cardinality(Working') = Cardinality(Working) - 1
    BY <1>w, <2>2, FS_RemoveElement
  <2>. QED
    BY <1>4, <1>a, <2>1, <2>3, PartEffect DEF Counted
<1>5. ASSUME NEW f \in Fibers, NEW exit, Settles(f, exit), SettleLast(f, exit)
      PROVE  Counted'
  BY <1>5, <1>a, LastEffect DEF Counted, Runs, Final
<1>6. ASSUME NEW k \in Cancels, CancelRunning(k)
      PROVE  Counted'
  BY <1>6, <1>a, CancelEffect DEF Counted, Runs
<1>7. CASE Dispose
  BY <1>7, <1>a, DisposeEffect DEF Counted, Runs, NoJob
<1>8. CASE Quiet
  BY <1>8, <1>a DEF Counted, Runs, Working, Quiet
<1>. QED
  BY <1>1, <1>2, <1>3, <1>4, <1>5, <1>6, <1>7, <1>8, NextIs

LEMMA GroupStep ==
  ASSUME IInv, [Next]_vars
  PROVE  GroupOK'
<1>a. TypeOK /\ Forks /\ Owned /\ GroupOK
  BY DEF IInv
<1>f. /\ fiber \in [Fibers -> Fiber] /\ None \notin Starts /\ Starts \subseteq Fibers
      /\ \A f \in Fibers : fiber[f].token \in Starts \cup {None}
      /\ job.token \in Starts \cup {None}
  BY <1>a, CallsAssumption DEF TypeOK, Fiber, Fibers, Job, NoJob
<1>1. ASSUME NEW c \in Starts, Start(c)
      PROVE  GroupOK'
  <2>1. \A g \in Fibers : fiber'[g].token = c => g = c
    BY <1>1, <1>a, <1>f, StartEffect DEF Forks
  <2>2. c \in Group(c)' /\ \A g \in Group(c)' : g = c
    BY <1>1, <1>a, <2>1, StartEffect DEF Group, Fibers
  <2>. QED
    BY <1>1, <1>a, <2>2, StartEffect DEF GroupOK
<1>2. ASSUME NEW c \in Extends, Extend(c)
      PROVE  GroupOK'
  <2>. DEFINE G == Group(job.token)
  <2>1. Group(job.token)' = G \cup {c} /\ c \notin G /\ c \in Fibers /\ G \subseteq Fibers
    BY <1>2, <1>a, <1>f, ExtendEffect, JobIs DEF Group, Fibers, Forks
  <2>2. \A g \in G : fiber'[g] = fiber[g] /\ fiber[g].seq \in Nat
    BY <1>2, <1>a, <1>f, <2>1, ExtendEffect DEF Fiber
  <2>3. job.next \in Nat /\ job.output \in Nat \cup {None}
    BY <1>2, <1>a, ExtendEffect, JobIs
  <2>4. /\ job.output = None \/ job.output < job.next
        /\ \A g \in G : /\ fiber[g].seq < job.next
                        /\ fiber[g].phase = "ended" =>
                             fiber[g].exit = "success" /\ job.output # None /\ fiber[g].seq <= job.output
    BY <1>2, <1>a, ExtendEffect DEF GroupOK, Runs
  <2>. HIDE DEF G
  <2>5. \A g \in G : fiber'[g].seq < job'.next
    BY <1>2, <1>a, <2>2, <2>3, <2>4, ExtendEffect
  <2>6. \A g \in G : fiber'[g].phase = "ended" =>
           fiber'[g].exit = "success" /\ job'.output # None /\ fiber'[g].seq <= job'.output
    BY <1>2, <1>a, <2>2, <2>4, ExtendEffect
  <2>7. /\ fiber'[c].seq = job'.next - 1 /\ fiber'[c].seq < job'.next /\ fiber'[c].phase = "running"
        /\ job'.output = None \/ job'.output < job'.next
    BY <1>2, <1>a, <2>3, <2>4, ExtendEffect
  <2>. QED
    BY <2>1, <2>5, <2>6, <2>7 DEF GroupOK
<1>3. ASSUME NEW f \in Fibers, NEW exit, Settles(f, exit), SettleStale(f, exit)
      PROVE  GroupOK'
  <2>1. CASE Runs
    <3>1. Group(job.token)' = Group(job.token)
      BY <1>3, <1>a, <1>f, StaleEffect DEF Group
    <3>2. f \notin Group(job.token)
      BY <1>3, <1>a, <2>1, StaleEffect DEF IsCurrent, Runs, Group
    <3>3. \A g \in Group(job.token) : fiber'[g] = fiber[g]
      BY <1>3, <1>a, <3>2, StaleEffect DEF Group
    <3>. QED
      BY <1>3, <1>a, <2>1, <3>1, <3>3, StaleEffect DEF GroupOK
  <2>2. CASE ~Runs
    BY <1>3, <1>a, <2>2, StaleEffect DEF GroupOK, Runs
  <2>. QED
    BY <2>1, <2>2
<1>4. ASSUME NEW f \in Fibers, NEW exit, Settles(f, exit), SettlePart(f, exit)
      PROVE  GroupOK'
  <2>. DEFINE G == Group(job.token)
              o == KeptOutput(job, "success", fiber[f].seq)
  <2>1. /\ Runs /\ f \in G /\ G \subseteq Fibers /\ Group(job.token)' = G
        /\ job'.next = job.next /\ job'.output = o
    BY <1>4, <1>a, <1>f, PartEffect DEF IsCurrent, Runs, Group
  <2>2. /\ job.next \in Nat /\ job.output \in Nat \cup {None}
        /\ \A g \in G : fiber[g].seq \in Nat
    BY <1>a, <1>f, <2>1, JobIs DEF Runs, Fiber
  <2>3. /\ o \in Nat /\ o # None /\ fiber[f].seq <= o
        /\ o \in {fiber[f].seq, job.output} /\ (job.output # None => job.output <= o)
    BY <2>1, <2>2, KeptOutputIs
  <2>4. /\ job.output = None \/ job.output < job.next
        /\ \E g \in G : fiber[g].seq = job.next - 1
        /\ \A g \in G : /\ fiber[g].seq < job.next
                        /\ fiber[g].phase = "ended" =>
                             fiber[g].exit = "success" /\ job.output # None /\ fiber[g].seq <= job.output
    BY <1>a, <2>1 DEF GroupOK
  <2>. HIDE DEF G, o
  <2>5. o < job.next
    BY <2>1, <2>2, <2>3, <2>4
  <2>6. \A g \in G : fiber'[g].seq = fiber[g].seq
    BY <1>4, <1>a, <2>1, PartEffect
  <2>7. ASSUME NEW g \in G, fiber'[g].phase = "ended"
        PROVE  fiber'[g].exit = "success" /\ fiber'[g].seq <= o
    <3>1. CASE g = f
      BY <1>4, <1>a, <2>3, <3>1, PartEffect
    <3>2. CASE g # f
      <4>1. fiber'[g] = fiber[g]
        BY <1>4, <1>a, <2>1, <3>2, PartEffect
      <4>2. job.output \in Nat /\ job.output <= o /\ fiber[g].seq <= job.output /\ fiber[g].exit = "success"
        BY <2>2, <2>3, <2>4, <2>7, <4>1
      <4>. QED
        BY <2>2, <2>3, <4>1, <4>2
    <3>. QED
      BY <3>1, <3>2
  <2>. QED
    BY <2>1, <2>3, <2>4, <2>5, <2>6, <2>7 DEF GroupOK
<1>5. ASSUME NEW f \in Fibers, NEW exit, Settles(f, exit), SettleLast(f, exit)
      PROVE  GroupOK'
  BY <1>5, <1>a, LastEffect DEF GroupOK, Runs, Final
<1>6. ASSUME NEW k \in Cancels, CancelRunning(k)
      PROVE  GroupOK'
  BY <1>6, <1>a, CancelEffect DEF GroupOK, Runs
<1>7. CASE Dispose
  BY <1>7, <1>a, DisposeEffect DEF GroupOK, Runs, NoJob
<1>8. CASE Quiet
  BY <1>8, <1>a DEF GroupOK, Runs, Group, Quiet
<1>. QED
  BY <1>1, <1>2, <1>3, <1>4, <1>5, <1>6, <1>7, <1>8, NextIs

LEMMA CompletedStep ==
  ASSUME IInv, [Next]_vars
  PROVE  CompletedOK'
<1>a. TypeOK /\ Forks /\ Owned /\ Counted /\ GroupOK /\ CompletedOK
  BY DEF IInv
<1>f. /\ fiber \in [Fibers -> Fiber] /\ None \notin Starts /\ Starts \subseteq Fibers
      /\ \A f \in Fibers : fiber[f].token \in Starts \cup {None}
      /\ job.token \in Starts \cup {None}
  BY <1>a, CallsAssumption DEF TypeOK, Fiber, Fibers, Job, NoJob
<1>1. ASSUME NEW c \in Starts, Start(c)
      PROVE  CompletedOK'
  BY <1>1, <1>a, StartEffect DEF CompletedOK
<1>2. ASSUME NEW c \in Extends, Extend(c)
      PROVE  CompletedOK'
  BY <1>2, <1>a, ExtendEffect DEF CompletedOK
<1>3. ASSUME NEW f \in Fibers, NEW exit, Settles(f, exit), SettleStale(f, exit)
      PROVE  CompletedOK'
  <2>1. CASE job.status = "completed"
    <3>1. Group(job.token)' = Group(job.token)
      BY <1>3, <1>a, <1>f, StaleEffect DEF Group
    <3>2. f \notin Group(job.token)
      BY <1>3, <1>a, <2>1 DEF CompletedOK, Settles, Live
    <3>3. \A g \in Group(job.token) : fiber'[g] = fiber[g]
      BY <1>3, <1>a, <3>2, StaleEffect DEF Group
    <3>. QED
      BY <1>3, <1>a, <2>1, <3>1, <3>3, StaleEffect DEF CompletedOK
  <2>2. CASE job.status # "completed"
    BY <1>3, <1>a, <2>2, StaleEffect DEF CompletedOK
  <2>. QED
    BY <2>1, <2>2
<1>4. ASSUME NEW f \in Fibers, NEW exit, Settles(f, exit), SettlePart(f, exit)
      PROVE  CompletedOK'
  BY <1>4, <1>a, PartEffect DEF CompletedOK, IsCurrent
<1>5. ASSUME NEW f \in Fibers, NEW exit, Settles(f, exit), SettleLast(f, exit)
      PROVE  CompletedOK'
  <2>. DEFINE G == Group(job.token)
              o == KeptOutput(job, exit, fiber[f].seq)
  <2>. SUFFICES ASSUME job'.status = "completed"
                PROVE  /\ \A g \in Group(job.token)' : fiber'[g].phase = "ended" /\ fiber'[g].exit = "success"
                       /\ job'.output = job'.next - 1
    BY DEF CompletedOK
  <2>1. /\ exit = "success" /\ job.pending <= 1 /\ Runs /\ f \in G /\ G \subseteq Fibers
        /\ Group(job.token)' = G /\ job'.next = job.next /\ job'.output = o
    BY <1>5, <1>a, <1>f, LastEffect DEF IsCurrent, Runs, Group
  <2>2. /\ job.next \in Nat /\ job.output \in Nat \cup {None} /\ job.token \in Starts
        /\ \A g \in G : fiber[g].seq \in Nat
    BY <1>a, <1>f, <2>1, JobIs DEF Runs, Fiber
  <2>3. /\ o \in Nat /\ fiber[f].seq <= o
        /\ o \in {fiber[f].seq, job.output} /\ (job.output # None => job.output <= o)
    BY <2>1, <2>2, KeptOutputIs
  <2>4. /\ job.output = None \/ job.output < job.next
        /\ \E g \in G : fiber[g].seq = job.next - 1
        /\ \A g \in G : /\ fiber[g].seq < job.next
                        /\ fiber[g].phase = "ended" =>
                             fiber[g].exit = "success" /\ job.output # None /\ fiber[g].seq <= job.output
    BY <1>a, <2>1 DEF GroupOK
  <2>5. f \in Working /\ \A g \in Working : g = f
    <3>1. f \in Working
      BY <1>5, <1>a, <2>1 DEF Owned, Working, Settles, Live, Group
    <3>2. IsFiniteSet(Working)
      <4>1. IsFiniteSet(Fibers)
        BY CallsAssumption, FS_Union DEF Fibers
      <4>. QED
        BY <4>1, FS_Subset DEF Working
    <3>3. Cardinality(Working) <= 1
      BY <1>a, <2>1 DEF Counted
    <3>4. IsFiniteSet(Working \ {f}) /\ Cardinality(Working \ {f}) = Cardinality(Working) - 1
      BY <3>1, <3>2, FS_RemoveElement
    <3>5. Cardinality(Working \ {f}) \in Nat /\ Cardinality(Working) \in Nat
      BY <3>2, <3>4, FS_CardinalityType
    <3>6. Cardinality(Working \ {f}) = 0
      BY <3>3, <3>4, <3>5
    <3>7. Working \ {f} = {}
      BY <3>4, <3>6, FS_EmptySet
    <3>. QED
      BY <3>1, <3>7
  <2>6. \A g \in G : g # f => fiber[g].phase = "ended"
    <3>1. \A g \in G : /\ fiber[g].phase \in {"none", "running", "interrupted", "ended"}
                      /\ fiber[g].phase # "none" /\ fiber[g].phase # "interrupted"
      BY <1>a, <1>f, <2>1, <2>2 DEF Owned, Forks, Group, Fiber
    <3>. QED
      BY <2>1, <2>5, <3>1 DEF Working
  <2>. HIDE DEF G, o
  <2>7. ASSUME NEW g \in G PROVE fiber'[g].phase = "ended" /\ fiber'[g].exit = "success"
    <3>1. CASE g = f
      BY <1>5, <1>a, <2>1, <3>1, LastEffect
    <3>2. CASE g # f
      BY <1>5, <1>a, <2>1, <2>4, <2>6, <3>2, LastEffect
    <3>. QED
      BY <3>1, <3>2
  <2>8. job.next - 1 <= o
    <3>1. PICK g \in G : fiber[g].seq = job.next - 1
      BY <2>4
    <3>2. fiber[g].seq <= o
      BY <2>2, <2>3, <2>4, <2>6
    <3>. QED
      BY <3>1, <3>2
  <2>9. o < job.next
    <3>1. CASE o = fiber[f].seq
      BY <2>1, <2>4, <3>1
    <3>2. CASE o = job.output
      BY <2>3, <2>4, <3>2, CallsAssumption
    <3>. QED
      BY <2>3, <3>1, <3>2
  <2>. QED
    BY <2>1, <2>2, <2>3, <2>7, <2>8, <2>9
<1>6. ASSUME NEW k \in Cancels, CancelRunning(k)
      PROVE  CompletedOK'
  BY <1>6, <1>a, CancelEffect DEF CompletedOK
<1>7. CASE Dispose
  BY <1>7, <1>a, DisposeEffect DEF CompletedOK, NoJob
<1>8. CASE Quiet
  BY <1>8, <1>a DEF CompletedOK, Group, Quiet
<1>. QED
  BY <1>1, <1>2, <1>3, <1>4, <1>5, <1>6, <1>7, <1>8, NextIs

LEMMA CancelStep ==
  ASSUME IInv, [Next]_vars
  PROVE  CancelOK'
<1>a. TypeOK /\ Forks /\ CancelOK
  BY DEF IInv
<1>f. /\ fiber \in [Fibers -> Fiber] /\ None \notin Starts /\ Starts \subseteq Fibers
      /\ \A f \in Fibers : fiber[f].token \in Starts \cup {None}
      /\ job.token \in Starts \cup {None}
  BY <1>a, CallsAssumption DEF TypeOK, Fiber, Fibers, Job, NoJob
<1>k. /\ cancel \in [Cancels -> [pc : {"new", "closing", "returned"}, token : Starts \cup {None}]]
      /\ \A k \in Cancels : cancel[k].token \in Starts \cup {None}
  BY <1>a DEF TypeOK
<1>p. ASSUME \A t \in Starts : fiber[t].phase # "none" => fiber'[t].phase # "none",
             UNCHANGED cancel,
             \A t \in Starts : /\ fiber[t].phase # "none"
                               /\ job'.status = "running" /\ job'.token = t
                               => job.status = "running" /\ job.token = t
      PROVE  CancelOK'
  BY <1>a, <1>f, <1>k, <1>p DEF CancelOK, Runs
<1>1. ASSUME NEW c \in Starts, Start(c)
      PROVE  CancelOK'
  BY <1>1, <1>a, <1>f, <1>p, StartEffect
<1>2. ASSUME NEW c \in Extends, Extend(c)
      PROVE  CancelOK'
  BY <1>2, <1>a, <1>f, <1>p, ExtendEffect
<1>3. ASSUME NEW f \in Fibers, NEW exit, Settles(f, exit), SettleStale(f, exit)
      PROVE  CancelOK'
  BY <1>3, <1>a, <1>f, <1>p, StaleEffect DEF Settles
<1>4. ASSUME NEW f \in Fibers, NEW exit, Settles(f, exit), SettlePart(f, exit)
      PROVE  CancelOK'
  BY <1>4, <1>a, <1>f, <1>p, PartEffect DEF Settles
<1>5. ASSUME NEW f \in Fibers, NEW exit, Settles(f, exit), SettleLast(f, exit)
      PROVE  CancelOK'
  BY <1>5, <1>a, <1>f, <1>p, LastEffect DEF Settles, Final
<1>6. ASSUME NEW k \in Cancels, CancelRunning(k)
      PROVE  CancelOK'
  <2>1. job.token \in Starts /\ fiber[job.token].phase # "none"
    BY <1>6, <1>a, CancelEffect, JobIs DEF Forks
  <2>2. \A t \in Starts : fiber[t].phase # "none" => fiber'[t].phase # "none"
    BY <1>6, <1>a, <1>f, CancelEffect
  <2>3. /\ ~Runs' /\ cancel'[k] = [pc |-> "closing", token |-> job.token]
        /\ \A l \in Cancels : l # k => cancel'[l] = cancel[l]
    BY <1>6, <1>a, <1>k, CancelEffect DEF Runs
  <2>4. cancel'[k].pc = "closing" /\ cancel'[k].token = job.token
    BY <2>3
  <2>. QED
    BY <1>a, <1>f, <1>k, <2>1, <2>2, <2>3, <2>4 DEF CancelOK
<1>7. CASE Dispose
  BY <1>7, <1>a, <1>f, <1>p, DisposeEffect DEF NoJob
<1>8. CASE Quiet
  <2>1. \A k \in Cancels :
          /\ cancel'[k].token = cancel[k].token
          /\ cancel'[k].pc = cancel[k].pc \/ (cancel'[k].pc = "returned")
    <3>1. ASSUME NEW k \in Cancels, cancel' = [cancel EXCEPT ![k].pc = "returned"], NEW l \in Cancels
          PROVE  /\ cancel'[l].token = cancel[l].token
                 /\ cancel'[l].pc = cancel[l].pc \/ cancel'[l].pc = "returned"
      BY <1>k, <3>1
    <3>. QED
      BY <1>8, <3>1 DEF Quiet, CancelOver, CancelReturn
  <2>. QED
    BY <1>8, <1>a, <1>k, <2>1 DEF CancelOK, Quiet, Runs
<1>. QED
  BY <1>1, <1>2, <1>3, <1>4, <1>5, <1>6, <1>7, <1>8, NextIs

LEMMA StoppedStep ==
  ASSUME IInv, [Next]_vars
  PROVE  CancelledHasStopped'
<1>a. TypeOK /\ Forks /\ Owned /\ CancelOK /\ CancelledHasStopped
  BY DEF IInv
<1>f. /\ fiber \in [Fibers -> Fiber] /\ None \notin Starts /\ Starts \subseteq Fibers
      /\ \A f \in Fibers : fiber[f].token \in Starts \cup {None}
      /\ job.token \in Starts \cup {None}
  BY <1>a, CallsAssumption DEF TypeOK, Fiber, Fibers, Job, NoJob
<1>k. /\ cancel \in [Cancels -> [pc : {"new", "closing", "returned"}, token : Starts \cup {None}]]
      /\ \A k \in Cancels : cancel[k].token \in Starts \cup {None}
  BY <1>a DEF TypeOK
<1>p. ASSUME UNCHANGED cancel,
             \A k \in Cancels : cancel[k].token # None =>
               \A g \in Fibers : fiber'[g].token = cancel[k].token /\ Live(g)' =>
                 fiber[g].token = cancel[k].token /\ Live(g)
      PROVE  CancelledHasStopped'
  BY <1>a, <1>p DEF CancelledHasStopped, Group
<1>q. \A k \in Cancels : cancel[k].token # None =>
        fiber[cancel[k].token].phase # "none" /\ ~(Runs /\ job.token = cancel[k].token)
  BY <1>a DEF CancelOK
<1>1. ASSUME NEW c \in Starts, Start(c)
      PROVE  CancelledHasStopped'
  BY <1>1, <1>a, <1>f, <1>p, <1>q, StartEffect DEF Live
<1>2. ASSUME NEW c \in Extends, Extend(c)
      PROVE  CancelledHasStopped'
  BY <1>2, <1>a, <1>f, <1>p, <1>q, ExtendEffect DEF Live, Runs
<1>3. ASSUME NEW f \in Fibers, NEW exit, Settles(f, exit), SettleStale(f, exit)
      PROVE  CancelledHasStopped'
  BY <1>3, <1>a, <1>f, <1>p, StaleEffect DEF Settles, Live
<1>4. ASSUME NEW f \in Fibers, NEW exit, Settles(f, exit), SettlePart(f, exit)
      PROVE  CancelledHasStopped'
  BY <1>4, <1>a, <1>f, <1>p, PartEffect DEF Settles, Live
<1>5. ASSUME NEW f \in Fibers, NEW exit, Settles(f, exit), SettleLast(f, exit)
      PROVE  CancelledHasStopped'
  BY <1>5, <1>a, <1>f, <1>p, LastEffect DEF Settles, Live
<1>6. ASSUME NEW k \in Cancels, CancelRunning(k)
      PROVE  CancelledHasStopped'
  <2>1. \A g \in Fibers : fiber'[g].token = fiber[g].token /\ (Live(g)' => Live(g))
    BY <1>6, <1>a, CancelEffect DEF Live
  <2>2. /\ cancel'[k].pc = "closing"
        /\ \A l \in Cancels : l # k => cancel'[l] = cancel[l]
    BY <1>6, <1>a, <1>k, CancelEffect
  <2>. QED
    BY <1>a, <2>1, <2>2 DEF CancelledHasStopped, Group
<1>7. CASE Dispose
  BY <1>7, <1>a, <1>f, <1>p, DisposeEffect DEF Live
<1>8. CASE Quiet
  <2>1. CASE UNCHANGED cancel
    BY <1>8, <2>1, <1>p DEF Quiet, Live
  <2>2. ASSUME NEW k \in Cancels, CancelOver(k) PROVE CancelledHasStopped'
    <3>1. \A l \in Cancels : cancel'[l].token = cancel[l].token /\ (l # k => cancel'[l] = cancel[l])
      BY <1>k, <2>2 DEF CancelOver
    <3>2. cancel'[k].token = None
      BY <1>a, <2>2, <3>1 DEF CancelOver, CancelOK
    <3>. QED
      BY <1>8, <1>a, <3>1, <3>2 DEF CancelledHasStopped, Quiet, Group, Live
  <2>3. ASSUME NEW k \in Cancels, CancelReturn(k) PROVE CancelledHasStopped'
    <3>1. \A l \in Cancels : cancel'[l].token = cancel[l].token /\ (l # k => cancel'[l] = cancel[l])
      BY <1>k, <2>3 DEF CancelReturn
    <3>2. \A f \in Group(cancel[k].token) : ~Live(f)
      BY <2>3 DEF CancelReturn, Group
    <3>. QED
      BY <1>8, <1>a, <3>1, <3>2 DEF CancelledHasStopped, Quiet, Group, Live
  <2>. QED
    BY <1>8, <2>1, <2>2, <2>3 DEF Quiet
<1>. QED
  BY <1>1, <1>2, <1>3, <1>4, <1>5, <1>6, <1>7, <1>8, NextIs

\* The calls of wait and cancel: their types, and whoever waits knows a generation.
LEMMA CallersStep ==
  ASSUME IInv, [Next]_vars
  PROVE  /\ wait' \in [Waits -> [pc : {"new", "waiting", "answered"},
                              token : Starts \cup {None}, result : Status \cup {"none"}]]
         /\ cancel' \in [Cancels -> [pc : {"new", "closing", "returned"},
                                  token : Starts \cup {None}]]
         /\ WaitOK'
<1>. DEFINE WT == [pc : {"new", "waiting", "answered"},
                   token : Starts \cup {None}, result : Status \cup {"none"}]
            CT == [pc : {"new", "closing", "returned"}, token : Starts \cup {None}]
            Goal == wait' \in [Waits -> WT] /\ cancel' \in [Cancels -> CT] /\ WaitOK'
<1>a. TypeOK /\ WaitOK
  BY DEF IInv
<1>1. /\ wait \in [Waits -> WT] /\ cancel \in [Cancels -> CT]
      /\ done \in [Starts -> Final \cup {"none", "pending"}]
      /\ job.status \in Status \cup {"none"} /\ job.token \in Starts \cup {None}
  BY <1>a DEF TypeOK, Job, NoJob
<1>2. ASSUME UNCHANGED <<wait, cancel>> PROVE Goal
  BY <1>a, <1>1, <1>2 DEF WaitOK
<1>3. ASSUME NEW w \in Waits, NEW v \in Status \cup {"none"}, Answer(w, v), UNCHANGED cancel
      PROVE  Goal
  <2>1. wait' = [wait EXCEPT ![w] = [wait[w] EXCEPT !.pc = "answered", !.result = v]]
    BY <1>1, <1>3 DEF Answer
  <2>2. /\ [wait[w] EXCEPT !.pc = "answered", !.result = v] \in WT
        /\ [wait[w] EXCEPT !.pc = "answered", !.result = v].pc = "answered"
    BY <1>1
  <2>3. WaitOK'
    BY <1>a, <1>1, <2>1, <2>2 DEF WaitOK
  <2>. QED
    BY <1>1, <1>3, <2>1, <2>2, <2>3
<1>4. ASSUME NEW w \in Waits, WaitOver(w) \/ WaitTimeout(w) PROVE Goal
  <2>1. UNCHANGED cancel /\ \E v \in Status \cup {"none"} : Answer(w, v)
    BY <1>1, <1>4 DEF WaitOver, WaitTimeout, Status
  <2>. HIDE DEF Goal
  <2>. QED
    BY <1>3, <2>1
<1>5. ASSUME NEW w \in Waits, WaitRunning(w) PROVE Goal
  <2>1. wait' = [wait EXCEPT ![w] = [wait[w] EXCEPT !.pc = "waiting", !.token = job.token]]
    BY <1>1, <1>5 DEF WaitRunning
  <2>2. /\ [wait[w] EXCEPT !.pc = "waiting", !.token = job.token] \in WT
        /\ [wait[w] EXCEPT !.pc = "waiting", !.token = job.token].token = job.token
    BY <1>1
  <2>3. UNCHANGED cancel /\ job.token \in Starts
    BY <1>a, <1>5, JobIs DEF WaitRunning
  <2>4. WaitOK'
    BY <1>a, <1>1, <2>1, <2>2, <2>3 DEF WaitOK
  <2>. QED
    BY <1>1, <2>1, <2>2, <2>3, <2>4
<1>6. ASSUME NEW w \in Waits, WaitDone(w) PROVE Goal
  <2>1. UNCHANGED cancel /\ \E v \in Status \cup {"none"} : Answer(w, v)
    BY <1>a, <1>1, <1>6 DEF WaitDone, WaitOK, Status
  <2>. HIDE DEF Goal
  <2>. QED
    BY <1>3, <2>1
<1>7. ASSUME NEW k \in Cancels, CancelOver(k) \/ CancelReturn(k) PROVE Goal
  <2>1. UNCHANGED wait /\ cancel' = [cancel EXCEPT ![k] = [cancel[k] EXCEPT !.pc = "returned"]]
    BY <1>1, <1>7 DEF CancelOver, CancelReturn
  <2>2. [cancel[k] EXCEPT !.pc = "returned"] \in CT
    BY <1>1
  <2>. QED
    BY <1>a, <1>1, <2>1, <2>2 DEF WaitOK
<1>8. ASSUME NEW k \in Cancels, CancelRunning(k) PROVE Goal
  <2>1. /\ UNCHANGED wait /\ job.token \in Starts
        /\ cancel' = [cancel EXCEPT ![k] = [pc |-> "closing", token |-> job.token]]
    BY <1>a, <1>8, CancelEffect, JobIs
  <2>2. [pc |-> "closing", token |-> job.token] \in CT
    BY <2>1
  <2>. QED
    BY <1>a, <1>1, <2>1, <2>2 DEF WaitOK
<1>9. ASSUME \/ \E f \in Fibers : Settle(f)
             \/ \E c \in Starts : Start(c)
             \/ \E c \in Extends : Extend(c)
             \/ Dispose
      PROVE  UNCHANGED <<wait, cancel>>
  BY <1>9 DEF Settle, Start, Extend, Dispose
<1>. HIDE DEF Goal
<1>10. UNCHANGED vars => UNCHANGED <<wait, cancel>>
  BY DEF vars
<1>11. ASSUME Next PROVE Goal
  BY <1>2, <1>4, <1>5, <1>6, <1>7, <1>8, <1>9, <1>11 DEF Next
<1>12. Goal
  BY <1>2, <1>10, <1>11
<1>. QED
  BY <1>12 DEF Goal

\* The types of the job, its fibers and its Deferreds.
JobTypes ==
  /\ job \in Job \cup {NoJob}
  /\ fiber \in [Fibers -> Fiber]
  /\ done \in [Starts -> Final \cup {"none", "pending"}]
  /\ lost \subseteq Starts
  /\ disposals \in 0..MaxDisposals

LEMMA JobTyped ==
  ASSUME IInv, [Next]_vars
  PROVE  JobTypes'
<1>a. TypeOK /\ JobTypes
  BY DEF IInv, TypeOK, JobTypes
<1>1. ASSUME NEW c \in Starts, Start(c)
      PROVE  JobTypes'
  BY <1>1, <1>a, StartEffect DEF JobTypes
<1>2. ASSUME NEW c \in Extends, Extend(c)
      PROVE  JobTypes'
  BY <1>2, <1>a, ExtendEffect DEF JobTypes
<1>3. ASSUME NEW f \in Fibers, NEW exit, Settles(f, exit), SettleStale(f, exit)
      PROVE  JobTypes'
  BY <1>3, <1>a, StaleEffect DEF JobTypes, Settles
<1>4. ASSUME NEW f \in Fibers, NEW exit, Settles(f, exit), SettlePart(f, exit)
      PROVE  JobTypes'
  BY <1>4, <1>a, PartEffect DEF JobTypes, Settles
<1>5. ASSUME NEW f \in Fibers, NEW exit, Settles(f, exit), SettleLast(f, exit)
      PROVE  JobTypes'
  BY <1>5, <1>a, LastEffect DEF JobTypes, Settles
<1>6. ASSUME NEW k \in Cancels, CancelRunning(k)
      PROVE  JobTypes'
  BY <1>6, <1>a, CancelEffect DEF JobTypes
<1>7. CASE Dispose
  <2>1. Runs => job.token \in Starts
    BY <1>a, JobIs DEF Runs
  <2>. QED
    BY <1>7, <1>a, <2>1, DisposeEffect DEF JobTypes
<1>8. CASE Quiet
  BY <1>8, <1>a DEF JobTypes, Quiet
<1>. QED
  BY <1>1, <1>2, <1>3, <1>4, <1>5, <1>6, <1>7, <1>8, NextIs

LEMMA TypeStep ==
  ASSUME IInv, [Next]_vars
  PROVE  TypeOK'
BY JobTyped, CallersStep DEF TypeOK, JobTypes

LEMMA InvInit ==
  ASSUME Init
  PROVE  IInv
<1>1. /\ \A f \in Fibers : fiber[f] = NewFiber
      /\ \A t \in Starts : done[t] = "none" /\ t \in Fibers
      /\ job = NoJob /\ lost = {} /\ disposals = 0
  BY DEF Init, Fibers
<1>2. NewFiber \in Fiber /\ NewFiber.phase = "none" /\ NewFiber.token = None
  BY DEF NewFiber, Fiber
<1>3. TypeOK
  BY <1>1, <1>2, CallsAssumption DEF Init, TypeOK, Final
<1>4. Forks /\ Owned
  BY <1>1, <1>2, CallsAssumption DEF Forks, Owned, NoJob
<1>5. Counted /\ GroupOK /\ CompletedOK
  BY <1>1 DEF Counted, GroupOK, CompletedOK, NoJob, Runs
<1>6. LostOK /\ DoneMatchesJob
  BY <1>1 DEF LostOK, DoneMatchesJob, NoJob, Final
<1>7. WaitOK /\ CancelOK /\ CancelledHasStopped
  BY DEF Init, WaitOK, CancelOK, CancelledHasStopped
<1>. QED
  BY <1>3, <1>4, <1>5, <1>6, <1>7 DEF IInv

\* The invariant that ties the job, its fibers and its Deferreds together holds in
\* every state.
THEOREM Invariant == Spec => []IInv
<1>1. Init => IInv
  BY InvInit
<1>2. IInv /\ [Next]_vars => IInv'
  BY TypeStep, ForksStep, OwnedStep, CountedStep, GroupStep, CompletedStep, LostStep,
     DoneStep, CallersStep, CancelStep, StoppedStep
  DEF IInv
<1>. QED
  BY <1>1, <1>2, PTL DEF Spec

\* Every variable of background/job.ts keeps its type.
THEOREM Typing == Spec => []TypeOK
<1>1. IInv => TypeOK
  BY DEF IInv
<1>. QED
  BY <1>1, Invariant, PTL

\* The pending count of a job that runs is the number of fibers of its group that
\* have not settled.
THEOREM CountIsRight == Spec => []PendingCountsFibers
<1>1. IInv => PendingCountsFibers
  <2>1. ASSUME IInv, job.status = "running"
        PROVE  job.pending = Cardinality({f \in Group(job.token) : Live(f)})
    <3>1. {f \in Group(job.token) : Live(f)} = Working
      BY <2>1 DEF IInv, Owned, Working, Group, Live, Runs
    <3>. QED
      BY <2>1, <3>1 DEF IInv, Counted, Runs
  <2>. QED
    BY <2>1 DEF PendingCountsFibers
<1>. QED
  BY <1>1, Invariant, PTL

\* A Deferred is open exactly while its generation runs in the table, or ran in one
\* that is gone.
THEOREM DeferredTellsJob == Spec => []DoneMatchesJob
<1>1. IInv => DoneMatchesJob
  BY DEF IInv
<1>. QED
  BY <1>1, Invariant, PTL

\* A completed job had no failure, and reports the output of its latest extension.
THEOREM CompletedJobIsWhole == Spec => []CompletedIsWhole
<1>1. IInv => CompletedIsWhole
  BY DEF IInv, CompletedOK, CompletedIsWhole
<1>. QED
  BY <1>1, Invariant, PTL

\* When cancel has returned nothing of what it cancelled runs, for any sets of calls.
THEOREM CancelIsOver == Spec => []CancelledHasStopped
<1>1. IInv => CancelledHasStopped
  BY DEF IInv
<1>. QED
  BY <1>1, Invariant, PTL

\* Fibers that work belong to one generation.
THEOREM GenerationsAreApart == Spec => []OneGeneration
<1>1. IInv => OneGeneration
  BY DEF IInv, Owned, OneGeneration
<1>. QED
  BY <1>1, Invariant, PTL

\* A job that is over stays as it is until it is started again or its table goes.
THEOREM OverStays == Spec => OverIsFinal
<1>. DEFINE Step == job.status \in Final /\ job' # job =>
                      \/ job'.status = "running" /\ job'.token # job.token
                      \/ job' = NoJob /\ disposals' # disposals
<1>1. IInv /\ [Next]_vars => [Step]_vars
  <2>1. SUFFICES ASSUME IInv, [Next]_vars, job.status \in Final, job' # job PROVE Step
    OBVIOUS
  <2>a. TypeOK /\ Forks /\ job.status # "running"
    BY <2>1 DEF IInv, Final
  <2>2. ASSUME NEW c \in Starts, Start(c) PROVE Step
    BY <2>a, <2>2, StartEffect DEF Forks
  <2>3. ASSUME NEW c \in Extends, Extend(c) PROVE FALSE
    BY <2>a, <2>3, ExtendEffect
  <2>4. ASSUME NEW f \in Fibers, NEW exit, Settles(f, exit),
               SettleStale(f, exit) \/ SettlePart(f, exit) \/ SettleLast(f, exit)
        PROVE  FALSE
    BY <2>1, <2>a, <2>4, StaleEffect, PartEffect, LastEffect DEF IsCurrent
  <2>5. ASSUME NEW k \in Cancels, CancelRunning(k) PROVE FALSE
    BY <2>a, <2>5, CancelEffect
  <2>6. CASE Dispose
    BY <2>a, <2>6, DisposeEffect
  <2>7. CASE Quiet
    BY <2>1, <2>7 DEF Quiet
  <2>. QED
    BY <2>1, <2>2, <2>3, <2>4, <2>5, <2>6, <2>7, NextIs
<1>. QED
  BY <1>1, Invariant, PTL DEF Spec, OverIsFinal

=============================================================================
