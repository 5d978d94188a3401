--------------------------- MODULE BackgroundJobs ---------------------------
(***************************************************************************)
(* background/job.ts: a job is a group of fibers under one id that can be   *)
(* extended while it runs, waited for, cancelled, and started again once it *)
(* is over.  Jobs of different ids share nothing, so one id is modelled.    *)
(*                                                                         *)
(* A call of start names the generation it begins (the code's token object, *)
(* done Deferred and Scope); a call of start or extend names the fiber it   *)
(* forks.  The table is a SynchronizedRef whose critical sections do not    *)
(* suspend, so each operation is one step up to its first wait.             *)
(*                                                                         *)
(* The table belongs to an instance.  When the instance is disposed of, the  *)
(* table leaves the cache first and its Scope, which holds those of the      *)
(* jobs, is closed then: whoever looks from now on finds a new table.        *)
(***************************************************************************)
EXTENDS Naturals, FiniteSets

CONSTANTS
  Starts,   \* calls of start
  Extends,  \* calls of extend
  Waits,    \* calls of wait
  Cancels,  \* calls of cancel
  MaxDisposals,  \* bound on disposals of the instance
  None

ASSUME CallsAssumption ==
  /\ Starts \cap Extends = {}
  /\ None \notin Starts \cup Extends \cup Nat
  /\ IsFiniteSet(Starts) /\ IsFiniteSet(Extends)
  /\ MaxDisposals \in Nat

Fibers == Starts \cup Extends

VARIABLES
  job,     \* the Active record of the id, or NoJob
  fiber,   \* fiber[f]: the fiber forked by call f
  done,    \* done[t]: the Deferred of generation t
  wait,    \* wait[w]: a call of wait
  cancel,  \* cancel[k]: a call of cancel
  lost,    \* generations that were running in a table that is gone
  disposals

vars == <<job, fiber, done, wait, cancel, lost, disposals>>
kept == <<lost, disposals>>

Final == {"completed", "error", "cancelled"}
Status == Final \cup {"running"}

\* output is the sequence number of the output kept, or None.
NoJob == [token |-> None, status |-> "none", pending |-> 0, next |-> 0,
          output |-> None]

Job == [token : Starts, status : Status, pending : Nat, next : Nat,
        output : Nat \cup {None}]

\* "interrupted": the Scope is closing, finalizers run.  exit is how it ended.
Fiber == [phase : {"none", "running", "interrupted", "ended"},
          token : Starts \cup {None}, seq : Nat,
          exit : {"none", "success", "failure", "interrupt"}]

NewFiber == [phase |-> "none", token |-> None, seq |-> 0, exit |-> "none"]
Forked(t, n) == [phase |-> "running", token |-> t, seq |-> n, exit |-> "none"]

Live(f) == fiber[f].phase \in {"running", "interrupted"}

-----------------------------------------------------------------------------
\* Scope.close: every fiber of the generation that still runs is interrupted.
CloseScope(fs, t) ==
  [f \in Fibers |-> IF fs[f].token = t /\ fs[f].phase = "running"
                    THEN [fs[f] EXCEPT !.phase = "interrupted"] ELSE fs[f]]

Ended(fs, f, exit) == [fs EXCEPT ![f] = [@ EXCEPT !.phase = "ended", !.exit = exit]]

\* Mutant: the output of whichever fiber succeeds last.
KeepsLast(j, exit, seq) == IF exit = "success" THEN seq ELSE j.output

\* The output of the highest sequence number that has succeeded.
KeptOutput(j, exit, seq) ==
  IF exit = "success" /\ (j.output = None \/ seq > j.output) THEN seq ELSE j.output

StatusOf(exit) ==
  CASE exit = "success"   -> "completed"
    [] exit = "interrupt" -> "cancelled"
    [] exit = "failure"   -> "error"

Init ==
  /\ job = NoJob
  /\ fiber = [f \in Fibers |-> NewFiber]
  /\ done = [t \in Starts |-> "none"]
  /\ wait = [w \in Waits |-> [pc |-> "new", token |-> None, result |-> "none"]]
  /\ cancel = [k \in Cancels |-> [pc |-> "new", token |-> None]]
  /\ lost = {}
  /\ disposals = 0

\* start: a running job is returned as it is; otherwise a new generation takes
\* the place of whatever is there.
Start(c) ==
  /\ fiber[c].phase = "none"
  /\ job.status # "running"
  /\ job' = [token |-> c, status |-> "running", pending |-> 1, next |-> 1,
             output |-> None]
  /\ fiber' = [fiber EXCEPT ![c] = Forked(c, 0)]
  /\ done' = [done EXCEPT ![c] = "pending"]
  /\ UNCHANGED <<wait, cancel, kept>>

\* extend: a job that is not running refuses, which changes nothing.
Extend(c) ==
  /\ fiber[c].phase = "none"
  /\ job.status = "running"
  /\ job' = [job EXCEPT !.pending = @ + 1, !.next = @ + 1]
  /\ fiber' = [fiber EXCEPT ![c] = Forked(job.token, job.next)]
  /\ UNCHANGED <<done, wait, cancel, kept>>

-----------------------------------------------------------------------------
(* The end of a fiber: settle *)

\* What the work can end with.  An interruption need not come from the Scope: the
\* work may be interrupted inside.
Exits(f) ==
  IF fiber[f].phase = "running" THEN {"success", "failure", "interrupt"}
                                ELSE {"success", "interrupt"}

\* Mutant: settle looks at the token only.
IsCurrentByToken(f) == job.token = fiber[f].token

\* The table still holds the generation of fiber f, and it runs.
IsCurrent(f) == job.token = fiber[f].token /\ job.status = "running"

\* settle of an older generation, of a job that is over, or of a job of a table
\* that is gone (settle looks the table up again): ignored.
SettleStale(f, exit) ==
  /\ ~IsCurrent(f)
  /\ fiber' = Ended(fiber, f, exit)
  /\ UNCHANGED <<job, done>>

\* A success while others of the group are pending.
SettlePart(f, exit) ==
  /\ IsCurrent(f)
  /\ exit = "success" /\ job.pending > 1
  /\ job' = [job EXCEPT !.pending = @ - 1,
                        !.output = KeptOutput(job, exit, fiber[f].seq)]
  /\ fiber' = Ended(fiber, f, exit)
  /\ UNCHANGED done

\* Mutant: the Deferred is left alone.
SettleLastSilent(f, exit) ==
  /\ IsCurrent(f)
  /\ exit # "success" \/ job.pending <= 1
  /\ job' = [job EXCEPT !.pending = 0, !.status = StatusOf(exit),
                        !.output = KeptOutput(job, exit, fiber[f].seq)]
  /\ fiber' = CloseScope(Ended(fiber, f, exit), job.token)
  /\ UNCHANGED done

\* The last success, or any other end, ends the job and closes its Scope.
SettleLast(f, exit) ==
  /\ IsCurrent(f)
  /\ exit # "success" \/ job.pending <= 1
  /\ job' = [job EXCEPT !.pending = 0, !.status = StatusOf(exit),
                        !.output = KeptOutput(job, exit, fiber[f].seq)]
  /\ done' = [done EXCEPT ![job.token] = StatusOf(exit)]
  /\ fiber' = CloseScope(Ended(fiber, f, exit), job.token)

Settle(f) ==
  /\ Live(f)
  /\ \E exit \in Exits(f) :
       SettleStale(f, exit) \/ SettlePart(f, exit) \/ SettleLast(f, exit)
  /\ UNCHANGED <<wait, cancel, kept>>

-----------------------------------------------------------------------------
(* wait and cancel *)

Answer(w, result) == wait' = [wait EXCEPT ![w] = [@ EXCEPT !.pc = "answered", !.result = result]]

\* wait on a job that is over, or that never was (status "none"), answers at once.
WaitOver(w) ==
  /\ wait[w].pc = "new"
  /\ job.status # "running"
  /\ Answer(w, job.status)
  /\ UNCHANGED <<job, fiber, done, cancel, kept>>

WaitRunning(w) ==
  /\ wait[w].pc = "new"
  /\ job.status = "running"
  /\ wait' = [wait EXCEPT ![w] = [@ EXCEPT !.pc = "waiting", !.token = job.token]]
  /\ UNCHANGED <<job, fiber, done, cancel, kept>>

WaitDone(w) ==
  /\ wait[w].pc = "waiting"
  /\ done[wait[w].token] # "pending"
  /\ Answer(w, done[wait[w].token])
  /\ UNCHANGED <<job, fiber, done, cancel, kept>>

\* The timeout answers with the snapshot taken when the wait began.
WaitTimeout(w) ==
  /\ wait[w].pc = "waiting"
  /\ Answer(w, "running")
  /\ UNCHANGED <<job, fiber, done, cancel, kept>>

CancelOver(k) ==
  /\ cancel[k].pc = "new"
  /\ job.status # "running"
  /\ cancel' = [cancel EXCEPT ![k].pc = "returned"]
  /\ UNCHANGED <<job, fiber, done, wait, kept>>

\* Mutant: the Scope stays open.
CancelRunningLeaks(k) ==
  /\ cancel[k].pc = "new"
  /\ job.status = "running"
  /\ job' = [job EXCEPT !.pending = 0, !.status = "cancelled"]
  /\ done' = [done EXCEPT ![job.token] = "cancelled"]
  /\ cancel' = [cancel EXCEPT ![k] = [pc |-> "closing", token |-> job.token]]
  /\ UNCHANGED <<fiber, wait, kept>>

CancelRunning(k) ==
  /\ cancel[k].pc = "new"
  /\ job.status = "running"
  /\ job' = [job EXCEPT !.pending = 0, !.status = "cancelled"]
  /\ done' = [done EXCEPT ![job.token] = "cancelled"]
  /\ fiber' = CloseScope(fiber, job.token)
  /\ cancel' = [cancel EXCEPT ![k] = [pc |-> "closing", token |-> job.token]]
  /\ UNCHANGED <<wait, kept>>

\* Mutant: cancel does not wait for the Scope.
CancelReturnEarly(k) ==
  /\ cancel[k].pc = "closing"
  /\ cancel' = [cancel EXCEPT ![k].pc = "returned"]
  /\ UNCHANGED <<job, fiber, done, wait, kept>>

\* Scope.close returns when every fiber of the generation has ended.
CancelReturn(k) ==
  /\ cancel[k].pc = "closing"
  /\ \A f \in Fibers : fiber[f].token = cancel[k].token => ~Live(f)
  /\ cancel' = [cancel EXCEPT ![k].pc = "returned"]
  /\ UNCHANGED <<job, fiber, done, wait, kept>>

-----------------------------------------------------------------------------
\* Mutant: the Scopes of the jobs are not below that of the table.
DisposeLeaks ==
  /\ disposals < MaxDisposals
  /\ job' = NoJob
  /\ lost' = IF job.status = "running" THEN lost \cup {job.token} ELSE lost
  /\ disposals' = disposals + 1
  /\ UNCHANGED <<fiber, done, wait, cancel>>

\* The instance is disposed of: the next look at the table builds an empty one,
\* and the Scope of the old one interrupts the fibers of all its jobs.  Nobody
\* completes the Deferred of a job that was running.
Dispose ==
  /\ disposals < MaxDisposals
  /\ job' = NoJob
  /\ fiber' = [f \in Fibers |-> IF fiber[f].phase = "running"
                                THEN [fiber[f] EXCEPT !.phase = "interrupted"] ELSE fiber[f]]
  /\ lost' = IF job.status = "running" THEN lost \cup {job.token} ELSE lost
  /\ disposals' = disposals + 1
  /\ UNCHANGED <<done, wait, cancel>>

Next ==
  \/ \E c \in Starts : Start(c)
  \/ \E c \in Extends : Extend(c)
  \/ \E f \in Fibers : Settle(f)
  \/ \E w \in Waits : WaitOver(w) \/ WaitRunning(w) \/ WaitDone(w) \/ WaitTimeout(w)
  \/ \E k \in Cancels : CancelOver(k) \/ CancelRunning(k) \/ CancelReturn(k)
  \/ Dispose

Spec == Init /\ [][Next]_vars

\* Finalizers end, and whoever waits for a fact goes on.  Work need not end.
Fairness ==
  /\ \A f \in Fibers : WF_vars(fiber[f].phase = "interrupted" /\ Settle(f))
  /\ \A w \in Waits : WF_vars(WaitDone(w))
  /\ \A k \in Cancels : WF_vars(CancelReturn(k))

FairSpec == Spec /\ Fairness

-----------------------------------------------------------------------------
(* Properties *)

TypeOK ==
  /\ job \in Job \cup {NoJob}
  /\ fiber \in [Fibers -> Fiber]
  /\ done \in [Starts -> Final \cup {"none", "pending"}]
  /\ wait \in [Waits -> [pc : {"new", "waiting", "answered"},
                         token : Starts \cup {None}, result : Status \cup {"none"}]]
  /\ cancel \in [Cancels -> [pc : {"new", "closing", "returned"},
                             token : Starts \cup {None}]]
  /\ lost \subseteq Starts
  /\ disposals \in 0..MaxDisposals

Group(t) == {f \in Fibers : fiber[f].token = t}

\* While a job runs, pending counts exactly the fibers of its generation that have
\* not settled, so the job can neither end early nor wait for a fiber that is gone
\* (settle and extend count in different critical sections).
PendingCountsFibers ==
  job.status = "running" => job.pending = Cardinality({f \in Group(job.token) : Live(f)})

\* The done Deferred of a generation is pending exactly while the table says that
\* this generation runs, and then says how it ended: no waiter is left with a
\* Deferred nobody will complete, and a late settle never tells another story.  The
\* exception are generations whose table was disposed of while they ran.
DoneMatchesJob ==
  /\ \A t \in Starts : done[t] = "pending" <=>
       (job.token = t /\ job.status = "running") \/ t \in lost
  /\ job.status \in Final => done[job.token] = job.status

\* A job that reports completed had no failure in its group, and the output it
\* reports is that of the latest extension, in whatever order they finished.
CompletedIsWhole ==
  job.status = "completed" =>
    /\ \A f \in Group(job.token) : fiber[f].exit = "success"
    /\ job.output = job.next - 1

\* cancel returns only when no fiber of what it cancelled still runs, the
\* extensions included.
CancelledHasStopped ==
  \A k \in Cancels : cancel[k].pc = "returned" /\ cancel[k].token # None =>
    \A f \in Group(cancel[k].token) : ~Live(f)

\* A job that is over stays as it is until a start begins another generation or
\* its table goes: stale settlements and second cancellations change nothing.
OverIsFinal ==
  [][job.status \in Final /\ job' # job =>
       \/ job'.status = "running" /\ job'.token # job.token
       \/ job' = NoJob /\ disposals' # disposals]_vars

\* Two generations never work at the same time: a job is started again only when
\* the one before is over, and what is left of that one is being interrupted.
OneGeneration ==
  \A f, g \in Fibers : fiber[f].phase = "running" /\ fiber[g].phase = "running" =>
    fiber[f].token = fiber[g].token

WorkEnds == \A f \in Fibers : []<>(fiber[f].phase # "running")

\* If the work ends, everybody who waits is told, with or without a timeout, unless
\* the instance was disposed of under the job: that waiter waits for ever.
WaitersAnswered ==
  WorkEnds => \A w \in Waits :
    wait[w].pc = "waiting" ~> wait[w].pc = "answered" \/ wait[w].token \in lost

\* A cancellation returns although the work may never end by itself.
CancelReturns == \A k \in Cancels : cancel[k].pc = "closing" ~> cancel[k].pc = "returned"

=============================================================================
