--------------------------- MODULE SessionRunner ---------------------------
(***************************************************************************)
(* Who may run in a session, and who is told when it ends.                  *)
(*                                                                         *)
(* This module composes effect/runner.ts (one Runner: a run, a shell, or a  *)
(* shell with one run queued behind it), session/run-state.ts (the map from *)
(* a session to its Runner) and the part of session/status.ts they write.   *)
(* One session is modelled: runners of different sessions share nothing.    *)
(*                                                                         *)
(* Every call is made once and names what it creates: the Runner that a     *)
(* call makes, the run it starts and the Deferred its waiters wait on all   *)
(* carry the name of that call, as the fresh ids of the code do.            *)
(*                                                                         *)
(* Atomicity.  Fibers are scheduled cooperatively, so a step below is the   *)
(* code between two suspensions: waiting for work, for a fiber's exit, for  *)
(* a latch or for a Deferred.  SessionStatus.set never suspends (all the    *)
(* listeners of the status event are synchronous), so it belongs to the     *)
(* step that calls it, and the lock of the SynchronizedRef is never held    *)
(* across a step.                                                          *)
(***************************************************************************)
EXTENDS Naturals, FiniteSets

CONSTANTS
  Prompts,  \* calls of RunState.ensureRunning: loops of the session
  Shells,   \* calls of RunState.startShell
  Cancels,  \* calls of RunState.cancel
  None      \* no call

ASSUME CallsAssumption ==
  /\ Prompts \cap Shells = {}
  /\ None \notin Prompts \cup Shells

Calls == Prompts \cup Shells

VARIABLES
  current,  \* runners.get(sessionID): the call that made the Runner, or None
  state,    \* state[r]: the SynchronizedRef of the Runner made by call r
  home,     \* home[c]: the Runner that call c used
  fiber,    \* fiber[c]: the fiber forked for call c
  done,     \* done[c]: the Deferred of run c; for a shell, its fiber's Exit
  waitsOn,  \* waitsOn[c]: whose done the caller c awaits
  ready,    \* ready[c]: the Latch that the shell work c opens
  cancel,   \* cancel[k]: a cancellation in progress
  status    \* what SessionStatus.get answers ("retry" counts as busy)

vars == <<current, state, home, fiber, done, waitsOn, ready, cancel, status>>

-----------------------------------------------------------------------------
(* Values *)

IdleState          == [tag |-> "Idle", shell |-> None, run |-> None]
RunningState(c)    == [tag |-> "Running", shell |-> None, run |-> c]
ShellState(s)      == [tag |-> "Shell", shell |-> s, run |-> None]
\* Mutant: the two handles swapped.
QueuedStateSwapped(s, c) == [tag |-> "ShellThenRun", shell |-> c, run |-> s]
QueuedState(s, c)  == [tag |-> "ShellThenRun", shell |-> s, run |-> c]

RunnerState ==
  [tag   : {"Idle", "Running", "Shell", "ShellThenRun"},
   shell : Shells \cup {None},
   run   : Prompts \cup {None}]

\* "halted": the loop hit an error, halt() has set the status to idle and the
\* fiber has only its cleanup left.  "stopping": interrupted, finalizers run.
FiberPhase == {"none", "working", "halted", "stopping", "exited"}

CancelState ==
  [pc     : {"new", "awaitReady", "awaitExit", "returned", "gone"},
   runner : Calls \cup {None},
   shell  : Shells \cup {None},
   run    : Prompts \cup {None}]

NewCancel == [pc |-> "new", runner |-> None, shell |-> None, run |-> None]

Alive(c) == fiber[c] \in {"working", "halted", "stopping"}

\* The fiber runs on undisturbed: nothing has interrupted it.
Unstopped(c) == fiber[c] \in {"working", "halted"}

Called(c) == home[c] # None

\* Runner.busy of the session's Runner, read without the lock.
Busy == current # None /\ state[current].tag # "Idle"

-----------------------------------------------------------------------------
(* Pieces shared by the actions *)

\* Mutant: the lookup misses the existing Runner.
RunnerForAlwaysNew(c) == c

\* run-state.ts runner(): the session's Runner, made by c if there is none.
RunnerFor(c) == IF current = None THEN c ELSE current

\* A Deferred keeps its first completion.
Complete(d, c, result) ==
  IF d[c] = "pending" THEN [d EXCEPT ![c] = result] ELSE d

\* Fiber.interrupt as seen by the fiber: finalizers start, unless it is over.
Interrupted(f, c) ==
  IF f[c] \in {"working", "halted"} THEN [f EXCEPT ![c] = "stopping"] ELSE f

\* The onIdle callback: the session's entry goes, whichever Runner it holds.
OnIdle ==
  /\ current' = None
  /\ status' = "idle"

-----------------------------------------------------------------------------
Init ==
  /\ current = None
  /\ state = [r \in Calls |-> IdleState]
  /\ home = [c \in Calls |-> None]
  /\ fiber = [c \in Calls |-> "none"]
  /\ done = [c \in Calls |-> "none"]
  /\ waitsOn = [c \in Calls |-> None]
  /\ ready = [c \in Shells |-> FALSE]
  /\ cancel = [k \in Cancels |-> NewCancel]
  /\ status = "idle"

\* ensureRunning on a Runner that has a run or has one queued: share it.
JoinRun(c, r) ==
  /\ state[r].tag \in {"Running", "ShellThenRun"}
  /\ waitsOn' = [waitsOn EXCEPT ![c] = state[r].run]
  /\ UNCHANGED <<state, fiber, done>>

\* Mutant: the run does not wait for the shell.
QueueRunAtOnce(c, r) ==
  /\ state[r].tag = "Shell"
  /\ state' = [state EXCEPT ![r] = RunningState(c)]
  /\ fiber' = [fiber EXCEPT ![c] = "working"]
  /\ done' = [done EXCEPT ![c] = "pending"]
  /\ waitsOn' = [waitsOn EXCEPT ![c] = c]

\* ensureRunning during a shell: queue one run behind it.
QueueRun(c, r) ==
  /\ state[r].tag = "Shell"
  /\ state' = [state EXCEPT ![r] = QueuedState(state[r].shell, c)]
  /\ done' = [done EXCEPT ![c] = "pending"]
  /\ waitsOn' = [waitsOn EXCEPT ![c] = c]
  /\ UNCHANGED fiber

\* ensureRunning on an idle Runner: fork the work.
StartRun(c, r) ==
  /\ state[r].tag = "Idle"
  /\ state' = [state EXCEPT ![r] = RunningState(c)]
  /\ fiber' = [fiber EXCEPT ![c] = "working"]
  /\ done' = [done EXCEPT ![c] = "pending"]
  /\ waitsOn' = [waitsOn EXCEPT ![c] = c]

EnsureRunning(c) ==
  LET r == RunnerFor(c) IN
  /\ ~Called(c)
  /\ current' = r
  /\ home' = [home EXCEPT ![c] = r]
  /\ JoinRun(c, r) \/ QueueRun(c, r) \/ StartRun(c, r)
  /\ UNCHANGED <<ready, cancel, status>>

\* startShell: refused with Busy unless the Runner is idle (waitsOn stays None).
StartShell(c) ==
  LET r == RunnerFor(c) IN
  /\ ~Called(c)
  /\ current' = r
  /\ home' = [home EXCEPT ![c] = r]
  /\ \/ /\ state[r].tag # "Idle"
        /\ UNCHANGED <<state, fiber, done, waitsOn, status>>
     \/ /\ state[r].tag = "Idle"
        /\ state' = [state EXCEPT ![r] = ShellState(c)]
        /\ fiber' = [fiber EXCEPT ![c] = "working"]
        /\ done' = [done EXCEPT ![c] = "pending"]
        /\ waitsOn' = [waitsOn EXCEPT ![c] = c]
        /\ status' = "busy"
  /\ UNCHANGED <<ready, cancel>>

\* The shell's caller goes away: its child fiber is interrupted with it.  The fiber is
\* taken as begun; forkChild lets it begin one tick of the scheduler after the caller's
\* step, and an interruption within that tick, before its finalizers exist, is left out.
AbandonShell(c) ==
  /\ fiber[c] = "working"
  /\ fiber' = Interrupted(fiber, c)
  /\ UNCHANGED <<current, state, home, done, waitsOn, ready, cancel, status>>

-----------------------------------------------------------------------------
(* The fibers *)

\* A turn of the prompt loop, or of the processor's stream, reports busy.
LoopTurn(c) ==
  /\ fiber[c] = "working"
  /\ status' = "busy"
  /\ UNCHANGED <<current, state, home, fiber, done, waitsOn, ready, cancel>>

\* The processor's halt(): an error, or the interruption, reports idle while the
\* fiber is still alive.  An interrupted fiber goes on stopping.
LoopHalt(c) ==
  /\ fiber[c] \in {"working", "stopping"}
  /\ fiber' = [fiber EXCEPT ![c] = IF @ = "working" THEN "halted" ELSE @]
  /\ status' = "idle"
  /\ UNCHANGED <<current, state, home, done, waitsOn, ready, cancel>>

\* The run's fiber exits and its onExit calls finishRun.  An interrupted run may
\* still end with a value, when the interruption came in its last finalizer.
FinishRun(c) ==
  LET r == home[c] IN
  /\ Alive(c)
  /\ fiber' = [fiber EXCEPT ![c] = "exited"]
  /\ \E result \in IF fiber[c] = "stopping" THEN {"ok", "cancelled"} ELSE {"ok"} :
       done' = Complete(done, c, result)
  /\ \/ /\ state[r].tag = "Running" /\ state[r].run = c
        /\ state' = [state EXCEPT ![r] = IdleState]
        /\ OnIdle
     \/ /\ ~(state[r].tag = "Running" /\ state[r].run = c)
        /\ UNCHANGED <<current, state, status>>
  /\ UNCHANGED <<home, waitsOn, ready, cancel>>

\* Mutant: an interruption skips the opening of the latch.
MarkReadyInterruptible(c) ==
  /\ fiber[c] = "working"
  /\ ~ready[c]
  /\ ready' = [ready EXCEPT ![c] = TRUE]
  /\ UNCHANGED <<current, state, home, fiber, done, waitsOn, cancel, status>>

\* The shell work opens its latch once its messages are written; that part of
\* the work cannot be interrupted.
MarkReady(c) ==
  /\ Alive(c)
  /\ ~ready[c]
  /\ ready' = [ready EXCEPT ![c] = TRUE]
  /\ UNCHANGED <<current, state, home, fiber, done, waitsOn, cancel, status>>

\* Mutant: finishShell forgets the queued run.
FinishShellDropsQueue(c) ==
  LET r == home[c] IN
  /\ Alive(c)
  /\ ready[c]
  /\ done' = Complete(done, c, "ok")
  /\ fiber' = [fiber EXCEPT ![c] = "exited"]
  /\ IF state[r].shell = c
     THEN state' = [state EXCEPT ![r] = IdleState] /\ OnIdle
     ELSE UNCHANGED <<current, state, status>>
  /\ UNCHANGED <<home, waitsOn, ready, cancel>>

\* The shell's fiber exits and its finalizer calls finishShell, which hands the
\* Runner to the queued run.
FinishShell(c) ==
  LET r == home[c] IN
  /\ Alive(c)
  /\ ready[c]
  /\ \E result \in IF fiber[c] = "stopping" THEN {"ok", "cancelled"} ELSE {"ok"} :
       done' = Complete(done, c, result)
  /\ \/ /\ state[r] = ShellState(c)
        /\ state' = [state EXCEPT ![r] = IdleState]
        /\ fiber' = [fiber EXCEPT ![c] = "exited"]
        /\ OnIdle
     \/ /\ state[r].tag = "ShellThenRun" /\ state[r].shell = c
        /\ state' = [state EXCEPT ![r] = RunningState(state[r].run)]
        /\ fiber' = [fiber EXCEPT ![c] = "exited", ![state[r].run] = "working"]
        /\ UNCHANGED <<current, status>>
     \/ /\ state[r].shell # c
        /\ fiber' = [fiber EXCEPT ![c] = "exited"]
        /\ UNCHANGED <<current, state, status>>
  /\ UNCHANGED <<home, waitsOn, ready, cancel>>

-----------------------------------------------------------------------------
(* Cancellation *)

\* RunState.cancel, once the background jobs are cancelled: nothing to stop.
CancelIdle(k) ==
  /\ cancel[k].pc = "new"
  /\ ~Busy
  /\ status' = "idle"
  /\ cancel' = [cancel EXCEPT ![k].pc = "returned"]
  /\ UNCHANGED <<current, state, home, fiber, done, waitsOn, ready>>

\* Runner.cancel: the Runner is idle at once; the fiber is only told to stop.
\* A shell is not told before its latch opens (StopShell).
CancelBusy(k) ==
  LET s == state[current] IN
  /\ cancel[k].pc = "new"
  /\ Busy
  /\ state' = [state EXCEPT ![current] = IdleState]
  /\ cancel' = [cancel EXCEPT ![k] =
       [pc     |-> IF s.tag = "Running" THEN "awaitExit" ELSE "awaitReady",
        runner |-> current, shell |-> s.shell, run |-> s.run]]
  /\ fiber' = IF s.tag = "Running" THEN Interrupted(fiber, s.run) ELSE fiber
  /\ UNCHANGED <<current, home, done, waitsOn, ready, status>>

StopShell(k) ==
  /\ cancel[k].pc = "awaitReady"
  /\ ready[cancel[k].shell]
  /\ cancel' = [cancel EXCEPT ![k].pc = "awaitExit"]
  /\ fiber' = Interrupted(fiber, cancel[k].shell)
  /\ UNCHANGED <<current, state, home, done, waitsOn, ready, status>>

\* The fiber whose exit Fiber.interrupt awaits.
Target(k) == IF cancel[k].shell = None THEN cancel[k].run ELSE cancel[k].shell

\* Mutant: the canceller does not wait for the fiber.
CancelReturnEarly(k) ==
  LET r == cancel[k].runner IN
  /\ cancel[k].pc = "awaitExit"
  /\ cancel' = [cancel EXCEPT ![k].pc = "returned"]
  /\ done' = IF cancel[k].run = None THEN done
             ELSE Complete(done, cancel[k].run, "cancelled")
  /\ IF state[r].tag = "Idle" THEN OnIdle ELSE UNCHANGED <<current, status>>
  /\ UNCHANGED <<state, home, fiber, waitsOn, ready>>

\* Mutant: no idleIfCurrent at the end.
CancelReturnNotIdle(k) ==
  /\ cancel[k].pc = "awaitExit"
  /\ fiber[Target(k)] = "exited"
  /\ cancel' = [cancel EXCEPT ![k].pc = "returned"]
  /\ done' = IF cancel[k].run = None THEN done
             ELSE Complete(done, cancel[k].run, "cancelled")
  /\ UNCHANGED <<current, status, state, home, fiber, waitsOn, ready>>

\* Mutant: the queued run's waiters are not told.
CancelReturnSilent(k) ==
  LET r == cancel[k].runner IN
  /\ cancel[k].pc = "awaitExit"
  /\ fiber[Target(k)] = "exited"
  /\ cancel' = [cancel EXCEPT ![k].pc = "returned"]
  /\ IF state[r].tag = "Idle" THEN OnIdle ELSE UNCHANGED <<current, status>>
  /\ UNCHANGED <<state, home, fiber, done, waitsOn, ready>>

\* The fiber is gone: fail the run's waiters, then idleIfCurrent.
CancelReturn(k) ==
  LET r == cancel[k].runner IN
  /\ cancel[k].pc = "awaitExit"
  /\ fiber[Target(k)] = "exited"
  /\ cancel' = [cancel EXCEPT ![k].pc = "returned"]
  /\ done' = IF cancel[k].run = None THEN done
             ELSE Complete(done, cancel[k].run, "cancelled")
  /\ IF state[r].tag = "Idle" THEN OnIdle ELSE UNCHANGED <<current, status>>
  /\ UNCHANGED <<state, home, fiber, waitsOn, ready>>

\* The caller of cancel goes away (a closed request) while it waits: nothing of
\* what is left of the cancellation is done.
AbandonCancel(k) ==
  /\ cancel[k].pc \in {"awaitReady", "awaitExit"}
  /\ cancel' = [cancel EXCEPT ![k].pc = "gone"]
  /\ UNCHANGED <<current, state, home, fiber, done, waitsOn, ready, status>>

-----------------------------------------------------------------------------
Next ==
  \/ \E c \in Prompts : \/ EnsureRunning(c)
                        \/ LoopTurn(c)
                        \/ LoopHalt(c)
                        \/ FinishRun(c)
  \/ \E c \in Shells : \/ StartShell(c)
                       \/ AbandonShell(c)
                       \/ MarkReady(c)
                       \/ FinishShell(c)
  \/ \E k \in Cancels : \/ CancelIdle(k)
                        \/ CancelBusy(k)
                        \/ StopShell(k)
                        \/ CancelReturn(k)
                        \/ AbandonCancel(k)

Spec == Init /\ [][Next]_vars

(***************************************************************************)
(* Fairness.  The scheduler runs every fiber that can run, so finalizers    *)
(* come to an end, a shell's first writes come to an end, and a canceller   *)
(* that waits for them goes on.  Nothing says that a model answers or that  *)
(* a command exits: work in progress is not required to end.                *)
(***************************************************************************)
Fairness ==
  /\ \A c \in Prompts : WF_vars(fiber[c] # "working" /\ FinishRun(c))
  /\ \A c \in Shells : /\ WF_vars(MarkReady(c))
                       /\ WF_vars(fiber[c] # "working" /\ FinishShell(c))
  /\ \A k \in Cancels : WF_vars(StopShell(k)) /\ WF_vars(CancelReturn(k))

FairSpec == Spec /\ Fairness

-----------------------------------------------------------------------------
(* Properties *)

TypeOK ==
  /\ current \in Calls \cup {None}
  /\ state \in [Calls -> RunnerState]
  /\ home \in [Calls -> Calls \cup {None}]
  /\ fiber \in [Calls -> FiberPhase]
  /\ done \in [Calls -> {"none", "pending", "ok", "cancelled"}]
  /\ waitsOn \in [Calls -> Calls \cup {None}]
  /\ ready \in [Shells -> BOOLEAN]
  /\ cancel \in [Cancels -> CancelState]
  /\ status \in {"idle", "busy"}

\* Runner r answers for the fiber of call c.
Owns(r, c) ==
  \/ state[r].tag = "Running" /\ state[r].run = c
  \/ state[r].tag \in {"Shell", "ShellThenRun"} /\ state[r].shell = c

\* A fiber that nothing has interrupted is named by its Runner's state, or by the
\* canceller that waits for its latch before it interrupts it.  So a Runner runs
\* one thing at a time, and what it loses sight of is already being stopped; the
\* one exception is a shell whose canceller went away before it told the shell.
UnstoppedIsOwned ==
  \A c \in Calls : Unstopped(c) =>
    \/ Owns(home[c], c)
    \/ \E k \in Cancels : /\ cancel[k].pc \in {"awaitReady", "gone"}
                          /\ cancel[k].shell = c

\* Somebody is bound to complete the Deferred of call c: its fiber, the shell it
\* is queued behind, or the canceller that took it out of the Runner's state.
WillComplete(c) ==
  \/ Alive(c)
  \/ \E r \in Calls : /\ state[r].tag = "ShellThenRun"
                      /\ state[r].run = c
                      /\ Alive(state[r].shell)
  \/ \E k \in Cancels : /\ cancel[k].run = c
                        /\ cancel[k].pc \in {"awaitReady", "awaitExit"}

\* The queued run of call c was in the hands of a canceller that went away.
Dropped(c) == \E k \in Cancels : /\ cancel[k].pc = "gone"
                                 /\ cancel[k].shell # None /\ cancel[k].run = c

\* No caller is forgotten: whatever ensureRunning joined, queued or started is
\* completed already or still has someone to complete it (runner.ts hands the
\* Deferred from the state to a fiber, a shell or a canceller), unless the
\* canceller that held a queued run went away.
NoForgottenCaller ==
  \A c \in Calls : waitsOn[c] # None /\ done[waitsOn[c]] = "pending"
                    => WillComplete(waitsOn[c]) \/ Dropped(waitsOn[c])

\* A canceller returns only when what it found is over: the fiber has exited,
\* the queued run never starts, and whoever waited for either is answered.
CancelledIsOver ==
  \A k \in Cancels : cancel[k].pc = "returned" =>
    \A c \in {cancel[k].shell, cancel[k].run} \ {None} :
      /\ ~Alive(c)
      /\ done[c] # "pending"

AtRest ==
  /\ \A c \in Calls : ~Alive(c)
  /\ \A k \in Cancels : cancel[k].pc \in {"new", "returned"}

\* When nothing runs and every cancellation has returned the session reports idle
\* and its Runner has left the map, whatever the order in which overlapping runs,
\* shells and cancellations wrote the status and deleted the entry.
RestIsIdle == AtRest => status = "idle" /\ current = None

\* While no cancellation has been asked for, the session runs one loop or one
\* shell at a time, cleanup included, and it is busy all along: assertNotBusy
\* protects revert and delete from it.
OneAtATime ==
  (\A k \in Cancels : cancel[k].pc = "new") =>
    /\ \A c, d \in Calls : Alive(c) /\ Alive(d) => c = d
    /\ \A c \in Calls : Alive(c) => Busy

\* A test of session/prompt.ts says "assertNotBusy fails with BusyError when loop
\* running": a loop that nobody has told to stop makes the session busy.
LoopRunningIsBusy == \A c \in Prompts : Unstopped(c) => Busy

\* A cancellation returns although the work it stops may never end by itself.
CancelReturns ==
  \A k \in Cancels : cancel[k].pc \in {"awaitReady", "awaitExit"}
                     ~> cancel[k].pc \in {"returned", "gone"}

WorkEnds == \A c \in Calls : []<>(fiber[c] # "working")

CancellersStay == \A k \in Cancels : [](cancel[k].pc # "gone")

\* If work ends, by itself or by being stopped, every caller that was not refused
\* is answered: joined, queued behind a shell, or running.
CallersAnswered ==
  WorkEnds /\ CancellersStay => \A c \in Calls :
    (waitsOn[c] # None) ~> (waitsOn[c] # None /\ done[waitsOn[c]] # "pending")

=============================================================================
