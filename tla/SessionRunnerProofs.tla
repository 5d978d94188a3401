------------------------ MODULE SessionRunnerProofs ------------------------
(***************************************************************************)
(* What holds of SessionRunner for any number of loops, shells and          *)
(* cancellations.  IInv is the inductive invariant: it says where the       *)
(* handle of every live or promised piece of work is kept, in the Runner's  *)
(* state or with the canceller that took it out.                            *)
(***************************************************************************)
EXTENDS SessionRunner, TLAPS

\* What the state of a Runner says of the fibers it names.
HandleOK(r) ==
  /\ state[r].tag \in {"Idle", "Running"} => state[r].shell = None
  /\ state[r].tag \in {"Idle", "Shell"} => state[r].run = None
  /\ state[r].tag = "Running" =>
       /\ state[r].run \in Prompts
       /\ home[state[r].run] = r
       /\ Unstopped(state[r].run)
  /\ state[r].tag \in {"Shell", "ShellThenRun"} =>
       /\ state[r].shell \in Shells
       /\ home[state[r].shell] = r
       /\ Alive(state[r].shell)
  /\ state[r].tag = "ShellThenRun" =>
       /\ state[r].run \in Prompts
       /\ home[state[r].run] = r
       /\ fiber[state[r].run] = "none"
       /\ done[state[r].run] = "pending"

\* A call that was not made has left no trace; a Deferred is open while its fiber
\* lives and completed when it has exited.
CallOK(c) ==
  /\ ~Called(c) => fiber[c] = "none" /\ done[c] = "none"
  /\ Alive(c) => done[c] = "pending"
  /\ fiber[c] = "exited" => done[c] \in {"ok", "cancelled"}

\* What a canceller took is in no Runner's state any more.
CancelOK(k) ==
  LET x == cancel[k] IN
  /\ x.pc = "new" => x.shell = None /\ x.run = None
  /\ x.pc \in {"awaitReady", "awaitExit", "gone"} => x.shell # None \/ x.run # None
  /\ x.pc = "awaitReady" => x.shell # None
  /\ x.pc \in {"awaitReady", "awaitExit"} => x.runner # None
  /\ x.shell # None =>
       /\ fiber[x.shell] # "none"
       /\ \A r \in Calls : state[r].shell # x.shell
       /\ x.pc = "awaitExit" => fiber[x.shell] \in {"stopping", "exited"}
       /\ x.pc = "returned" => fiber[x.shell] = "exited"
  /\ x.run # None =>
       /\ \A r \in Calls : state[r].run # x.run
       /\ x.shell = None => fiber[x.run] \in {"stopping", "exited"}
       /\ x.shell = None /\ x.pc = "returned" => fiber[x.run] = "exited"
       /\ x.shell # None => fiber[x.run] = "none" /\ done[x.run] # "none"
       /\ x.pc = "returned" => done[x.run] # "pending"

\* Whatever is alive is in its Runner's state or with a canceller.
AliveIsHeld ==
  \A c \in Calls : Alive(c) =>
    \/ Owns(home[c], c)
    \/ \E k \in Cancels : /\ cancel[k].shell = c \/ cancel[k].run = c
                          /\ cancel[k].pc # "returned"

PendingIsHeld ==
  \A c \in Calls : done[c] = "pending" => WillComplete(c) \/ Dropped(c)

\* Somebody who is still to report idle, or all reported.
IdleIsComing ==
  \/ \E c \in Calls : Alive(c)
  \/ \E k \in Cancels : cancel[k].pc \in {"awaitReady", "awaitExit", "gone"}
  \/ status = "idle" /\ current = None

Uncancelled == \A k \in Cancels : cancel[k].pc = "new"

CurrentIsBusy ==
  Uncancelled => \A r \in Calls : state[r].tag # "Idle" <=> r = current

IInv ==
  /\ TypeOK
  /\ \A r \in Calls : HandleOK(r)
  /\ \A c \in Calls : CallOK(c)
  /\ \A k \in Cancels : CancelOK(k)
  /\ UnstoppedIsOwned
  /\ AliveIsHeld
  /\ PendingIsHeld
  /\ IdleIsComing
  /\ CurrentIsBusy

USE CallsAssumption DEF Calls, Alive, Unstopped, Called, IInv

\* ensureRunning joins, queues or starts a run on the session's Runner: whatever
\* it leaves pending has an owner.
LEMMA EnsureRunningInv ==
  ASSUME IInv, NEW c \in Prompts, EnsureRunning(c)
  PROVE  IInv'
<1>1. TypeOK'
  BY DEF EnsureRunning, JoinRun, QueueRun, StartRun, RunnerFor, RunningState, QueuedState, TypeOK, RunnerState, CancelState, FiberPhase
<1>2. \A r \in Calls : HandleOK(r)'
  BY DEF EnsureRunning, JoinRun, QueueRun, StartRun, RunnerFor, RunningState, QueuedState, TypeOK, HandleOK, CallOK, RunnerState, CancelState
<1>3. \A d \in Calls : CallOK(d)'
  BY DEF EnsureRunning, JoinRun, QueueRun, StartRun, RunnerFor, RunningState, QueuedState, TypeOK, HandleOK, CallOK, CancelOK, RunnerState, CancelState
<1>4. ASSUME NEW j \in Cancels
      PROVE  CancelOK(j)'
  <2>. DEFINE r == RunnerFor(c)
  <2>1. fiber[c] = "none" /\ done[c] = "none" /\ r \in Calls
    BY DEF EnsureRunning, RunnerFor, CallOK, TypeOK
  <2>2. cancel[j].run # c /\ cancel[j].shell # c
    BY <2>1 DEF CancelOK, TypeOK, CancelState
  <2>3. CASE JoinRun(c, r)
    BY <2>1, <2>2, <2>3 DEF EnsureRunning, JoinRun, CancelOK
  <2>4. CASE QueueRun(c, r)
    BY <2>1, <2>2, <2>4 DEF EnsureRunning, QueueRun, QueuedState, CancelOK, TypeOK, CancelState
  <2>5. CASE StartRun(c, r)
    BY <2>1, <2>2, <2>5 DEF EnsureRunning, StartRun, RunningState, CancelOK, TypeOK, CancelState
  <2>. QED
    BY <2>3, <2>4, <2>5 DEF EnsureRunning
<1>5. UnstoppedIsOwned'
  BY DEF EnsureRunning, JoinRun, QueueRun, StartRun, RunnerFor, RunningState, QueuedState, TypeOK, HandleOK, CallOK, CancelOK, UnstoppedIsOwned, Owns, RunnerState, CancelState
<1>6. AliveIsHeld'
  BY DEF EnsureRunning, JoinRun, QueueRun, StartRun, RunnerFor, RunningState, QueuedState, TypeOK, HandleOK, CallOK, CancelOK, AliveIsHeld, Owns, RunnerState, CancelState
<1>7. ASSUME NEW d \in Calls, done'[d] = "pending"
      PROVE  (WillComplete(d) \/ Dropped(d))'
  <2>. DEFINE r == RunnerFor(c)
  <2>1. fiber[c] = "none" /\ done[c] = "none" /\ r \in Calls
    BY DEF EnsureRunning, RunnerFor, CallOK, TypeOK
  <2>2. CASE JoinRun(c, r)
    BY <1>7, <2>2 DEF EnsureRunning, JoinRun, PendingIsHeld, WillComplete, Dropped
  <2>3. CASE QueueRun(c, r)
    <3>1. CASE d = c
      BY <2>1, <2>3, <3>1 DEF EnsureRunning, QueueRun, QueuedState, HandleOK, TypeOK, WillComplete
    <3>2. CASE d # c
      BY <1>7, <2>1, <2>3, <3>2 DEF EnsureRunning, QueueRun, QueuedState, TypeOK, PendingIsHeld,
                                   WillComplete, Dropped
    <3>. QED
      BY <3>1, <3>2
  <2>4. CASE StartRun(c, r)
    <3>1. CASE d = c
      BY <2>1, <2>4, <3>1 DEF EnsureRunning, StartRun, TypeOK, WillComplete
    <3>2. CASE d # c
      BY <1>7, <2>1, <2>4, <3>2 DEF EnsureRunning, StartRun, RunningState, TypeOK, PendingIsHeld,
                                   WillComplete, Dropped
    <3>. QED
      BY <3>1, <3>2
  <2>. QED
    BY <2>2, <2>3, <2>4 DEF EnsureRunning
<1>8. IdleIsComing'
  BY DEF EnsureRunning, JoinRun, QueueRun, StartRun, RunnerFor, RunningState, QueuedState, TypeOK, HandleOK, CallOK, CancelOK, AliveIsHeld, IdleIsComing, Owns, RunnerState, CancelState
<1>9. CurrentIsBusy'
  BY DEF EnsureRunning, JoinRun, QueueRun, StartRun, RunnerFor, RunningState, QueuedState, TypeOK, HandleOK, CancelOK, AliveIsHeld, CurrentIsBusy, Uncancelled, Owns, RunnerState, CancelState
<1>. QED
  BY <1>1, <1>2, <1>3, <1>4, <1>5, <1>6, <1>7, <1>8, <1>9 DEF PendingIsHeld

\* A turn of the loop only reports busy.
LEMMA LoopTurnInv ==
  ASSUME IInv, NEW c \in Prompts, LoopTurn(c)
  PROVE  IInv'
<1>1. TypeOK'
  BY DEF LoopTurn, TypeOK, RunnerState, CancelState, FiberPhase
<1>2. \A r \in Calls : HandleOK(r)'
  BY DEF LoopTurn, TypeOK, HandleOK, CallOK, RunnerState, CancelState
<1>3. \A d \in Calls : CallOK(d)'
  BY DEF LoopTurn, TypeOK, HandleOK, CallOK, CancelOK, RunnerState, CancelState
<1>4. \A j \in Cancels : CancelOK(j)'
  BY DEF LoopTurn, TypeOK, HandleOK, CallOK, CancelOK, RunnerState, CancelState
<1>5. UnstoppedIsOwned'
  BY DEF LoopTurn, TypeOK, HandleOK, CallOK, CancelOK, UnstoppedIsOwned, Owns, RunnerState, CancelState
<1>6. AliveIsHeld'
  BY DEF LoopTurn, TypeOK, HandleOK, CallOK, CancelOK, AliveIsHeld, Owns, RunnerState, CancelState
<1>7. PendingIsHeld'
  BY DEF LoopTurn, TypeOK, HandleOK, CallOK, CancelOK, PendingIsHeld, WillComplete, Dropped, RunnerState, CancelState
<1>8. IdleIsComing'
  BY DEF LoopTurn, TypeOK, HandleOK, CallOK, CancelOK, AliveIsHeld, IdleIsComing, Owns, RunnerState, CancelState
<1>9. CurrentIsBusy'
  BY DEF LoopTurn, TypeOK, HandleOK, CancelOK, AliveIsHeld, CurrentIsBusy, Uncancelled, Owns, RunnerState, CancelState
<1>. QED
  BY <1>1, <1>2, <1>3, <1>4, <1>5, <1>6, <1>7, <1>8, <1>9

\* halt reports idle while the fiber is still alive, so its exit is still to come.
LEMMA LoopHaltInv ==
  ASSUME IInv, NEW c \in Prompts, LoopHalt(c)
  PROVE  IInv'
<1>1. TypeOK'
  BY DEF LoopHalt, TypeOK, RunnerState, CancelState, FiberPhase
<1>2. \A r \in Calls : HandleOK(r)'
  BY DEF LoopHalt, TypeOK, HandleOK, CallOK, RunnerState, CancelState
<1>3. \A d \in Calls : CallOK(d)'
  BY DEF LoopHalt, TypeOK, HandleOK, CallOK, CancelOK, RunnerState, CancelState
<1>4. \A j \in Cancels : CancelOK(j)'
  BY DEF LoopHalt, TypeOK, HandleOK, CallOK, CancelOK, RunnerState, CancelState
<1>5. UnstoppedIsOwned'
  BY DEF LoopHalt, TypeOK, HandleOK, CallOK, CancelOK, UnstoppedIsOwned, Owns, RunnerState, CancelState
<1>6. AliveIsHeld'
  BY DEF LoopHalt, TypeOK, HandleOK, CallOK, CancelOK, AliveIsHeld, Owns, RunnerState, CancelState
<1>7. PendingIsHeld'
  BY DEF LoopHalt, TypeOK, HandleOK, CallOK, CancelOK, PendingIsHeld, WillComplete, Dropped, RunnerState, CancelState
<1>8. IdleIsComing'
  BY DEF LoopHalt, TypeOK, HandleOK, CallOK, CancelOK, AliveIsHeld, IdleIsComing, Owns, RunnerState, CancelState
<1>9. CurrentIsBusy'
  BY DEF LoopHalt, TypeOK, HandleOK, CancelOK, AliveIsHeld, CurrentIsBusy, Uncancelled, Owns, RunnerState, CancelState
<1>. QED
  BY <1>1, <1>2, <1>3, <1>4, <1>5, <1>6, <1>7, <1>8, <1>9

\* finishRun answers the run's waiters and frees the Runner if it is still its own.
LEMMA FinishRunInv ==
  ASSUME IInv, NEW c \in Prompts, FinishRun(c)
  PROVE  IInv'
<1>1. TypeOK'
  BY DEF FinishRun, OnIdle, Complete, IdleState, TypeOK, RunnerState, CancelState, FiberPhase
<1>2. \A r \in Calls : HandleOK(r)'
  BY DEF FinishRun, OnIdle, Complete, IdleState, TypeOK, HandleOK, CallOK, RunnerState, CancelState
<1>3. \A d \in Calls : CallOK(d)'
  BY DEF FinishRun, OnIdle, Complete, IdleState, TypeOK, HandleOK, CallOK, CancelOK, RunnerState, CancelState
<1>4. ASSUME NEW j \in Cancels
      PROVE  CancelOK(j)'
  <2>1. fiber' = [fiber EXCEPT ![c] = "exited"] /\ cancel' = cancel
    BY DEF FinishRun
  <2>2. done'[c] # "pending" /\ \A d \in Calls : done'[d] # done[d] => d = c /\ done'[d] # "none"
    BY DEF FinishRun, Complete, TypeOK, CallOK
  <2>3. \A r \in Calls : /\ state'[r].run \in {state[r].run, None}
                         /\ state'[r].shell \in {state[r].shell, None}
    BY DEF FinishRun, IdleState, TypeOK
  <2>4. cancel[j].shell # None => cancel[j].run # c
    BY DEF FinishRun, CancelOK
  <2>. QED
    BY <2>1, <2>2, <2>3, <2>4 DEF FinishRun, CancelOK, TypeOK, CancelState
<1>5. UnstoppedIsOwned'
  BY DEF FinishRun, OnIdle, Complete, IdleState, TypeOK, HandleOK, CallOK, CancelOK, UnstoppedIsOwned, Owns, RunnerState, CancelState
<1>6. ASSUME NEW d \in Calls, Alive(d)'
      PROVE  (Owns(home[d], d) \/ \E j \in Cancels : /\ cancel[j].shell = d \/ cancel[j].run = d
                                                    /\ cancel[j].pc # "returned")'
  <2>1. d # c /\ Alive(d) /\ home' = home /\ cancel' = cancel
    BY <1>6 DEF FinishRun, TypeOK
  <2>2. ASSUME Owns(home[d], d)
        PROVE  Owns(home[d], d)'
    <3>1. \/ state' = state
          \/ /\ state[home[c]].tag = "Running" /\ state[home[c]].run = c
             /\ state' = [state EXCEPT ![home[c]] = IdleState]
      BY DEF FinishRun
    <3>2. home[d] = home[c] => ~(state[home[c]].tag = "Running" /\ state[home[c]].run = c)
      BY <2>1, <2>2 DEF Owns
    <3>3. home[d] \in Calls
      BY <2>1 DEF CallOK, TypeOK
    <3>. QED
      BY <2>1, <2>2, <3>1, <3>2, <3>3 DEF Owns, TypeOK
  <2>. QED
    BY <2>1, <2>2 DEF AliveIsHeld
<1>7. PendingIsHeld'
  BY DEF FinishRun, OnIdle, Complete, IdleState, TypeOK, HandleOK, CallOK, CancelOK, PendingIsHeld, WillComplete, Dropped, RunnerState, CancelState
<1>8. IdleIsComing'
  BY DEF FinishRun, OnIdle, Complete, IdleState, TypeOK, HandleOK, CallOK, CancelOK, AliveIsHeld, IdleIsComing, Owns, RunnerState, CancelState
<1>9. ASSUME Uncancelled'
      PROVE  \A r \in Calls : state'[r].tag # "Idle" <=> r = current'
  <2>1. Uncancelled /\ \A r \in Calls : state[r].tag # "Idle" <=> r = current
    BY <1>9 DEF FinishRun, Uncancelled, CurrentIsBusy
  <2>2. Owns(home[c], c)
    BY <2>1 DEF FinishRun, AliveIsHeld, CancelOK, Uncancelled
  <2>3. home[c] \in Calls /\ state[home[c]].tag = "Running" /\ state[home[c]].run = c
    BY <2>2 DEF Owns, HandleOK, TypeOK, FinishRun, CallOK
  <2>. QED
    BY <2>1, <2>3 DEF FinishRun, OnIdle, IdleState, TypeOK
<1>. QED
  BY <1>1, <1>2, <1>3, <1>4, <1>5, <1>6, <1>7, <1>8, <1>9 DEF AliveIsHeld, CurrentIsBusy

\* startShell is refused, or takes an idle Runner.
LEMMA StartShellInv ==
  ASSUME IInv, NEW c \in Shells, StartShell(c)
  PROVE  IInv'
<1>1. TypeOK'
  BY DEF StartShell, RunnerFor, ShellState, TypeOK, RunnerState, CancelState, FiberPhase
<1>2. \A r \in Calls : HandleOK(r)'
  BY DEF StartShell, RunnerFor, ShellState, TypeOK, HandleOK, CallOK, RunnerState, CancelState
<1>3. \A d \in Calls : CallOK(d)'
  BY DEF StartShell, RunnerFor, ShellState, TypeOK, HandleOK, CallOK, CancelOK, RunnerState, CancelState
<1>4. \A j \in Cancels : CancelOK(j)'
  BY DEF StartShell, RunnerFor, ShellState, TypeOK, HandleOK, CallOK, CancelOK, RunnerState, CancelState
<1>5. ASSUME NEW d \in Calls, Unstopped(d)'
      PROVE  (Owns(home[d], d) \/ \E j \in Cancels : /\ cancel[j].pc \in {"awaitReady", "gone"}
                                                    /\ cancel[j].shell = d)'
  <2>. DEFINE r == RunnerFor(c)
  <2>1. r \in Calls /\ home' = [home EXCEPT ![c] = r] /\ cancel' = cancel /\ fiber[c] = "none"
    BY DEF StartShell, RunnerFor, TypeOK, CallOK
  <2>2. CASE state[r].tag # "Idle"
    BY <1>5, <2>1, <2>2 DEF StartShell, TypeOK, UnstoppedIsOwned, Owns
  <2>3. CASE state[r].tag = "Idle"
    <3>1. CASE d = c
      BY <2>1, <2>3, <3>1 DEF StartShell, ShellState, TypeOK, Owns
    <3>2. CASE d # c
      <4>1. Unstopped(d) /\ home'[d] = home[d]
        BY <1>5, <2>1, <2>3, <3>2 DEF StartShell, TypeOK
      <4>2. ASSUME Owns(home[d], d)
            PROVE  Owns(home[d], d)'
        BY <2>1, <2>3, <4>1, <4>2 DEF StartShell, TypeOK, Owns, CallOK
      <4>. QED
        BY <2>1, <4>1, <4>2 DEF UnstoppedIsOwned
    <3>. QED
      BY <3>1, <3>2
  <2>. QED
    BY <2>2, <2>3
<1>6. AliveIsHeld'
  BY DEF StartShell, RunnerFor, ShellState, TypeOK, HandleOK, CallOK, CancelOK, AliveIsHeld, Owns, RunnerState, CancelState
<1>7. ASSUME NEW d \in Calls, done'[d] = "pending"
      PROVE  (WillComplete(d) \/ Dropped(d))'
  <2>. DEFINE r == RunnerFor(c)
  <2>1. r \in Calls /\ fiber[c] = "none" /\ cancel' = cancel
    BY DEF StartShell, RunnerFor, TypeOK, CallOK
  <2>2. CASE state[r].tag # "Idle"
    BY <1>7, <2>2 DEF StartShell, PendingIsHeld, WillComplete, Dropped
  <2>3. CASE state[r].tag = "Idle"
    <3>1. CASE d = c
      BY <2>1, <2>3, <3>1 DEF StartShell, TypeOK, WillComplete
    <3>2. CASE d # c
      <4>1. /\ done[d] = "pending"
            /\ \A e \in Calls : e # c => fiber'[e] = fiber[e]
            /\ \A q \in Calls : q # r => state'[q] = state[q]
        BY <1>7, <2>1, <2>3, <3>2 DEF StartShell, TypeOK
      <4>2. ASSUME WillComplete(d)
            PROVE  WillComplete(d)'
        BY <2>1, <2>3, <3>2, <4>1, <4>2 DEF WillComplete, HandleOK
      <4>. QED
        BY <2>1, <4>1, <4>2 DEF PendingIsHeld, Dropped
    <3>. QED
      BY <3>1, <3>2
  <2>. QED
    BY <2>2, <2>3
<1>8. IdleIsComing'
  BY DEF StartShell, RunnerFor, ShellState, TypeOK, HandleOK, CallOK, CancelOK, AliveIsHeld, IdleIsComing, Owns, RunnerState, CancelState
<1>9. CurrentIsBusy'
  BY DEF StartShell, RunnerFor, ShellState, TypeOK, HandleOK, CancelOK, AliveIsHeld, CurrentIsBusy, Uncancelled, Owns, RunnerState, CancelState
<1>. QED
  BY <1>1, <1>2, <1>3, <1>4, <1>5, <1>6, <1>7, <1>8, <1>9 DEF UnstoppedIsOwned, PendingIsHeld

\* A shell whose caller goes away is told to stop, and is alive until it has.
LEMMA AbandonShellInv ==
  ASSUME IInv, NEW c \in Shells, AbandonShell(c)
  PROVE  IInv'
<1>1. TypeOK'
  BY DEF AbandonShell, Interrupted, TypeOK, RunnerState, CancelState, FiberPhase
<1>2. \A r \in Calls : HandleOK(r)'
  BY DEF AbandonShell, Interrupted, TypeOK, HandleOK, CallOK, RunnerState, CancelState
<1>3. \A d \in Calls : CallOK(d)'
  BY DEF AbandonShell, Interrupted, TypeOK, HandleOK, CallOK, CancelOK, RunnerState, CancelState
<1>4. \A j \in Cancels : CancelOK(j)'
  BY DEF AbandonShell, Interrupted, TypeOK, HandleOK, CallOK, CancelOK, RunnerState, CancelState
<1>5. UnstoppedIsOwned'
  BY DEF AbandonShell, Interrupted, TypeOK, HandleOK, CallOK, CancelOK, UnstoppedIsOwned, Owns, RunnerState, CancelState
<1>6. AliveIsHeld'
  BY DEF AbandonShell, Interrupted, TypeOK, HandleOK, CallOK, CancelOK, AliveIsHeld, Owns, RunnerState, CancelState
<1>7. PendingIsHeld'
  BY DEF AbandonShell, Interrupted, TypeOK, HandleOK, CallOK, CancelOK, PendingIsHeld, WillComplete, Dropped, RunnerState, CancelState
<1>8. IdleIsComing'
  BY DEF AbandonShell, Interrupted, TypeOK, HandleOK, CallOK, CancelOK, AliveIsHeld, IdleIsComing, Owns, RunnerState, CancelState
<1>9. CurrentIsBusy'
  BY DEF AbandonShell, Interrupted, TypeOK, HandleOK, CancelOK, AliveIsHeld, CurrentIsBusy, Uncancelled, Owns, RunnerState, CancelState
<1>. QED
  BY <1>1, <1>2, <1>3, <1>4, <1>5, <1>6, <1>7, <1>8, <1>9

\* Opening the latch of a shell changes nothing that the invariant relates.
LEMMA MarkReadyInv ==
  ASSUME IInv, NEW c \in Shells, MarkReady(c)
  PROVE  IInv'
<1>1. TypeOK'
  BY DEF MarkReady, TypeOK, RunnerState, CancelState, FiberPhase
<1>2. \A r \in Calls : HandleOK(r)'
  BY DEF MarkReady, TypeOK, HandleOK, CallOK, RunnerState, CancelState
<1>3. \A d \in Calls : CallOK(d)'
  BY DEF MarkReady, TypeOK, HandleOK, CallOK, CancelOK, RunnerState, CancelState
<1>4. \A j \in Cancels : CancelOK(j)'
  BY DEF MarkReady, TypeOK, HandleOK, CallOK, CancelOK, RunnerState, CancelState
<1>5. UnstoppedIsOwned'
  BY DEF MarkReady, TypeOK, HandleOK, CallOK, CancelOK, UnstoppedIsOwned, Owns, RunnerState, CancelState
<1>6. AliveIsHeld'
  BY DEF MarkReady, TypeOK, HandleOK, CallOK, CancelOK, AliveIsHeld, Owns, RunnerState, CancelState
<1>7. PendingIsHeld'
  BY DEF MarkReady, TypeOK, HandleOK, CallOK, CancelOK, PendingIsHeld, WillComplete, Dropped, RunnerState, CancelState
<1>8. IdleIsComing'
  BY DEF MarkReady, TypeOK, HandleOK, CallOK, CancelOK, AliveIsHeld, IdleIsComing, Owns, RunnerState, CancelState
<1>9. CurrentIsBusy'
  BY DEF MarkReady, TypeOK, HandleOK, CancelOK, AliveIsHeld, CurrentIsBusy, Uncancelled, Owns, RunnerState, CancelState
<1>. QED
  BY <1>1, <1>2, <1>3, <1>4, <1>5, <1>6, <1>7, <1>8, <1>9

\* finishShell hands the Runner to the run queued behind the shell, if there is one.
LEMMA FinishShellInv ==
  ASSUME IInv, NEW c \in Shells, FinishShell(c)
  PROVE  IInv'
<1>1. TypeOK'
  <2>. DEFINE r == home[c]
  <2>1. r \in Calls /\ cancel' = cancel /\ home' = home /\ Alive(c) /\ c # None
    BY DEF FinishShell, TypeOK, CallOK
  <2>2. /\ done'[c] \in {"ok", "cancelled"}
        /\ \A d \in Calls : d # c => done'[d] = done[d]
    BY <2>1 DEF FinishShell, Complete, TypeOK, CallOK
  <2>3. /\ done' \in [Calls -> {"none", "pending", "ok", "cancelled"}]
        /\ fiber' \in [Calls -> FiberPhase]
    BY <2>1 DEF FinishShell, Complete, TypeOK, FiberPhase
  <2>4. state' \in [Calls -> RunnerState]
    <3>1. CASE state[r].tag = "ShellThenRun" /\ state[r].shell = c
      <4>1. state' = [state EXCEPT ![r] = RunningState(state[r].run)]
        BY <3>1, <2>1 DEF FinishShell, ShellState
      <4>2. RunningState(state[r].run) \in RunnerState
        BY <2>1 DEF RunningState, RunnerState, TypeOK
      <4>. QED
        BY <4>1, <4>2 DEF TypeOK
    <3>2. CASE ~(state[r].tag = "ShellThenRun" /\ state[r].shell = c)
      <4>1. state' = state \/ state' = [state EXCEPT ![r] = IdleState]
        BY <3>2 DEF FinishShell
      <4>2. IdleState \in RunnerState
        BY DEF IdleState, RunnerState
      <4>. QED
        BY <4>1, <4>2 DEF TypeOK
    <3>. QED
      BY <3>1, <3>2
  <2>. QED
    BY <2>3, <2>4 DEF FinishShell, OnIdle, TypeOK
<1>2. \A r \in Calls : HandleOK(r)'
  BY DEF FinishShell, OnIdle, Complete, IdleState, ShellState, RunningState, TypeOK, HandleOK, CallOK, RunnerState, CancelState
<1>3. \A d \in Calls : CallOK(d)'
  BY DEF FinishShell, OnIdle, Complete, IdleState, ShellState, RunningState, TypeOK, HandleOK, CallOK, CancelOK, RunnerState, CancelState
<1>4. ASSUME NEW j \in Cancels
      PROVE  CancelOK(j)'
  <2>. DEFINE r == home[c]
  <2>1. r \in Calls /\ cancel' = cancel /\ home' = home /\ Alive(c) /\ c # None
    BY DEF FinishShell, TypeOK, CallOK
  <2>2. /\ done'[c] \in {"ok", "cancelled"}
        /\ \A d \in Calls : d # c => done'[d] = done[d]
    BY <2>1 DEF FinishShell, Complete, TypeOK, CallOK
  <2>3. CASE state[r].tag = "ShellThenRun" /\ state[r].shell = c
    BY <2>1, <2>2, <2>3 DEF FinishShell, ShellState, RunningState, HandleOK, TypeOK, CancelOK, CancelState
  <2>4. CASE ~(state[r].tag = "ShellThenRun" /\ state[r].shell = c)
    <3>1. \A q \in Calls : /\ state'[q].run \in {state[q].run, None}
                           /\ state'[q].shell \in {state[q].shell, None}
      BY <2>1, <2>4 DEF FinishShell, IdleState, TypeOK
    <3>2. fiber' = [fiber EXCEPT ![c] = "exited"]
      BY <2>1, <2>4 DEF FinishShell
    <3>3. cancel[j].run # c
      BY DEF TypeOK, CancelState
    <3>. QED
      BY <2>1, <2>2, <3>1, <3>2, <3>3 DEF CancelOK, TypeOK, CancelState
  <2>. QED
    BY <2>3, <2>4
<1>5. ASSUME NEW d \in Calls, Unstopped(d)'
      PROVE  (Owns(home[d], d) \/ \E j \in Cancels : /\ cancel[j].pc \in {"awaitReady", "gone"}
                                                    /\ cancel[j].shell = d)'
  <2>. DEFINE r == home[c]
  <2>1. r \in Calls /\ cancel' = cancel /\ home' = home /\ Alive(c) /\ c # None
    BY DEF FinishShell, TypeOK, CallOK
  <2>2. /\ done'[c] \in {"ok", "cancelled"}
        /\ \A x \in Calls : x # c => done'[x] = done[x]
    BY <2>1 DEF FinishShell, Complete, TypeOK, CallOK
  <2>3. CASE state[r].tag = "ShellThenRun" /\ state[r].shell = c
    <3>1. /\ state' = [state EXCEPT ![r] = RunningState(state[r].run)]
          /\ fiber' = [fiber EXCEPT ![c] = "exited", ![state[r].run] = "working"]
          /\ state[r].run \in Calls /\ home[state[r].run] = r
      BY <2>1, <2>3 DEF FinishShell, ShellState, HandleOK
    <3>2. CASE d = state[r].run
      BY <2>1, <3>1, <3>2 DEF Owns, RunningState, TypeOK
    <3>3. CASE d # state[r].run
      <4>1. Unstopped(d) /\ d # c
        BY <1>5, <3>1, <3>3 DEF TypeOK
      <4>2. ASSUME Owns(home[d], d)
            PROVE  Owns(home[d], d)'
        BY <2>1, <2>3, <3>1, <4>1, <4>2 DEF Owns, TypeOK
      <4>. QED
        BY <2>1, <4>1, <4>2 DEF UnstoppedIsOwned
    <3>. QED
      BY <3>2, <3>3
  <2>4. CASE ~(state[r].tag = "ShellThenRun" /\ state[r].shell = c)
    <3>1. Unstopped(d) /\ d # c
      BY <1>5, <2>1, <2>4 DEF FinishShell, TypeOK
    <3>2. ASSUME Owns(home[d], d)
          PROVE  Owns(home[d], d)'
      <4>1. \/ state' = state
            \/ state[r] = ShellState(c) /\ state' = [state EXCEPT ![r] = IdleState]
        BY <2>1, <2>4 DEF FinishShell
      <4>2. home[d] = r => state[r] # ShellState(c)
        BY <3>1, <3>2 DEF Owns, ShellState
      <4>3. home[d] \in Calls
        BY <3>1 DEF CallOK, TypeOK
      <4>. QED
        BY <2>1, <3>2, <4>1, <4>2, <4>3 DEF Owns, TypeOK
    <3>. QED
      BY <2>1, <3>1, <3>2 DEF UnstoppedIsOwned
  <2>. QED
    BY <2>3, <2>4
<1>6. AliveIsHeld'
  BY DEF FinishShell, OnIdle, Complete, IdleState, ShellState, RunningState, TypeOK, HandleOK, CallOK, CancelOK, AliveIsHeld, Owns, RunnerState, CancelState
<1>7. ASSUME NEW d \in Calls, done'[d] = "pending"
      PROVE  (WillComplete(d) \/ Dropped(d))'
  <2>. DEFINE r == home[c]
  <2>1. r \in Calls /\ cancel' = cancel /\ home' = home /\ Alive(c) /\ c # None
    BY DEF FinishShell, TypeOK, CallOK
  <2>2. /\ done'[c] \in {"ok", "cancelled"}
        /\ \A x \in Calls : x # c => done'[x] = done[x]
    BY <2>1 DEF FinishShell, Complete, TypeOK, CallOK
  <2>3. d # c /\ done[d] = "pending"
    BY <1>7, <2>2
  <2>4. ASSUME Alive(d)
        PROVE  Alive(d)'
    BY <2>1, <2>3, <2>4 DEF FinishShell, TypeOK, HandleOK
  <2>5. ASSUME NEW q \in Calls, state[q].tag = "ShellThenRun", state[q].run = d, Alive(state[q].shell)
        PROVE  WillComplete(d)'
    <3>1. CASE state[q].shell = c
      BY <2>1, <2>3, <2>5, <3>1 DEF FinishShell, ShellState, HandleOK, TypeOK, WillComplete
    <3>2. CASE state[q].shell # c
      <4>1. q # r \/ state[r].shell # c
        BY <3>2
      <4>2. state'[q] = state[q] /\ Alive(state[q].shell)'
        BY <2>1, <2>5, <3>2 DEF FinishShell, ShellState, HandleOK, TypeOK
      <4>. QED
        BY <2>5, <4>2 DEF WillComplete
    <3>. QED
      BY <3>1, <3>2
  <2>. QED
    BY <2>1, <2>3, <2>4, <2>5 DEF PendingIsHeld, WillComplete, Dropped
<1>8. IdleIsComing'
  BY DEF FinishShell, OnIdle, Complete, IdleState, ShellState, RunningState, TypeOK, HandleOK, CallOK, CancelOK, AliveIsHeld, IdleIsComing, Owns, RunnerState, CancelState
<1>9. ASSUME Uncancelled'
      PROVE  \A r \in Calls : state'[r].tag # "Idle" <=> r = current'
  <2>1. Uncancelled /\ \A r \in Calls : state[r].tag # "Idle" <=> r = current
    BY <1>9 DEF FinishShell, Uncancelled, CurrentIsBusy
  <2>2. Owns(home[c], c)
    BY <2>1 DEF FinishShell, AliveIsHeld, CancelOK, Uncancelled
  <2>3. home[c] \in Calls /\ state[home[c]].shell = c /\ state[home[c]].tag # "Idle"
    BY <2>2 DEF Owns, HandleOK, TypeOK, FinishShell, CallOK
  <2>. QED
    BY <2>1, <2>3 DEF FinishShell, ShellState, RunningState, OnIdle, IdleState, TypeOK
<1>. QED
  BY <1>1, <1>2, <1>3, <1>4, <1>5, <1>6, <1>7, <1>8, <1>9 DEF UnstoppedIsOwned, PendingIsHeld, CurrentIsBusy

\* Cancelling a session that is not busy only reports idle.
LEMMA CancelIdleInv ==
  ASSUME IInv, NEW k \in Cancels, CancelIdle(k)
  PROVE  IInv'
<1>1. TypeOK'
  BY DEF CancelIdle, Busy, TypeOK, RunnerState, CancelState, FiberPhase
<1>2. \A r \in Calls : HandleOK(r)'
  BY DEF CancelIdle, Busy, TypeOK, HandleOK, CallOK, RunnerState, CancelState
<1>3. \A d \in Calls : CallOK(d)'
  BY DEF CancelIdle, Busy, TypeOK, HandleOK, CallOK, CancelOK, RunnerState, CancelState
<1>4. \A j \in Cancels : CancelOK(j)'
  BY DEF CancelIdle, Busy, TypeOK, HandleOK, CallOK, CancelOK, RunnerState, CancelState
<1>5. UnstoppedIsOwned'
  BY DEF CancelIdle, Busy, TypeOK, HandleOK, CallOK, CancelOK, UnstoppedIsOwned, Owns, RunnerState, CancelState
<1>6. AliveIsHeld'
  BY DEF CancelIdle, Busy, TypeOK, HandleOK, CallOK, CancelOK, AliveIsHeld, Owns, RunnerState, CancelState
<1>7. PendingIsHeld'
  BY DEF CancelIdle, Busy, TypeOK, HandleOK, CallOK, CancelOK, PendingIsHeld, WillComplete, Dropped, RunnerState, CancelState
<1>8. IdleIsComing'
  BY DEF CancelIdle, Busy, TypeOK, HandleOK, CallOK, CancelOK, AliveIsHeld, IdleIsComing, Owns, RunnerState, CancelState
<1>9. CurrentIsBusy'
  BY DEF CancelIdle, Busy, TypeOK, HandleOK, CancelOK, AliveIsHeld, CurrentIsBusy, Uncancelled, Owns, RunnerState, CancelState
<1>. QED
  BY <1>1, <1>2, <1>3, <1>4, <1>5, <1>6, <1>7, <1>8, <1>9

\* cancel takes the shell and the run out of the Runner's state and answers for them
\* from then on.
LEMMA CancelBusyInv ==
  ASSUME IInv, NEW k \in Cancels, CancelBusy(k)
  PROVE  IInv'
<1>1. TypeOK'
  BY DEF CancelBusy, Busy, IdleState, Interrupted, TypeOK, RunnerState, CancelState, FiberPhase
<1>2. \A r \in Calls : HandleOK(r)'
  BY DEF CancelBusy, Busy, IdleState, Interrupted, TypeOK, HandleOK, CallOK, RunnerState, CancelState
<1>3. \A d \in Calls : CallOK(d)'
  BY DEF CancelBusy, Busy, IdleState, Interrupted, TypeOK, HandleOK, CallOK, CancelOK, RunnerState, CancelState
<1>4. \A j \in Cancels : CancelOK(j)'
  BY DEF CancelBusy, Busy, IdleState, Interrupted, TypeOK, HandleOK, CallOK, CancelOK, RunnerState, CancelState
<1>5. UnstoppedIsOwned'
  BY DEF CancelBusy, Busy, IdleState, Interrupted, TypeOK, HandleOK, CallOK, CancelOK, UnstoppedIsOwned, Owns, RunnerState, CancelState
<1>6. AliveIsHeld'
  BY DEF CancelBusy, Busy, IdleState, Interrupted, TypeOK, HandleOK, CallOK, CancelOK, AliveIsHeld, Owns, RunnerState, CancelState
<1>7. PendingIsHeld'
  BY DEF CancelBusy, Busy, IdleState, Interrupted, TypeOK, HandleOK, CallOK, CancelOK, PendingIsHeld, WillComplete, Dropped, RunnerState, CancelState
<1>8. IdleIsComing'
  BY DEF CancelBusy, Busy, IdleState, Interrupted, TypeOK, HandleOK, CallOK, CancelOK, AliveIsHeld, IdleIsComing, Owns, RunnerState, CancelState
<1>9. CurrentIsBusy'
  BY DEF CancelBusy, Busy, IdleState, Interrupted, TypeOK, HandleOK, CancelOK, AliveIsHeld, CurrentIsBusy, Uncancelled, Owns, RunnerState, CancelState
<1>. QED
  BY <1>1, <1>2, <1>3, <1>4, <1>5, <1>6, <1>7, <1>8, <1>9

\* Once its latch is open the canceller tells the shell to stop.
LEMMA StopShellInv ==
  ASSUME IInv, NEW k \in Cancels, StopShell(k)
  PROVE  IInv'
<1>1. TypeOK'
  BY DEF StopShell, Interrupted, TypeOK, RunnerState, CancelState, FiberPhase
<1>2. \A r \in Calls : HandleOK(r)'
  BY DEF StopShell, Interrupted, TypeOK, HandleOK, CallOK, RunnerState, CancelState
<1>3. \A d \in Calls : CallOK(d)'
  BY DEF StopShell, Interrupted, TypeOK, HandleOK, CallOK, CancelOK, RunnerState, CancelState
<1>4. ASSUME NEW j \in Cancels
      PROVE  CancelOK(j)'
  <2>1. cancel[k].shell \in Shells
    BY DEF StopShell, CancelOK, TypeOK, CancelState
  <2>2. fiber'[cancel[k].shell] \in {"stopping", "exited"}
    BY <2>1 DEF StopShell, Interrupted, CancelOK, TypeOK, FiberPhase
  <2>3. \A d \in Calls : d # cancel[k].shell => fiber'[d] = fiber[d]
    BY <2>1 DEF StopShell, Interrupted, TypeOK
  <2>4. fiber[cancel[k].shell] \in {"exited"} => fiber'[cancel[k].shell] = "exited"
    BY <2>1 DEF StopShell, Interrupted, TypeOK
  <2>5. \A d \in Shells : cancel[j].run # d
    BY DEF TypeOK, CancelState
  <2>6. CASE j = k
    BY <2>1, <2>2, <2>3, <2>4, <2>5, <2>6 DEF StopShell, CancelOK, TypeOK, CancelState
  <2>7. CASE j # k
    BY <2>1, <2>2, <2>3, <2>4, <2>5, <2>7 DEF StopShell, CancelOK, TypeOK, CancelState
  <2>. QED
    BY <2>6, <2>7
<1>5. UnstoppedIsOwned'
  BY DEF StopShell, Interrupted, TypeOK, HandleOK, CallOK, CancelOK, UnstoppedIsOwned, Owns, RunnerState, CancelState
<1>6. AliveIsHeld'
  BY DEF StopShell, Interrupted, TypeOK, HandleOK, CallOK, CancelOK, AliveIsHeld, Owns, RunnerState, CancelState
<1>7. PendingIsHeld'
  BY DEF StopShell, Interrupted, TypeOK, HandleOK, CallOK, CancelOK, PendingIsHeld, WillComplete, Dropped, RunnerState, CancelState
<1>8. IdleIsComing'
  BY DEF StopShell, Interrupted, TypeOK, HandleOK, CallOK, CancelOK, AliveIsHeld, IdleIsComing, Owns, RunnerState, CancelState
<1>9. CurrentIsBusy'
  BY DEF StopShell, Interrupted, TypeOK, HandleOK, CancelOK, AliveIsHeld, CurrentIsBusy, Uncancelled, Owns, RunnerState, CancelState
<1>. QED
  BY <1>1, <1>2, <1>3, <1>4, <1>5, <1>6, <1>7, <1>8, <1>9

\* The canceller answers the waiters of the run it took, after the fiber's exit.
LEMMA CancelReturnInv ==
  ASSUME IInv, NEW k \in Cancels, CancelReturn(k)
  PROVE  IInv'
<1>1. TypeOK'
  BY DEF CancelReturn, Target, OnIdle, Complete, TypeOK, RunnerState, CancelState, FiberPhase
<1>2. ASSUME NEW r \in Calls
      PROVE  HandleOK(r)'
  <2>1. \A d \in Calls : state[r].run = d => done'[d] = done[d]
    BY DEF CancelReturn, Complete, CancelOK, TypeOK, CancelState
  <2>. QED
    BY <2>1 DEF CancelReturn, HandleOK
<1>3. \A d \in Calls : CallOK(d)'
  BY DEF CancelReturn, Target, OnIdle, Complete, TypeOK, HandleOK, CallOK, CancelOK, RunnerState, CancelState
<1>4. \A j \in Cancels : CancelOK(j)'
  BY DEF CancelReturn, Target, OnIdle, Complete, TypeOK, HandleOK, CallOK, CancelOK, RunnerState, CancelState
<1>5. UnstoppedIsOwned'
  BY DEF CancelReturn, Target, OnIdle, Complete, TypeOK, HandleOK, CallOK, CancelOK, UnstoppedIsOwned, Owns, RunnerState, CancelState
<1>6. AliveIsHeld'
  BY DEF CancelReturn, Target, OnIdle, Complete, TypeOK, HandleOK, CallOK, CancelOK, AliveIsHeld, Owns, RunnerState, CancelState
<1>7. PendingIsHeld'
  BY DEF CancelReturn, Target, OnIdle, Complete, TypeOK, HandleOK, CallOK, CancelOK, PendingIsHeld, WillComplete, Dropped, RunnerState, CancelState
<1>8. IdleIsComing'
  <2>. DEFINE r == cancel[k].runner
  <2>1. fiber' = fiber /\ state' = state
    BY DEF CancelReturn
  <2>2. r \in Calls
    BY DEF CancelReturn, CancelOK, TypeOK, CancelState
  <2>3. CASE state[r].tag = "Idle"
    BY <2>3 DEF CancelReturn, OnIdle, IdleIsComing
  <2>4. CASE state[r].tag # "Idle"
    <3>1. \E d \in Calls : Alive(d)
      BY <2>2, <2>4 DEF HandleOK, TypeOK, RunnerState
    <3>. QED
      BY <3>1, <2>1 DEF IdleIsComing
  <2>. QED
    BY <2>3, <2>4
<1>9. CurrentIsBusy'
  BY DEF CancelReturn, Target, OnIdle, Complete, TypeOK, HandleOK, CancelOK, AliveIsHeld, CurrentIsBusy, Uncancelled, Owns, RunnerState, CancelState
<1>. QED
  BY <1>1, <1>2, <1>3, <1>4, <1>5, <1>6, <1>7, <1>8, <1>9

\* A canceller that goes away leaves a shell unstopped and a queued run dropped.
LEMMA AbandonCancelInv ==
  ASSUME IInv, NEW k \in Cancels, AbandonCancel(k)
  PROVE  IInv'
<1>1. TypeOK'
  BY DEF AbandonCancel, TypeOK, RunnerState, CancelState, FiberPhase
<1>2. \A r \in Calls : HandleOK(r)'
  BY DEF AbandonCancel, TypeOK, HandleOK, CallOK, RunnerState, CancelState
<1>3. \A d \in Calls : CallOK(d)'
  BY DEF AbandonCancel, TypeOK, HandleOK, CallOK, CancelOK, RunnerState, CancelState
<1>4. \A j \in Cancels : CancelOK(j)'
  BY DEF AbandonCancel, TypeOK, HandleOK, CallOK, CancelOK, RunnerState, CancelState
<1>5. UnstoppedIsOwned'
  BY DEF AbandonCancel, TypeOK, HandleOK, CallOK, CancelOK, UnstoppedIsOwned, Owns, RunnerState, CancelState
<1>6. AliveIsHeld'
  BY DEF AbandonCancel, TypeOK, HandleOK, CallOK, CancelOK, AliveIsHeld, Owns, RunnerState, CancelState
<1>7. PendingIsHeld'
  BY DEF AbandonCancel, TypeOK, HandleOK, CallOK, CancelOK, PendingIsHeld, WillComplete, Dropped, RunnerState, CancelState
<1>8. IdleIsComing'
  BY DEF AbandonCancel, TypeOK, HandleOK, CallOK, CancelOK, AliveIsHeld, IdleIsComing, Owns, RunnerState, CancelState
<1>9. CurrentIsBusy'
  BY DEF AbandonCancel, TypeOK, HandleOK, CancelOK, AliveIsHeld, CurrentIsBusy, Uncancelled, Owns, RunnerState, CancelState
<1>. QED
  BY <1>1, <1>2, <1>3, <1>4, <1>5, <1>6, <1>7, <1>8, <1>9

\* Nothing runs at first.
LEMMA InitInv ==
  ASSUME Init
  PROVE  IInv
<1>1. TypeOK
  BY DEF Init, TypeOK, IdleState, RunnerState, FiberPhase, NewCancel, CancelState
<1>2. /\ \A r \in Calls : HandleOK(r)
      /\ \A c \in Calls : CallOK(c)
      /\ \A k \in Cancels : CancelOK(k)
  BY DEF Init, HandleOK, CallOK, CancelOK, IdleState, NewCancel
<1>3. /\ UnstoppedIsOwned
      /\ AliveIsHeld
      /\ PendingIsHeld
      /\ IdleIsComing
      /\ CurrentIsBusy
  BY DEF Init, UnstoppedIsOwned, AliveIsHeld, PendingIsHeld, IdleIsComing, CurrentIsBusy, IdleState
<1>. QED
  BY <1>1, <1>2, <1>3

\* The invariant speaks of the variables only.
LEMMA StutterInv ==
  ASSUME IInv, UNCHANGED vars
  PROVE  IInv'
<1>1. TypeOK'
  BY DEF vars, TypeOK
<1>2. /\ (\A r \in Calls : HandleOK(r))'
      /\ (\A c \in Calls : CallOK(c))'
      /\ (\A k \in Cancels : CancelOK(k))'
  BY DEF vars, HandleOK, CallOK, CancelOK
<1>3. UnstoppedIsOwned' /\ AliveIsHeld'
  BY DEF vars, UnstoppedIsOwned, AliveIsHeld, Owns
<1>4. PendingIsHeld' /\ IdleIsComing' /\ CurrentIsBusy'
  BY DEF vars, PendingIsHeld, WillComplete, Dropped, IdleIsComing, CurrentIsBusy, Uncancelled
<1>. QED
  BY <1>1, <1>2, <1>3, <1>4

\* The invariant holds in every reachable state: one step per action.
LEMMA Inductive == Spec => []IInv
<1>1. ASSUME IInv, [Next]_vars
      PROVE  IInv'
  <2>1. ASSUME NEW c \in Prompts, EnsureRunning(c) \/ LoopTurn(c) \/ LoopHalt(c) \/ FinishRun(c)
        PROVE  IInv'
    BY <1>1, <2>1, EnsureRunningInv, LoopTurnInv, LoopHaltInv, FinishRunInv
  <2>2. ASSUME NEW c \in Shells, StartShell(c) \/ AbandonShell(c) \/ MarkReady(c) \/ FinishShell(c)
        PROVE  IInv'
    BY <1>1, <2>2, StartShellInv, AbandonShellInv, MarkReadyInv, FinishShellInv
  <2>3. ASSUME NEW k \in Cancels,
               CancelIdle(k) \/ CancelBusy(k) \/ StopShell(k) \/ CancelReturn(k) \/ AbandonCancel(k)
        PROVE  IInv'
    BY <1>1, <2>3, CancelIdleInv, CancelBusyInv, StopShellInv, CancelReturnInv, AbandonCancelInv
  <2>4. CASE UNCHANGED vars
    BY <1>1, <2>4, StutterInv
  <2>. QED
    BY <1>1, <2>1, <2>2, <2>3, <2>4 DEF Next
<1>. QED
  BY <1>1, InitInv, PTL DEF Spec

-----------------------------------------------------------------------------
(* The theorems *)

\* Every variable keeps the values declared for it.
THEOREM Typing == Spec => []TypeOK
  BY Inductive, PTL DEF IInv

\* runner.ts never loses sight of a fiber it has not told to stop, however many
\* calls overlap.
THEOREM OwnershipHolds == Spec => []UnstoppedIsOwned
  BY Inductive, PTL DEF IInv

\* A Deferred somebody waits for is completed, or has somebody to complete it.
THEOREM NobodyIsForgotten == Spec => []NoForgottenCaller
<1>1. IInv => NoForgottenCaller
  BY DEF NoForgottenCaller, PendingIsHeld, TypeOK
<1>. QED
  BY <1>1, Inductive, PTL

\* Once cancel has returned, what it stopped is over and its waiters are told.
THEOREM CancellationIsOver == Spec => []CancelledIsOver
<1>1. IInv => CancelledIsOver
  BY DEF CancelledIsOver, CancelOK, CallOK, TypeOK, CancelState
<1>. QED
  BY <1>1, Inductive, PTL

\* At rest the session reports idle and has no Runner.
THEOREM RestReportsIdle == Spec => []RestIsIdle
<1>1. IInv => RestIsIdle
  BY DEF RestIsIdle, AtRest, IdleIsComing
<1>. QED
  BY <1>1, Inductive, PTL

\* Until the first cancellation a session runs one thing at a time and is busy
\* while it does.
THEOREM RunsOneAtATime == Spec => []OneAtATime
<1>1. IInv => OneAtATime
  <2>1. SUFFICES ASSUME IInv, \A k \in Cancels : cancel[k].pc = "new"
                 PROVE  /\ \A c, d \in Calls : Alive(c) /\ Alive(d) => c = d
                        /\ \A c \in Calls : Alive(c) => Busy
    BY DEF OneAtATime
  <2>2. \A c \in Calls : Alive(c) => Owns(home[c], c)
    BY <2>1 DEF AliveIsHeld, CancelOK
  <2>3. \A c \in Calls : Alive(c) => home[c] \in Calls
    BY <2>1 DEF CallOK, TypeOK
  <2>4. \A c \in Calls : Alive(c) => home[c] = current
    BY <2>1, <2>2, <2>3 DEF CurrentIsBusy, Uncancelled, Owns
  <2>5. \A c, d \in Calls : Owns(current, c) /\ Owns(current, d) => c = d
    BY DEF Owns
  <2>6. \A c \in Calls : Alive(c) => Busy
    BY <2>2, <2>3, <2>4 DEF Busy, Owns
  <2>. QED
    BY <2>2, <2>4, <2>5, <2>6
<1>. QED
  BY <1>1, Inductive, PTL

=============================================================================
