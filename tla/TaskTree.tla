------------------------------ MODULE TaskTree ------------------------------
(***************************************************************************)
(* tool/task.ts and the cancellation of session/run-state.ts: the loop of a  *)
(* session starts tasks, each the run of a child session.  A foreground     *)
(* task is awaited by the tool call, which cancels the child when its abort *)
(* signal fires; a background task is a job whose result is injected into   *)
(* the parent as a prompt; a subtask, which a command of the user asks for,  *)
(* is awaited by the loop itself (handleSubtask of prompt.ts) and cancelled  *)
(* by its release when the loop is interrupted.  cancel of a session cancels *)
(* the jobs below it and then the session's own run.                       *)
(*                                                                         *)
(* Jobs and Runners are what BackgroundJobs and SessionRunner show of them:  *)
(* a job is cancelled, its fiber with it, in one step, and so is a run.  A   *)
(* child session is used by one task call and nobody else prompts it: a     *)
(* second call that names it (task_id), which would start its job again, is  *)
(* left out.                                                                *)
(***************************************************************************)
EXTENDS FiniteSets

CONSTANTS
  Root,     \* the session the user works in
  Tasks,    \* calls of the task tool, each named like the session it creates
  Parent,   \* the session whose loop makes the call
  Cancels   \* cancellations by the user

Sessions == {Root} \cup Tasks

ASSUME TaskTreeAssumption ==
  /\ IsFiniteSet(Tasks)
  /\ Root \notin Tasks
  /\ Parent \in [Tasks -> Sessions]
  /\ Cancels \cap Sessions = {}

VARIABLES
  run,      \* run[s]: the Runner of the session
  task,     \* task[c]: the fiber of the tool call
  signal,   \* the tasks whose abort signal is set
  prompt,   \* prompt[c]: the call's prompt of the child session
  job,      \* job[c]: the status of the background job of the child's id
  told,     \* told[c]: the fiber that waits for the job and injects its result
  cancel    \* cancel[k]: a cancellation by the user, or by the listener of task k

vars == <<run, task, signal, prompt, job, told, cancel>>

Over == {"completed", "error", "cancelled"}

\* jobs: the ids of the jobs that ran when the table was read.  cancelled: those
\* of them that have been cancelled so far.
Cancel == [pc : {"new", "jobs", "returned"}, at : Sessions,
           jobs : SUBSET Tasks, cancelled : SUBSET Tasks]

NewCancel(s) == [pc |-> "new", at |-> s, jobs |-> {}, cancelled |-> {}]

Init ==
  /\ run = [s \in Sessions |-> "idle"]
  /\ task = [c \in Tasks |-> "none"]
  /\ signal = {}
  /\ prompt = [c \in Tasks |-> "none"]
  /\ job = [c \in Tasks |-> "none"]
  /\ told = [c \in Tasks |-> "none"]
  /\ cancel = [k \in Cancels \cup Tasks |->
                 [NewCancel(IF k \in Tasks THEN k ELSE Root) EXCEPT
                    !.pc = IF k \in Tasks THEN "returned" ELSE "new"]]

-----------------------------------------------------------------------------
(* Sessions *)

UserPrompt ==
  /\ run[Root] = "idle"
  /\ run' = [run EXCEPT ![Root] = "running"]
  /\ UNCHANGED <<task, signal, prompt, job, told, cancel>>

\* The calls that the current turn of s still executes.
Executing(s) == {c \in Tasks : /\ Parent[c] = s
                               /\ task[c] \in {"called", "foreground"}
                               /\ c \notin signal}

\* The subtask that the loop of s awaits.
Subtasks(s) == {c \in Tasks : Parent[c] = s /\ task[c] = "subtask"}

\* The prompt that awaits the run of c has its answer, an aborted turn's also.
Answered(p, s) ==
  [c \in Tasks |-> IF c = s /\ p[c] = "awaiting" THEN "answered" ELSE p[c]]

\* The loop of s is done: it does not end before its tool calls do.
RunEnds(s) ==
  /\ run[s] = "running"
  /\ Executing(s) = {} /\ Subtasks(s) = {}
  /\ run' = [run EXCEPT ![s] = "idle"]
  /\ prompt' = Answered(prompt, s)
  /\ UNCHANGED <<task, signal, job, told, cancel>>

\* Abort signals fire: where a listener is attached, it forks a cancel.
Fire(cs) ==
  /\ signal' = signal \cup cs
  /\ cancel' = [k \in Cancels \cup Tasks |->
       IF k \in cs /\ task[k] = "foreground" THEN NewCancel(k) ELSE cancel[k]]

\* The turn of s fails and is tried again or given up: the tool calls that
\* are still executed get their abort signal.
TurnFails(s) ==
  /\ run[s] = "running"
  /\ Executing(s) # {}
  /\ Fire(Executing(s))
  /\ UNCHANGED <<run, task, prompt, job, told>>

-----------------------------------------------------------------------------
(* The task tool *)

\* The model calls the tool, which may have to ask for its permission first
\* and creates the child session.
Call(c) ==
  /\ task[c] = "none"
  /\ run[Parent[c]] = "running"
  /\ Subtasks(Parent[c]) = {}
  /\ task' = [task EXCEPT ![c] = "called"]
  /\ UNCHANGED <<run, signal, prompt, job, told, cancel>>

\* handleSubtask: the loop finds a command of the user and calls the tool itself,
\* between two turns; the tool is in the foreground and asks for nothing.
StartSubtask(c) ==
  /\ task[c] = "none"
  /\ Parent[c] = Root /\ run[Root] = "running"
  /\ Executing(Root) = {} /\ Subtasks(Root) = {}
  /\ task' = [task EXCEPT ![c] = "subtask"]
  /\ prompt' = [prompt EXCEPT ![c] = "preparing"]
  /\ UNCHANGED <<run, signal, job, told, cancel>>

\* The call is refused, or one of its checks fails.
CallFails(c) ==
  /\ task[c] = "called"
  /\ task' = [task EXCEPT ![c] = "returned"]
  /\ UNCHANGED <<run, signal, prompt, job, told, cancel>>

\* background: the job runs the prompt, another fiber waits for it.
StartBackground(c) ==
  /\ task[c] = "called"
  /\ task' = [task EXCEPT ![c] = "returned"]
  /\ job' = [job EXCEPT ![c] = "running"]
  /\ prompt' = [prompt EXCEPT ![c] = "preparing"]
  /\ told' = [told EXCEPT ![c] = "waiting"]
  /\ UNCHANGED <<run, signal, cancel>>

\* Otherwise a listener is attached to the abort signal, without a look at
\* whether it has fired, and the call awaits the prompt.
StartForeground(c) ==
  /\ task[c] = "called"
  /\ task' = [task EXCEPT ![c] = "foreground"]
  /\ prompt' = [prompt EXCEPT ![c] = "preparing"]
  /\ UNCHANGED <<run, signal, job, told, cancel>>

\* The prompt has its message stored and starts the child's run.
EnsureRunning(c) ==
  /\ prompt[c] = "preparing"
  /\ prompt' = [prompt EXCEPT ![c] = "awaiting"]
  /\ run' = [run EXCEPT ![c] = "running"]
  /\ UNCHANGED <<task, signal, job, told, cancel>>

\* Mutant: the call returns as soon as its abort signal is set.
ReturnAtOnce(c) ==
  /\ task[c] \in {"foreground", "subtask"}
  /\ prompt[c] = "answered" \/ c \in signal
  /\ task' = [task EXCEPT ![c] = "returned"]
  /\ prompt' = [prompt EXCEPT ![c] = "over"]
  /\ UNCHANGED <<run, signal, job, told, cancel>>

\* The call that awaited the child returns the answer; its listener goes.
ReturnForeground(c) ==
  /\ task[c] \in {"foreground", "subtask"}
  /\ prompt[c] = "answered"
  /\ task' = [task EXCEPT ![c] = "returned"]
  /\ prompt' = [prompt EXCEPT ![c] = "over"]
  /\ UNCHANGED <<run, signal, job, told, cancel>>

\* How a job whose prompt was answered can end.
Settled == {"completed", "error"}

\* The job settles with the answer of the prompt.
SettleJob(c) ==
  /\ job[c] = "running"
  /\ prompt[c] = "answered"
  /\ prompt' = [prompt EXCEPT ![c] = "over"]
  /\ \E status \in Settled : job' = [job EXCEPT ![c] = status]
  /\ UNCHANGED <<run, task, signal, told, cancel>>

\* Mutant: only a task that has completed is reported.
InjectCompleted(c) ==
  /\ told[c] = "waiting"
  /\ job[c] \in Over
  /\ IF job[c] # "completed"
     THEN told' = [told EXCEPT ![c] = "silent"] /\ UNCHANGED run
     ELSE /\ told' = [told EXCEPT ![c] = "told"]
          /\ run' = [run EXCEPT ![Parent[c]] = "running"]
  /\ UNCHANGED <<task, signal, prompt, job, cancel>>

\* wait returns: a result is injected as a prompt of the parent, whose run
\* starts unless one is there to take it.
Inject(c) ==
  /\ told[c] = "waiting"
  /\ job[c] \in Over
  /\ IF job[c] = "cancelled"
     THEN told' = [told EXCEPT ![c] = "silent"] /\ UNCHANGED run
     ELSE /\ told' = [told EXCEPT ![c] = "told"]
          /\ run' = [run EXCEPT ![Parent[c]] = "running"]
  /\ UNCHANGED <<task, signal, prompt, job, cancel>>

-----------------------------------------------------------------------------
(* cancel *)

\* cancelBackgroundJobs reads the table of jobs, once.
ListJobs(k) ==
  /\ cancel[k].pc = "new"
  /\ cancel' = [cancel EXCEPT ![k] = [@ EXCEPT !.pc = "jobs",
                                               !.jobs = {c \in Tasks : job[c] = "running"}]]
  /\ UNCHANGED <<run, task, signal, prompt, job, told>>

\* Mutant: only the tasks of the session itself.
MatchingChildren(k) ==
  {c \in cancel[k].jobs \ cancel[k].cancelled :
     c = cancel[k].at \/ Parent[c] = cancel[k].at}

\* matches: the jobs listed of the session itself, of its tasks, and of the
\* tasks of the jobs that have been cancelled.
Matching(k) ==
  {c \in cancel[k].jobs \ cancel[k].cancelled :
     c = cancel[k].at \/ Parent[c] \in {cancel[k].at} \cup cancel[k].cancelled}

\* background.cancel of one of them: the fiber that runs the prompt is
\* interrupted, the run of the child session is not.
CancelJob(k, c) ==
  /\ cancel[k].pc = "jobs"
  /\ c \in Matching(k)
  /\ cancel' = [cancel EXCEPT ![k].cancelled = @ \cup {c}]
  /\ IF job[c] = "running"
     THEN /\ job' = [job EXCEPT ![c] = "cancelled"]
          /\ prompt' = [prompt EXCEPT ![c] = "over"]
     ELSE UNCHANGED <<job, prompt>>
  /\ UNCHANGED <<run, task, signal, told>>

\* The calls whose child a new cancellation stops when the run of s is interrupted:
\* those with a listener, which forks it, and the subtask, whose release runs it.
Stopped(s) == {c \in Executing(s) : task[c] = "foreground"} \cup Subtasks(s)

\* Mutant: the tool calls of the turn are not told.
CancelRunOnly(k) ==
  LET s == cancel[k].at IN
  /\ cancel[k].pc = "jobs"
  /\ Matching(k) = {}
  /\ run' = [run EXCEPT ![s] = "idle"]
  /\ prompt' = IF run[s] = "running" THEN Answered(prompt, s) ELSE prompt
  /\ cancel' = [cancel EXCEPT ![k].pc = "returned"]
  /\ UNCHANGED <<signal, task, job, told>>

\* No job is left: the session's own run is interrupted, and with it its turn.  The
\* interruption of a subtask also ends its prompt, not the run that it awaits.
CancelRun(k) ==
  LET s == cancel[k].at IN
  /\ cancel[k].pc = "jobs"
  /\ Matching(k) = {}
  /\ IF run[s] = "running"
     THEN /\ run' = [run EXCEPT ![s] = "idle"]
          /\ prompt' = [c \in Tasks |-> IF c \in Subtasks(s) THEN "over"
                                         ELSE Answered(prompt, s)[c]]
          /\ task' = [c \in Tasks |-> IF c \in Subtasks(s) THEN "interrupted" ELSE task[c]]
          /\ signal' = signal \cup Executing(s)
          /\ cancel' = [q \in Cancels \cup Tasks |->
               IF q = k THEN [cancel[k] EXCEPT !.pc = "returned"]
               ELSE IF q \in Stopped(s) THEN NewCancel(q)
               ELSE cancel[q]]
     ELSE /\ cancel' = [cancel EXCEPT ![k].pc = "returned"]
          /\ UNCHANGED <<run, prompt, task, signal>>
  /\ UNCHANGED <<job, told>>

-----------------------------------------------------------------------------
Session(s) == RunEnds(s) \/ TurnFails(s)

Task(c) ==
  \/ Call(c) \/ StartSubtask(c) \/ CallFails(c) \/ StartBackground(c) \/ StartForeground(c)
  \/ EnsureRunning(c) \/ ReturnForeground(c) \/ SettleJob(c) \/ Inject(c)

CancelStep(k) ==
  \/ ListJobs(k)
  \/ \E c \in Tasks : CancelJob(k, c)
  \/ CancelRun(k)

Next ==
  \/ UserPrompt
  \/ \E s \in Sessions : Session(s)
  \/ \E c \in Tasks : Task(c)
  \/ \E k \in Cancels \cup Tasks : CancelStep(k)

Spec == Init /\ [][Next]_vars

\* A cancellation that has begun or has been forked goes on, and a fiber that
\* waits for a job is resumed.  The runs themselves may never end.
Fairness ==
  /\ \A k \in Tasks : WF_vars(CancelStep(k))
  /\ \A c \in Tasks : WF_vars(Inject(c))

FairSpec == Spec /\ Fairness

-----------------------------------------------------------------------------
TypeOK ==
  /\ run \in [Sessions -> {"idle", "running"}]
  /\ task \in [Tasks -> {"none", "called", "foreground", "subtask", "interrupted",
                        "returned"}]
  /\ signal \subseteq Tasks
  /\ prompt \in [Tasks -> {"none", "preparing", "awaiting", "answered", "over"}]
  /\ job \in [Tasks -> Over \cup {"none", "running"}]
  /\ told \in [Tasks -> {"none", "waiting", "told", "silent"}]
  /\ cancel \in [Cancels \cup Tasks -> Cancel]

\* The jobs of a list that lie below a session along jobs of the list: the least
\* set with the session's own job, its tasks' and the tasks' of its members.
Below(s, jobs) ==
  {c \in jobs : \A R \in SUBSET jobs :
     (\A d \in jobs : d = s \/ Parent[d] \in {s} \cup R => d \in R) => c \in R}

\* When a cancellation has returned, no job is running that ran below its
\* session when it read the table, however deep, and whatever has settled,
\* started or been cancelled by others since.
TreeIsCancelled ==
  \A k \in Cancels \cup Tasks : cancel[k].pc = "returned" =>
    \A c \in Below(cancel[k].at, cancel[k].jobs) : job[c] # "running"

\* A child session whose run nobody awaits was left so by the cancellation of
\* its job, which interrupts the one who waits and not the run; or it is about to
\* be cancelled by the release of a subtask that was interrupted (task.ts:302);
\* or the result of a task of its own has woken it.
RunIsExplained ==
  \A c \in Tasks : run[c] = "running" =>
    \/ prompt[c] = "awaiting"
    \/ job[c] = "cancelled"
    \/ task[c] = "interrupted" /\ cancel[c].pc # "returned"
    \/ \E d \in Tasks : Parent[d] = c /\ told[d] = "told"

\* The call awaits the run of its child and its listener is attached in time.
Awaits(c) == task[c] = "foreground" /\ prompt[c] = "awaiting"
Listens(c) == Awaits(c) /\ c \notin signal

\* When the listener of a foreground call has fired, or a subtask is interrupted,
\* the child's run is stopped, and so is the run that a call of the child awaits in
\* turn.
AbortStops ==
  \A c \in Tasks :
    /\ cancel[c].pc # "returned" ~> run[c] = "idle"
    /\ \A d \in Tasks : Parent[d] = c =>
         (cancel[c].pc # "returned" /\ Awaits(c) /\ Listens(d) ~> ~Awaits(d))

\* The parent is told of a background task that has ended by itself.
ResultsAreTold ==
  \A c \in Tasks : job[c] \in Settled ~> told[c] = "told"

=============================================================================
