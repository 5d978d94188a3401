--------------------------- MODULE TaskTreeProofs ---------------------------
(***************************************************************************)
(* TaskTree.tla for any number of tasks, whatever session starts which, and *)
(* any number of cancellations: one that has returned has left no job of    *)
(* the tree below its session running, and a run that nobody awaits has a   *)
(* reason.  Both rest on the fact that a job which has ended stays so,      *)
(* because the model starts a task once (no task_id).                       *)
(***************************************************************************)
EXTENDS TaskTree, TLAPS

Cancellations == Cancels \cup Tasks

\* A call that has not started its task has touched nothing of the child, a
\* foreground call has no job, and the subtasks are those of the user's session.
Fresh(c) ==
  /\ task[c] \in {"none", "called"} =>
       prompt[c] = "none" /\ job[c] = "none" /\ told[c] = "none"
  /\ task[c] \in {"foreground", "subtask"} => job[c] = "none" /\ told[c] = "none"
  /\ task[c] = "subtask" => Parent[c] = Root

\* Who waits for the run of a child waits for one that goes on.
AwaitedRuns == \A c \in Tasks : prompt[c] = "awaiting" => run[c] = "running"

\* The fiber that reports a job is there as long as the job, and what it did
\* says how the job ended.
Reported(c) ==
  /\ told[c] = "none" <=> job[c] = "none"
  /\ told[c] = "told" => job[c] \in Settled
  /\ told[c] = "silent" => job[c] = "cancelled"

\* The cancellation of a call is about its child.  What a cancellation has listed
\* was started, and what it has cancelled was listed and has ended; one that has returned has left out no job of the list that its
\* own session, or one that it has cancelled, started.
Swept(k) ==
  /\ cancel[k].pc = "new" => cancel[k].cancelled = {}
  /\ cancel[k].cancelled \subseteq cancel[k].jobs
  /\ \A c \in cancel[k].jobs : job[c] # "none"
  /\ \A c \in cancel[k].cancelled : job[c] \in Over
  /\ k \in Tasks => cancel[k].at = k
  /\ cancel[k].pc = "returned" =>
       \A c \in cancel[k].jobs :
         c = cancel[k].at \/ Parent[c] \in {cancel[k].at} \cup cancel[k].cancelled
           => c \in cancel[k].cancelled

IInv ==
  /\ TypeOK
  /\ \A c \in Tasks : Fresh(c) /\ Reported(c)
  /\ AwaitedRuns
  /\ \A k \in Cancellations : Swept(k)
  /\ RunIsExplained

-----------------------------------------------------------------------------
(* The records of the cancellations, and how a step changes them. *)

LEMMA NewCancelIs ==
  ASSUME NEW s \in Sessions
  PROVE  /\ NewCancel(s) \in Cancel
         /\ NewCancel(s).pc = "new" /\ NewCancel(s).at = s
         /\ NewCancel(s).jobs = {} /\ NewCancel(s).cancelled = {}
BY DEF NewCancel, Cancel

\* Some of the cancellations start from the beginning, the others stay.
Restarts(q) == /\ cancel'[q] \in Cancel
               /\ cancel'[q].pc = "new" /\ cancel'[q].jobs = {}
               /\ cancel'[q].cancelled = {} /\ (q \in Tasks => cancel'[q].at = q)
RestartsOrStays(q) == Restarts(q) \/ cancel'[q] = cancel[q]

\* Only cancellation k goes on, for the same session.
Goes(k, pc, jobs, cancelled) ==
  /\ cancel' \in [Cancellations -> Cancel]
  /\ cancel'[k].at = cancel[k].at
  /\ cancel'[k].pc = pc /\ cancel'[k].jobs = jobs /\ cancel'[k].cancelled = cancelled
  /\ \A q \in Cancellations : q # k => RestartsOrStays(q)

LEMMA CancelIs ==
  ASSUME TypeOK, NEW k \in Cancellations
  PROVE  /\ cancel \in [Cancellations -> Cancel]
         /\ cancel[k] \in Cancel /\ cancel[k].at \in Sessions
         /\ cancel[k].jobs \subseteq Tasks /\ cancel[k].cancelled \subseteq Tasks
BY DEF TypeOK, Cancel, Cancellations

LEMMA FireEffect ==
  ASSUME TypeOK, NEW cs \in SUBSET Tasks, Fire(cs)
  PROVE  /\ cancel' \in [Cancellations -> Cancel]
         /\ \A q \in Cancellations : RestartsOrStays(q)
         /\ signal' \subseteq Tasks
<1>1. /\ signal' = signal \cup cs
      /\ cancel' = [k \in Cancellations |->
                      IF k \in cs /\ task[k] = "foreground" THEN NewCancel(k) ELSE cancel[k]]
  BY DEF Fire, Cancellations
<1>2. ASSUME NEW q \in Cancellations
      PROVE  cancel'[q] \in Cancel /\ RestartsOrStays(q)
  <2>1. CASE q \in cs /\ task[q] = "foreground"
    <3>1. cancel'[q] = NewCancel(q) /\ q \in Sessions
      BY <1>1, <2>1 DEF Sessions
    <3>. QED
      BY <3>1, NewCancelIs DEF Restarts, RestartsOrStays
  <2>2. CASE ~(q \in cs /\ task[q] = "foreground")
    BY <1>1, <2>2, CancelIs DEF RestartsOrStays
  <2>. QED
    BY <2>1, <2>2
<1>3. signal' \subseteq Tasks
  BY <1>1 DEF TypeOK
<1>. QED
  BY <1>1, <1>2, <1>3

LEMMA ListJobsEffect ==
  ASSUME TypeOK, NEW k \in Cancellations, ListJobs(k)
  PROVE  /\ cancel[k].pc = "new"
         /\ Goes(k, "jobs", {c \in Tasks : job[c] = "running"}, cancel[k].cancelled)
         /\ UNCHANGED <<run, task, signal, prompt, job, told>>
<1>. DEFINE J == {c \in Tasks : job[c] = "running"}
            r == [cancel[k] EXCEPT !.pc = "jobs", !.jobs = J]
<1>1. cancel[k] \in Cancel /\ cancel \in [Cancellations -> Cancel] /\ J \in SUBSET Tasks
  BY CancelIs
<1>. HIDE DEF J
<1>2. /\ r \in Cancel /\ r.pc = "jobs" /\ r.jobs = J
      /\ r.at = cancel[k].at /\ r.cancelled = cancel[k].cancelled
  BY <1>1 DEF Cancel
<1>3. cancel' = [cancel EXCEPT ![k] = r]
  BY <1>1 DEF ListJobs, J
<1>. HIDE DEF r
<1>4. /\ cancel' \in [Cancellations -> Cancel] /\ cancel'[k] = r
      /\ \A q \in Cancellations : q # k => cancel'[q] = cancel[q]
  BY <1>1, <1>2, <1>3
<1>. QED
  BY <1>2, <1>4 DEF ListJobs, Goes, RestartsOrStays, J

LEMMA CancelJobEffect ==
  ASSUME TypeOK, NEW k \in Cancellations, NEW c \in Tasks, CancelJob(k, c)
  PROVE  /\ cancel[k].pc = "jobs" /\ c \in cancel[k].jobs
         /\ Goes(k, "jobs", cancel[k].jobs, cancel[k].cancelled \cup {c})
         /\ \/ job[c] = "running" /\ job' = [job EXCEPT ![c] = "cancelled"]
               /\ prompt' = [prompt EXCEPT ![c] = "over"]
            \/ job[c] # "running" /\ UNCHANGED <<job, prompt>>
         /\ UNCHANGED <<run, task, signal, told>>
<1>. DEFINE r == [cancel[k] EXCEPT !.cancelled = cancel[k].cancelled \cup {c}]
<1>1. /\ cancel[k] \in Cancel /\ cancel \in [Cancellations -> Cancel]
      /\ cancel[k].cancelled \cup {c} \in SUBSET Tasks
  BY CancelIs
<1>2. /\ r \in Cancel /\ r.pc = cancel[k].pc /\ r.jobs = cancel[k].jobs
      /\ r.at = cancel[k].at /\ r.cancelled = cancel[k].cancelled \cup {c}
  BY <1>1 DEF Cancel
<1>3. cancel' = [cancel EXCEPT ![k] = r]
  BY <1>1 DEF CancelJob
<1>. HIDE DEF r
<1>4. /\ cancel' \in [Cancellations -> Cancel] /\ cancel'[k] = r
      /\ \A q \in Cancellations : q # k => cancel'[q] = cancel[q]
  BY <1>1, <1>2, <1>3
<1>. QED
  BY <1>2, <1>4 DEF CancelJob, Matching, Goes, RestartsOrStays

\* What the cancellation of a job does to the jobs and the prompts.
LEMMA CancelJobData ==
  ASSUME TypeOK, NEW k \in Cancellations, NEW x \in Tasks, CancelJob(k, x)
  PROVE  /\ job' \in [Tasks -> Over \cup {"none", "running"}]
         /\ prompt' \in [Tasks -> {"none", "preparing", "awaiting", "answered", "over"}]
         /\ \A c \in Tasks :
              \/ job'[c] = job[c] /\ prompt'[c] = prompt[c]
              \/ job[c] = "running" /\ job'[c] = "cancelled" /\ prompt'[c] = "over"
         /\ job'[x] # "running"
<1>1. /\ job \in [Tasks -> Over \cup {"none", "running"}]
      /\ prompt \in [Tasks -> {"none", "preparing", "awaiting", "answered", "over"}]
  BY DEF TypeOK
<1>2. CASE job[x] = "running"
  <2>1. job' = [job EXCEPT ![x] = "cancelled"] /\ prompt' = [prompt EXCEPT ![x] = "over"]
    BY <1>2, CancelJobEffect
  <2>. QED
    BY <1>1, <1>2, <2>1 DEF Over
<1>3. CASE job[x] # "running"
  <2>1. UNCHANGED <<job, prompt>>
    BY <1>3, CancelJobEffect
  <2>. QED
    BY <1>1, <1>3, <2>1
<1>. QED
  BY <1>2, <1>3

Phases == {"none", "called", "foreground", "subtask", "interrupted", "returned"}

\* The interruption of the run of s by cancellation k, task by task.
Interrupts(k, s) ==
  /\ run' = [run EXCEPT ![s] = "idle"]
  /\ task' \in [Tasks -> Phases]
  /\ prompt' \in [Tasks -> {"none", "preparing", "awaiting", "answered", "over"}]
  /\ \A c \in Tasks :
       IF c \in Subtasks(s)
       THEN /\ task'[c] = "interrupted" /\ prompt'[c] = "over"
            /\ c # k => cancel'[c].pc = "new"
       ELSE /\ task'[c] = task[c]
            /\ prompt'[c] = Answered(prompt, s)[c]

\* What the answer to the prompt that awaits the run of s does to the prompts.
LEMMA AnswerIs ==
  ASSUME TypeOK, NEW s \in Sessions, NEW c \in Tasks
  PROVE  /\ Answered(prompt, s)[c] \in {"none", "preparing", "awaiting", "answered", "over"}
         /\ c # s => Answered(prompt, s)[c] = prompt[c]
         /\ Answered(prompt, s)[c] = "awaiting" => prompt[c] = "awaiting" /\ c # s
         /\ Answered(prompt, s)[c] = "none" <=> prompt[c] = "none"
BY DEF TypeOK, Answered

LEMMA CancelRunEffect ==
  ASSUME TypeOK, NEW k \in Cancellations, CancelRun(k)
  PROVE  /\ cancel[k].pc = "jobs" /\ Matching(k) = {}
         /\ Goes(k, "returned", cancel[k].jobs, cancel[k].cancelled)
         /\ \/ Interrupts(k, cancel[k].at)
            \/ run[cancel[k].at] # "running" /\ UNCHANGED <<run, prompt, task>>
         /\ signal' \subseteq Tasks
         /\ UNCHANGED <<job, told>>
<1>. DEFINE r == [cancel[k] EXCEPT !.pc = "returned"]
<1>1. cancel[k] \in Cancel /\ cancel \in [Cancellations -> Cancel]
  BY CancelIs
<1>2. /\ r \in Cancel /\ r.pc = "returned" /\ r.jobs = cancel[k].jobs
      /\ r.at = cancel[k].at /\ r.cancelled = cancel[k].cancelled
  BY <1>1 DEF Cancel
<1>3. CASE run[cancel[k].at] = "running"
  <2>. DEFINE s == cancel[k].at
              E == Executing(s)
  <2>1. E \subseteq Tasks /\ Stopped(s) \subseteq Tasks /\ Subtasks(s) \subseteq Stopped(s)
    BY DEF Executing, Stopped, Subtasks
  <2>2. /\ signal' = signal \cup E
        /\ cancel' = [q \in Cancellations |->
               IF q = k THEN r
               ELSE IF q \in Stopped(s) THEN NewCancel(q)
               ELSE cancel[q]]
        /\ task' = [c \in Tasks |-> IF c \in Subtasks(s) THEN "interrupted" ELSE task[c]]
        /\ prompt' = [c \in Tasks |-> IF c \in Subtasks(s) THEN "over"
                                      ELSE Answered(prompt, s)[c]]
        /\ run' = [run EXCEPT ![s] = "idle"] /\ UNCHANGED <<job, told>>
    BY <1>1, <1>3 DEF CancelRun, Cancellations
  <2>0. s \in Sessions
    BY CancelIs
  <2>. HIDE DEF E, r, s
  <2>3. cancel'[k] = r
    BY <2>2
  <2>4. ASSUME NEW q \in Cancellations, q # k
        PROVE  cancel'[q] \in Cancel /\ RestartsOrStays(q)
    <3>1. CASE q \in Stopped(s)
      <4>1. cancel'[q] = NewCancel(q) /\ q \in Sessions
        BY <2>1, <2>2, <2>4, <3>1 DEF Sessions
      <4>. QED
        BY <4>1, NewCancelIs DEF Restarts, RestartsOrStays
    <3>2. CASE q \notin Stopped(s)
      <4>1. cancel'[q] = cancel[q]
        BY <2>2, <2>4, <3>2
      <4>. QED
        BY <1>1, <4>1 DEF RestartsOrStays
    <3>. QED
      BY <3>1, <3>2
  <2>5. cancel' \in [Cancellations -> Cancel]
    BY <1>2, <2>2, <2>3, <2>4
  <2>6. Goes(k, "returned", cancel[k].jobs, cancel[k].cancelled)
    BY <1>2, <2>3, <2>4, <2>5 DEF Goes
  <2>7. signal' \subseteq Tasks
    BY <2>1, <2>2 DEF TypeOK
  <2>8. Interrupts(k, s)
    <3>1. task' \in [Tasks -> Phases]
      BY <2>2 DEF TypeOK, Phases
    <3>2. prompt' \in [Tasks -> {"none", "preparing", "awaiting", "answered", "over"}]
      <4>. DEFINE v(c) == IF c \in Subtasks(s) THEN "over" ELSE Answered(prompt, s)[c]
      <4>1. ASSUME NEW c \in Tasks
            PROVE  v(c) \in {"none", "preparing", "awaiting", "answered", "over"}
        BY <2>0, AnswerIs
      <4>2. prompt' = [c \in Tasks |-> v(c)]
        BY <2>2
      <4>. HIDE DEF v
      <4>. QED
        BY <4>1, <4>2
    <3>3. ASSUME NEW c \in Subtasks(s), c # k PROVE cancel'[c].pc = "new"
      <4>1. c \in Cancellations /\ c \in Sessions /\ cancel'[c] = NewCancel(c)
        BY <2>1, <2>2, <3>3 DEF Cancellations, Sessions
      <4>. QED
        BY <4>1, NewCancelIs
    <3>. QED
      BY <2>2, <3>1, <3>2, <3>3 DEF Interrupts
  <2>. QED
    BY <2>2, <2>6, <2>7, <2>8 DEF CancelRun, s
<1>4. CASE run[cancel[k].at] # "running"
  <2>1. cancel' = [cancel EXCEPT ![k] = r]
    BY <1>1, <1>4 DEF CancelRun
  <2>. HIDE DEF r
  <2>2. /\ cancel' \in [Cancellations -> Cancel] /\ cancel'[k] = r
        /\ \A q \in Cancellations : q # k => cancel'[q] = cancel[q]
    BY <1>1, <1>2, <2>1
  <2>3. Goes(k, "returned", cancel[k].jobs, cancel[k].cancelled)
    BY <1>2, <2>2 DEF Goes, RestartsOrStays
  <2>4. signal' \subseteq Tasks
    BY <1>4 DEF CancelRun, TypeOK
  <2>. QED
    BY <1>4, <2>3, <2>4 DEF CancelRun
<1>. QED
  BY <1>3, <1>4

LEMMA AnsweredIs ==
  ASSUME TypeOK, NEW s \in Sessions, prompt' = Answered(prompt, s)
  PROVE  /\ prompt' \in [Tasks -> {"none", "preparing", "awaiting", "answered", "over"}]
         /\ \A c \in Tasks : /\ c # s => prompt'[c] = prompt[c]
                             /\ prompt'[c] = "awaiting" => prompt[c] = "awaiting" /\ c # s
                             /\ prompt'[c] = "none" <=> prompt[c] = "none"
BY DEF TypeOK, Answered

-----------------------------------------------------------------------------
(* What every step keeps. *)

LEMMA TypeStep ==
  ASSUME IInv, [Next]_vars
  PROVE  TypeOK'
<1>a. TypeOK
  BY DEF IInv
<1>1. CASE UserPrompt
  BY <1>1, <1>a DEF UserPrompt, TypeOK, Sessions
<1>2. ASSUME NEW s \in Sessions, RunEnds(s)
      PROVE  TypeOK'
  <2>1. prompt' = Answered(prompt, s)
    BY <1>2 DEF RunEnds
  <2>. QED
    BY <1>2, <1>a, <2>1, AnsweredIs DEF RunEnds, TypeOK
<1>3. ASSUME NEW s \in Sessions, TurnFails(s)
      PROVE  TypeOK'
  <2>1. Fire(Executing(s)) /\ Executing(s) \in SUBSET Tasks
    BY <1>3 DEF TurnFails, Executing
  <2>2. cancel' \in [Cancellations -> Cancel] /\ signal' \subseteq Tasks
    BY <1>a, <2>1, FireEffect
  <2>. QED
    BY <1>3, <1>a, <2>2 DEF TurnFails, TypeOK, Cancellations
<1>4. ASSUME NEW x \in Tasks, Call(x)
      PROVE  TypeOK'
  BY <1>4, <1>a DEF Call, TypeOK, Sessions
<1>4a. ASSUME NEW x \in Tasks, StartSubtask(x)
      PROVE  TypeOK'
  BY <1>4a, <1>a DEF StartSubtask, TypeOK, Sessions
<1>5. ASSUME NEW x \in Tasks, CallFails(x)
      PROVE  TypeOK'
  BY <1>5, <1>a DEF CallFails, TypeOK, Sessions
<1>6. ASSUME NEW x \in Tasks, StartBackground(x)
      PROVE  TypeOK'
  BY <1>6, <1>a DEF StartBackground, TypeOK, Sessions
<1>7. ASSUME NEW x \in Tasks, StartForeground(x)
      PROVE  TypeOK'
  BY <1>7, <1>a DEF StartForeground, TypeOK, Sessions
<1>8. ASSUME NEW x \in Tasks, EnsureRunning(x)
      PROVE  TypeOK'
  BY <1>8, <1>a DEF EnsureRunning, TypeOK, Sessions
<1>9. ASSUME NEW x \in Tasks, ReturnForeground(x)
      PROVE  TypeOK'
  BY <1>9, <1>a DEF ReturnForeground, TypeOK, Sessions
<1>10. ASSUME NEW x \in Tasks, SettleJob(x)
      PROVE  TypeOK'
  BY <1>10, <1>a DEF SettleJob, TypeOK, Settled, Over
<1>11. ASSUME NEW x \in Tasks, Inject(x)
      PROVE  TypeOK'
  BY <1>11, <1>a, TaskTreeAssumption DEF Inject, TypeOK
<1>12. ASSUME NEW k \in Cancellations, ListJobs(k)
      PROVE  TypeOK'
  BY <1>12, <1>a, ListJobsEffect DEF TypeOK, Goes, Cancellations
<1>13. ASSUME NEW k \in Cancellations, NEW x \in Tasks, CancelJob(k, x)
      PROVE  TypeOK'
  <2>1. cancel' \in [Cancellations -> Cancel]
    BY <1>13, <1>a, CancelJobEffect DEF Goes
  <2>2. UNCHANGED <<run, task, signal, told>>
    BY <1>13, <1>a, CancelJobEffect
  <2>3. /\ job' \in [Tasks -> Over \cup {"none", "running"}]
        /\ prompt' \in [Tasks -> {"none", "preparing", "awaiting", "answered", "over"}]
    BY <1>13, <1>a, CancelJobData
  <2>. QED
    BY <1>a, <2>1, <2>2, <2>3 DEF TypeOK, Cancellations
<1>14. ASSUME NEW k \in Cancellations, CancelRun(k)
      PROVE  TypeOK'
  <2>1. /\ cancel' \in [Cancellations -> Cancel] /\ signal' \subseteq Tasks
        /\ UNCHANGED <<job, told>> /\ cancel[k].at \in Sessions
    BY <1>14, <1>a, CancelRunEffect, CancelIs DEF Goes
  <2>2. /\ run' \in [Sessions -> {"idle", "running"}] /\ task' \in [Tasks -> Phases]
        /\ prompt' \in [Tasks -> {"none", "preparing", "awaiting", "answered", "over"}]
    BY <1>14, <1>a, <2>1, CancelRunEffect DEF TypeOK, Interrupts, Phases
  <2>. QED
    BY <1>a, <2>1, <2>2 DEF TypeOK, Cancellations, Phases
<1>15. CASE UNCHANGED vars
  BY <1>15, <1>a DEF vars, TypeOK
<1>. QED
  BY <1>1, <1>2, <1>3, <1>4, <1>4a, <1>5, <1>6, <1>7,
     <1>8, <1>9, <1>10, <1>11, <1>12, <1>13, <1>14, <1>15
  DEF Next, Session, Task, CancelStep, Cancellations

LEMMA FreshStep ==
  ASSUME IInv, [Next]_vars
  PROVE  \A c \in Tasks : Fresh(c)'
<1>a. TypeOK /\ \A c \in Tasks : Fresh(c)
  BY DEF IInv
<1>. SUFFICES ASSUME NEW c \in Tasks PROVE Fresh(c)'
  OBVIOUS
<1>1. CASE UserPrompt
  BY <1>1, <1>a DEF UserPrompt, TypeOK, Fresh
<1>2. ASSUME NEW s \in Sessions, RunEnds(s)
      PROVE  Fresh(c)'
  <2>1. prompt' = Answered(prompt, s) /\ UNCHANGED <<task, job, told>>
    BY <1>2 DEF RunEnds
  <2>. QED
    BY <1>a, <2>1, AnsweredIs DEF Fresh
<1>3. ASSUME NEW s \in Sessions, TurnFails(s)
      PROVE  Fresh(c)'
  BY <1>3, <1>a DEF TurnFails, TypeOK, Fresh
<1>4. ASSUME NEW x \in Tasks, Call(x)
      PROVE  Fresh(c)'
  BY <1>4, <1>a DEF Call, TypeOK, Fresh
<1>4a. ASSUME NEW x \in Tasks, StartSubtask(x)
      PROVE  Fresh(c)'
  BY <1>4a, <1>a DEF StartSubtask, TypeOK, Fresh
<1>5. ASSUME NEW x \in Tasks, CallFails(x)
      PROVE  Fresh(c)'
  BY <1>5, <1>a DEF CallFails, TypeOK, Fresh
<1>6. ASSUME NEW x \in Tasks, StartBackground(x)
      PROVE  Fresh(c)'
  BY <1>6, <1>a DEF StartBackground, TypeOK, Fresh
<1>7. ASSUME NEW x \in Tasks, StartForeground(x)
      PROVE  Fresh(c)'
  BY <1>7, <1>a DEF StartForeground, TypeOK, Fresh
<1>8. ASSUME NEW x \in Tasks, EnsureRunning(x)
      PROVE  Fresh(c)'
  BY <1>8, <1>a DEF EnsureRunning, TypeOK, Fresh
<1>9. ASSUME NEW x \in Tasks, ReturnForeground(x)
      PROVE  Fresh(c)'
  BY <1>9, <1>a DEF ReturnForeground, TypeOK, Fresh
<1>10. ASSUME NEW x \in Tasks, SettleJob(x)
      PROVE  Fresh(c)'
  BY <1>10, <1>a DEF SettleJob, TypeOK, Fresh
<1>11. ASSUME NEW x \in Tasks, Inject(x)
      PROVE  Fresh(c)'
  BY <1>11, <1>a DEF Inject, TypeOK, Fresh
<1>12. ASSUME NEW k \in Cancellations, ListJobs(k)
      PROVE  Fresh(c)'
  BY <1>12, <1>a DEF ListJobs, TypeOK, Fresh
<1>13. ASSUME NEW k \in Cancellations, NEW x \in Tasks, CancelJob(k, x)
      PROVE  Fresh(c)'
  <2>1. UNCHANGED <<task, told>>
    BY <1>13, <1>a, CancelJobEffect
  <2>2. job[c] = "none" => job'[c] = "none" /\ prompt'[c] = prompt[c]
    BY <1>13, <1>a, CancelJobData
  <2>. QED
    BY <1>a, <2>1, <2>2 DEF Fresh
<1>14. ASSUME NEW k \in Cancellations, CancelRun(k)
      PROVE  Fresh(c)'
  <2>1. UNCHANGED <<job, told>> /\ cancel[k].at \in Sessions
    BY <1>14, <1>a, CancelRunEffect, CancelIs
  <2>2. \/ task'[c] = task[c] /\ (prompt'[c] = "none" <=> prompt[c] = "none")
        \/ task'[c] = "interrupted"
    BY <1>14, <1>a, <2>1, CancelRunEffect, AnswerIs DEF Interrupts
  <2>. QED
    BY <1>a, <2>1, <2>2 DEF Fresh
<1>15. CASE UNCHANGED vars
  BY <1>15, <1>a DEF vars, Fresh
<1>. QED
  BY <1>1, <1>2, <1>3, <1>4, <1>4a, <1>5, <1>6, <1>7,
     <1>8, <1>9, <1>10, <1>11, <1>12, <1>13, <1>14, <1>15
  DEF Next, Session, Task, CancelStep, Cancellations

LEMMA ReportedStep ==
  ASSUME IInv, [Next]_vars
  PROVE  \A c \in Tasks : Reported(c)'
<1>a. TypeOK /\ \A c \in Tasks : Fresh(c) /\ Reported(c)
  BY DEF IInv
<1>. SUFFICES ASSUME NEW c \in Tasks PROVE Reported(c)'
  OBVIOUS
<1>1. CASE UserPrompt
  BY <1>1, <1>a DEF UserPrompt, TypeOK, Fresh, Reported
<1>2. ASSUME NEW s \in Sessions, RunEnds(s)
      PROVE  Reported(c)'
  BY <1>2, <1>a DEF RunEnds, TypeOK, Fresh, Reported
<1>3. ASSUME NEW s \in Sessions, TurnFails(s)
      PROVE  Reported(c)'
  BY <1>3, <1>a DEF TurnFails, TypeOK, Fresh, Reported
<1>4. ASSUME NEW x \in Tasks, Call(x)
      PROVE  Reported(c)'
  BY <1>4, <1>a DEF Call, TypeOK, Fresh, Reported
<1>4a. ASSUME NEW x \in Tasks, StartSubtask(x)
      PROVE  Reported(c)'
  BY <1>4a, <1>a DEF StartSubtask, TypeOK, Fresh, Reported
<1>5. ASSUME NEW x \in Tasks, CallFails(x)
      PROVE  Reported(c)'
  BY <1>5, <1>a DEF CallFails, TypeOK, Fresh, Reported
<1>6. ASSUME NEW x \in Tasks, StartBackground(x)
      PROVE  Reported(c)'
  BY <1>6, <1>a DEF StartBackground, TypeOK, Fresh, Reported
<1>7. ASSUME NEW x \in Tasks, StartForeground(x)
      PROVE  Reported(c)'
  BY <1>7, <1>a DEF StartForeground, TypeOK, Fresh, Reported
<1>8. ASSUME NEW x \in Tasks, EnsureRunning(x)
      PROVE  Reported(c)'
  BY <1>8, <1>a DEF EnsureRunning, TypeOK, Fresh, Reported
<1>9. ASSUME NEW x \in Tasks, ReturnForeground(x)
      PROVE  Reported(c)'
  BY <1>9, <1>a DEF ReturnForeground, TypeOK, Fresh, Reported
<1>10. ASSUME NEW x \in Tasks, SettleJob(x)
      PROVE  Reported(c)'
  BY <1>10, <1>a DEF SettleJob, TypeOK, Reported, Settled
<1>11. ASSUME NEW x \in Tasks, Inject(x)
      PROVE  Reported(c)'
  BY <1>11, <1>a DEF Inject, TypeOK, Reported, Settled, Over
<1>12. ASSUME NEW k \in Cancellations, ListJobs(k)
      PROVE  Reported(c)'
  BY <1>12, <1>a DEF ListJobs, TypeOK, Fresh, Reported
<1>13. ASSUME NEW k \in Cancellations, NEW x \in Tasks, CancelJob(k, x)
      PROVE  Reported(c)'
  <2>1. UNCHANGED <<task, told>>
    BY <1>13, <1>a, CancelJobEffect
  <2>2. job'[c] = job[c] \/ (job[c] = "running" /\ job'[c] = "cancelled")
    BY <1>13, <1>a, CancelJobData
  <2>. QED
    BY <1>a, <2>1, <2>2 DEF Reported, Settled
<1>14. ASSUME NEW k \in Cancellations, CancelRun(k)
      PROVE  Reported(c)'
  BY <1>14, <1>a DEF CancelRun, TypeOK, Fresh, Reported
<1>15. CASE UNCHANGED vars
  BY <1>15, <1>a DEF vars, Reported
<1>. QED
  BY <1>1, <1>2, <1>3, <1>4, <1>4a, <1>5, <1>6, <1>7,
     <1>8, <1>9, <1>10, <1>11, <1>12, <1>13, <1>14, <1>15
  DEF Next, Session, Task, CancelStep, Cancellations

\* A job that has ended is not started again and keeps the status it ended with:
\* the id is that of a child session, which one call creates.
JobKept(c) == /\ job[c] \in Over => job'[c] = job[c]
              /\ job[c] # "none" => job'[c] # "none"

LEMMA JobsStayOver ==
  ASSUME IInv, [Next]_vars
  PROVE  \A c \in Tasks : JobKept(c)
<1>a. TypeOK /\ \A c \in Tasks : Fresh(c)
  BY DEF IInv
<1>. SUFFICES ASSUME NEW c \in Tasks PROVE JobKept(c)
  OBVIOUS
<1>1. CASE UserPrompt
  BY <1>1, <1>a DEF UserPrompt, JobKept
<1>2. ASSUME NEW s \in Sessions, RunEnds(s)
      PROVE  JobKept(c)
  BY <1>2, <1>a DEF RunEnds, JobKept
<1>3. ASSUME NEW s \in Sessions, TurnFails(s)
      PROVE  JobKept(c)
  BY <1>3, <1>a DEF TurnFails, JobKept
<1>4. ASSUME NEW x \in Tasks, Call(x)
      PROVE  JobKept(c)
  BY <1>4, <1>a DEF Call, JobKept
<1>4a. ASSUME NEW x \in Tasks, StartSubtask(x)
      PROVE  JobKept(c)
  BY <1>4a, <1>a DEF StartSubtask, JobKept
<1>5. ASSUME NEW x \in Tasks, CallFails(x)
      PROVE  JobKept(c)
  BY <1>5, <1>a DEF CallFails, JobKept
<1>6. ASSUME NEW x \in Tasks, StartBackground(x)
      PROVE  JobKept(c)
  BY <1>6, <1>a DEF StartBackground, TypeOK, Fresh, Over, Settled, JobKept
<1>7. ASSUME NEW x \in Tasks, StartForeground(x)
      PROVE  JobKept(c)
  BY <1>7, <1>a DEF StartForeground, JobKept
<1>8. ASSUME NEW x \in Tasks, EnsureRunning(x)
      PROVE  JobKept(c)
  BY <1>8, <1>a DEF EnsureRunning, JobKept
<1>9. ASSUME NEW x \in Tasks, ReturnForeground(x)
      PROVE  JobKept(c)
  BY <1>9, <1>a DEF ReturnForeground, JobKept
<1>10. ASSUME NEW x \in Tasks, SettleJob(x)
      PROVE  JobKept(c)
  BY <1>10, <1>a DEF SettleJob, TypeOK, Fresh, Over, Settled, JobKept
<1>11. ASSUME NEW x \in Tasks, Inject(x)
      PROVE  JobKept(c)
  BY <1>11, <1>a DEF Inject, JobKept
<1>12. ASSUME NEW k \in Cancellations, ListJobs(k)
      PROVE  JobKept(c)
  BY <1>12, <1>a DEF ListJobs, JobKept
<1>13. ASSUME NEW k \in Cancellations, NEW x \in Tasks, CancelJob(k, x)
      PROVE  JobKept(c)
  BY <1>13, <1>a, CancelJobData DEF Over, JobKept
<1>14. ASSUME NEW k \in Cancellations, CancelRun(k)
      PROVE  JobKept(c)
  BY <1>14, <1>a DEF CancelRun, JobKept
<1>15. CASE UNCHANGED vars
  BY <1>15, <1>a DEF vars, JobKept
<1>. QED
  BY <1>1, <1>2, <1>3, <1>4, <1>4a, <1>5, <1>6, <1>7,
     <1>8, <1>9, <1>10, <1>11, <1>12, <1>13, <1>14, <1>15
  DEF Next, Session, Task, CancelStep, Cancellations

LEMMA AwaitedStep ==
  ASSUME IInv, [Next]_vars
  PROVE  AwaitedRuns'
<1>a. TypeOK /\ (\A c \in Tasks : Fresh(c)) /\ AwaitedRuns
  BY DEF IInv
<1>. SUFFICES ASSUME NEW c \in Tasks, prompt'[c] = "awaiting" PROVE run'[c] = "running"
  BY DEF AwaitedRuns
<1>1. CASE UserPrompt
  BY <1>1, <1>a DEF UserPrompt, TypeOK, Sessions, AwaitedRuns
<1>2. ASSUME NEW s \in Sessions, RunEnds(s)
      PROVE  run'[c] = "running"
  <2>1. prompt' = Answered(prompt, s) /\ run' = [run EXCEPT ![s] = "idle"]
    BY <1>2 DEF RunEnds
  <2>2. c # s /\ prompt[c] = "awaiting" /\ c \in Sessions
    BY <1>a, <2>1, AnsweredIs DEF Sessions
  <2>. QED
    BY <1>a, <2>1, <2>2 DEF TypeOK, AwaitedRuns
<1>3. ASSUME NEW s \in Sessions, TurnFails(s)
      PROVE  run'[c] = "running"
  BY <1>3, <1>a DEF TurnFails, TypeOK, Sessions, AwaitedRuns
<1>4. ASSUME NEW x \in Tasks, Call(x)
      PROVE  run'[c] = "running"
  BY <1>4, <1>a DEF Call, TypeOK, Sessions, AwaitedRuns
<1>4a. ASSUME NEW x \in Tasks, StartSubtask(x)
      PROVE  run'[c] = "running"
  BY <1>4a, <1>a DEF StartSubtask, TypeOK, Sessions, AwaitedRuns
<1>5. ASSUME NEW x \in Tasks, CallFails(x)
      PROVE  run'[c] = "running"
  BY <1>5, <1>a DEF CallFails, TypeOK, Sessions, AwaitedRuns
<1>6. ASSUME NEW x \in Tasks, StartBackground(x)
      PROVE  run'[c] = "running"
  BY <1>6, <1>a DEF StartBackground, TypeOK, Sessions, AwaitedRuns
<1>7. ASSUME NEW x \in Tasks, StartForeground(x)
      PROVE  run'[c] = "running"
  BY <1>7, <1>a DEF StartForeground, TypeOK, Sessions, AwaitedRuns
<1>8. ASSUME NEW x \in Tasks, EnsureRunning(x)
      PROVE  run'[c] = "running"
  BY <1>8, <1>a DEF EnsureRunning, TypeOK, Sessions, AwaitedRuns
<1>9. ASSUME NEW x \in Tasks, ReturnForeground(x)
      PROVE  run'[c] = "running"
  BY <1>9, <1>a DEF ReturnForeground, TypeOK, Sessions, AwaitedRuns
<1>10. ASSUME NEW x \in Tasks, SettleJob(x)
      PROVE  run'[c] = "running"
  BY <1>10, <1>a DEF SettleJob, TypeOK, Sessions, AwaitedRuns
<1>11. ASSUME NEW x \in Tasks, Inject(x)
      PROVE  run'[c] = "running"
  BY <1>11, <1>a DEF Inject, TypeOK, Sessions, AwaitedRuns
<1>12. ASSUME NEW k \in Cancellations, ListJobs(k)
      PROVE  run'[c] = "running"
  BY <1>12, <1>a DEF ListJobs, TypeOK, Sessions, AwaitedRuns
<1>13. ASSUME NEW k \in Cancellations, NEW x \in Tasks, CancelJob(k, x)
      PROVE  run'[c] = "running"
  <2>1. run' = run /\ prompt[c] = "awaiting"
    BY <1>13, <1>a, CancelJobEffect, CancelJobData
  <2>. QED
    BY <1>a, <2>1 DEF AwaitedRuns
<1>14. ASSUME NEW k \in Cancellations, CancelRun(k)
      PROVE  run'[c] = "running"
  <2>1. cancel[k].at \in Sessions /\ c \in Sessions
    BY <1>a, CancelIs DEF Sessions
  <2>2. CASE Interrupts(k, cancel[k].at)
    <3>1. c # cancel[k].at /\ prompt[c] = "awaiting"
      BY <1>a, <2>1, <2>2, AnswerIs DEF Interrupts
    <3>. QED
      BY <1>a, <2>1, <2>2, <3>1 DEF TypeOK, AwaitedRuns, Interrupts
  <2>3. CASE UNCHANGED <<run, prompt>>
    BY <1>a, <2>3 DEF AwaitedRuns
  <2>. QED
    BY <1>14, <1>a, <2>2, <2>3, CancelRunEffect
<1>15. CASE UNCHANGED vars
  BY <1>15, <1>a DEF vars, AwaitedRuns
<1>. QED
  BY <1>1, <1>2, <1>3, <1>4, <1>4a, <1>5, <1>6, <1>7,
     <1>8, <1>9, <1>10, <1>11, <1>12, <1>13, <1>14, <1>15
  DEF Next, Session, Task, CancelStep, Cancellations

LEMMA SweptStep ==
  ASSUME IInv, [Next]_vars
  PROVE  \A q \in Cancellations : Swept(q)'
<1>a. TypeOK /\ (\A c \in Tasks : Fresh(c)) /\ (\A k \in Cancellations : Swept(k))
  BY DEF IInv
<1>b. ASSUME NEW q \in Cancellations, cancel'[q] = cancel[q] PROVE Swept(q)'
  <2>1. /\ \A c \in cancel[q].cancelled : c \in Tasks /\ job'[c] \in Over
        /\ \A c \in cancel[q].jobs : job'[c] # "none"
    BY <1>a, CancelIs, JobsStayOver DEF Swept, JobKept
  <2>. QED
    BY <1>a, <1>b, <2>1 DEF Swept
<1>c. ASSUME NEW q \in Cancellations, RestartsOrStays(q) PROVE Swept(q)'
  BY <1>b, <1>c DEF RestartsOrStays, Restarts, Swept
<1>1. CASE UserPrompt
  BY <1>1, <1>b DEF UserPrompt
<1>2. ASSUME NEW s \in Sessions, RunEnds(s)
      PROVE  \A q \in Cancellations : Swept(q)'
  BY <1>2, <1>b DEF RunEnds
<1>3. ASSUME NEW s \in Sessions, TurnFails(s)
      PROVE  \A q \in Cancellations : Swept(q)'
  <2>1. Fire(Executing(s)) /\ Executing(s) \in SUBSET Tasks
    BY <1>3 DEF TurnFails, Executing
  <2>. QED
    BY <1>a, <1>c, <2>1, FireEffect
<1>4. ASSUME NEW x \in Tasks, Call(x)
      PROVE  \A q \in Cancellations : Swept(q)'
  BY <1>4, <1>b DEF Call
<1>4a. ASSUME NEW x \in Tasks, StartSubtask(x)
      PROVE  \A q \in Cancellations : Swept(q)'
  BY <1>4a, <1>b DEF StartSubtask
<1>5. ASSUME NEW x \in Tasks, CallFails(x)
      PROVE  \A q \in Cancellations : Swept(q)'
  BY <1>5, <1>b DEF CallFails
<1>6. ASSUME NEW x \in Tasks, StartBackground(x)
      PROVE  \A q \in Cancellations : Swept(q)'
  BY <1>6, <1>b DEF StartBackground
<1>7. ASSUME NEW x \in Tasks, StartForeground(x)
      PROVE  \A q \in Cancellations : Swept(q)'
  BY <1>7, <1>b DEF StartForeground
<1>8. ASSUME NEW x \in Tasks, EnsureRunning(x)
      PROVE  \A q \in Cancellations : Swept(q)'
  BY <1>8, <1>b DEF EnsureRunning
<1>9. ASSUME NEW x \in Tasks, ReturnForeground(x)
      PROVE  \A q \in Cancellations : Swept(q)'
  BY <1>9, <1>b DEF ReturnForeground
<1>10. ASSUME NEW x \in Tasks, SettleJob(x)
      PROVE  \A q \in Cancellations : Swept(q)'
  BY <1>10, <1>b DEF SettleJob
<1>11. ASSUME NEW x \in Tasks, Inject(x)
      PROVE  \A q \in Cancellations : Swept(q)'
  BY <1>11, <1>b DEF Inject
<1>12. ASSUME NEW k \in Cancellations, ListJobs(k)
      PROVE  \A q \in Cancellations : Swept(q)'
  <2>1. ASSUME NEW q \in Cancellations, q # k PROVE Swept(q)'
    BY <1>12, <1>a, <1>c, <2>1, ListJobsEffect DEF Goes
  <2>2. Swept(k)'
    BY <1>12, <1>a, ListJobsEffect DEF Goes, Swept
  <2>. QED
    BY <2>1, <2>2
<1>13. ASSUME NEW k \in Cancellations, NEW x \in Tasks, CancelJob(k, x)
      PROVE  \A q \in Cancellations : Swept(q)'
  <2>1. ASSUME NEW q \in Cancellations, q # k PROVE Swept(q)'
    BY <1>13, <1>a, <1>c, <2>1, CancelJobEffect DEF Goes
  <2>2. Swept(k)'
    <3>1. /\ cancel'[k].at = cancel[k].at
          /\ cancel'[k].pc = "jobs" /\ cancel'[k].jobs = cancel[k].jobs /\ x \in cancel[k].jobs
          /\ cancel'[k].cancelled = cancel[k].cancelled \cup {x}
      BY <1>13, <1>a, CancelJobEffect DEF Goes
    <3>2. job'[x] \in Over
      <4>0. x \in cancel[k].jobs /\ Swept(k)
        BY <1>13, <1>a, CancelJobEffect
      <4>1. job[x] # "none"
        BY <4>0 DEF Swept
      <4>2. job'[x] # "running" /\ job'[x] # "none"
            /\ job' \in [Tasks -> Over \cup {"none", "running"}]
        BY <1>13, <1>a, <4>1, CancelJobData
      <4>. QED
        BY <4>2
    <3>3. /\ \A c \in cancel[k].cancelled : job'[c] \in Over
          /\ \A c \in cancel[k].jobs : job'[c] # "none"
      BY <1>a, CancelIs, JobsStayOver DEF Swept, JobKept
    <3>. QED
      BY <1>a, <3>1, <3>2, <3>3 DEF Swept
  <2>. QED
    BY <2>1, <2>2
<1>14. ASSUME NEW k \in Cancellations, CancelRun(k)
      PROVE  \A q \in Cancellations : Swept(q)'
  <2>1. ASSUME NEW q \in Cancellations, q # k PROVE Swept(q)'
    BY <1>14, <1>a, <1>c, <2>1, CancelRunEffect DEF Goes
  <2>2. Swept(k)'
    <3>1. /\ cancel'[k].pc = "returned" /\ cancel'[k].jobs = cancel[k].jobs
          /\ cancel'[k].cancelled = cancel[k].cancelled /\ cancel'[k].at = cancel[k].at
          /\ Matching(k) = {} /\ job' = job
      BY <1>14, <1>a, CancelRunEffect DEF Goes
    <3>2. ASSUME NEW c \in cancel[k].jobs,
                 c = cancel[k].at \/ Parent[c] \in {cancel[k].at} \cup cancel[k].cancelled
          PROVE  c \in cancel[k].cancelled
      BY <3>1, <3>2 DEF Matching
    <3>. QED
      BY <1>a, <3>1, <3>2 DEF Swept
  <2>. QED
    BY <2>1, <2>2
<1>15. CASE UNCHANGED vars
  BY <1>15, <1>b DEF vars
<1>. QED
  BY <1>1, <1>2, <1>3, <1>4, <1>4a, <1>5, <1>6, <1>7,
     <1>8, <1>9, <1>10, <1>11, <1>12, <1>13, <1>14, <1>15
  DEF Next, Session, Task, CancelStep, Cancellations

-----------------------------------------------------------------------------
(* A run that nobody awaits has a reason. *)

Released(c) == task[c] = "interrupted" /\ cancel[c].pc # "returned"

Explained(c) == \/ prompt[c] = "awaiting"
                \/ job[c] = "cancelled"
                \/ Released(c)
                \/ \E d \in Tasks : Parent[d] = c /\ told[d] = "told"

\* What explains a run lasts as long as its prompt: a report that was made stays
\* made, and a cancelled job stays cancelled.
LEMMA ExplainedStays ==
  ASSUME IInv, [Next]_vars, NEW c \in Tasks, Explained(c),
         prompt[c] = "awaiting" => prompt'[c] = "awaiting" \/ job'[c] = "cancelled",
         Released(c) => Released(c)',
         \A d \in Tasks : told[d] = "told" => told'[d] = "told"
  PROVE  Explained(c)'
BY JobsStayOver DEF Explained, JobKept, Over

LEMMA ExplainedStep ==
  ASSUME IInv, [Next]_vars
  PROVE  RunIsExplained'
<1>a. /\ TypeOK /\ (\A c \in Tasks : Fresh(c)) /\ RunIsExplained
      /\ \A k \in Cancellations : Swept(k)
  BY DEF IInv
<1>b. SUFFICES ASSUME NEW c \in Tasks, run'[c] = "running" PROVE Explained(c)'
  BY DEF RunIsExplained, Explained, Released
<1>c. c \in Sessions /\ (run[c] = "running" => Explained(c))
  BY <1>a DEF RunIsExplained, Explained, Released, Sessions
<1>d. c \in Cancellations
  BY DEF Cancellations
<1>1. CASE UserPrompt
  <2>1. /\ run[c] = "running"
        /\ prompt[c] = "awaiting" => prompt'[c] = "awaiting"
        /\ Released(c) => Released(c)'
        /\ \A d \in Tasks : told[d] = "told" => told'[d] = "told"
    BY <1>1, <1>a, <1>b, <1>c, TaskTreeAssumption DEF UserPrompt, TypeOK, Released, Sessions
  <2>. QED
    BY <1>c, <2>1, ExplainedStays
<1>2. ASSUME NEW s \in Sessions, RunEnds(s)
      PROVE  Explained(c)'
  <2>1. /\ prompt' = Answered(prompt, s) /\ told' = told
        /\ run' = [run EXCEPT ![s] = "idle"]
    BY <1>2 DEF RunEnds
  <2>2. c # s /\ run[c] = "running"
    BY <1>a, <1>b, <1>c, <2>1 DEF TypeOK
  <2>3. prompt'[c] = prompt[c] /\ (Released(c) => Released(c)')
    BY <1>2, <1>a, <2>1, <2>2, AnsweredIs DEF RunEnds, Released
  <2>. QED
    BY <1>c, <2>1, <2>2, <2>3, ExplainedStays
<1>3. ASSUME NEW s \in Sessions, TurnFails(s)
      PROVE  Explained(c)'
  <2>1. run[c] = "running" /\ UNCHANGED <<prompt, told, task>>
    BY <1>3, <1>b DEF TurnFails
  <2>2. RestartsOrStays(c)
    <3>1. Fire(Executing(s)) /\ Executing(s) \in SUBSET Tasks /\ c \in Cancellations
      BY <1>3 DEF TurnFails, Executing, Cancellations
    <3>. QED
      BY <1>a, <3>1, FireEffect
  <2>3. Released(c) => Released(c)'
    BY <2>1, <2>2 DEF Released, RestartsOrStays, Restarts
  <2>. QED
    BY <1>c, <2>1, <2>3, ExplainedStays
<1>4. ASSUME NEW x \in Tasks, Call(x)
      PROVE  Explained(c)'
  <2>1. /\ run[c] = "running"
        /\ prompt[c] = "awaiting" => prompt'[c] = "awaiting"
        /\ Released(c) => Released(c)'
        /\ \A d \in Tasks : told[d] = "told" => told'[d] = "told"
    BY <1>4, <1>a, <1>b, <1>c DEF Call, TypeOK, Released
  <2>. QED
    BY <1>c, <2>1, ExplainedStays
<1>4a. ASSUME NEW x \in Tasks, StartSubtask(x)
      PROVE  Explained(c)'
  <2>1. /\ run[c] = "running"
        /\ prompt[c] = "awaiting" => prompt'[c] = "awaiting"
        /\ Released(c) => Released(c)'
        /\ \A d \in Tasks : told[d] = "told" => told'[d] = "told"
    BY <1>4a, <1>a, <1>b, <1>c DEF StartSubtask, TypeOK, Released, Fresh
  <2>. QED
    BY <1>c, <2>1, ExplainedStays
<1>5. ASSUME NEW x \in Tasks, CallFails(x)
      PROVE  Explained(c)'
  <2>1. /\ run[c] = "running"
        /\ prompt[c] = "awaiting" => prompt'[c] = "awaiting"
        /\ Released(c) => Released(c)'
        /\ \A d \in Tasks : told[d] = "told" => told'[d] = "told"
    BY <1>5, <1>a, <1>b, <1>c DEF CallFails, TypeOK, Released
  <2>. QED
    BY <1>c, <2>1, ExplainedStays
<1>6. ASSUME NEW x \in Tasks, StartBackground(x)
      PROVE  Explained(c)'
  <2>1. /\ run[c] = "running"
        /\ prompt[c] = "awaiting" => prompt'[c] = "awaiting"
        /\ Released(c) => Released(c)'
        /\ \A d \in Tasks : told[d] = "told" => told'[d] = "told"
    BY <1>6, <1>a, <1>b, <1>c DEF StartBackground, TypeOK, Released, Fresh
  <2>. QED
    BY <1>c, <2>1, ExplainedStays
<1>7. ASSUME NEW x \in Tasks, StartForeground(x)
      PROVE  Explained(c)'
  <2>1. /\ run[c] = "running"
        /\ prompt[c] = "awaiting" => prompt'[c] = "awaiting"
        /\ Released(c) => Released(c)'
        /\ \A d \in Tasks : told[d] = "told" => told'[d] = "told"
    BY <1>7, <1>a, <1>b, <1>c DEF StartForeground, TypeOK, Released, Fresh
  <2>. QED
    BY <1>c, <2>1, ExplainedStays
<1>8. ASSUME NEW x \in Tasks, EnsureRunning(x)
      PROVE  Explained(c)'
  <2>1. CASE c = x
    BY <1>8, <1>a, <2>1 DEF EnsureRunning, TypeOK, Explained
  <2>2. CASE c # x
    <3>1. run[c] = "running" /\ prompt'[c] = prompt[c] /\ UNCHANGED <<told, task, cancel>>
      BY <1>8, <1>a, <1>b, <1>c, <2>2 DEF EnsureRunning, TypeOK
    <3>2. Released(c) => Released(c)'
      BY <3>1 DEF Released
    <3>. QED
      BY <1>c, <3>1, <3>2, ExplainedStays
  <2>. QED
    BY <2>1, <2>2
<1>9. ASSUME NEW x \in Tasks, ReturnForeground(x)
      PROVE  Explained(c)'
  <2>1. /\ run[c] = "running"
        /\ prompt[c] = "awaiting" => prompt'[c] = "awaiting"
        /\ Released(c) => Released(c)'
        /\ \A d \in Tasks : told[d] = "told" => told'[d] = "told"
    BY <1>9, <1>a, <1>b, <1>c DEF ReturnForeground, TypeOK, Released
  <2>. QED
    BY <1>c, <2>1, ExplainedStays
<1>10. ASSUME NEW x \in Tasks, SettleJob(x)
      PROVE  Explained(c)'
  <2>1. /\ run[c] = "running"
        /\ prompt[c] = "awaiting" => prompt'[c] = "awaiting"
        /\ Released(c) => Released(c)'
        /\ \A d \in Tasks : told[d] = "told" => told'[d] = "told"
    BY <1>10, <1>a, <1>b, <1>c DEF SettleJob, TypeOK, Released
  <2>. QED
    BY <1>c, <2>1, ExplainedStays
<1>11. ASSUME NEW x \in Tasks, Inject(x)
      PROVE  Explained(c)'
  <2>1. /\ prompt' = prompt /\ (Released(c) => Released(c)')
        /\ \A d \in Tasks : told[d] = "told" => told'[d] = "told"
    BY <1>11, <1>a DEF Inject, TypeOK, Released
  <2>2. CASE run[c] = "running"
    BY <1>c, <2>1, <2>2, ExplainedStays
  <2>3. CASE run[c] # "running"
    <3>1. Parent[x] = c /\ told'[x] = "told"
      BY <1>11, <1>a, <1>b, <1>c, <2>3 DEF Inject, TypeOK
    <3>. QED
      BY <3>1 DEF Explained
  <2>. QED
    BY <2>2, <2>3
<1>12. ASSUME NEW k \in Cancellations, ListJobs(k)
      PROVE  Explained(c)'
  <2>1. run[c] = "running" /\ UNCHANGED <<prompt, told, task>>
    BY <1>12, <1>b DEF ListJobs
  <2>2. Released(c) => Released(c)'
    BY <1>12, <1>a, <1>d, <2>1, ListJobsEffect DEF Goes, Released, RestartsOrStays, Restarts
  <2>. QED
    BY <1>c, <2>1, <2>2, ExplainedStays
<1>13. ASSUME NEW k \in Cancellations, NEW x \in Tasks, CancelJob(k, x)
      PROVE  Explained(c)'
  <2>1. run[c] = "running" /\ UNCHANGED <<told, task>>
    BY <1>13, <1>a, <1>b, CancelJobEffect
  <2>2. prompt[c] = "awaiting" => prompt'[c] = "awaiting" \/ job'[c] = "cancelled"
    BY <1>13, <1>a, CancelJobData
  <2>3. Released(c) => Released(c)'
    BY <1>13, <1>a, <1>d, <2>1, CancelJobEffect DEF Goes, Released, RestartsOrStays, Restarts
  <2>. QED
    BY <1>c, <2>1, <2>2, <2>3, ExplainedStays
<1>14. ASSUME NEW k \in Cancellations, CancelRun(k)
      PROVE  Explained(c)'
  <2>1. told' = told /\ cancel[k].at \in Sessions /\ DOMAIN run = Sessions
    BY <1>14, <1>a, CancelRunEffect, CancelIs DEF TypeOK
  <2>2. cancel[c].at = c
    BY <1>a, <1>d DEF Swept
  <2>3. c # k => RestartsOrStays(c)
    BY <1>14, <1>a, <1>d, CancelRunEffect DEF Goes
  <2>4. CASE Interrupts(k, cancel[k].at)
    <3>1. c # cancel[k].at /\ run[c] = "running"
      BY <1>b, <1>c, <2>1, <2>4 DEF Interrupts
    <3>2. c # k
      BY <2>2, <3>1
    <3>3. CASE c \in Subtasks(cancel[k].at)
      <4>1. task'[c] = "interrupted" /\ cancel'[c].pc = "new"
        BY <2>4, <3>2, <3>3 DEF Interrupts
      <4>. QED
        BY <4>1 DEF Explained, Released
    <3>4. CASE c \notin Subtasks(cancel[k].at)
      <4>1. task'[c] = task[c] /\ prompt'[c] = prompt[c]
        BY <1>a, <2>1, <2>4, <3>1, <3>4, AnswerIs DEF Interrupts
      <4>2. Released(c) => Released(c)'
        BY <2>3, <3>2, <4>1 DEF Released, RestartsOrStays, Restarts
      <4>. QED
        BY <1>c, <2>1, <3>1, <4>1, <4>2, ExplainedStays
    <3>. QED
      BY <3>3, <3>4
  <2>5. CASE run[cancel[k].at] # "running" /\ UNCHANGED <<run, prompt, task>>
    <3>1. run[c] = "running"
      BY <1>b, <2>5
    <3>2. c # k
      BY <2>2, <2>5, <3>1
    <3>3. Released(c) => Released(c)'
      BY <2>3, <2>5, <3>2 DEF Released, RestartsOrStays, Restarts
    <3>. QED
      BY <1>c, <2>1, <2>5, <3>1, <3>3, ExplainedStays
  <2>. QED
    BY <1>14, <1>a, <2>4, <2>5, CancelRunEffect
<1>15. CASE UNCHANGED vars
  <2>1. /\ run[c] = "running"
        /\ prompt[c] = "awaiting" => prompt'[c] = "awaiting"
        /\ Released(c) => Released(c)'
        /\ \A d \in Tasks : told[d] = "told" => told'[d] = "told"
    BY <1>15, <1>a, <1>b, <1>c DEF vars, Released
  <2>. QED
    BY <1>c, <2>1, ExplainedStays
<1>. QED
  BY <1>1, <1>2, <1>3, <1>4, <1>4a, <1>5, <1>6, <1>7,
     <1>8, <1>9, <1>10, <1>11, <1>12, <1>13, <1>14, <1>15
  DEF Next, Session, Task, CancelStep, Cancellations

-----------------------------------------------------------------------------
(* The theorems. *)

LEMMA InvInit == Init => IInv
<1>. SUFFICES ASSUME Init PROVE IInv
  OBVIOUS
<1>1. ASSUME NEW k \in Cancellations
      PROVE  /\ cancel[k] \in Cancel /\ cancel[k].jobs = {} /\ cancel[k].cancelled = {}
             /\ k \in Tasks => cancel[k].at = k
  <2>. DEFINE s == IF k \in Tasks THEN k ELSE Root
              pc == IF k \in Tasks THEN "returned" ELSE "new"
  <2>1. s \in Sessions
    BY DEF Sessions
  <2>2. cancel[k] = [NewCancel(s) EXCEPT !.pc = pc] /\ pc \in {"new", "returned"}
    BY DEF Init, Cancellations
  <2>4. k \in Tasks => s = k
    OBVIOUS
  <2>. HIDE DEF s, pc
  <2>3. cancel[k] = [pc |-> pc, at |-> s, jobs |-> {}, cancelled |-> {}]
    BY <2>2 DEF NewCancel
  <2>. QED
    BY <2>1, <2>2, <2>3, <2>4 DEF Cancel
<1>2. cancel \in [Cancellations -> Cancel]
  BY <1>1 DEF Init, Cancellations
<1>3. TypeOK
  BY <1>2 DEF Init, TypeOK, Cancellations, Over
<1>4. \A c \in Tasks : Fresh(c) /\ Reported(c)
  BY DEF Init, Fresh, Reported
<1>5. AwaitedRuns /\ RunIsExplained
  BY DEF Init, AwaitedRuns, RunIsExplained, Sessions
<1>6. \A k \in Cancellations : Swept(k)
  BY <1>1 DEF Swept
<1>. QED
  BY <1>3, <1>4, <1>5, <1>6 DEF IInv

LEMMA InvNext == IInv /\ [Next]_vars => IInv'
<1>. SUFFICES ASSUME IInv, [Next]_vars PROVE IInv'
  OBVIOUS
<1>1. TypeOK' /\ AwaitedRuns' /\ RunIsExplained'
  BY TypeStep, AwaitedStep, ExplainedStep
<1>2. \A c \in Tasks : Fresh(c)' /\ Reported(c)'
  BY FreshStep, ReportedStep
<1>3. \A k \in Cancellations : Swept(k)'
  BY SweptStep
<1>. QED
  BY <1>1, <1>2, <1>3 DEF IInv

\* Every reachable state satisfies the inductive invariant.
THEOREM Invariant == Spec => []IInv
BY InvInit, InvNext, PTL DEF Spec

\* The runs, tasks, jobs and cancellations keep their ranges.
THEOREM Typing == Spec => []TypeOK
<1>1. IInv => TypeOK
  BY DEF IInv
<1>. QED
  BY <1>1, Invariant, PTL

\* The jobs below a session are among those that a returned cancellation has
\* cancelled: its own are closed under what Below closes.
LEMMA SweptIsBelow ==
  ASSUME IInv, NEW k \in Cancellations, cancel[k].pc = "returned"
  PROVE  Below(cancel[k].at, cancel[k].jobs) \subseteq cancel[k].cancelled
<1>. DEFINE s == cancel[k].at
            J == cancel[k].jobs
            R == cancel[k].cancelled
<1>1. R \in SUBSET J
  BY DEF IInv, Swept
<1>2. \A d \in J : d = s \/ Parent[d] \in {s} \cup R => d \in R
  BY DEF IInv, Swept
<1>. HIDE DEF s, J, R
<1>3. ASSUME NEW c \in Below(s, J) PROVE c \in R
  BY <1>1, <1>2 DEF Below
<1>. QED
  BY <1>3 DEF s, J, R

\* A cancellation that has returned has left no job running that ran below its
\* session when it read the table of jobs (cancelBackgroundJobs), however deep the
\* tree, whatever settled or was started meanwhile, and however many cancellations
\* of the same sessions interleave with it.
THEOREM TreesAreCancelled == Spec => []TreeIsCancelled
<1>1. IInv => TreeIsCancelled
  <2>. SUFFICES ASSUME IInv, NEW k \in Cancellations, cancel[k].pc = "returned",
                       NEW c \in Below(cancel[k].at, cancel[k].jobs)
                PROVE  job[c] # "running"
    BY DEF TreeIsCancelled, Cancellations
  <2>1. c \in cancel[k].cancelled
    BY SweptIsBelow
  <2>. QED
    BY <2>1 DEF IInv, Swept, Over
<1>. QED
  BY <1>1, Invariant, PTL

\* The run of a child session is awaited by the prompt that started it, was left
\* by the cancellation of its job, is about to be cancelled by the release of an
\* interrupted subtask, or was woken by the result of a task of its own: no abort, failed turn or cancellation leaves another one behind.
THEOREM RunsAreExplained == Spec => []RunIsExplained
<1>1. IInv => RunIsExplained
  BY DEF IInv
<1>. QED
  BY <1>1, Invariant, PTL

\* A prompt never waits for a run that has ended: whatever ends the run of a child,
\* its loop, an abort or a cancellation, answers the prompt in the same step.
THEOREM NobodyAwaitsIdle == Spec => []AwaitedRuns
<1>1. IInv => AwaitedRuns
  BY DEF IInv
<1>. QED
  BY <1>1, Invariant, PTL

\* The parent is told only of a task whose job ended by itself, and the fiber that
\* stays silent does so about a job that was cancelled; no fiber waits for a job
\* that was never started.
ReportsAreRight == \A c \in Tasks : Reported(c)
THEOREM ReportsAreSound == Spec => []ReportsAreRight
<1>1. IInv => ReportsAreRight
  BY DEF IInv, ReportsAreRight
<1>. QED
  BY <1>1, Invariant, PTL

=============================================================================
