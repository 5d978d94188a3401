# Verification of OpenLegion

TLA+ modules of the concurrent core of OpenLegion, model-checked with TLC on small
instances, with theorems checked by TLAPS for every value of the constants. Paths
are relative to the repository's root; `openlegion/` stands for
`packages/openlegion/src/`, `core/` for `packages/core/src/`.

    tlc -workers 2 -config MCSessionRunner.cfg MCSessionRunner.tla
    tlapm SessionRunnerProofs.tla

`PROJECT.json` lists the components, the runs, a mutant of the code for every
checked property, the lines of code each definition models, the hazards, the
findings and the theorems.

## 1. The system

OpenLegion is a coding agent: a server keeps *sessions* (conversations with a
language model that calls tools) of *directories*, each served by an *instance*. The
server is written with Effect fibers on one JavaScript thread, so what interleaves is
code between suspensions (`yield*` of something not ready, `await`). A control plane
may move sessions to other *workspaces* (other servers), and a Go daemon runs VMs
and containers.

| Component | State | Operations | Hard part | What makes it correct |
|---|---|---|---|---|
| Session run arbitration (`openlegion/effect/runner.ts`, `session/run-state.ts`, `session/status.ts`) | a Runner per session (Idle, Running, Shell, ShellThenRun), the session-to-Runner map, the status | `ensureRunning`, `startShell`, `cancel`, `assertNotBusy` | callers join, queue and cancel while fibers end or run finalizers; a canceller may go away | one owner per live fiber, no caller forgotten, cancelled means over, idle at rest |
| Background jobs (`openlegion/background/job.ts`) | table of jobs: token, pending count, next output, done Deferred, Scope | `start`, `extend`, `wait`, `cancel`, settling of fibers | settlements of old generations, extension while the last fiber settles, cancel outside the critical section | the count is right, ends are final, output is the latest extension's |
| Event log and workspace sync (`core/event.ts`, `openlegion/control-plane/workspace.ts`, `server/.../handlers/sync.ts`, `server/shared/fence.ts`) | each server's log of a session (sequence row, owner, events); the fiber that follows a workspace; warps | publish, replay, claim, history; connect, follow, reconnect; `sessionWarp`; fence of proxied requests | several servers, lost streams and answers, duplicate events, two writers | logs whole and genuine, the copy follows, an answer is visible |
| Instance store (`openlegion/project/instance-store.ts`, `effect/instance-state.ts`, `effect/instance-registry.ts`) | directory-to-entry map, boot fibers, per-directory services | `load`, `reload`, `dispose`, `disposeDirectory`, `disposeAll` | reload of a booting instance, failed boots, disposals that find a replaced entry | one boot at a time, a booting instance keeps its services, everybody is answered |
| Permission gate (`openlegion/permission/index.ts`) | table of pending requests with their Deferreds, approved rules | `ask`, `reply` once/always/reject, interruption, disposal | the reply publishes between taking a request out and completing it, and goes on to others of the session | every asker can be answered, once; a rejection and an "always" reach all they must |
| Session processor, one turn (`openlegion/session/processor.ts`, `tools.ts`, `retry.ts`) | the parts of the tool calls, the registry of calls, the loop's context | events of the stream, metadata, completion by a tool, retry, abort, cleanup | the loop's fiber and a fiber per tool write the same parts; nothing stops a tool | a call is settled by its tool or its loss is explained; a rejection stops; an abort returns |
| Task tree (`openlegion/tool/task.ts`, `session/run-state.ts`) | child sessions and their runs, background jobs, abort signals | call of the tool, foreground and background, result injection, cancel, abort listener | cancelling a tree while it grows, settles and is cancelled by others | nothing listed below a cancelled session goes on, results are told |
| Micro-VM daemon (`internal/daemon/server.go`, `internal/engine/qemu_sandbox.go`) | a record per machine on disk, QEMU processes | list, create, start, stop, delete | every request is a goroutine that reads, acts and writes back; clients leave, the daemon ends | a running machine has a record, a stopped one is stopped |

Interactions. A prompt gets an instance (instance store), asks the session's Runner to
run the loop (run arbitration), whose turns (processor) execute tool calls that ask for
permission and may start background jobs that run child sessions (task tree). Everything
the loop does is published as events into the log, which other servers follow (sync). A
request for a session that lives elsewhere is proxied and its answer waits at a fence
for the log. Disposing an instance closes the Scopes of its services: Runners, jobs,
gates.

Not modelled:

- the question gate (`question/index.ts`): the permission gate's table without rules
  and without the loop over the session's other requests;
- the prompt loop across turns, compaction and revert: a loop is one fiber in
  `SessionRunner` and one run in `TaskTree`, its turns are data about messages;
- MCP and LSP clients (protocol I/O with external servers), snapshots, worktrees and
  VCS (sequences of git commands), session store and projections (rows written by
  the events), share, storage, plugins, providers, HTTP routes, CLI, container
  sessions (a client of the daemon);
- the `llm` package's wire formats, terminals, all user interfaces, infrastructure:
  most of the repository's lines, and rendering, formatting or deployment without
  concurrent state.

## 2. The plan

Written, in this order: `SessionRunner`, `BackgroundJobs`, `EventStore` with
`FollowedLog` and `WorkspaceSync`, `InstanceStore`, `PermissionGate` and `Permission`,
`ToolTurn`, `TaskTree`, `VmDaemon`, and a proof module for each of the eight
specifications (`FollowedLog` and `PermissionGate` are what two of them implement).

    SessionRunner    BackgroundJobs     InstanceStore    VmDaemon
          :                :
          : promises       : promises        EventStore   FollowedLog
          +----> TaskTree <+                     |             ^
                                                 v   refines   |
    PermissionGate <--- refines --- Permission   WorkspaceSync +
          |
          +--- extended by ---> ToolTurn

Next:

1. `EventsAreGenuine` and `LogIsWhole` say what holds of forked logs; what still holds
   of their order after a warp (`OneOrder` up to the first two writers) as an
   invariant, and then a theorem.
2. The disposal of an instance's Runners (`run-state.ts:39-47`) in `SessionRunner`,
   composed with the order in which `InstanceStore` closes services; revert against
   `assertNotBusy`; the question gate as a second refinement of `PermissionGate`.
3. That `TaskTree`'s view of a run and of a job is what `SessionRunner` and
   `BackgroundJobs` promise, as refinements.

## 3. The modules and the code

Common conventions. A step is the code from one suspension to the next, the whole of
it: listeners of the status and of `onIdle` are synchronous and belong to the step. A
fork with `startImmediately` starts in the step. The names of calls (constants) name
what the calls make: fibers, Deferreds, tokens, entries. Operators marked `Mutant` are
plausible bugs, used in no specification.

**SessionRunner** - one session. `state[r]` is the SynchronizedRef of Runner `r`,
`current` the session's entry of the map, `home[c]` the Runner that call `c` was
given, `fiber`/`done`/`ready` the fibers, Deferreds and the shell's latch, `waitsOn`
what a caller waits for, `cancel[k]` a cancellation and what it took out of the
state. `EnsureRunning` is `runner` + `ensureRunning` with its three cases (join, queue
behind a shell, start); `StartShell`, `CancelIdle`/`CancelBusy`/`StopShell`/
`CancelReturn` the other entry points; `FinishRun`/`FinishShell` the finalizers;
`LoopTurn`/`LoopHalt` the writes of the loop to the status. A handler interrupted by
a closed request is `AbandonShell`/`AbandonCancel`.

**BackgroundJobs** - one job id of one directory. `job` is the Active record, `fiber[f]`
the fibers of all generations, `done[t]` the Deferred of a generation. `Settle` is one
critical section with its three cases (stale, not the last, the last), `Start`,
`Extend`, `Wait*`, `Cancel*` the operations; closing a Scope interrupts the group's
fibers. `Dispose` is the end of the instance: its table is gone with the fibers' Scope,
what settles later finds the table of the next instance, and `lost` names the
generations whose Deferred nobody completes.

**EventStore** - one server's log of a session: `commitSyncEvent`, `publish`,
`replay`, `claim`, `history` as operators on a record `[seq, owner, rows]`, with the
cases duplicate, foreign owner, gap (a defect), insert. An event is its number, its
publisher and the place it says the session is at. **FollowedLog** is the promise of
following. **WorkspaceSync** composes the logs of the control plane and of the
workspaces with `syncWorkspaceLoop`/`connectSSE` (`Connect` ... `Retry`),
`syncHistory` (`Asked`, `History*`), `sessionWarp` in its suspensions (`Warp*`), a
running loop in each place (`Work`), and one proxied request with its fence. A stream is
`streaming`, and carries the events of type `sync` that the code replays
(`workspace.ts:436`), as the tests of this function serve it, or `quiet`, and carries
none, as the servers of this repository send it; `Streams` says which there are.

**InstanceStore** - one directory and one service in place of all. `cache` is the map's
entry, `fiber[c]` the boot fiber of the entry that call `c` made, `result` its Deferred,
`previous` what a reload replaced, `service` the context the service was made for.
`LoadNew`/`LoadExisting`, `Reload` and then the fiber's `ReloadDisposes`, `ReloadBoots`,
`BootService`, `BootSucceeds`/`BootFails`; `Dispose`, `DisposeAwaited`, `DisposeClosed`
are `dispose`, `disposeDirectory` and one item of `disposeAll`, `DisposeAbandon` a
handler that is interrupted; `UseService` is `InstanceState.get` under a context.

**PermissionGate** is what a caller of `ask` is promised: a decision of the rules, or
one answer, for good, and that one it is told. **Permission** is the table behind it:
`pending` gives each request its place in the insertion-ordered Map, `reply[r].held`
is the request a reply has taken out and will complete after its event is published,
`at` how far its loop over the table has come. `Decide`/`Enter` are the two outcomes
of `ask`, `Await`, `Settle`, `InterruptAsk` its wait; `Take`/`NotFound` begin a reply,
`Complete` completes what it holds and takes the next request it matches,
`InterruptReply` leaves the rest undone; `Dispose` is the finalizer of the state.
`ImplementsGate` is the refinement; publication is part of waiting there.

**ToolTurn** - `process` over one assistant message. It EXTENDS `PermissionGate`, so a
tool's question and the doom-loop question of the loop are requests of that gate, and
what `Permission` shows of it holds for them. `part` is the stored status of each
call's part, `registered` is `ctx.toolcalls`, `next` the event of a call the stream
has still to give, `cut` the calls whose abort signal was set. The loop's fiber:
`InputStart`/`Register`, `ToolCall`, `DoomDecided`, `ToolEnd`/`EndSettle` are
`handleEvent`; `StreamEnds`, `StreamFails`, `Retry`, `Abort` the ways the stream ends (it may end with
calls whose input has begun and that were never called: cleanup marks them);
`AwaitDone`, `SweepRead`, `SweepWrite`, `Return` the cleanup. The fiber of a call:
`Execute`, `StartAsk`/`Asked`, `MetadataRead`/`MetadataWrite`, `ToolDone` and the
completion it does itself when its signal is set (`Complete*`).

**TaskTree** - the sessions below one session. `run[s]` is a Runner as
`SessionRunner` shows it, `job[c]` a job as `BackgroundJobs` does; `task`, `signal`,
`prompt`, `told` are the tool call, its abort signal, its prompt of the child session
and the fiber that injects a background result. `ListJobs`, `CancelJob`, `CancelRun` are
`cancelBackgroundJobs` and `RunState.cancel`, by the user or by an abort listener.
`StartSubtask` is the task that a command of the user starts in the prompt loop
(`handleSubtask`): its fiber is interrupted with the loop's run, and the release of the
tool then cancels the child (`task.ts:302-304`).

**VmDaemon** - desktop machines. `record[m]` is what `vm.json` names, `live[m]` the
QEMU processes, `h[x]` a request being served: the place it has reached, the pid it
read and the pid it is to write. `Find` reads, `Refresh` is `refreshQemuStatus`,
`Launch`/`LaunchFails` `startQemu`, `Terminate`/`Poll`/`Deadline` `stopPID`,
`Open`, `Filled`/`Dropped`/`Broken` and `WriteFails` the writing of `vm.json`, which
`os.WriteFile` empties before it fills it (a record that cannot be read is `Bare`),
`Remove` the end of a Delete; `Exit` and `Crash` are the machine's and the daemon's.
`strays` is a history variable of the known losses.

**MC\*** give values and symmetry; **\*Proofs** hold the proofs.

## 4. The runs

| Run | Instance | Distinct states | What it shows |
|---|---|---|---|
| `session_runner` | 2 loops, 1 shell, 2 cancellations | 39,864 | `TypeOK`, `UnstoppedIsOwned`, `NoForgottenCaller`, `CancelledIsOver`, `RestIsIdle`, `OneAtATime`; live: `CancelReturns`, `CallersAnswered` |
| `session_runner_orphan` | 3 loops, 1 shell, 1 cancellation | violation | finding 1 |
| `background_jobs` | 2 starts, 2 extends, 1 wait, 1 cancel, 1 disposal | 422,160 | `CompletedIsWhole`, `CancelledHasStopped`, `OneGeneration`, `OverIsFinal`; live: `WaitersAnswered`, `CancelReturns` |
| `sync_follow` | 1 workspace, no warp, streams of both kinds, numbers to 3 | 2,291 | `Followed` (refinement of FollowedLog), `AnsweredIsVisible`, `CatchesUp` |
| `sync_warp` | 2 workspaces, 2 warps, numbers to 1 before the warps' own, streams of sync events | 2,386,159 | `TypeOK`, `LogIsWhole`, `EventsAreGenuine`, `NoGapIsMet`, `ClaimFences` |
| `sync_fork` | 1 workspace, 1 warp from the control plane, quiet streams | violation | finding 2 |
| `sync_owner` | 2 workspaces, 1 warp between them, quiet streams | violation | finding 3 |
| `instance_store` | 1 load, 2 reloads, 1 disposal | 114,630 | `TypeOK`, `OneBoot`, `BootKeepsService`; live: `EveryoneReturns` |
| `permission` | 3 requests of a session, 2 replies, 1 disposal | 97,815 | `NoForgottenAsk`, `RejectionIsWhole`, `AlwaysReaches`, `ImplementsGate` (refinement of PermissionGate) |
| `tool_turn` | 2 calls, one asks and one is a doom loop, 1 retry | 1,324,274 | `UncutIsSettled`, `UnsettledIsExplained`, `RejectStops`; live: `AbortReturns` |
| `task_tree` | a task, which may be a subtask, and a task of it, 2 cancellations by the user | 121,259 | `TreeIsCancelled`, `RunIsExplained`; live: `AbortStops`, `ResultsAreTold` |
| `vm_daemon` | 1 machine, 2 requests at a time, 3 starts of QEMU, 1 end of the daemon | 148,131 | `LossIsExplained`; live: `StopStops` |

Why the bounds are enough. Two loops, a shell and two cancellations let a run queue
behind a shell, a shell start while an older fiber is in its finalizers, and
cancellations overlap; with three loops and two shells (572,366 states) the safety
invariants hold as well, and they are proved. Two generations of a job with two
extensions let a stale settlement, a failed member and a late extension meet, and the
disposal may come at every point of it. Two warps of a session between three places
cover a warp back, a warp to where the session is and two warps at once; a quiet stream
is, to the logs, one of which nothing arrives before it ends, so the run with streams of
sync events covers it; `MaxSeq` bounds ordinary work, the warps' own
events come on top. A reload of a reload with a load and a disposal is the longest
chain in which each step has a different rival. Three requests and two replies are
what it takes for two "always" answers that only together allow a third request, and
for a request that enters the table behind a rejection's loop. In a turn, one call
that asks and one that repeats itself meet every way the loop and a tool can be
stopped, and one retry leaves a call of the failed attempt behind in the next. A task
of a task shows the walk down the list, with two cancellations that share its work. Of
a machine, two requests at a time, of any number that follow one another, allow a Stop
and a Start between another request's read and its write, and writes that overlap; the
second and third starts of QEMU meet the records of those before. Larger instances ran without error as well: one warp with numbers to 3 (1.9
million states); a load, two reloads and two disposals (694,176 states with symmetry).
`CHECK_DEADLOCK FALSE` everywhere: clients may stop calling, and then nothing is left
to do.

Every module has a type invariant. It is an invariant of a run in `SessionRunner`,
`WorkspaceSync` and `InstanceStore`, and a theorem of all eight specifications.

Fairness. Weak fairness of what the runtime schedules by itself: finalizers of
interrupted fibers, the opening of a latch, the resumption of whoever awaits a completed
Deferred, answers (or failures) of network requests that time out, the reconnection
timer; the cleanup of an interrupted turn, which cannot be interrupted itself; the
listener of an abort signal and the fiber that waits for a job's end in the task tree; a
goroutine that serves a request (its polling has a deadline). No fairness for: work of a
loop, shell, job, tool or boot, which may never end; a caller's or the user's decision;
the model's stream; a guest's exit; the success of a connection. Where a liveness
property needs work to end (`WorkEnds`), a stream to stay up or connections to be made
again and again (`CatchesUp`), it says so itself.

## 5. What the models disagree with

1. *A running loop in a session that is not busy* (`run-state.ts:61`, run
   `session_runner_orphan`). `onIdle` deletes the session's entry whichever Runner is
   in it. A cancel leaves its Runner idle in the map until the old fiber has exited;
   a prompt reuses it and ends (the entry goes), the next prompt makes a new Runner,
   and then the cancel's own `idleIfCurrent` deletes the new Runner's entry.
   `assertNotBusy` then succeeds while the loop runs.
2. *Two writers after a warp from the project's own directory*
   (`workspace.ts:616-632`, run `sync_fork`). Only a loop on a local workspace is
   cancelled; a loop on the control plane itself writes on under numbers the target
   also uses, against `openlegion/sync/README.md:33`.
3. *The new owner is ignored too* (`workspace.ts:633-635`, run `sync_owner`). No
   caller of `replay` passes an `ownerID`, so after the claim the control plane
   drops the events of the workspace it gave the log to, in histories as in streams.

The runs of findings 2 and 3 have quiet streams only, so their traces are possible
between servers of this repository.

Seen on the way and modelled as the code does it; a property that one of these would
break names it as its exception:

- Runs. A canceller that goes away while it waits for a shell drops the queued run it
  took, whose callers wait for ever (`AbandonCancel`, `Dropped` in
  `NoForgottenCaller`).
- Jobs. Disposing an instance interrupts its running jobs, whose settlement then finds
  the table of the next instance: a `wait` without a timeout that began before is never
  answered (`lost` in `WaitersAnswered`).
- Instances. A load during a disposal joins the instance being closed. A request that
  still holds the context of a disposed instance makes the directory's services again
  (`instance-state.ts:55`), which the next disposal closes.
- Permission. A reply that is interrupted while it publishes has taken its request out
  of the table and completes it no more (`InterruptReply`). A call of `ask` that is
  interrupted while it publishes leaves its request behind, to be listed and answered.
- Turns. Nothing interrupts a tool: the question of an aborted turn's tool stays in the
  table, and a late answer lets the tool go on. A metadata update that read the part
  before cleanup writes it back as running after it. A part inserted for a call that an
  abort keeps from being registered stays pending. A rejection in a step that has
  overflowed the context answers "compact", and the loop goes on.
- Tasks. Cancelling a background task interrupts the fiber that waits for the child's
  run, not the run (`RunIsExplained`); the tests of it look at the status of the jobs.
  A job started after the list was read is not cancelled, nor one below a task that is
  in the foreground or has settled; the abort of a foreground task is what reaches
  further (`AbortStops`). A listener attached after its signal has fired never runs, and
  a cancellation that comes before the child's run has begun finds it idle.
- Machines. The engine's mutex is never taken: List, Stop and Delete may write over, or
  remove, the record of a process a Start has just made. Start does not stop what it
  could not record, as Create does. Stop of a process that has ended fails and leaves
  the record. `writeQemuRecord` writes `vm.json` in place: a write that fails after the
  file was emptied (List ignores that, `:186`), two writes at once, or the daemon's end
  between the two leave a file that cannot be read, which `findRecord` and List skip
  while the machine runs (`LossIsExplained` names each of these).
- Sync. No server code emits the events of type `sync` that the consumer of the stream
  replays, so between servers of this repository the control plane gets a workspace's
  events by the histories of its reconnections only, however long a stream lasts.

## 6. The proofs

Each proof module states an inductive invariant `IInv`, proves `Init => IInv` and
`IInv /\ [Next]_vars => IInv'` by one lemma per action, or per kind of effect that an
action has, and the theorems follow. TLC checked each `IInv` on the instances of the
runs before it was proved. Obligations are checked by SMT, Zenon and, for the temporal
steps, LS4. Every safety property that a passing run checks is a theorem.
Updates of several fields of one entry are written `![x] = [@ EXCEPT !.a = ..., !.b =
...]`: under a disjunction tlapm 1.4.5 takes `![x].a = ..., ![x].b = ...` for less than it
says, and accepts steps that do not follow.

**SessionRunnerProofs** (654 obligations): `Typing`, `OwnershipHolds`,
`NobodyIsForgotten`, `CancellationIsOver`, `RestReportsIdle`, `RunsOneAtATime`, for any
sets of loops, shells and cancellations. Assumption: the sets of calls are disjoint
and have no `None`. The five safety invariants are not inductive alone: `RestIsIdle`
needs to know that somebody is still to report idle (`IdleIsComing`),
`CancelledIsOver` that what a canceller took is in no Runner's state (`CancelOK`), and
ownership that the handles in a state name live fibers of that Runner (`HandleOK`).

**WorkspaceSyncProofs** (1,799 obligations): `Typing`, `WholeLogs`, `GenuineEvents`,
`NoGaps`, `ClaimIsFence`, `AnswersAreVisible`, `OrderUntilWarp`, `CopyFollows`, for any
workspaces, warps and kinds of stream and any `MaxSeq`. The argument of `NoGaps`: what a history, stream
or batch carries *covers* the log it goes to - between the log's number and any event's
number nothing lacks in it - and from the moment the history is answered everything the
control plane lacks of a workspace is in that answer or in the stream
(`NothingIsMissed`), because the stream was opened first. A log with an owner takes no
replays, so only an unowned one has to be covered.

The last three theorems (`CopyFollows` is the refinement `Followed`) hold until a warp
begins (`Unwarped`), and only until then: TLC finds a fence that opens on another
event of its number, the attach of a warp that could not fetch the last history. Their
invariant is `Alone`: until a warp begins only the place where the session was created
publishes, and every request goes there. With it a genuine event is in that place's log,
wherever it is met. The logs are whole, so a number has one event (`AnswersAreVisible`,
and `OrderUntilWarp`: finding 2 needs a warp), and the control plane's log read as a
sequence grows by the very entry that the workspace's has next (`InsertAppends`,
`SequenceOf`). `CopyFollows` assumes that the session was created in a workspace: for
one created on the control plane there is nothing to follow.

**InstanceStoreProofs** (312 obligations): `Typing`, `BootsOneAtATime`,
`BootingKeepsService`, `DisposedLeaves`, `PendingKeepsPlace`, for any finite sets of
loads and reloads (finiteness is assumed) and any disposals. That the pending entries
form one queue is counted rather than ordered: every pending entry outside the map
is awaited by the reload that replaced it, which gives an injection into the pending
entries that wait for another; hence at most one waits for none (`FrontIsOne`), and
none does if the map's entry is not pending. Only such a front boots or disposes.

**PermissionProofs** (1,756 obligations): `Typing`, `NobodyIsForgotten`, `HeldByOne`,
`RejectionTakesAll`, `AlwaysReachesAll`, and `RefinesGate`: `Permission` implements
`PermissionGate`, for any requests, sessions, rules and replies and any bound on
disposals. Who will answer is exclusive: an unanswered request that waits is in the
table, in one reply's hands, or lost with an interrupted one (`Held`, `HeldOnce`,
`Open`). What a loop over the table has done is said by places: they grow, a request's
place never changes while it is in the table (`Fresh`, `Places`), so everything of the
session that was in the table when a rejection began is at a place its loop has passed
and gone, or still ahead of it (`Reached`, `Swept`). For "always" the invariant adds
that what the live answers have added is approved (`AddedApproved`), so that whichever
loop comes last sees the rules of both.

**BackgroundJobsProofs** (1,341 obligations): `Typing`, `CountIsRight`,
`DeferredTellsJob`, `CompletedJobIsWhole`, `CancelIsOver`, `GenerationsAreApart`,
`OverStays`, for any finite sets of starts and extensions, any waits and cancellations
and any bound on disposals. `Owned` says that a fiber that runs belongs to the
generation in the table, and that this one is running: whatever ends a generation has
interrupted its fibers. So the number of running fibers is `pending` (`Counted`, by
finiteness), and when the last one succeeds every other of the group has succeeded
before it and the output kept is the latest extension's (`GroupOK`), which is
`CompletedIsWhole`. What a cancellation took does not run any more (`CancelOK`), and it
returns after its Scope has closed.

**ToolTurnProofs** (1,245 obligations): `Typing`, `UncutCallsAreSettled`,
`UnsettledCallsAreExplained`, `RejectionsStop`, `TurnKeepsGate`, for any calls, requests
and number of retries, with `ShouldBreak` either way. Assumption: a request of the gate
belongs to one question of one call. The properties speak of the turn that has
returned; the invariant follows a call through the two fibers that write its part. As
long as it is not cut off, the next event of the stream says what is stored of it
(`Uncut`: absent, then pending or running and registered, then running, then settled
with its tool's result and noted if it was a rejection), one that was never executed
waits for cleanup's mark, and the loop's fiber cannot pause
between two of its events. That late metadata does no harm is the conjunct on `seen`: what
the metadata write puts back was read while the part was pending or running, and the
tool ends only after it. Of a call that is cut off, cleanup has it still before it as
long as it is pending or running with an idle fiber (`Listed`). `TurnKeepsGate` makes
the theorems on `PermissionGate` hold of the questions that a turn asks.

**TaskTreeProofs** (1,100 obligations): `Typing`, `TreesAreCancelled`, `RunsAreExplained`,
`NobodyAwaitsIdle`, `ReportsAreSound`, for any tree of finitely many
tasks and any cancellations. A cancellation works on a list it read once, while the jobs
of the list settle or are cancelled by others. What it has cancelled was on the list
and is over (`Swept`), and over is for good, because the model starts a child's task
once (`JobsStayOver`; section 7); when nothing of the list matches any more, its
`cancelled` holds every job of the list that its session or a job in it started. `Below` is the least set of
that kind, so it is within `cancelled` (`SweptIsBelow`), however deep the tree is.
`RunsAreExplained` needs that who waits for a run waits for one that goes on
(`AwaitedRuns`), an interrupted subtask through the cancel of its release.

**VmDaemonProofs** (1,800 obligations): `Typing`, `LossesAreExplained`, `CreateIsAlone`,
for any machines, requests, starts of QEMU and ends of the daemon.
`LossIsExplained` is not inductive: a write or a removal by a request that acts on what
it read long ago could lose a machine. It does not because such a request has seen the
end of the process it read (`Progress`: whoever is to launch, write, fill or remove,
except List, which writes down the process it found), processes are numbered in the
order of their starts and an ended one does not come back (`Numbered`, `EndedStays`): so
a process that runs and whose record goes was started in between, which is the event
that `strays` notes. While a request has emptied the file and not filled it, it carries
the process that the file is to name (`Holds`). Create has its machine for itself (`CreateAlone`).

Model-checked only: liveness, with the fairness above, which is out of the prover's
reach: `CancelReturns`, `CallersAnswered`, `WaitersAnswered`, `CatchesUp`,
`EveryoneReturns`, `AbortReturns`, `AbortStops`, `ResultsAreTold`, `StopStops`.

## 7. What the models leave out

- SessionRunner: what a loop does within a turn (`ToolTurn`); the disposal of an
  instance, which interrupts the runs and then cancels every Runner. A shell's fiber is
  taken as begun when its handle is in the state: `forkChild` (`runner.ts:151`) lets it
  begin one tick of the scheduler later, and a caller that goes away within that tick
  would leave a shell without finalizers, whose latch (`runner.ts:110`) nobody opens.
- BackgroundJobs: several ids (they share nothing), job listing.
- WorkspaceSync: a database transaction is one step; removal of sessions and
  workspaces, creation of workspaces, the patch a warp may copy, local workspaces,
  subscribers. One session (logs of different sessions are independent).
- InstanceStore: several services of one directory booting at once, `disposeAll`'s
  sharing of one execution between its callers, the shutdown of the store. Services
  are dropped at the beginning of a disposer, as `ScopedCache.invalidate` does, and
  their finalizers take until the end of it.
- Permission: wildcard matching (a pattern matches itself), the content of requests and
  of corrections; one instance's table at a time, an old reply keeps the old table.
- ToolTurn: text, reasoning, snapshots and metadata of the message; tools the provider
  runs, MCP tools; the 250 ms are a time that may always be over.
- TaskTree: `task_id`, a second call for a child that exists, which starts the child's
  job again under the same id (`task.ts:256`): a job that is over stays over only as
  long as no such call is made; a user who prompts a
  child session; the removal of a session; what `SessionRunner` and `BackgroundJobs`
  show is one step here.
- VmDaemon: container engines, ports and memory limits, the display bridge and its
  tokens, reuse of a pid by the system; that QEMU's own locks let one process of a
  machine run is the environment's.
