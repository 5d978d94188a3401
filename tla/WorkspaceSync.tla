--------------------------- MODULE WorkspaceSync ---------------------------
(***************************************************************************)
(* One session kept by a control plane and its remote workspaces.           *)
(*                                                                         *)
(* The control plane follows each workspace: it opens the workspace's event *)
(* stream, asks for the history it lacks, replays it, then replays what the *)
(* stream brings, and starts again when the stream ends                    *)
(* (control-plane/workspace.ts).  A warp moves the session to another place *)
(* by replaying its log there.  Requests about the session are proxied to   *)
(* the place it lives in, and the proxy holds back the answer until the     *)
(* control plane's log has come as far as the workspace's (shared/fence.ts).*)
(*                                                                         *)
(* Atomicity.  A database transaction is one step, and so is a handler that *)
(* runs between two awaits of the network.  A request and its answer are    *)
(* separate steps wherever something else can happen between them.          *)
(***************************************************************************)
EXTENDS EventStore, FiniteSets

CONSTANTS
  Warps,     \* calls of sessionWarp
  Start,     \* the node where the session is created
  Streams,   \* what the streams of the workspaces may be: "streaming" or "quiet"
  MaxSeq     \* bound: nobody works on the session beyond this number

ASSUME SyncAssumption ==
  /\ Warps \cap Workspaces = {}
  /\ Start \in Nodes
  /\ Streams \subseteq {"streaming", "quiet"}
  /\ MaxSeq \in Nat

VARIABLES
  store,   \* store[n]: the session's event log in the database of node n
  loop,    \* loop[n]: a prompt loop of the session runs at node n
  link,    \* link[w]: where the fiber of syncWorkspaceLoop is
  status,  \* status[w]: connections.get(w)
  pipe,    \* pipe[w]: events sent on w's stream and not yet received
  fetch,   \* fetch[f]: the syncHistory of a workspace's fiber or of a warp
  warp,    \* warp[k]: a sessionWarp in progress
  fence    \* a proxied request that waits for the control plane to catch up

vars == <<store, loop, link, status, pipe, fetch, warp, fence>>

Fetchers == Workspaces \cup Warps

FetchState ==
  [pc    : {"idle", "asked", "replaying", "done", "failed", "died"},
   from  : Workspaces \cup {None},
   known : Nat \cup {-1},
   rows  : SUBSET Row]

WarpState ==
  [pc   : {"new", "source", "read", "post", "attach", "done", "failed"},
   to   : Nodes \cup {None},
   rows : SUBSET Row]

FenceState ==
  [pc : {"none", "waiting", "ok", "timeout"}, ws : Workspaces \cup {None}, seq : Nat]

NoFetch == [pc |-> "idle", from |-> None, known |-> -1, rows |-> {}]
NewWarp == [pc |-> "new", to |-> None, rows |-> {}]
NoFence == [pc |-> "none", ws |-> None, seq |-> 0]

Created == [seq |-> 0, by |-> Start, to |-> Start]

Has(n) == store[n].seq >= 0

\* Where a request about the session goes: to the place its row names, or, when the
\* session is unknown here, to the workspace that the request names.
Route == IF Has(Control) THEN PlaceOf(store[Control]) ELSE Start

\* isSyncing
Syncing(w) == link[w] # "off" /\ status[w] # "error"

\* What publish does at node n, and what it sends on n's stream.
Publish(n, to) ==
  /\ store' = [store EXCEPT ![n] = Published(@, n, to)]
  /\ pipe' = IF n \in Workspaces /\ link[n] \in {"fetching", "streaming"}
             THEN [pipe EXCEPT ![n] = @ \cup {NewRow(store[n], n, to)}]
             ELSE pipe

-----------------------------------------------------------------------------
Init ==
  /\ store = [n \in Nodes |-> IF n = Start THEN Insert(Empty, Created, None) ELSE Empty]
  /\ loop = [n \in Nodes |-> FALSE]
  /\ link = [w \in Workspaces |-> "off"]
  /\ status = [w \in Workspaces |-> "none"]
  /\ pipe = [w \in Workspaces |-> {}]
  /\ fetch = [f \in Fetchers |-> NoFetch]
  /\ warp = [k \in Warps |-> NewWarp]
  /\ fence = NoFence

-----------------------------------------------------------------------------
(* The users of the session *)

\* A prompt for a session that lives on the control plane.
PromptHere ==
  /\ Has(Control)
  /\ Route = Control
  /\ loop' = [loop EXCEPT ![Control] = TRUE]
  /\ UNCHANGED <<store, link, status, pipe, fetch, warp, fence>>

\* A request proxied to workspace w changes the session, and may leave a loop
\* running; its answer says how far w's log has come.
Ask(w) ==
  /\ Route = w
  /\ Syncing(w)
  /\ Has(w)
  /\ fence.pc # "waiting"
  /\ store[w].seq < MaxSeq
  /\ Publish(w, PlaceOf(store[w]))
  /\ loop' \in {loop, [loop EXCEPT ![w] = TRUE]}
  /\ fence' = [pc |-> "waiting", ws |-> w, seq |-> store[w].seq + 1]
  /\ UNCHANGED <<link, status, fetch, warp>>

\* A running loop touches the session.
Work(n) ==
  /\ loop[n]
  /\ store[n].seq < MaxSeq
  /\ Publish(n, PlaceOf(store[n]))
  /\ UNCHANGED <<loop, link, status, fetch, warp, fence>>

LoopEnds(n) ==
  /\ loop[n]
  /\ loop' = [loop EXCEPT ![n] = FALSE]
  /\ UNCHANGED <<store, link, status, pipe, fetch, warp, fence>>

\* Mutant: one event too early.
CaughtUpEarly == store[Control].seq + 1 >= fence.seq

\* synced: the control plane's number has reached the fence.
CaughtUp == store[Control].seq >= fence.seq

FenceOpens ==
  /\ fence.pc = "waiting"
  /\ CaughtUp
  /\ fence' = [fence EXCEPT !.pc = "ok"]
  /\ UNCHANGED <<store, loop, link, status, pipe, fetch, warp>>

\* Five seconds without any event of the workspace.
FenceTimesOut ==
  /\ fence.pc = "waiting"
  /\ ~CaughtUp
  /\ fence' = [fence EXCEPT !.pc = "timeout"]
  /\ UNCHANGED <<store, loop, link, status, pipe, fetch, warp>>

-----------------------------------------------------------------------------
(* syncHistory *)

\* The numbers of the sessions that live in w, as the control plane knows them.
Known(w) == IF Has(Control) /\ PlaceOf(store[Control]) = w
            THEN store[Control].seq ELSE -1

Asked(w) == [pc |-> "asked", from |-> w, known |-> Known(w), rows |-> {}]

\* The workspace answers with every event that the control plane lacks; the numbers it
\* was asked from are needed no more.
HistoryArrives(f) ==
  /\ fetch[f].pc = "asked"
  /\ fetch' = [fetch EXCEPT ![f] = [@ EXCEPT !.pc = "replaying", !.known = -1,
                                             !.rows = Since(store[fetch[f].from], fetch[f].known)]]
  /\ UNCHANGED <<store, loop, link, status, pipe, warp, fence>>

\* An HTTP failure.
HistoryFails(f) ==
  /\ fetch[f].pc = "asked"
  /\ fetch' = [fetch EXCEPT ![f] = [@ EXCEPT !.pc = "failed", !.known = -1]]
  /\ UNCHANGED <<store, loop, link, status, pipe, warp, fence>>

\* Replay the next event of the answer.  A gap is a defect that nothing catches: the
\* fiber would end here (NoGapIsMet: it does not come to that).
HistoryReplay(f) ==
  /\ fetch[f].pc = "replaying"
  /\ \E r \in Firsts(fetch[f].rows) :
       /\ store' = [store EXCEPT ![Control] = Replayed(@, r, None)]
       /\ fetch' = IF Dies(store[Control], r, None)
                   THEN [fetch EXCEPT ![f] = [@ EXCEPT !.pc = "died", !.rows = {}]]
                   ELSE [fetch EXCEPT ![f].rows = @ \ {r}]
  /\ UNCHANGED <<loop, link, status, pipe, warp, fence>>

HistoryEnds(f) ==
  /\ fetch[f].pc = "replaying"
  /\ fetch[f].rows = {}
  /\ fetch' = [fetch EXCEPT ![f].pc = "done"]
  /\ UNCHANGED <<store, loop, link, status, pipe, warp, fence>>

-----------------------------------------------------------------------------
(* syncWorkspaceLoop *)

\* startSync: nothing to do while a fiber runs, unless it reported an error.
StartSync(w) ==
  /\ link[w] = "off" \/ status[w] = "error"
  /\ link' = [link EXCEPT ![w] = "connecting"]
  /\ status' = [status EXCEPT ![w] = "connecting"]
  /\ UNCHANGED <<store, loop, pipe, fetch, warp, fence>>

\* The stream is open before the history is asked for.
Connect(w) ==
  /\ link[w] = "connecting"
  /\ link' = [link EXCEPT ![w] = "fetching"]
  /\ fetch' = [fetch EXCEPT ![w] = Asked(w)]
  /\ UNCHANGED <<store, loop, status, pipe, warp, fence>>

ConnectFails(w) ==
  /\ link[w] = "connecting"
  /\ link' = [link EXCEPT ![w] = "sleeping"]
  /\ status' = [status EXCEPT ![w] = "error"]
  /\ UNCHANGED <<store, loop, pipe, fetch, warp, fence>>

\* The stream is read from now on.  The code replays events of the type sync alone: a
\* quiet stream, as the servers of this repository send it, carries none.
Connected(w) ==
  /\ fetch[w].pc = "done"
  /\ \E s \in Streams :
       /\ link' = [link EXCEPT ![w] = s]
       /\ pipe' = IF s = "quiet" THEN [pipe EXCEPT ![w] = {}] ELSE pipe
  /\ status' = [status EXCEPT ![w] = "connected"]

\* The history could not be had: the stream is given up.
HistoryRefused(w) ==
  /\ fetch[w].pc = "failed"
  /\ link' = [link EXCEPT ![w] = "sleeping"]
  /\ status' = [status EXCEPT ![w] = "error"]
  /\ pipe' = [pipe EXCEPT ![w] = {}]

AfterHistory(w) ==
  /\ link[w] = "fetching"
  /\ Connected(w) \/ HistoryRefused(w)
  /\ fetch' = [fetch EXCEPT ![w] = NoFetch]
  /\ UNCHANGED <<store, loop, warp, fence>>

\* The next event of the stream is replayed; one that comes too early is dropped.
Receive(w) ==
  /\ link[w] = "streaming"
  /\ \E r \in Firsts(pipe[w]) :
       /\ store' = [store EXCEPT ![Control] = Replayed(@, r, None)]
       /\ pipe' = [pipe EXCEPT ![w] = @ \ {r}]
  /\ UNCHANGED <<loop, link, status, fetch, warp, fence>>

\* The stream ends, with whatever it still carried.
Disconnect(w) ==
  /\ link[w] \in {"streaming", "quiet"}
  /\ link' = [link EXCEPT ![w] = "sleeping"]
  /\ status' = [status EXCEPT ![w] = "disconnected"]
  /\ pipe' = [pipe EXCEPT ![w] = {}]
  /\ UNCHANGED <<store, loop, fetch, warp, fence>>

Retry(w) ==
  /\ link[w] = "sleeping"
  /\ link' = [link EXCEPT ![w] = "connecting"]
  /\ status' = [status EXCEPT ![w] = "connecting"]
  /\ UNCHANGED <<store, loop, pipe, fetch, warp, fence>>

-----------------------------------------------------------------------------
(* sessionWarp *)

\* Only a workspace is sent the session's log.
AfterClaim(to) == IF to = Control THEN "attach" ELSE "read"

\* A session of a remote workspace has its last history fetched first.  The place that
\* the session is sent to may be the one it is in.
WarpStart(k, to) ==
  LET from == PlaceOf(store[Control]) IN
  /\ warp[k].pc = "new"
  /\ Has(Control)
  /\ IF from = Control
     THEN /\ warp' = [warp EXCEPT ![k] = [@ EXCEPT !.pc = AfterClaim(to), !.to = to]]
          /\ UNCHANGED fetch
     ELSE /\ warp' = [warp EXCEPT ![k] = [@ EXCEPT !.pc = "source", !.to = to]]
          /\ fetch' = [fetch EXCEPT ![k] = Asked(from)]
  /\ UNCHANGED <<store, loop, link, status, pipe, fence>>

Claim(k) == Claimed(store[Control], warp[k].to)

\* Whether or not the last history came, the log is claimed for the target.
WarpClaim(k) ==
  /\ warp[k].pc = "source"
  /\ fetch[k].pc \in {"done", "failed"}
  /\ store' = [store EXCEPT ![Control] = Claim(k)]
  /\ warp' = [warp EXCEPT ![k].pc = AfterClaim(warp[k].to)]
  /\ fetch' = [fetch EXCEPT ![k] = NoFetch]
  /\ UNCHANGED <<loop, link, status, pipe, fence>>

WarpRead(k) ==
  /\ warp[k].pc = "read"
  /\ warp' = [warp EXCEPT ![k] = [@ EXCEPT !.pc = "post", !.rows = store[Control].rows]]
  /\ UNCHANGED <<store, loop, link, status, pipe, fetch, fence>>

\* The target replays the next event of the batch: a gap is an HTTP 500.
WarpPost(k) ==
  LET to == warp[k].to IN
  /\ warp[k].pc = "post"
  /\ \E r \in Firsts(warp[k].rows) :
       /\ store' = [store EXCEPT ![to] = Replayed(@, r, None)]
       /\ warp' = IF Dies(store[to], r, None)
                  THEN [warp EXCEPT ![k] = [@ EXCEPT !.pc = "failed", !.rows = {}]]
                  ELSE [warp EXCEPT ![k].rows = @ \ {r}]
  /\ UNCHANGED <<loop, link, status, pipe, fetch, fence>>

\* A request to the target is lost, or its answer is.
WarpFails(k) ==
  /\ warp[k].pc = "post"
  /\ warp' = [warp EXCEPT ![k] = [@ EXCEPT !.pc = "failed", !.rows = {}]]
  /\ UNCHANGED <<store, loop, link, status, pipe, fetch, fence>>

\* steal: the target publishes that the session lives there.  Its answer may be lost.
WarpSteal(k) ==
  /\ warp[k].pc = "post"
  /\ warp[k].rows = {}
  /\ Publish(warp[k].to, warp[k].to)
  /\ \E pc \in {"attach", "failed"} : warp' = [warp EXCEPT ![k].pc = pc]
  /\ UNCHANGED <<loop, link, status, fetch, fence>>

\* Mutant: the session is left without a place.
WarpAttachNowhere(k) ==
  /\ warp[k].pc = "attach"
  /\ Publish(Control, None)
  /\ warp' = [warp EXCEPT ![k].pc = "done"]
  /\ UNCHANGED <<loop, link, status, fetch, fence>>

\* setWorkspace: the control plane publishes the same of its own.
WarpAttach(k) ==
  /\ warp[k].pc = "attach"
  /\ Publish(Control, warp[k].to)
  /\ warp' = [warp EXCEPT ![k].pc = "done"]
  /\ UNCHANGED <<loop, link, status, fetch, fence>>

-----------------------------------------------------------------------------
Next ==
  \/ PromptHere
  \/ FenceOpens
  \/ FenceTimesOut
  \/ \E n \in Nodes : Work(n) \/ LoopEnds(n)
  \/ \E f \in Fetchers : \/ HistoryArrives(f)
                         \/ HistoryFails(f)
                         \/ HistoryReplay(f)
                         \/ HistoryEnds(f)
  \/ \E w \in Workspaces : \/ Ask(w)
                           \/ StartSync(w)
                           \/ Connect(w)
                           \/ ConnectFails(w)
                           \/ AfterHistory(w)
                           \/ Receive(w)
                           \/ Disconnect(w)
                           \/ Retry(w)
  \/ \E k \in Warps : \/ \E to \in Nodes : WarpStart(k, to)
                      \/ WarpClaim(k)
                      \/ WarpRead(k)
                      \/ WarpPost(k)
                      \/ WarpFails(k)
                      \/ WarpSteal(k)
                      \/ WarpAttach(k)

Spec == Init /\ [][Next]_vars

(***************************************************************************)
(* Fairness.  A request ends with an answer or a failure, and a fiber that  *)
(* can go on goes on: the reconnecting loop, a history being replayed, a    *)
(* stream being read.  No connection is required to succeed or to last, and *)
(* nobody is required to work on the session.                               *)
(***************************************************************************)
Fairness ==
  /\ \A f \in Fetchers : /\ WF_vars(HistoryArrives(f) \/ HistoryFails(f))
                         /\ WF_vars(HistoryReplay(f))
                         /\ WF_vars(HistoryEnds(f))
  /\ \A w \in Workspaces : /\ WF_vars(Retry(w))
                           /\ WF_vars(Connect(w) \/ ConnectFails(w))
                           /\ WF_vars(AfterHistory(w))
                           /\ WF_vars(Receive(w))

FairSpec == Spec /\ Fairness

-----------------------------------------------------------------------------
(* Properties *)

TypeOK ==
  /\ store \in [Nodes -> Store]
  /\ loop \in [Nodes -> BOOLEAN]
  /\ link \in [Workspaces ->
                 {"off", "connecting", "fetching", "streaming", "quiet", "sleeping"}]
  /\ status \in [Workspaces ->
                   {"none", "connecting", "connected", "error", "disconnected"}]
  /\ pipe \in [Workspaces -> SUBSET Row]
  /\ fetch \in [Fetchers -> FetchState]
  /\ warp \in [Warps -> WarpState]
  /\ fence \in FenceState

\* Every log has exactly one event for each number from 0 to the one its sequence
\* row claims, whatever was published, replayed, repeated or refused, and in
\* whatever order the fibers, the warps and the workspaces did it.
LogIsWhole == \A n \in Nodes : Whole(store[n])

\* Replay neither makes up nor changes events: whatever a log holds, or a stream or
\* a history carries, its publisher has, under the same number.
EventsAreGenuine ==
  /\ \A n \in Nodes : \A r \in store[n].rows : r \in store[r.by].rows
  /\ \A w \in Workspaces : pipe[w] \subseteq store[w].rows
  /\ \A f \in Fetchers : \A r \in fetch[f].rows : r \in store[r.by].rows

\* The defect that a gap raises in commitSyncEvent would end the fiber that follows
\* a workspace, or drop the event.  It never is raised: a history is asked for after
\* the stream is open, from a number the log had, and a warp replays a whole log.
NoGapIsMet ==
  /\ \A f \in Fetchers : fetch[f].pc = "replaying" =>
       \A r \in Firsts(fetch[f].rows) : ~Dies(store[Control], r, None)
  /\ \A w \in Workspaces : link[w] = "streaming" =>
       \A r \in Firsts(pipe[w]) : ~Dies(store[Control], r, None)
  /\ \A k \in Warps : warp[k].pc = "post" =>
       \A r \in Firsts(warp[k].rows) : ~Dies(store[warp[k].to], r, None)

\* A comment of sessionWarp says that after the claim "any future events coming from
\* the old workspace are ignored": from then on the control plane's log takes
\* nothing but its own events, whichever fiber or warp still replays.
ClaimFences ==
  [][store[Control].owner # None =>
       \A r \in store'[Control].rows \ store[Control].rows : r.by = Control]_vars

\* While nobody warps the session, the control plane's log is a copy that follows
\* the log of the workspace where the session was created.
AsSequence(s) ==
  [i \in 1 .. s.seq + 1 |-> CHOOSE r \in s.rows : r.seq = i - 1]

Log == INSTANCE FollowedLog WITH
  Entry <- Row, log <- AsSequence(store[Start]), copy <- AsSequence(store[Control])

Followed == Log!Spec

\* A proxied request is answered only when the control plane has the very event
\* that the request published, so a reader of the control plane sees its effect.
AnsweredIsVisible ==
  fence.pc = "ok" => \E r \in store[Control].rows : /\ r.seq = fence.seq
                                                    /\ r.by = fence.ws

\* The control plane gets every event of the log that it follows: by a stream that
\* carries sync events and stays up from some time on, or, whatever the streams carry,
\* by connections that are made again and again, each with the history it lacks.
CatchesUp ==
  \/ <>[](link[Start] = "streaming")
  \/ []<>(link[Start] = "connecting") /\ []<>(link[Start] \in {"streaming", "quiet"})
  => \A n \in 0 .. MaxSeq : (store[Start].seq >= n) ~> (store[Control].seq >= n)

\* An event that moves the session: its publisher's log had it elsewhere before.
Moves(r) == \E q \in store[r.by].rows : q.seq = r.seq - 1 /\ q.to # r.to

\* The steal and the attach of one warp say the same.
SameEvent(q, r) == q = r \/ (q.to = r.to /\ Moves(q) /\ Moves(r))

\* sync/README.md says "Because only one device is allowed to write" a sequence id
\* gives a total order: what two logs have under one number says the same.
OneOrder ==
  \A m, n \in Nodes : \A q \in store[m].rows, r \in store[n].rows :
    q.seq = r.seq => SameEvent(q, r)

\* The same comment of sessionWarp gives the log to the new workspace: the next event
\* in a history of the workspace that owns the log is not ignored (other than the steal,
\* which the control plane publishes too).
OwnerIsFollowed ==
  [][\A w \in Workspaces \ {Start} : HistoryReplay(w) /\ store[Control].owner = w =>
       \A r \in Firsts(fetch[w].rows) :
         r.seq = store[Control].seq + 1 /\ ~Moves(r) => r \in store'[Control].rows]_vars

=============================================================================
