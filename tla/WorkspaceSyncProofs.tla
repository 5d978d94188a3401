------------------------ MODULE WorkspaceSyncProofs ------------------------
(***************************************************************************)
(* What holds of WorkspaceSync for any set of workspaces and any number of  *)
(* warps.  The safety of replaying rests on what is on its way: Covers and  *)
(* NothingIsMissed say that the events which the control plane lacks are,   *)
(* without a hole, in the answers and streams that are still to be replayed.*)
(* Until a warp begins more holds: one place publishes (Alone), so that a    *)
(* number tells an event and the control plane's log is a copy.             *)
(***************************************************************************)
EXTENDS WorkspaceSync, Sequences, TLAPS

\* A log without a sequence row has no owner.
Unowned == \A n \in Nodes : store[n].seq = -1 => store[n].owner = None

\* A loop runs only where the session is.
LoopHasLog == \A n \in Nodes : loop[n] => Has(n)

\* An error is reported by a fiber that waits for its next attempt.
ErrorSleeps == \A w \in Workspaces : status[w] = "error" => link[w] = "sleeping"

FetchOK(f) ==
  LET x == fetch[f] IN
  /\ x.pc # "idle" => x.from \in Workspaces
  /\ x.pc # "idle" /\ f \in Workspaces => x.from = f /\ link[f] = "fetching"
  /\ x.pc = "asked" => x.known <= store[Control].seq
  /\ x.pc # "replaying" => x.rows = {}

WarpOK(k) ==
  LET x == warp[k] IN
  /\ x.pc # "new" => x.to \in Nodes
  /\ x.pc \in {"read", "post"} => x.to \in Workspaces
  /\ x.pc # "post" => x.rows = {}
  /\ x.rows \subseteq store[Control].rows

\* Nothing between the log and a row that is to be replayed into it is lacking.
Covers(rows, s) ==
  \A r \in rows : \A i \in (s.seq + 1) .. r.seq : \E q \in rows : q.seq = i

\* An owned log takes no replays, so only an unowned one has to be covered.
HistoryCovers ==
  store[Control].owner = None => \A f \in Fetchers : Covers(fetch[f].rows, store[Control])

PostCovers ==
  \A k \in Warps : warp[k].pc = "post" /\ store[warp[k].to].owner = None =>
    Covers(warp[k].rows, store[warp[k].to])

\* From the answer of the history on, what the control plane lacks of a workspace's
\* log is in that answer or in the stream.
Following(w) ==
  \/ link[w] = "streaming"
  \/ link[w] = "fetching" /\ fetch[w].pc \in {"replaying", "done"}

NothingIsMissed ==
  store[Control].owner = None =>
    \A w \in Workspaces : Following(w) =>
      \A q \in store[w].rows :
        q.seq > store[Control].seq => q \in pipe[w] \cup fetch[w].rows

IInv ==
  /\ TypeOK
  /\ LogIsWhole
  /\ Unowned
  /\ EventsAreGenuine
  /\ LoopHasLog
  /\ ErrorSleeps
  /\ \A f \in Fetchers : FetchOK(f)
  /\ \A k \in Warps : WarpOK(k)
  /\ HistoryCovers
  /\ PostCovers
  /\ NothingIsMissed

USE NodesAssumption, SyncAssumption DEF Nodes, Fetchers

-----------------------------------------------------------------------------
(* The transactions of a store *)

\* The latest event of a log that has one.
LEMMA LatestRow ==
  ASSUME NEW s \in Store, Whole(s), s.seq >= 0
  PROVE  Latest(s) \in s.rows /\ PlaceOf(s) \in Nodes
<1>1. s.seq \in 0 .. s.seq
  BY DEF Store
<1>2. \E r \in s.rows : r.seq = s.seq
  BY <1>1 DEF Whole
<1>3. Latest(s) \in s.rows
  BY <1>2 DEF Latest
<1>. QED
  BY <1>3 DEF PlaceOf, Store, Row

\* A log that gets the next number stays whole.
LEMMA InsertWhole ==
  ASSUME NEW s \in Store, Whole(s), NEW r \in Row, r.seq = s.seq + 1,
         NEW o \in Nodes \cup {None}
  PROVE  /\ Insert(s, r, o) \in Store
         /\ Whole(Insert(s, r, o))
<1>. DEFINE t == Insert(s, r, o)
<1>1. t.seq = r.seq /\ t.rows = s.rows \cup {r} /\ t.owner \in Nodes \cup {None}
  BY DEF Insert, Store
<1>2. t \in Store
  BY <1>1 DEF Insert, Store, Row
<1>3. {q.seq : q \in t.rows} = (0 .. s.seq) \cup {r.seq}
  BY <1>1 DEF Whole
<1>4. (0 .. s.seq) \cup {r.seq} = 0 .. t.seq
  BY <1>1 DEF Store, Row
<1>5. \A q \in s.rows : q.seq # r.seq
  <2>1. \A q \in s.rows : q.seq \in 0 .. s.seq
    BY DEF Whole
  <2>. QED
    BY <2>1 DEF Store, Row
<1>6. \A p, q \in t.rows : p.seq = q.seq => p = q
  BY <1>1, <1>5 DEF Whole
<1>. QED
  BY <1>2, <1>3, <1>4, <1>6 DEF Whole

\* publish adds one event, under the next number.
LEMMA PublishedStore ==
  ASSUME NEW s \in Store, Whole(s), s.seq = -1 => s.owner = None,
         NEW n \in Nodes, NEW to \in Nodes
  PROVE  LET t == Published(s, n, to)
             r == NewRow(s, n, to)
         IN  /\ t \in Store /\ Whole(t)
             /\ r \in Row /\ r.seq = s.seq + 1 /\ r.by = n
             /\ t.rows = s.rows \cup {r}
             /\ t.seq = s.seq + 1
             /\ t.owner = s.owner
<1>. DEFINE r == NewRow(s, n, to)
<1>1. r \in Row /\ r.seq = s.seq + 1 /\ r.by = n
  BY DEF NewRow, Row, Store
<1>2. Insert(s, r, None) \in Store /\ Whole(Insert(s, r, None))
  BY <1>1, InsertWhole
<1>. QED
  BY <1>1, <1>2 DEF Published, Insert

\* replay adds the event that comes next, or nothing; unless it meets a gap, an
\* unowned log has the event's number afterwards.
LEMMA ReplayedStore ==
  ASSUME NEW s \in Store, Whole(s), s.seq = -1 => s.owner = None, NEW r \in Row
  PROVE  LET t == Replayed(s, r, None)
         IN  /\ t \in Store /\ Whole(t)
             /\ s.rows \subseteq t.rows /\ t.rows \subseteq s.rows \cup {r}
             /\ t.seq >= s.seq
             /\ t.owner = s.owner
             /\ s.owner # None => t = s
             /\ s.owner = None /\ ~Dies(s, r, None) => r.seq <= t.seq
<1>1. CASE Accepts(s, r, None)
  <2>1. r.seq = s.seq + 1 /\ s.owner = None
    BY <1>1 DEF Accepts, Gap, Foreign, Store
  <2>2. Insert(s, r, None) \in Store /\ Whole(Insert(s, r, None))
    BY <2>1, InsertWhole
  <2>. QED
    BY <1>1, <2>1, <2>2 DEF Replayed, Insert, Store, Row
<1>2. CASE ~Accepts(s, r, None)
  <2>1. s.owner = None /\ ~Dies(s, r, None) => r.seq <= s.seq
    BY <1>2 DEF Accepts, Dies, Foreign, Duplicate
  <2>. QED
    BY <1>2, <2>1 DEF Replayed, Store
<1>. QED
  BY <1>1, <1>2

\* claim changes nothing but the owner, and only of a log that exists.
LEMMA ClaimedStore ==
  ASSUME NEW s \in Store, Whole(s), s.seq = -1 => s.owner = None, NEW o \in Nodes
  PROVE  LET t == Claimed(s, o)
         IN  /\ t \in Store /\ Whole(t)
             /\ t.rows = s.rows /\ t.seq = s.seq
             /\ t.seq = -1 => t.owner = None
             /\ s.seq >= 0 => t.owner # None
             /\ s.seq = -1 => t = s
  BY DEF Claimed, Store, Whole

-----------------------------------------------------------------------------
(* Rows on their way *)

\* A log that has grown is still covered.
LEMMA CoversMore ==
  ASSUME NEW s \in Store, NEW t \in Store, s.seq <= t.seq,
         NEW rows \in SUBSET Row, Covers(rows, s)
  PROVE  Covers(rows, t)
<1>1. \A r \in rows : \A i \in (t.seq + 1) .. r.seq : i \in (s.seq + 1) .. r.seq
  BY DEF Store, Row
<1>. QED
  BY <1>1 DEF Covers

\* Once the first row is in the log, the others cover it.
LEMMA CoversRest ==
  ASSUME NEW s \in Store, NEW t \in Store, s.seq <= t.seq,
         NEW rows \in SUBSET Row, Covers(rows, s), NEW r \in rows, r.seq <= t.seq
  PROVE  Covers(rows \ {r}, t)
<1>. SUFFICES ASSUME NEW p \in rows \ {r}, NEW i \in (t.seq + 1) .. p.seq
              PROVE  \E q \in rows \ {r} : q.seq = i
  BY DEF Covers
<1>1. i \in (s.seq + 1) .. p.seq /\ i # r.seq
  BY DEF Store, Row
<1>2. \E q \in rows : q.seq = i
  BY <1>1 DEF Covers
<1>. QED
  BY <1>1, <1>2

\* The first of the rows that cover a log meets no gap in it.
LEMMA CoveredNoGap ==
  ASSUME NEW s \in Store, NEW rows \in SUBSET Row, NEW r \in Firsts(rows),
         s.owner = None => Covers(rows, s)
  PROVE  ~Dies(s, r, None)
<1>. SUFFICES ASSUME Dies(s, r, None)
              PROVE  FALSE
  OBVIOUS
<1>1. s.owner = None /\ r \in rows /\ r.seq \in Nat /\ s.seq \in Int
  BY DEF Dies, Foreign, Firsts, Row, Store
<1>2. s.seq + 1 \in (s.seq + 1) .. r.seq /\ s.seq + 1 < r.seq
  BY <1>1 DEF Dies, Duplicate, Gap
<1>3. PICK q \in rows : q.seq = s.seq + 1
  BY <1>1, <1>2 DEF Covers
<1>. QED
  BY <1>1, <1>2, <1>3 DEF Firsts

-----------------------------------------------------------------------------
(* What a step does to the logs *)

\* Logs keep what they have.
Grows ==
  \A m \in Nodes : /\ store[m].rows \subseteq store'[m].rows
                   /\ store[m].seq <= store'[m].seq
                   /\ store'[m].owner = None => store[m].owner = None

LEMMA PublishFacts ==
  ASSUME IInv, NEW n \in Nodes, NEW to \in Nodes, Publish(n, to)
  PROVE  /\ store' \in [Nodes -> Store] /\ pipe' \in [Workspaces -> SUBSET Row]
         /\ LogIsWhole' /\ Unowned' /\ Grows
         /\ \A m \in Nodes : m # n => store'[m] = store[m]
         /\ \A q \in store'[n].rows : q \in store[n].rows \/ q.by = n
         /\ \A w \in Workspaces : /\ pipe[w] \subseteq pipe'[w]
                                 /\ pipe'[w] \subseteq pipe[w] \cup store'[w].rows
         /\ \A w \in Workspaces : link[w] \in {"fetching", "streaming"} =>
              \A q \in store'[w].rows : q \in store[w].rows \cup pipe'[w]
<1>. DEFINE s == store[n]
            t == Published(s, n, to)
            r == NewRow(s, n, to)
<1>1. s \in Store /\ Whole(s) /\ (s.seq = -1 => s.owner = None)
  BY DEF IInv, TypeOK, LogIsWhole, Unowned
<1>2. /\ t \in Store /\ Whole(t)
      /\ r \in Row /\ r.seq = s.seq + 1 /\ r.by = n
      /\ t.rows = s.rows \cup {r}
      /\ t.seq = s.seq + 1
      /\ t.owner = s.owner
  BY <1>1, PublishedStore
<1>3. store' = [store EXCEPT ![n] = t]
  BY DEF Publish
<1>4. store' \in [Nodes -> Store] /\ store'[n] = t /\ \A m \in Nodes : m # n => store'[m] = store[m]
  BY <1>2, <1>3 DEF IInv, TypeOK
<1>5. LogIsWhole'
  BY <1>2, <1>4 DEF IInv, LogIsWhole
<1>6. Unowned' /\ Grows
  BY <1>1, <1>2, <1>4 DEF IInv, TypeOK, Unowned, Grows, Store
<1>7. pipe' \in [Workspaces -> SUBSET Row] /\ \A w \in Workspaces : pipe'[w] \subseteq pipe[w] \cup store'[w].rows
  BY <1>2, <1>4 DEF Publish, IInv, TypeOK
<1>9. \A w \in Workspaces : pipe[w] \subseteq pipe'[w]
  BY DEF Publish, IInv, TypeOK
<1>10. \A w \in Workspaces : link[w] \in {"fetching", "streaming"} =>
         \A q \in store'[w].rows : q \in store[w].rows \cup pipe'[w]
  BY <1>2, <1>4 DEF Publish, IInv, TypeOK
<1>. QED
  BY <1>2, <1>4, <1>5, <1>6, <1>7, <1>9, <1>10

LEMMA ReplayFacts ==
  ASSUME IInv, NEW n \in Nodes, NEW r \in Row,
         store' = [store EXCEPT ![n] = Replayed(@, r, None)]
  PROVE  /\ store' \in [Nodes -> Store]
         /\ LogIsWhole' /\ Unowned' /\ Grows
         /\ \A m \in Nodes : m # n => store'[m] = store[m]
         /\ store'[n].rows \subseteq store[n].rows \cup {r}
         /\ store'[n].owner = store[n].owner
         /\ store[n].owner # None => store' = store
         /\ store[n].owner = None /\ ~Dies(store[n], r, None) => r.seq <= store'[n].seq
<1>. DEFINE s == store[n]
            t == Replayed(s, r, None)
<1>1. s \in Store /\ Whole(s) /\ (s.seq = -1 => s.owner = None)
  BY DEF IInv, TypeOK, LogIsWhole, Unowned
<1>2. /\ t \in Store /\ Whole(t)
      /\ s.rows \subseteq t.rows /\ t.rows \subseteq s.rows \cup {r}
      /\ t.seq >= s.seq
      /\ t.owner = s.owner
      /\ s.owner # None => t = s
      /\ s.owner = None /\ ~Dies(s, r, None) => r.seq <= t.seq
  BY <1>1, ReplayedStore
<1>4. store' \in [Nodes -> Store] /\ store'[n] = t /\ \A m \in Nodes : m # n => store'[m] = store[m]
  BY <1>2 DEF IInv, TypeOK
<1>5. LogIsWhole'
  BY <1>2, <1>4 DEF IInv, LogIsWhole
<1>6. Unowned' /\ Grows
  BY <1>1, <1>2, <1>4 DEF IInv, TypeOK, Unowned, Grows, Store
<1>7. s.owner # None => store' = store
  BY <1>2 DEF IInv, TypeOK
<1>. QED
  BY <1>2, <1>4, <1>5, <1>6, <1>7

\* A warp that stays as it is, or is without a batch.
LEMMA WarpStill ==
  ASSUME IInv, store' \in [Nodes -> Store], Grows, warp' \in [Warps -> WarpState],
         \A k \in Warps : \/ warp'[k] = warp[k]
                          \/ /\ warp'[k].pc \notin {"new", "post"}
                             /\ warp'[k].to \in Nodes
                             /\ warp'[k].pc = "read" => warp'[k].to \in Workspaces
                             /\ warp'[k].rows = {}
  PROVE  (\A k \in Warps : WarpOK(k))' /\ PostCovers'
<1>1. ASSUME NEW k \in Warps
      PROVE  WarpOK(k)'
  BY DEF IInv, WarpOK, TypeOK, WarpState, Grows
<1>2. ASSUME NEW k \in Warps, warp'[k].pc = "post", store'[warp'[k].to].owner = None
      PROVE  Covers(warp'[k].rows, store'[warp'[k].to])
  <2>1. warp'[k] = warp[k] /\ warp[k].to \in Nodes /\ warp[k].rows \in SUBSET Row
    BY <1>2 DEF IInv, WarpOK, TypeOK, WarpState
  <2>2. Covers(warp[k].rows, store[warp[k].to])
    BY <1>2, <2>1 DEF IInv, PostCovers, Grows
  <2>. QED
    BY <2>1, <2>2, CoversMore DEF Grows, IInv, TypeOK
<1>. QED
  BY <1>1, <1>2 DEF PostCovers

\* The histories that are on their way, while logs grow.
LEMMA FetchStill ==
  ASSUME IInv, store' \in [Nodes -> Store], Grows, UNCHANGED <<fetch, link>>
  PROVE  (\A f \in Fetchers : FetchOK(f))' /\ HistoryCovers'
<1>1. ASSUME NEW f \in Fetchers
      PROVE  FetchOK(f)'
  <2>1. FetchOK(f) /\ fetch[f].known \in Int /\ store[Control].seq <= store'[Control].seq
    BY DEF IInv, TypeOK, FetchState, Grows
  <2>2. store[Control].seq \in Int /\ store'[Control].seq \in Int
    BY DEF IInv, TypeOK, Store
  <2>. QED
    BY <2>1, <2>2 DEF FetchOK
<1>2. ASSUME NEW f \in Fetchers, store'[Control].owner = None
      PROVE  Covers(fetch[f].rows, store'[Control])
  <2>1. Covers(fetch[f].rows, store[Control]) /\ fetch[f].rows \in SUBSET Row
    BY <1>2 DEF IInv, HistoryCovers, Grows, TypeOK, FetchState
  <2>. QED
    BY <2>1, CoversMore DEF Grows, IInv, TypeOK
<1>. QED
  BY <1>1, <1>2 DEF HistoryCovers

\* The loops that run, while logs grow.
LEMMA LoopStill ==
  ASSUME IInv, store' \in [Nodes -> Store], Grows, UNCHANGED loop
  PROVE  LoopHasLog'
<1>1. \A m \in Nodes : store'[m].seq >= store[m].seq /\ store'[m].seq \in Int /\ store[m].seq \in Int
  BY DEF Grows, IInv, TypeOK, Store
<1>. QED
  BY <1>1 DEF LoopHasLog, Has, IInv

\* What publish keeps.
LEMMA PublishKeeps ==
  ASSUME IInv, NEW n \in Nodes, NEW to \in Nodes, Publish(n, to), UNCHANGED <<link, fetch>>
  PROVE  EventsAreGenuine' /\ NothingIsMissed'
<1>. USE PublishFacts
<1>1. EventsAreGenuine'
  <2>1. \A m \in Nodes : \A q \in store'[m].rows : q \in store'[q.by].rows
    <3>. SUFFICES ASSUME NEW m \in Nodes, NEW q \in store'[m].rows
                  PROVE  q \in store'[q.by].rows
      OBVIOUS
    <3>1. CASE q \in store[m].rows
      <4>1. q \in Row /\ q.by \in Nodes
        BY <3>1 DEF IInv, TypeOK, Store, Row
      <4>. QED
        BY <3>1, <4>1 DEF IInv, EventsAreGenuine, Grows
    <3>2. CASE q \notin store[m].rows
      BY <3>2
    <3>. QED
      BY <3>1, <3>2
  <2>2. \A w \in Workspaces : pipe'[w] \subseteq store'[w].rows
    BY DEF IInv, EventsAreGenuine, Grows
  <2>3. \A f \in Fetchers : \A q \in fetch'[f].rows : q \in store'[q.by].rows
    <3>1. \A f \in Fetchers : \A q \in fetch[f].rows : q.by \in Nodes
      BY DEF IInv, TypeOK, FetchState, Row
    <3>. QED
      BY <3>1 DEF IInv, EventsAreGenuine, Grows
  <2>. QED
    BY <2>1, <2>2, <2>3 DEF EventsAreGenuine
<1>2. ASSUME store'[Control].owner = None, NEW w \in Workspaces, Following(w),
             NEW q \in store'[w].rows, q.seq > store'[Control].seq
      PROVE  q \in pipe'[w] \cup fetch[w].rows
  <2>1. CASE q \in store[w].rows
    <3>1. q.seq \in Int /\ store[Control].seq \in Int /\ store'[Control].seq \in Int
      BY <2>1 DEF IInv, TypeOK, Store, Row
    <3>2. q.seq > store[Control].seq /\ store[Control].owner = None
      BY <1>2, <3>1 DEF Grows
    <3>. QED
      BY <1>2, <2>1, <3>2 DEF IInv, NothingIsMissed
  <2>2. CASE q \notin store[w].rows
    BY <1>2, <2>2 DEF Following
  <2>. QED
    BY <2>1, <2>2
<1>. QED
  BY <1>1, <1>2 DEF NothingIsMissed, Following

-----------------------------------------------------------------------------
(* The steps *)

\* A proxied request publishes at the workspace.
LEMMA AskInv ==
  ASSUME IInv, NEW w \in Workspaces, Ask(w)
  PROVE  IInv'
<1>1. store[w] \in Store /\ Whole(store[w]) /\ store[w].seq >= 0
  BY DEF Ask, Has, IInv, TypeOK, LogIsWhole
<1>2. PlaceOf(store[w]) \in Nodes
  BY <1>1, LatestRow
<1>3. Publish(w, PlaceOf(store[w])) /\ UNCHANGED <<link, status, fetch, warp>>
  BY DEF Ask
<1>4. w \in Nodes
  OBVIOUS
<1>5. /\ store' \in [Nodes -> Store] /\ pipe' \in [Workspaces -> SUBSET Row]
      /\ LogIsWhole' /\ Unowned' /\ Grows
  BY <1>2, <1>3, <1>4, PublishFacts
<1>6. EventsAreGenuine' /\ NothingIsMissed'
  BY <1>2, <1>3, <1>4, PublishKeeps
<1>7. (\A f \in Fetchers : FetchOK(f))' /\ HistoryCovers'
  BY <1>3, <1>5, FetchStill
<1>8. (\A k \in Warps : WarpOK(k))' /\ PostCovers'
  BY <1>3, <1>5, WarpStill DEF IInv, TypeOK
<1>9. TypeOK'
  <2>1. store[w].seq + 1 \in Nat
    BY <1>1 DEF Store
  <2>2. fence' \in FenceState
    BY <2>1 DEF Ask, FenceState
  <2>3. loop' \in [Nodes -> BOOLEAN]
    BY DEF Ask, IInv, TypeOK
  <2>. QED
    BY <1>3, <1>5, <2>2, <2>3 DEF IInv, TypeOK
<1>10. LoopHasLog'
  <2>1. \A m \in Nodes : store'[m].seq >= store[m].seq /\ store'[m].seq \in Int /\ store[m].seq \in Int
    BY <1>5 DEF Grows, IInv, TypeOK, Store
  <2>. QED
    BY <1>1, <2>1 DEF Ask, LoopHasLog, Has, IInv, TypeOK
<1>11. ErrorSleeps'
  BY <1>3 DEF IInv, ErrorSleeps
<1>. QED
  BY <1>5, <1>6, <1>7, <1>8, <1>9, <1>10, <1>11 DEF IInv

\* A loop publishes where it runs.
LEMMA WorkInv ==
  ASSUME IInv, NEW n \in Nodes, Work(n)
  PROVE  IInv'
<1>1. store[n] \in Store /\ Whole(store[n]) /\ store[n].seq >= 0
  BY DEF Work, Has, IInv, TypeOK, LogIsWhole, LoopHasLog
<1>2. PlaceOf(store[n]) \in Nodes
  BY <1>1, LatestRow
<1>3. Publish(n, PlaceOf(store[n])) /\ UNCHANGED <<loop, link, status, fetch, warp, fence>>
  BY DEF Work
<1>5. /\ store' \in [Nodes -> Store] /\ pipe' \in [Workspaces -> SUBSET Row]
      /\ LogIsWhole' /\ Unowned' /\ Grows
  BY <1>2, <1>3, PublishFacts
<1>6. EventsAreGenuine' /\ NothingIsMissed'
  BY <1>2, <1>3, PublishKeeps
<1>7. (\A f \in Fetchers : FetchOK(f))' /\ HistoryCovers'
  BY <1>3, <1>5, FetchStill
<1>8. (\A k \in Warps : WarpOK(k))' /\ PostCovers'
  BY <1>3, <1>5, WarpStill DEF IInv, TypeOK
<1>9. TypeOK'
  BY <1>3, <1>5 DEF IInv, TypeOK
<1>10. LoopHasLog'
  BY <1>3, <1>5, LoopStill
<1>11. ErrorSleeps'
  BY <1>3 DEF IInv, ErrorSleeps
<1>. QED
  BY <1>5, <1>6, <1>7, <1>8, <1>9, <1>10, <1>11 DEF IInv

\* The target of a warp publishes that it has the session.
LEMMA WarpStealInv ==
  ASSUME IInv, NEW k \in Warps, WarpSteal(k)
  PROVE  IInv'
<1>2. warp[k].to \in Nodes
  BY DEF WarpSteal, IInv, WarpOK
<1>3. Publish(warp[k].to, warp[k].to) /\ UNCHANGED <<loop, link, status, fetch, fence>>
  BY DEF WarpSteal
<1>4. /\ warp' \in [Warps -> WarpState]
      /\ \A j \in Warps : \/ warp'[j] = warp[j]
                          \/ /\ warp'[j].pc \notin {"new", "read", "post"}
                             /\ warp'[j].to \in Nodes
                             /\ warp'[j].rows = {}
  BY <1>2 DEF WarpSteal, IInv, TypeOK, WarpState
<1>5. /\ store' \in [Nodes -> Store] /\ pipe' \in [Workspaces -> SUBSET Row]
      /\ LogIsWhole' /\ Unowned' /\ Grows
  BY <1>2, <1>3, PublishFacts
<1>6. EventsAreGenuine' /\ NothingIsMissed'
  BY <1>2, <1>3, PublishKeeps
<1>7. (\A f \in Fetchers : FetchOK(f))' /\ HistoryCovers'
  BY <1>3, <1>5, FetchStill
<1>8. (\A j \in Warps : WarpOK(j))' /\ PostCovers'
  BY <1>4, <1>5, WarpStill
<1>9. TypeOK'
  BY <1>3, <1>4, <1>5 DEF IInv, TypeOK
<1>10. LoopHasLog'
  BY <1>3, <1>5, LoopStill
<1>11. ErrorSleeps'
  BY <1>3 DEF IInv, ErrorSleeps
<1>. QED
  BY <1>5, <1>6, <1>7, <1>8, <1>9, <1>10, <1>11 DEF IInv

\* The control plane publishes the new place of the session.
LEMMA WarpAttachInv ==
  ASSUME IInv, NEW k \in Warps, WarpAttach(k)
  PROVE  IInv'
<1>2. warp[k].to \in Nodes /\ Control \in Nodes
  BY DEF WarpAttach, IInv, WarpOK
<1>3. Publish(Control, warp[k].to) /\ UNCHANGED <<loop, link, status, fetch, fence>>
  BY DEF WarpAttach
<1>4. /\ warp' \in [Warps -> WarpState]
      /\ \A j \in Warps : \/ warp'[j] = warp[j]
                          \/ /\ warp'[j].pc \notin {"new", "read", "post"}
                             /\ warp'[j].to \in Nodes
                             /\ warp'[j].rows = {}
  BY <1>2 DEF WarpAttach, IInv, TypeOK, WarpState, WarpOK
<1>5. /\ store' \in [Nodes -> Store] /\ pipe' \in [Workspaces -> SUBSET Row]
      /\ LogIsWhole' /\ Unowned' /\ Grows
  BY <1>2, <1>3, PublishFacts
<1>6. EventsAreGenuine' /\ NothingIsMissed'
  BY <1>2, <1>3, PublishKeeps
<1>7. (\A f \in Fetchers : FetchOK(f))' /\ HistoryCovers'
  BY <1>3, <1>5, FetchStill
<1>8. (\A j \in Warps : WarpOK(j))' /\ PostCovers'
  BY <1>4, <1>5, WarpStill
<1>9. TypeOK'
  BY <1>3, <1>4, <1>5 DEF IInv, TypeOK
<1>10. LoopHasLog'
  BY <1>3, <1>5, LoopStill
<1>11. ErrorSleeps'
  BY <1>3 DEF IInv, ErrorSleeps
<1>. QED
  BY <1>5, <1>6, <1>7, <1>8, <1>9, <1>10, <1>11 DEF IInv


\* A prompt on the control plane, the end of a loop, and the fence leave the logs alone.
LEMMA QuietInv ==
  ASSUME IInv,
         \/ PromptHere
         \/ FenceOpens
         \/ FenceTimesOut
         \/ \E n \in Nodes : LoopEnds(n)
         \/ UNCHANGED vars
  PROVE  IInv'
<1>1. UNCHANGED <<store, link, status, pipe, fetch, warp>>
  BY DEF PromptHere, FenceOpens, FenceTimesOut, LoopEnds, vars
<1>2. loop' \in [Nodes -> BOOLEAN] /\ LoopHasLog'
  BY <1>1 DEF PromptHere, FenceOpens, FenceTimesOut, LoopEnds, vars, IInv, TypeOK, LoopHasLog, Has
<1>3. fence' \in FenceState
  BY DEF PromptHere, FenceOpens, FenceTimesOut, LoopEnds, vars, IInv, TypeOK, FenceState
<1>4. TypeOK' /\ LogIsWhole' /\ Unowned' /\ EventsAreGenuine' /\ ErrorSleeps'
  BY <1>1, <1>2, <1>3 DEF IInv, TypeOK, LogIsWhole, Unowned, EventsAreGenuine, ErrorSleeps
<1>5. (\A f \in Fetchers : FetchOK(f))' /\ (\A k \in Warps : WarpOK(k))'
  BY <1>1 DEF IInv, FetchOK, WarpOK
<1>6. HistoryCovers' /\ PostCovers' /\ NothingIsMissed'
  BY <1>1 DEF IInv, HistoryCovers, PostCovers, NothingIsMissed, Following
<1>. QED
  BY <1>2, <1>4, <1>5, <1>6 DEF IInv

-----------------------------------------------------------------------------
(* Steps of the fibers that leave the logs alone *)

\* What holds when only a fiber moves.
FiberOnly == UNCHANGED <<store, loop, warp, fence>>

LEMMA FiberFacts ==
  ASSUME IInv, FiberOnly
  PROVE  /\ LogIsWhole' /\ Unowned' /\ LoopHasLog'
         /\ (\A k \in Warps : WarpOK(k))' /\ PostCovers'
         /\ store' \in [Nodes -> Store] /\ loop' \in [Nodes -> BOOLEAN]
         /\ warp' \in [Warps -> WarpState] /\ fence' \in FenceState
<1>1. LogIsWhole' /\ Unowned' /\ LoopHasLog'
  BY DEF FiberOnly, IInv, LogIsWhole, Unowned, LoopHasLog, Has
<1>2. (\A k \in Warps : WarpOK(k))' /\ PostCovers'
  BY DEF FiberOnly, IInv, WarpOK, PostCovers
<1>. QED
  BY <1>1, <1>2 DEF FiberOnly, IInv, TypeOK

\* A history that is asked for, refused or over carries no rows.
\* The connection of a workspace may change with it, as long as the stream of a
\* workspace that is followed keeps what it carries.
LEMMA FiberKeeps ==
  ASSUME IInv, FiberOnly,
         fetch' \in [Fetchers -> FetchState],
         link' \in [Workspaces -> {"off", "connecting", "fetching", "streaming", "quiet", "sleeping"}],
         status' \in [Workspaces -> {"none", "connecting", "connected", "error", "disconnected"}],
         pipe' \in [Workspaces -> SUBSET Row],
         (\A f \in Fetchers : FetchOK(f))',
         ErrorSleeps',
         \A f \in Fetchers : fetch'[f] = fetch[f] \/ fetch'[f].rows = {},
         \A w \in Workspaces : pipe'[w] = pipe[w] \/ pipe'[w] = {},
         \A w \in Workspaces : Following(w)' =>
            /\ Following(w)
            /\ pipe'[w] = pipe[w]
            /\ fetch'[w].rows = fetch[w].rows
  PROVE  IInv'
<1>1. /\ LogIsWhole' /\ Unowned' /\ LoopHasLog'
      /\ (\A k \in Warps : WarpOK(k))' /\ PostCovers'
      /\ TypeOK'
  BY FiberFacts DEF TypeOK
<1>2. EventsAreGenuine'
  BY DEF FiberOnly, IInv, EventsAreGenuine
<1>3. HistoryCovers'
  BY DEF FiberOnly, IInv, HistoryCovers, Covers
<1>4. NothingIsMissed'
  <2>. SUFFICES ASSUME store[Control].owner = None, NEW w \in Workspaces, Following(w)',
                       NEW q \in store[w].rows, q.seq > store[Control].seq
                PROVE  q \in pipe'[w] \cup fetch'[w].rows
    BY DEF NothingIsMissed, FiberOnly
  <2>1. q \in pipe[w] \cup fetch[w].rows
    BY DEF IInv, NothingIsMissed
  <2>. QED
    BY <2>1
<1>. QED
  BY <1>1, <1>2, <1>3, <1>4 DEF IInv

\* An idle fiber has no rows on their way.
LEMMA IdleFetch ==
  ASSUME IInv, NEW w \in Workspaces, link[w] # "fetching"
  PROVE  fetch[w].pc = "idle" /\ fetch[w].rows = {}
<1>1. w \in Fetchers
  OBVIOUS
<1>2. FetchOK(w)
  BY <1>1 DEF IInv
<1>. QED
  BY <1>1, <1>2 DEF FetchOK

\* The connection of a workspace without a history on its way changes.
LEMMA LinkInv ==
  ASSUME IInv, NEW w \in Workspaces,
         StartSync(w) \/ ConnectFails(w) \/ Disconnect(w) \/ Retry(w)
  PROVE  IInv'
<1>1. FiberOnly /\ fetch' = fetch
  BY DEF StartSync, ConnectFails, Disconnect, Retry, FiberOnly
<1>2. PICK x \in {"connecting", "sleeping"} : link' = [link EXCEPT ![w] = x]
  BY DEF StartSync, ConnectFails, Disconnect, Retry
<1>3. PICK y \in {"connecting", "error", "disconnected"} : status' = [status EXCEPT ![w] = y]
  BY DEF StartSync, ConnectFails, Disconnect, Retry
<1>4. pipe' = pipe \/ pipe' = [pipe EXCEPT ![w] = {}]
  BY DEF StartSync, ConnectFails, Disconnect, Retry
<1>5. link[w] # "fetching"
  BY DEF StartSync, ConnectFails, Disconnect, Retry, IInv, ErrorSleeps
<1>6. ErrorSleeps'
  BY DEF StartSync, ConnectFails, Disconnect, Retry, IInv, ErrorSleeps, TypeOK
<1>7. (\A f \in Fetchers : FetchOK(f))'
  <2>. SUFFICES ASSUME NEW f \in Fetchers
                PROVE  FetchOK(f)'
    OBVIOUS
  <2>1. FetchOK(f)
    BY DEF IInv
  <2>2. CASE f = w
    BY <1>1, <1>5, <2>1, <2>2, IdleFetch DEF FetchOK
  <2>3. CASE f # w
    BY <1>1, <1>2, <2>1, <2>3 DEF FetchOK, FiberOnly, IInv, TypeOK
  <2>. QED
    BY <2>2, <2>3
<1>8. \A v \in Workspaces : Following(v)' => /\ Following(v)
                                            /\ pipe'[v] = pipe[v]
                                            /\ fetch'[v].rows = fetch[v].rows
  BY <1>1, <1>2, <1>4 DEF Following, IInv, TypeOK
<1>9. /\ link' \in [Workspaces -> {"off", "connecting", "fetching", "streaming", "quiet", "sleeping"}]
      /\ status' \in [Workspaces -> {"none", "connecting", "connected", "error", "disconnected"}]
      /\ pipe' \in [Workspaces -> SUBSET Row]
      /\ \A v \in Workspaces : pipe'[v] = pipe[v] \/ pipe'[v] = {}
  BY <1>2, <1>3, <1>4 DEF IInv, TypeOK
<1>. QED
  BY <1>1, <1>6, <1>7, <1>8, <1>9, FiberKeeps DEF IInv, TypeOK

\* The rows of a session that lives in w are known up to the log's own number.
LEMMA AskedOK ==
  ASSUME IInv, NEW w \in Workspaces
  PROVE  /\ Asked(w) \in FetchState
         /\ Asked(w).pc = "asked" /\ Asked(w).from = w /\ Asked(w).rows = {}
         /\ Asked(w).known <= store[Control].seq
<1>1. store[Control].seq \in Nat \cup {-1}
  BY DEF IInv, TypeOK, Store
<1>2. Known(w) \in Nat \cup {-1} /\ Known(w) <= store[Control].seq
  BY <1>1 DEF Known, Has
<1>. QED
  BY <1>2 DEF Asked, FetchState

\* The stream is open, and the history is asked for.
LEMMA ConnectInv ==
  ASSUME IInv, NEW w \in Workspaces, Connect(w)
  PROVE  IInv'
<1>1. /\ FiberOnly /\ UNCHANGED <<status, pipe>>
      /\ link[w] = "connecting"
      /\ link' = [link EXCEPT ![w] = "fetching"]
      /\ fetch' = [fetch EXCEPT ![w] = Asked(w)]
  BY DEF Connect, FiberOnly
<1>2. /\ fetch' \in [Fetchers -> FetchState]
      /\ fetch'[w] = Asked(w)
      /\ \A f \in Fetchers : f # w => fetch'[f] = fetch[f]
      /\ link'[w] = "fetching"
      /\ \A v \in Workspaces : v # w => link'[v] = link[v]
  BY <1>1, AskedOK DEF IInv, TypeOK
<1>3. ErrorSleeps'
  BY <1>1, <1>2 DEF IInv, ErrorSleeps
<1>4. (\A f \in Fetchers : FetchOK(f))'
  <2>. SUFFICES ASSUME NEW f \in Fetchers
                PROVE  FetchOK(f)'
    OBVIOUS
  <2>1. CASE f = w
    BY <1>1, <1>2, <2>1, AskedOK DEF FetchOK, FiberOnly
  <2>2. CASE f # w
    BY <1>1, <1>2, <2>2 DEF FetchOK, FiberOnly, IInv
  <2>. QED
    BY <2>1, <2>2
<1>5. \A v \in Workspaces : Following(v)' => /\ Following(v)
                                            /\ fetch'[v].rows = fetch[v].rows
  BY <1>2, AskedOK DEF Following
<1>6. \A f \in Fetchers : fetch'[f] = fetch[f] \/ fetch'[f].rows = {}
  BY <1>2, AskedOK
<1>7. link' \in [Workspaces -> {"off", "connecting", "fetching", "streaming", "quiet", "sleeping"}]
  BY <1>1 DEF IInv, TypeOK
<1>. QED
  BY <1>1, <1>2, <1>3, <1>4, <1>5, <1>6, <1>7, FiberKeeps DEF IInv, TypeOK

\* A history cannot be had, or has been replayed.
LEMMA HistoryOverInv ==
  ASSUME IInv, NEW f \in Fetchers, HistoryFails(f) \/ HistoryEnds(f)
  PROVE  IInv'
<1>1. FiberOnly /\ UNCHANGED <<link, status, pipe>>
  BY DEF HistoryFails, HistoryEnds, FiberOnly
<1>2. FetchOK(f)
  BY DEF IInv
<1>a. fetch \in [Fetchers -> FetchState] /\ fetch[f] \in FetchState
  BY DEF IInv, TypeOK
<1>3. PICK pc \in {"failed", "done"}, known \in Nat \cup {-1} :
        /\ fetch' = [fetch EXCEPT ![f] = [@ EXCEPT !.pc = pc, !.known = known]]
        /\ fetch[f].rows = {} /\ fetch[f].pc # "idle"
        /\ pc = "done" => fetch[f].pc = "replaying"
  <2>1. CASE HistoryFails(f)
    BY <1>2, <2>1 DEF HistoryFails, FetchOK
  <2>2. ASSUME HistoryEnds(f)
        PROVE  /\ fetch' = [fetch EXCEPT ![f] = [@ EXCEPT !.pc = "done", !.known = fetch[f].known]]
               /\ fetch[f].rows = {} /\ fetch[f].pc = "replaying"
               /\ fetch[f].known \in Nat \cup {-1}
    <3>1. [fetch[f] EXCEPT !.pc = "done", !.known = fetch[f].known]
            = [fetch[f] EXCEPT !.pc = "done"]
      BY <1>a DEF FetchState
    <3>. QED
      BY <1>a, <2>2, <3>1 DEF HistoryEnds, FetchState
  <2>. QED
    BY <2>1, <2>2
<1>4. /\ fetch' \in [Fetchers -> FetchState]
      /\ fetch'[f].pc = pc /\ fetch'[f].rows = {} /\ fetch'[f].from = fetch[f].from
      /\ \A g \in Fetchers : g # f => fetch'[g] = fetch[g]
  <2>. DEFINE y == [fetch[f] EXCEPT !.pc = pc, !.known = known]
  <2>1. y \in FetchState /\ y.pc = pc /\ y.rows = fetch[f].rows /\ y.from = fetch[f].from
    BY <1>a DEF FetchState
  <2>2. fetch' = [fetch EXCEPT ![f] = y]
    BY <1>3
  <2>. QED
    BY <1>3, <1>a, <2>1, <2>2
<1>5. (\A g \in Fetchers : FetchOK(g))'
  <2>. SUFFICES ASSUME NEW g \in Fetchers
                PROVE  FetchOK(g)'
    OBVIOUS
  <2>1. CASE g = f
    BY <1>1, <1>2, <1>3, <1>4, <2>1 DEF FetchOK
  <2>2. CASE g # f
    BY <1>1, <1>4, <2>2 DEF FetchOK, FiberOnly, IInv
  <2>. QED
    BY <2>1, <2>2
<1>6. \A v \in Workspaces : Following(v)' => /\ Following(v)
                                            /\ fetch'[v].rows = fetch[v].rows
  BY <1>1, <1>3, <1>4 DEF Following
<1>7. \A g \in Fetchers : fetch'[g] = fetch[g] \/ fetch'[g].rows = {}
  BY <1>4
<1>8. ErrorSleeps'
  BY <1>1 DEF IInv, ErrorSleeps
<1>. QED
  BY <1>1, <1>4, <1>5, <1>6, <1>7, <1>8, FiberKeeps DEF IInv, TypeOK

\* The fiber goes on with the stream, or gives it up.
LEMMA AfterHistoryInv ==
  ASSUME IInv, NEW w \in Workspaces, AfterHistory(w)
  PROVE  IInv'
<1>. w \in Fetchers
  OBVIOUS
<1>1. /\ FiberOnly
      /\ link[w] = "fetching"
      /\ fetch' = [fetch EXCEPT ![w] = NoFetch]
  BY DEF AfterHistory, FiberOnly
<1>2. FetchOK(w)
  BY DEF IInv
<1>3. \/ /\ fetch[w].pc = "done" /\ fetch[w].rows = {}
         /\ link' = [link EXCEPT ![w] = "streaming"]
         /\ status' = [status EXCEPT ![w] = "connected"]
         /\ pipe' = pipe
      \/ /\ \/ /\ link' = [link EXCEPT ![w] = "quiet"]
               /\ status' = [status EXCEPT ![w] = "connected"]
            \/ /\ link' = [link EXCEPT ![w] = "sleeping"]
               /\ status' = [status EXCEPT ![w] = "error"]
         /\ pipe' = [pipe EXCEPT ![w] = {}]
  <2>1. CASE Connected(w)
    <3>1. fetch[w].pc = "done" /\ fetch[w].rows = {}
      BY <1>2, <2>1 DEF Connected, FetchOK
    <3>2. PICK s \in Streams :
            /\ link' = [link EXCEPT ![w] = s]
            /\ pipe' = IF s = "quiet" THEN [pipe EXCEPT ![w] = {}] ELSE pipe
      BY <2>1 DEF Connected
    <3>3. s = "streaming" \/ s = "quiet"
      OBVIOUS
    <3>. QED
      BY <2>1, <3>1, <3>2, <3>3 DEF Connected
  <2>2. CASE HistoryRefused(w)
    BY <2>2 DEF HistoryRefused
  <2>. QED
    BY <2>1, <2>2 DEF AfterHistory
<1>4. /\ fetch' \in [Fetchers -> FetchState]
      /\ fetch'[w] = NoFetch
      /\ \A f \in Fetchers : f # w => fetch'[f] = fetch[f]
  BY <1>1 DEF IInv, TypeOK, FetchState, NoFetch
<1>5. ErrorSleeps'
  BY <1>3 DEF IInv, ErrorSleeps, TypeOK
<1>6. (\A f \in Fetchers : FetchOK(f))'
  <2>. SUFFICES ASSUME NEW f \in Fetchers
                PROVE  FetchOK(f)'
    OBVIOUS
  <2>1. CASE f = w
    BY <1>4, <2>1 DEF FetchOK, NoFetch
  <2>2. CASE f # w
    BY <1>1, <1>3, <1>4, <2>2 DEF FetchOK, FiberOnly, IInv, TypeOK
  <2>. QED
    BY <2>1, <2>2
<1>7. \A v \in Workspaces : Following(v)' => /\ Following(v)
                                            /\ pipe'[v] = pipe[v]
                                            /\ fetch'[v].rows = fetch[v].rows
  <2>. SUFFICES ASSUME NEW v \in Workspaces, Following(v)'
                PROVE  Following(v) /\ pipe'[v] = pipe[v] /\ fetch'[v].rows = fetch[v].rows
    OBVIOUS
  <2>0. link \in [Workspaces -> {"off", "connecting", "fetching", "streaming", "quiet", "sleeping"}]
        /\ v \in Fetchers
    BY DEF IInv, TypeOK
  <2>1. CASE v = w
    <3>1. fetch'[v].pc = "idle" /\ fetch'[v].rows = {}
      BY <1>4, <2>1 DEF NoFetch
    <3>2. link' = [link EXCEPT ![w] = "streaming"]
      BY <1>3, <2>0, <2>1, <3>1 DEF Following
    <3>. QED
      BY <1>1, <1>3, <2>0, <2>1, <3>1, <3>2 DEF Following
  <2>2. CASE v # w
    <3>1. link'[v] = link[v] /\ fetch'[v] = fetch[v]
      BY <1>3, <1>4, <2>0, <2>2
    <3>2. pipe'[v] = pipe[v]
      BY <1>3, <2>2 DEF IInv, TypeOK
    <3>. QED
      BY <3>1, <3>2 DEF Following
  <2>. QED
    BY <2>1, <2>2
<1>8. \A f \in Fetchers : fetch'[f] = fetch[f] \/ fetch'[f].rows = {}
  BY <1>4 DEF NoFetch
<1>9. /\ link' \in [Workspaces -> {"off", "connecting", "fetching", "streaming", "quiet", "sleeping"}]
      /\ status' \in [Workspaces -> {"none", "connecting", "connected", "error", "disconnected"}]
      /\ pipe' \in [Workspaces -> SUBSET Row]
      /\ \A v \in Workspaces : pipe'[v] = pipe[v] \/ pipe'[v] = {}
  BY <1>3 DEF IInv, TypeOK
<1>. QED
  BY <1>1, <1>4, <1>5, <1>6, <1>7, <1>8, <1>9, FiberKeeps

\* A whole log answers for every number that the asker lacks.
LEMMA HistoryArrivesInv ==
  ASSUME IInv, NEW f \in Fetchers, HistoryArrives(f)
  PROVE  IInv'
<1>. DEFINE from == fetch[f].from
            known == fetch[f].known
            rows == Since(store[from], known)
<1>1. FiberOnly /\ UNCHANGED <<link, status, pipe>>
  BY DEF HistoryArrives, FiberOnly
<1>2. /\ FetchOK(f) /\ fetch[f].pc = "asked"
      /\ from \in Workspaces /\ from \in Nodes
      /\ known \in Int /\ known <= store[Control].seq
  BY DEF HistoryArrives, IInv, FetchOK, TypeOK, FetchState
<1>3. store[from] \in Store /\ store[Control] \in Store /\ Whole(store[from])
  BY <1>2 DEF IInv, TypeOK, LogIsWhole
<1>4. rows \in SUBSET Row /\ rows \subseteq store[from].rows
  BY <1>3 DEF Since, Store
<1>5. /\ fetch' \in [Fetchers -> FetchState]
      /\ fetch'[f].pc = "replaying" /\ fetch'[f].rows = rows /\ fetch'[f].from = from
      /\ \A g \in Fetchers : g # f => fetch'[g] = fetch[g]
  <2>. DEFINE y == [fetch[f] EXCEPT !.pc = "replaying", !.known = -1, !.rows = rows]
  <2>1. fetch \in [Fetchers -> FetchState] /\ fetch[f] \in FetchState
    BY DEF IInv, TypeOK
  <2>2. y \in FetchState /\ y.pc = "replaying" /\ y.rows = rows /\ y.from = from
    BY <1>4, <2>1 DEF FetchState
  <2>3. fetch' = [fetch EXCEPT ![f] = y]
    BY DEF HistoryArrives
  <2>. QED
    BY <2>1, <2>2, <2>3
<1>6. /\ LogIsWhole' /\ Unowned' /\ LoopHasLog'
      /\ (\A k \in Warps : WarpOK(k))' /\ PostCovers'
      /\ TypeOK'
  BY <1>1, <1>5, FiberFacts DEF IInv, TypeOK
<1>7. EventsAreGenuine' /\ ErrorSleeps'
  BY <1>1, <1>2, <1>4, <1>5 DEF FiberOnly, IInv, EventsAreGenuine, ErrorSleeps
<1>8. (\A g \in Fetchers : FetchOK(g))'
  BY <1>1, <1>2, <1>5 DEF FetchOK, FiberOnly, IInv
<1>9. \A i \in Nat : \A r \in store[from].rows :
        store[Control].seq < i /\ i <= r.seq => \E q \in rows : q.seq = i
  <2>. SUFFICES ASSUME NEW i \in Nat, NEW r \in store[from].rows,
                       store[Control].seq < i, i <= r.seq
                PROVE  \E q \in rows : q.seq = i
    OBVIOUS
  <2>1. r.seq \in 0 .. store[from].seq
    BY <1>3 DEF Whole
  <2>2. i \in 0 .. store[from].seq
    BY <1>3, <2>1 DEF Store
  <2>3. PICK q \in store[from].rows : q.seq = i
    BY <1>3, <2>2 DEF Whole
  <2>4. q.seq > known
    BY <1>2, <1>3, <2>3 DEF Store
  <2>. QED
    BY <2>3, <2>4 DEF Since
<1>10. HistoryCovers'
  <2>1. Covers(rows, store[Control])
    <3>. SUFFICES ASSUME NEW r \in rows, NEW i \in (store[Control].seq + 1) .. r.seq
                  PROVE  \E q \in rows : q.seq = i
      BY DEF Covers
    <3>1. i \in Nat /\ store[Control].seq < i /\ i <= r.seq
      BY <1>3, <1>4 DEF Store, Row
    <3>. QED
      BY <1>4, <1>9, <3>1
  <2>. QED
    BY <1>1, <1>5, <2>1 DEF HistoryCovers, IInv, FiberOnly
<1>11. NothingIsMissed'
  <2>. SUFFICES ASSUME store[Control].owner = None, NEW w \in Workspaces, Following(w)',
                       NEW q \in store[w].rows, q.seq > store[Control].seq
                PROVE  q \in pipe[w] \cup fetch'[w].rows
    BY <1>1 DEF NothingIsMissed, FiberOnly
  <2>1. CASE w = f
    <3>1. from = w
      BY <1>2, <2>1 DEF FetchOK
    <3>2. q.seq \in Nat
      BY DEF IInv, TypeOK, Store, Row
    <3>3. q.seq > known
      BY <1>2, <1>3, <3>2 DEF Store
    <3>. QED
      BY <1>5, <2>1, <3>1, <3>3 DEF Since
  <2>2. CASE w # f
    BY <1>1, <1>5, <2>2 DEF IInv, NothingIsMissed, Following
  <2>. QED
    BY <2>1, <2>2
<1>. QED
  BY <1>6, <1>7, <1>8, <1>10, <1>11 DEF IInv

-----------------------------------------------------------------------------
(* Replaying *)

\* What a stream brings meets no gap: the workspace's whole log is there or on its way.
LEMMA StreamNoGap ==
  ASSUME IInv, NEW w \in Workspaces, link[w] = "streaming", NEW r \in Firsts(pipe[w])
  PROVE  ~Dies(store[Control], r, None)
<1>. SUFFICES ASSUME Dies(store[Control], r, None)
              PROVE  FALSE
  OBVIOUS
<1>. DEFINE n == store[Control].seq + 1
<1>1. r \in pipe[w] /\ r \in store[w].rows /\ Whole(store[w])
  BY DEF Firsts, IInv, EventsAreGenuine, LogIsWhole, TypeOK, SyncAssumption
<1>2. store[w] \in Store /\ store[Control] \in Store /\ r \in Row
  BY <1>1 DEF IInv, TypeOK
<1>3. store[Control].owner = None /\ n \in Nat /\ n < r.seq
  BY <1>2 DEF Dies, Duplicate, Foreign, Gap, Store, Row
<1>4. r.seq \in 0 .. store[w].seq
  BY <1>1 DEF Whole
<1>5. n \in 0 .. store[w].seq
  BY <1>2, <1>3, <1>4 DEF Store
<1>6. PICK q \in store[w].rows : q.seq = n
  BY <1>1, <1>5 DEF Whole
<1>7. q.seq > store[Control].seq
  BY <1>2, <1>6 DEF Store
<1>8. q \in pipe[w]
  <2>1. fetch[w].rows = {}
    BY IdleFetch
  <2>. QED
    BY <1>1, <1>3, <1>6, <1>7, <2>1 DEF IInv, NothingIsMissed, Following
<1>. QED
  BY <1>2, <1>3, <1>6, <1>8 DEF Firsts, Row

\* Replaying a genuine event at one node.
LEMMA ReplayGenuine ==
  ASSUME IInv, NEW n \in Nodes, NEW r \in Row, r \in store[r.by].rows,
         store' = [store EXCEPT ![n] = Replayed(@, r, None)],
         \A w \in Workspaces : pipe'[w] \subseteq pipe[w],
         \A f \in Fetchers : fetch'[f].rows \subseteq fetch[f].rows
  PROVE  EventsAreGenuine'
<1>1. /\ Grows
      /\ \A m \in Nodes : m # n => store'[m] = store[m]
      /\ store'[n].rows \subseteq store[n].rows \cup {r}
  BY ReplayFacts
<1>2. \A m \in Nodes : \A q \in store'[m].rows : q \in store'[q.by].rows
  <2>. SUFFICES ASSUME NEW m \in Nodes, NEW q \in store'[m].rows
                PROVE  q \in store'[q.by].rows
    OBVIOUS
  <2>1. q \in store[m].rows \/ q = r
    BY <1>1
  <2>2. q \in Row /\ q \in store[q.by].rows
    BY <2>1 DEF IInv, TypeOK, Store, EventsAreGenuine
  <2>. QED
    BY <1>1, <2>2 DEF Grows, Row
<1>3. \A w \in Workspaces : pipe'[w] \subseteq store'[w].rows
  BY <1>1 DEF IInv, EventsAreGenuine, Grows
<1>4. \A f \in Fetchers : \A q \in fetch'[f].rows : q \in store'[q.by].rows
  <2>1. \A f \in Fetchers : \A q \in fetch[f].rows : q.by \in Nodes
    BY DEF IInv, TypeOK, FetchState, Row
  <2>. QED
    BY <1>1, <2>1 DEF IInv, EventsAreGenuine, Grows
<1>. QED
  BY <1>2, <1>3, <1>4 DEF EventsAreGenuine

\* Replaying on the control plane what a history or a stream brings.
LEMMA ReplayHere ==
  ASSUME IInv, NEW r \in Row, r \in store[r.by].rows, ~Dies(store[Control], r, None),
         store' = [store EXCEPT ![Control] = Replayed(@, r, None)],
         fetch' \in [Fetchers -> FetchState], pipe' \in [Workspaces -> SUBSET Row],
         (\A f \in Fetchers : FetchOK(f))',
         \A f \in Fetchers : fetch'[f].rows = fetch[f].rows \/ fetch'[f].rows = fetch[f].rows \ {r},
         \A f \in Fetchers : fetch'[f].pc = fetch[f].pc,
         \A f \in Fetchers : fetch'[f].rows # fetch[f].rows => r \in fetch[f].rows,
         \A w \in Workspaces : pipe'[w] = pipe[w] \/ pipe'[w] = pipe[w] \ {r},
         UNCHANGED <<loop, link, status, warp, fence>>
  PROVE  IInv'
<1>1. /\ store' \in [Nodes -> Store]
      /\ LogIsWhole' /\ Unowned' /\ Grows
      /\ \A m \in Nodes : m # Control => store'[m] = store[m]
      /\ store'[Control].owner = store[Control].owner
      /\ store[Control].owner = None => r.seq <= store'[Control].seq
  BY ReplayFacts
<1>2. TypeOK'
  BY <1>1 DEF IInv, TypeOK
<1>3. EventsAreGenuine'
  <2>1. /\ Control \in Nodes
        /\ \A w \in Workspaces : pipe'[w] \subseteq pipe[w]
        /\ \A f \in Fetchers : fetch'[f].rows \subseteq fetch[f].rows
    OBVIOUS
  <2>. QED
    BY <2>1, ReplayGenuine
<1>4. LoopHasLog' /\ ErrorSleeps'
  BY <1>1, LoopStill DEF IInv, ErrorSleeps
<1>5. (\A k \in Warps : WarpOK(k))' /\ PostCovers'
  BY <1>1, WarpStill DEF IInv, TypeOK
<1>6. HistoryCovers'
  <2>. SUFFICES ASSUME store[Control].owner = None, NEW f \in Fetchers
                PROVE  Covers(fetch'[f].rows, store'[Control])
    BY <1>1 DEF HistoryCovers
  <2>1. /\ Covers(fetch[f].rows, store[Control])
        /\ fetch[f].rows \in SUBSET Row
        /\ store[Control] \in Store /\ store'[Control] \in Store
        /\ store[Control].seq <= store'[Control].seq
    BY <1>1 DEF HistoryCovers, IInv, TypeOK, FetchState, Grows
  <2>2. CASE fetch'[f].rows = fetch[f].rows
    BY <2>1, <2>2, CoversMore
  <2>3. CASE fetch'[f].rows # fetch[f].rows
    BY <1>1, <2>1, <2>3, CoversRest
  <2>. QED
    BY <2>2, <2>3
<1>7. NothingIsMissed'
  <2>. SUFFICES ASSUME store[Control].owner = None, NEW w \in Workspaces, Following(w),
                       NEW q \in store[w].rows, q.seq > store'[Control].seq
                PROVE  q \in pipe'[w] \cup fetch'[w].rows
    BY <1>1 DEF NothingIsMissed, Following
  <2>1. q.seq \in Int /\ store[Control].seq \in Int /\ store'[Control].seq \in Int
    BY <1>1 DEF IInv, TypeOK, Store, Row
  <2>2. q.seq > store[Control].seq /\ q # r
    BY <1>1, <2>1 DEF Grows, Row
  <2>3. q \in pipe[w] \cup fetch[w].rows
    BY <2>2 DEF IInv, NothingIsMissed
  <2>. QED
    BY <2>2, <2>3
<1>. QED
  BY <1>1, <1>2, <1>3, <1>4, <1>5, <1>6, <1>7 DEF IInv

\* The next event of a history.
LEMMA HistoryReplayInv ==
  ASSUME IInv, NEW f \in Fetchers, HistoryReplay(f)
  PROVE  IInv'
<1>1. PICK r \in Firsts(fetch[f].rows) :
        /\ store' = [store EXCEPT ![Control] = Replayed(@, r, None)]
        /\ fetch' = IF Dies(store[Control], r, None)
                    THEN [fetch EXCEPT ![f] = [@ EXCEPT !.pc = "died", !.rows = {}]]
                    ELSE [fetch EXCEPT ![f].rows = @ \ {r}]
  BY DEF HistoryReplay
<1>2. /\ fetch \in [Fetchers -> FetchState] /\ fetch[f] \in FetchState
      /\ r \in fetch[f].rows /\ r \in Row
      /\ store[Control] \in Store
  BY DEF IInv, TypeOK, FetchState, Firsts
<1>3. ~Dies(store[Control], r, None)
  <2>1. fetch[f].rows \in SUBSET Row
    BY <1>2 DEF FetchState
  <2>. QED
    BY <1>2, <2>1, CoveredNoGap DEF IInv, HistoryCovers
<1>4. r \in store[r.by].rows
  BY <1>2 DEF IInv, EventsAreGenuine
<1>5. /\ fetch' \in [Fetchers -> FetchState]
      /\ fetch'[f].rows = fetch[f].rows \ {r}
      /\ fetch'[f].pc = fetch[f].pc /\ fetch'[f].from = fetch[f].from
      /\ \A g \in Fetchers : g # f => fetch'[g] = fetch[g]
  <2>. DEFINE y == [fetch[f] EXCEPT !.rows = @ \ {r}]
  <2>1. /\ y \in FetchState /\ y.rows = fetch[f].rows \ {r}
        /\ y.pc = fetch[f].pc /\ y.from = fetch[f].from
    BY <1>2 DEF FetchState
  <2>2. fetch' = [fetch EXCEPT ![f] = y]
    BY <1>1, <1>3
  <2>. QED
    BY <1>2, <2>1, <2>2
<1>6. UNCHANGED <<loop, link, status, pipe, warp, fence>>
  BY DEF HistoryReplay
<1>7. (\A g \in Fetchers : FetchOK(g))'
  <2>1. fetch[f].pc = "replaying"
    BY DEF HistoryReplay
  <2>. SUFFICES ASSUME NEW g \in Fetchers
                PROVE  FetchOK(g)'
    OBVIOUS
  <2>2. FetchOK(g)
    BY DEF IInv
  <2>3. CASE g = f
    BY <1>5, <1>6, <2>1, <2>2, <2>3 DEF FetchOK
  <2>4. CASE g # f
    <3>. store' \in [Nodes -> Store] /\ Control \in Nodes
      BY <1>1, <1>2, ReplayFacts
    <3>1. store[Control].seq <= store'[Control].seq
      BY <1>1, <1>2, ReplayFacts DEF Grows
    <3>2. store'[Control] \in Store /\ fetch[g] \in FetchState
      BY <1>2
    <3>3. store'[Control].seq \in Int /\ store[Control].seq \in Int /\ fetch[g].known \in Int
      BY <1>2, <3>2 DEF Store, FetchState
    <3>. QED
      BY <1>5, <1>6, <2>2, <2>4, <3>1, <3>3 DEF FetchOK
  <2>. QED
    BY <2>3, <2>4
<1>. QED
  BY <1>1, <1>2, <1>3, <1>4, <1>5, <1>6, <1>7, ReplayHere DEF IInv, TypeOK

\* The next event of a stream.
LEMMA ReceiveInv ==
  ASSUME IInv, NEW w \in Workspaces, Receive(w)
  PROVE  IInv'
<1>1. PICK r \in Firsts(pipe[w]) :
        /\ store' = [store EXCEPT ![Control] = Replayed(@, r, None)]
        /\ pipe' = [pipe EXCEPT ![w] = @ \ {r}]
  BY DEF Receive
<1>2. link[w] = "streaming" /\ UNCHANGED <<loop, link, status, fetch, warp, fence>>
  BY DEF Receive
<1>3. ~Dies(store[Control], r, None)
  BY <1>2, StreamNoGap
<1>4. r \in pipe[w] /\ r \in Row
  BY DEF Firsts, IInv, TypeOK
<1>5. r \in store[r.by].rows
  BY <1>4 DEF IInv, EventsAreGenuine
<1>6. pipe' \in [Workspaces -> SUBSET Row] /\ \A v \in Workspaces : pipe'[v] = pipe[v] \/ pipe'[v] = pipe[v] \ {r}
  BY <1>1 DEF IInv, TypeOK
<1>7. (\A f \in Fetchers : FetchOK(f))'
  <2>1. store' \in [Nodes -> Store] /\ Grows
    BY <1>1, <1>4, ReplayFacts
  <2>. QED
    BY <1>2, <2>1, FetchStill
<1>. QED
  BY <1>1, <1>2, <1>3, <1>4, <1>5, <1>6, <1>7, ReplayHere DEF IInv, TypeOK

-----------------------------------------------------------------------------
(* Warps *)

\* Nothing but a warp, and what it fetches, moves.
WarpOnly == UNCHANGED <<store, loop, link, status, pipe, fence>>

LEMMA WarpFacts ==
  ASSUME IInv, WarpOnly
  PROVE  /\ LogIsWhole' /\ Unowned' /\ LoopHasLog' /\ ErrorSleeps'
         /\ store' \in [Nodes -> Store] /\ Grows
<1>1. LogIsWhole' /\ Unowned' /\ LoopHasLog' /\ ErrorSleeps'
  BY DEF WarpOnly, IInv, LogIsWhole, Unowned, LoopHasLog, Has, ErrorSleeps
<1>2. store' \in [Nodes -> Store]
  BY DEF WarpOnly, IInv, TypeOK
<1>3. \A m \in Nodes : store[m].seq \in Int
  BY DEF IInv, TypeOK, Store
<1>. QED
  BY <1>1, <1>2, <1>3 DEF Grows, WarpOnly

\* A session of a workspace has its last history fetched.
LEMMA WarpStartInv ==
  ASSUME IInv, NEW k \in Warps, NEW to \in Nodes, WarpStart(k, to)
  PROVE  IInv'
<1>. DEFINE from == PlaceOf(store[Control])
<1>1. WarpOnly /\ warp[k].pc = "new" /\ Has(Control)
  BY DEF WarpStart, WarpOnly
<1>2. from \in Nodes
  BY <1>1, LatestRow DEF Has, IInv, TypeOK, LogIsWhole
<1>3. warp[k] \in WarpState /\ warp[k].rows = {} /\ k \in Fetchers /\ k \notin Workspaces
  BY <1>1 DEF IInv, TypeOK, WarpOK
<1>4. PICK pc \in {"read", "attach", "source"} :
        /\ warp' = [warp EXCEPT ![k] = [@ EXCEPT !.pc = pc, !.to = to]]
        /\ pc = "read" => to \in Workspaces
        /\ pc # "source" => UNCHANGED fetch
        /\ pc = "source" => from \in Workspaces /\ fetch' = [fetch EXCEPT ![k] = Asked(from)]
  BY <1>1, <1>2 DEF WarpStart, AfterClaim
<1>5. /\ warp' \in [Warps -> WarpState]
      /\ warp'[k].pc = pc /\ warp'[k].to = to /\ warp'[k].rows = {}
      /\ \A j \in Warps : j # k => warp'[j] = warp[j]
  <2>. DEFINE y == [warp[k] EXCEPT !.pc = pc, !.to = to]
  <2>1. y \in WarpState /\ y.pc = pc /\ y.to = to /\ y.rows = {}
    BY <1>3 DEF WarpState
  <2>2. warp \in [Warps -> WarpState] /\ warp' = [warp EXCEPT ![k] = y]
    BY <1>4 DEF IInv, TypeOK
  <2>. QED
    BY <2>1, <2>2
<1>6. /\ fetch' \in [Fetchers -> FetchState]
      /\ \A f \in Fetchers : f # k => fetch'[f] = fetch[f]
      /\ \/ fetch'[k] = fetch[k]
         \/ from \in Workspaces /\ fetch'[k] = Asked(from)
  BY <1>3, <1>4, AskedOK DEF IInv, TypeOK
<1>7. /\ LogIsWhole' /\ Unowned' /\ LoopHasLog' /\ ErrorSleeps'
      /\ (\A j \in Warps : WarpOK(j))' /\ PostCovers'
  BY <1>1, <1>4, <1>5, WarpFacts, WarpStill
<1>8. TypeOK'
  BY <1>1, <1>5, <1>6 DEF WarpOnly, IInv, TypeOK
<1>9. (\A f \in Fetchers : FetchOK(f))'
  <2>. SUFFICES ASSUME NEW f \in Fetchers
                PROVE  FetchOK(f)'
    OBVIOUS
  <2>1. CASE fetch'[f] = fetch[f]
    BY <1>1, <2>1 DEF WarpOnly, FetchOK, IInv
  <2>2. CASE f = k /\ from \in Workspaces /\ fetch'[k] = Asked(from)
    BY <1>1, <1>3, <2>2, AskedOK DEF WarpOnly, FetchOK
  <2>. QED
    BY <1>6, <2>1, <2>2
<1>10. \A f \in Fetchers : fetch'[f].rows = fetch[f].rows \/ fetch'[f].rows = {}
  BY <1>6, AskedOK
<1>11. EventsAreGenuine' /\ HistoryCovers'
  BY <1>1, <1>10 DEF WarpOnly, IInv, EventsAreGenuine, HistoryCovers, Covers
<1>12. NothingIsMissed'
  BY <1>1, <1>3, <1>6 DEF WarpOnly, IInv, NothingIsMissed, Following
<1>. QED
  BY <1>7, <1>8, <1>9, <1>11, <1>12 DEF IInv

\* From the claim on, the control plane's log takes no replays.
LEMMA WarpClaimInv ==
  ASSUME IInv, NEW k \in Warps, WarpClaim(k)
  PROVE  IInv'
<1>. DEFINE s == store[Control]
            t == Claim(k)
<1>1. /\ warp[k].pc = "source" /\ k \in Fetchers /\ k \notin Workspaces
      /\ warp[k] \in WarpState /\ warp[k].to \in Nodes /\ warp[k].rows = {}
  BY DEF WarpClaim, IInv, TypeOK, WarpOK
<1>2. s \in Store /\ Whole(s) /\ (s.seq = -1 => s.owner = None)
  BY DEF IInv, TypeOK, LogIsWhole, Unowned
<1>3. /\ t \in Store /\ Whole(t)
      /\ t.rows = s.rows /\ t.seq = s.seq
      /\ t.seq = -1 => t.owner = None
      /\ s.seq >= 0 => t.owner # None
      /\ s.seq = -1 => t = s
  BY <1>1, <1>2, ClaimedStore DEF Claim
<1>4. /\ store' \in [Nodes -> Store] /\ store'[Control] = t
      /\ \A m \in Nodes : m # Control => store'[m] = store[m]
  BY <1>3 DEF WarpClaim, IInv, TypeOK
<1>5. t.owner = None => t = s
  BY <1>2, <1>3 DEF Store
<1>6. /\ \A m \in Nodes : store'[m].rows = store[m].rows /\ store'[m].seq = store[m].seq
      /\ Grows
  <2>1. \A m \in Nodes : store'[m].rows = store[m].rows /\ store'[m].seq = store[m].seq
    BY <1>3, <1>4
  <2>2. \A m \in Nodes : store'[m].owner = None => store[m].owner = None
    BY <1>4, <1>5
  <2>3. \A m \in Nodes : store[m].seq \in Int
    BY DEF IInv, TypeOK, Store
  <2>. QED
    BY <2>1, <2>2, <2>3 DEF Grows
<1>7. LogIsWhole' /\ Unowned'
  BY <1>3, <1>4 DEF IInv, LogIsWhole, Unowned
<1>8. UNCHANGED <<loop, link, status, pipe, fence>>
  BY DEF WarpClaim
<1>9. /\ fetch' \in [Fetchers -> FetchState]
      /\ fetch'[k] = NoFetch
      /\ \A f \in Fetchers : f # k => fetch'[f] = fetch[f]
  BY <1>1 DEF WarpClaim, IInv, TypeOK, FetchState, NoFetch
<1>10. PICK pc \in {"attach", "read"} :
         /\ warp' = [warp EXCEPT ![k].pc = pc]
         /\ pc = "read" => warp[k].to # Control
  BY DEF WarpClaim, AfterClaim
<1>11. /\ warp' \in [Warps -> WarpState]
       /\ warp'[k].pc = pc /\ warp'[k].to = warp[k].to /\ warp'[k].rows = {}
       /\ \A j \in Warps : j # k => warp'[j] = warp[j]
  <2>. DEFINE y == [warp[k] EXCEPT !.pc = pc]
  <2>1. y \in WarpState /\ y.pc = pc /\ y.to = warp[k].to /\ y.rows = {}
    BY <1>1 DEF WarpState
  <2>2. warp \in [Warps -> WarpState] /\ warp' = [warp EXCEPT ![k] = y]
    BY <1>10 DEF IInv, TypeOK
  <2>. QED
    BY <2>1, <2>2
<1>12. (\A j \in Warps : WarpOK(j))' /\ PostCovers'
  BY <1>1, <1>4, <1>6, <1>10, <1>11, WarpStill
<1>13. TypeOK'
  BY <1>4, <1>8, <1>9, <1>11 DEF IInv, TypeOK
<1>14. LoopHasLog' /\ ErrorSleeps'
  BY <1>4, <1>6, <1>8, LoopStill DEF IInv, ErrorSleeps
<1>15. (\A f \in Fetchers : FetchOK(f))'
  <2>. SUFFICES ASSUME NEW f \in Fetchers
                PROVE  FetchOK(f)'
    OBVIOUS
  <2>1. CASE f = k
    BY <1>9, <2>1 DEF FetchOK, NoFetch
  <2>2. CASE f # k
    BY <1>6, <1>8, <1>9, <2>2 DEF FetchOK, IInv
  <2>. QED
    BY <2>1, <2>2
<1>16. EventsAreGenuine'
  <2>1. \A n \in Nodes : \A r \in store[n].rows : r.by \in Nodes
    BY DEF IInv, TypeOK, Store, Row
  <2>2. \A f \in Fetchers : \A r \in fetch[f].rows : r.by \in Nodes
    BY DEF IInv, TypeOK, FetchState, Row
  <2>. QED
    BY <1>6, <1>8, <1>9, <2>1, <2>2 DEF IInv, EventsAreGenuine, NoFetch
<1>17. HistoryCovers'
  BY <1>4, <1>5, <1>9 DEF IInv, HistoryCovers, Covers, NoFetch
<1>18. NothingIsMissed'
  BY <1>1, <1>4, <1>5, <1>8, <1>9 DEF IInv, NothingIsMissed, Following
<1>. QED
  BY <1>7, <1>12, <1>13, <1>14, <1>15, <1>16, <1>17, <1>18 DEF IInv

\* A warp reads the whole log, or gives up.
LEMMA WarpBatchInv ==
  ASSUME IInv, NEW k \in Warps, WarpRead(k) \/ WarpFails(k)
  PROVE  IInv'
<1>1. WarpOnly /\ UNCHANGED fetch
  BY DEF WarpRead, WarpFails, WarpOnly
<1>2. warp[k].pc \in {"read", "post"} /\ warp[k] \in WarpState /\ warp[k].to \in Workspaces
  BY DEF WarpRead, WarpFails, IInv, TypeOK, WarpOK
<1>3. PICK pc \in {"post", "failed"}, rows \in SUBSET store[Control].rows :
        /\ warp' = [warp EXCEPT ![k] = [@ EXCEPT !.pc = pc, !.rows = rows]]
        /\ pc = "post" => rows = store[Control].rows
        /\ pc = "failed" => rows = {}
  BY DEF WarpRead, WarpFails
<1>4. /\ warp' \in [Warps -> WarpState]
      /\ warp'[k].pc = pc /\ warp'[k].to = warp[k].to /\ warp'[k].rows = rows
      /\ \A j \in Warps : j # k => warp'[j] = warp[j]
  <2>. DEFINE y == [warp[k] EXCEPT !.pc = pc, !.rows = rows]
  <2>1. rows \in SUBSET Row
    BY DEF IInv, TypeOK, Store
  <2>2. y \in WarpState /\ y.pc = pc /\ y.to = warp[k].to /\ y.rows = rows
    BY <1>2, <2>1 DEF WarpState
  <2>3. warp \in [Warps -> WarpState] /\ warp' = [warp EXCEPT ![k] = y]
    BY <1>3 DEF IInv, TypeOK
  <2>. QED
    BY <2>2, <2>3
<1>5. /\ LogIsWhole' /\ Unowned' /\ LoopHasLog' /\ ErrorSleeps'
  BY <1>1, WarpFacts
<1>6. (\A j \in Warps : WarpOK(j))'
  BY <1>1, <1>2, <1>3, <1>4 DEF WarpOnly, IInv, WarpOK
<1>7. Covers(store[Control].rows, store[warp[k].to])
  <2>. DEFINE c == store[Control]
              u == store[warp[k].to]
  <2>. SUFFICES ASSUME NEW r \in c.rows, NEW i \in (u.seq + 1) .. r.seq
                PROVE  \E q \in c.rows : q.seq = i
    BY DEF Covers
  <2>1. c \in Store /\ u \in Store /\ Whole(c)
    BY <1>2 DEF IInv, TypeOK, LogIsWhole
  <2>2. r.seq \in 0 .. c.seq
    BY <2>1 DEF Whole
  <2>3. i \in 0 .. c.seq
    BY <2>1, <2>2 DEF Store
  <2>. QED
    BY <2>1, <2>3 DEF Whole
<1>8. PostCovers'
  BY <1>1, <1>3, <1>4, <1>7 DEF WarpOnly, IInv, PostCovers
<1>9. TypeOK' /\ EventsAreGenuine'
  BY <1>1, <1>4 DEF WarpOnly, IInv, TypeOK, EventsAreGenuine
<1>10. (\A f \in Fetchers : FetchOK(f))'
  BY <1>1 DEF WarpOnly, IInv, FetchOK
<1>11. HistoryCovers' /\ NothingIsMissed'
  BY <1>1 DEF WarpOnly, IInv, HistoryCovers, NothingIsMissed, Following
<1>. QED
  BY <1>5, <1>6, <1>8, <1>9, <1>10, <1>11 DEF IInv

\* The target replays the next event of the batch.
LEMMA WarpPostInv ==
  ASSUME IInv, NEW k \in Warps, WarpPost(k)
  PROVE  IInv'
<1>. DEFINE to == warp[k].to
<1>1. /\ warp[k].pc = "post" /\ warp[k] \in WarpState
      /\ to \in Workspaces /\ to \in Nodes /\ to # Control
      /\ warp[k].rows \subseteq store[Control].rows
      /\ warp[k].rows \in SUBSET Row
  BY DEF WarpPost, IInv, TypeOK, WarpOK, WarpState
<1>2. PICK r \in Firsts(warp[k].rows) :
        /\ store' = [store EXCEPT ![to] = Replayed(@, r, None)]
        /\ warp' = IF Dies(store[to], r, None)
                   THEN [warp EXCEPT ![k] = [@ EXCEPT !.pc = "failed", !.rows = {}]]
                   ELSE [warp EXCEPT ![k].rows = @ \ {r}]
  BY DEF WarpPost
<1>3. r \in warp[k].rows /\ r \in Row /\ r \in store[Control].rows
  BY <1>1 DEF Firsts
<1>4. UNCHANGED <<loop, link, status, pipe, fetch, fence>>
  BY DEF WarpPost
<1>5. store[to] \in Store /\ (store[to].owner = None => Covers(warp[k].rows, store[to]))
  BY <1>1 DEF IInv, TypeOK, PostCovers
<1>6. ~Dies(store[to], r, None)
  BY <1>1, <1>5, CoveredNoGap
<1>7. /\ store' \in [Nodes -> Store]
      /\ LogIsWhole' /\ Unowned' /\ Grows
      /\ \A m \in Nodes : m # to => store'[m] = store[m]
      /\ store'[to].rows \subseteq store[to].rows \cup {r}
      /\ store'[to].owner = store[to].owner
      /\ store[to].owner = None => r.seq <= store'[to].seq
  <2>. HIDE DEF to
  <2>1. store' = [store EXCEPT ![to] = Replayed(@, r, None)]
    BY <1>2
  <2>. QED
    BY <1>1, <1>3, <1>6, <2>1, ReplayFacts
<1>8. /\ warp' \in [Warps -> WarpState]
      /\ warp'[k].pc = "post" /\ warp'[k].to = to /\ warp'[k].rows = warp[k].rows \ {r}
      /\ \A j \in Warps : j # k => warp'[j] = warp[j]
  <2>. DEFINE y == [warp[k] EXCEPT !.rows = @ \ {r}]
  <2>1. y \in WarpState /\ y.pc = "post" /\ y.to = to /\ y.rows = warp[k].rows \ {r}
    BY <1>1 DEF WarpState
  <2>2. warp \in [Warps -> WarpState] /\ warp' = [warp EXCEPT ![k] = y]
    BY <1>2, <1>6 DEF IInv, TypeOK
  <2>. QED
    BY <2>1, <2>2
<1>9. (\A j \in Warps : WarpOK(j))'
  BY <1>1, <1>7, <1>8 DEF IInv, WarpOK
<1>10. PostCovers'
  <2>. SUFFICES ASSUME NEW j \in Warps, warp'[j].pc = "post", store'[warp'[j].to].owner = None
                PROVE  Covers(warp'[j].rows, store'[warp'[j].to])
    BY DEF PostCovers
  <2>1. CASE j = k
    BY <1>1, <1>3, <1>5, <1>7, <1>8, <2>1, CoversRest DEF Grows
  <2>2. CASE j # k
    <3>1. warp'[j] = warp[j] /\ warp[j].to \in Nodes /\ warp[j].rows \in SUBSET Row
      BY <1>8, <2>2 DEF IInv, WarpOK, TypeOK, WarpState
    <3>2. store[warp[j].to] \in Store /\ store'[warp[j].to] \in Store
      BY <1>7, <3>1 DEF IInv, TypeOK
    <3>3. /\ store[warp[j].to].owner = None
          /\ store[warp[j].to].seq <= store'[warp[j].to].seq
      BY <1>7, <3>1 DEF Grows
    <3>4. Covers(warp[j].rows, store[warp[j].to])
      BY <3>1, <3>3 DEF IInv, PostCovers
    <3>. QED
      BY <3>1, <3>2, <3>3, <3>4, CoversMore
  <2>. QED
    BY <2>1, <2>2
<1>11. (\A f \in Fetchers : FetchOK(f))' /\ HistoryCovers'
  BY <1>4, <1>7, FetchStill
<1>12. EventsAreGenuine'
  <2>1. r \in store[r.by].rows
    BY <1>3 DEF IInv, EventsAreGenuine
  <2>. QED
    BY <1>1, <1>2, <1>3, <1>4, <2>1, ReplayGenuine
<1>13. NothingIsMissed'
  <2>. SUFFICES ASSUME store[Control].owner = None, NEW w \in Workspaces, Following(w),
                       NEW q \in store'[w].rows, q.seq > store[Control].seq
                PROVE  q \in pipe[w] \cup fetch[w].rows
    BY <1>1, <1>4, <1>7 DEF NothingIsMissed, Following
  <2>1. Whole(store[Control]) /\ store[Control] \in Store
    BY DEF IInv, TypeOK, LogIsWhole
  <2>2. r.seq \in 0 .. store[Control].seq
    BY <1>3, <2>1 DEF Whole
  <2>3. q # r
    BY <2>1, <2>2 DEF Store
  <2>4. q \in store[w].rows
    BY <1>7, <2>3
  <2>. QED
    BY <2>4 DEF IInv, NothingIsMissed
<1>14. TypeOK'
  BY <1>4, <1>7, <1>8 DEF IInv, TypeOK
<1>15. LoopHasLog' /\ ErrorSleeps'
  BY <1>4, <1>7, LoopStill DEF IInv, ErrorSleeps
<1>. QED
  BY <1>7, <1>9, <1>10, <1>11, <1>12, <1>13, <1>14, <1>15 DEF IInv

-----------------------------------------------------------------------------
(* The invariant *)

\* The session is created at one node, and nothing is on its way.
LEMMA InitInv ==
  ASSUME Init
  PROVE  IInv
<1>. DEFINE s == Insert(Empty, Created, None)
<1>1. Empty \in Store /\ Whole(Empty)
  BY DEF Empty, Store, Whole
<1>2. Created \in Row /\ Created.seq = Empty.seq + 1 /\ Created.by = Start
  BY DEF Created, Row, Empty
<1>3. /\ s \in Store /\ Whole(s) /\ s.rows = {Created} /\ s.seq = 0 /\ s.owner = None
  BY <1>1, <1>2, InsertWhole DEF Insert, Empty, Created
<1>4. \A n \in Nodes : store[n] = IF n = Start THEN s ELSE Empty
  BY DEF Init
<1>5. TypeOK
  BY <1>1, <1>3 DEF Init, TypeOK, FetchState, WarpState, FenceState, NoFetch, NewWarp, NoFence
<1>6. LogIsWhole /\ Unowned
  BY <1>1, <1>3, <1>4 DEF LogIsWhole, Unowned, Empty
<1>7. EventsAreGenuine
  BY <1>2, <1>3, <1>4 DEF Init, EventsAreGenuine, Empty, NoFetch
<1>8. LoopHasLog /\ ErrorSleeps /\ (\A f \in Fetchers : FetchOK(f))
  BY DEF Init, LoopHasLog, ErrorSleeps, FetchOK, NoFetch
<1>9. (\A k \in Warps : WarpOK(k)) /\ PostCovers
  BY DEF Init, WarpOK, PostCovers, NewWarp
<1>10. HistoryCovers /\ NothingIsMissed
  BY DEF Init, HistoryCovers, Covers, NothingIsMissed, Following, NoFetch
<1>. QED
  BY <1>5, <1>6, <1>7, <1>8, <1>9, <1>10 DEF IInv

\* Every step keeps the invariant.
LEMMA NextInv ==
  ASSUME IInv, [Next]_vars
  PROVE  IInv'
<1>1. CASE UNCHANGED vars \/ PromptHere \/ FenceOpens \/ FenceTimesOut
  BY <1>1, QuietInv
<1>2. CASE \E n \in Nodes : Work(n) \/ LoopEnds(n)
  BY <1>2, WorkInv, QuietInv
<1>3. CASE \E f \in Fetchers : \/ HistoryArrives(f)
                               \/ HistoryFails(f)
                               \/ HistoryReplay(f)
                               \/ HistoryEnds(f)
  BY <1>3, HistoryArrivesInv, HistoryOverInv, HistoryReplayInv
<1>4. CASE \E w \in Workspaces : \/ Ask(w)
                                 \/ StartSync(w)
                                 \/ Connect(w)
                                 \/ ConnectFails(w)
                                 \/ AfterHistory(w)
                                 \/ Receive(w)
                                 \/ Disconnect(w)
                                 \/ Retry(w)
  BY <1>4, AskInv, LinkInv, ConnectInv, AfterHistoryInv, ReceiveInv
<1>5. CASE \E k \in Warps : \/ \E to \in Nodes : WarpStart(k, to)
                            \/ WarpClaim(k)
                            \/ WarpRead(k)
                            \/ WarpPost(k)
                            \/ WarpFails(k)
                            \/ WarpSteal(k)
                            \/ WarpAttach(k)
  BY <1>5, WarpStartInv, WarpClaimInv, WarpBatchInv, WarpPostInv, WarpStealInv, WarpAttachInv
<1>. QED
  BY <1>1, <1>2, <1>3, <1>4, <1>5 DEF Next

\* The invariant holds in every state of every behaviour.
THEOREM Inductive == Spec => []IInv
<1>1. Init => IInv
  BY InitInv
<1>2. IInv /\ [Next]_vars => IInv'
  BY NextInv
<1>. QED
  BY <1>1, <1>2, PTL DEF Spec

-----------------------------------------------------------------------------
(* What follows *)

\* Type correctness.
THEOREM Typing == Spec => []TypeOK
<1>1. IInv => TypeOK
  BY DEF IInv
<1>. QED
  BY <1>1, Inductive, PTL

\* Every log has one event for each number up to its own, whatever the fibers, the
\* warps and the workspaces publish and replay, and in whatever order (event.ts).
THEOREM WholeLogs == Spec => []LogIsWhole
<1>1. IInv => LogIsWhole
  BY DEF IInv
<1>. QED
  BY <1>1, Inductive, PTL

\* What a log, a stream or a history holds, its publisher has published.
THEOREM GenuineEvents == Spec => []EventsAreGenuine
<1>1. IInv => EventsAreGenuine
  BY DEF IInv
<1>. QED
  BY <1>1, Inductive, PTL

\* No fiber, stream or batch of a warp ever meets the gap that would end it.
THEOREM NoGaps == Spec => []NoGapIsMet
<1>1. ASSUME IInv
      PROVE  NoGapIsMet
  <2>1. ASSUME NEW f \in Fetchers, NEW r \in Firsts(fetch[f].rows)
        PROVE  ~Dies(store[Control], r, None)
    <3>1. store[Control] \in Store /\ fetch[f].rows \in SUBSET Row
      BY <1>1 DEF IInv, TypeOK, FetchState
    <3>2. store[Control].owner = None => Covers(fetch[f].rows, store[Control])
      BY <1>1 DEF IInv, HistoryCovers
    <3>. QED
      BY <2>1, <3>1, <3>2, CoveredNoGap
  <2>2. ASSUME NEW w \in Workspaces, link[w] = "streaming", NEW r \in Firsts(pipe[w])
        PROVE  ~Dies(store[Control], r, None)
    BY <1>1, <2>2, StreamNoGap
  <2>3. ASSUME NEW k \in Warps, warp[k].pc = "post", NEW r \in Firsts(warp[k].rows)
        PROVE  ~Dies(store[warp[k].to], r, None)
    <3>1. store[warp[k].to] \in Store /\ warp[k].rows \in SUBSET Row
      BY <1>1, <2>3 DEF IInv, TypeOK, WarpOK, WarpState
    <3>2. store[warp[k].to].owner = None => Covers(warp[k].rows, store[warp[k].to])
      BY <1>1, <2>3 DEF IInv, PostCovers
    <3>. QED
      BY <2>3, <3>1, <3>2, CoveredNoGap
  <2>. QED
    BY <2>1, <2>2, <2>3 DEF NoGapIsMet
<1>. QED
  BY <1>1, Inductive, PTL

\* The step that ClaimFences speaks about.
FencedStep ==
  store[Control].owner # None =>
    \A r \in store'[Control].rows \ store[Control].rows : r.by = Control

\* publish marks an event with the node that publishes.
LEMMA PublishFenced ==
  ASSUME IInv, NEW n \in Nodes, NEW to \in Nodes, Publish(n, to)
  PROVE  FencedStep
<1>1. CASE n = Control
  BY <1>1, PublishFacts DEF FencedStep
<1>2. CASE n # Control
  <2>1. store'[Control] = store[Control]
    BY <1>2, PublishFacts
  <2>. QED
    BY <2>1 DEF FencedStep
<1>. QED
  BY <1>1, <1>2

\* Whoever replays into a log that has been claimed leaves it as it is.
LEMMA ReplayFenced ==
  ASSUME IInv, NEW n \in Nodes, NEW r \in Row,
         store' = [store EXCEPT ![n] = Replayed(@, r, None)]
  PROVE  FencedStep
<1>1. CASE n = Control
  BY <1>1, ReplayFacts DEF FencedStep
<1>2. CASE n # Control
  <2>1. store'[Control] = store[Control]
    BY <1>2, ReplayFacts
  <2>. QED
    BY <2>1 DEF FencedStep
<1>. QED
  BY <1>1, <1>2

\* From a claim on, the control plane's log takes nothing but its own events.
THEOREM ClaimIsFence == Spec => ClaimFences
<1>1. ASSUME IInv, [Next]_vars
      PROVE  FencedStep
  <2>1. CASE store' = store
    BY <2>1 DEF FencedStep
  <2>2. ASSUME NEW n \in Nodes, Work(n) \/ (n \in Workspaces /\ Ask(n))
        PROVE  FencedStep
    <3>1. PlaceOf(store[n]) \in Nodes /\ Publish(n, PlaceOf(store[n]))
      BY <1>1, <2>2, LatestRow DEF Work, Ask, Has, IInv, TypeOK, LogIsWhole, LoopHasLog
    <3>. QED
      BY <1>1, <3>1, PublishFenced
  <2>3. ASSUME NEW f \in Fetchers, HistoryReplay(f)
        PROVE  FencedStep
    <3>1. PICK r \in fetch[f].rows : store' = [store EXCEPT ![Control] = Replayed(@, r, None)]
      BY <2>3 DEF HistoryReplay, Firsts
    <3>2. r \in Row /\ Control \in Nodes
      BY <1>1 DEF IInv, TypeOK, FetchState
    <3>. QED
      BY <1>1, <3>1, <3>2, ReplayFenced
  <2>4. ASSUME NEW w \in Workspaces, Receive(w)
        PROVE  FencedStep
    <3>1. PICK r \in pipe[w] : store' = [store EXCEPT ![Control] = Replayed(@, r, None)]
      BY <2>4 DEF Receive, Firsts
    <3>2. r \in Row /\ Control \in Nodes
      BY <1>1 DEF IInv, TypeOK
    <3>. QED
      BY <1>1, <3>1, <3>2, ReplayFenced
  <2>5. ASSUME NEW k \in Warps, WarpPost(k)
        PROVE  FencedStep
    <3>1. PICK r \in warp[k].rows : store' = [store EXCEPT ![warp[k].to] = Replayed(@, r, None)]
      BY <2>5 DEF WarpPost, Firsts
    <3>2. r \in Row /\ warp[k].to \in Nodes
      BY <1>1, <2>5 DEF IInv, TypeOK, WarpState, WarpOK, WarpPost
    <3>. QED
      BY <1>1, <3>1, <3>2, ReplayFenced
  <2>6. ASSUME NEW k \in Warps, WarpSteal(k)
        PROVE  FencedStep
    <3>1. warp[k].to \in Nodes /\ Publish(warp[k].to, warp[k].to)
      BY <1>1, <2>6 DEF IInv, WarpOK, WarpSteal
    <3>. QED
      BY <1>1, <3>1, PublishFenced
  <2>7. ASSUME NEW k \in Warps, WarpAttach(k)
        PROVE  FencedStep
    <3>1. warp[k].to \in Nodes /\ Control \in Nodes /\ Publish(Control, warp[k].to)
      BY <1>1, <2>7 DEF IInv, WarpOK, WarpAttach
    <3>. QED
      BY <1>1, <3>1, PublishFenced
  <2>8. ASSUME NEW k \in Warps, WarpClaim(k)
        PROVE  FencedStep
    <3>1. store'[Control] = Claim(k)
      BY <1>1, <2>8 DEF WarpClaim, IInv, TypeOK
    <3>2. store'[Control].rows = store[Control].rows
      BY <1>1, <3>1 DEF Claim, Claimed, IInv, TypeOK, Store
    <3>. QED
      BY <3>2 DEF FencedStep
  <2>9. CASE PromptHere \/ FenceOpens \/ FenceTimesOut \/ UNCHANGED vars
    BY <2>1, <2>9 DEF PromptHere, FenceOpens, FenceTimesOut, vars
  <2>10. ASSUME NEW n \in Nodes, LoopEnds(n)
         PROVE  FencedStep
    BY <2>1, <2>10 DEF LoopEnds
  <2>11. ASSUME NEW f \in Fetchers, HistoryArrives(f) \/ HistoryFails(f) \/ HistoryEnds(f)
         PROVE  FencedStep
    BY <2>1, <2>11 DEF HistoryArrives, HistoryFails, HistoryEnds
  <2>12. ASSUME NEW w \in Workspaces,
                \/ StartSync(w) \/ Connect(w) \/ ConnectFails(w)
                \/ AfterHistory(w) \/ Disconnect(w) \/ Retry(w)
         PROVE  FencedStep
    BY <2>1, <2>12 DEF StartSync, Connect, ConnectFails, AfterHistory, Disconnect, Retry
  <2>13. ASSUME NEW k \in Warps,
                (\E to \in Nodes : WarpStart(k, to)) \/ WarpRead(k) \/ WarpFails(k)
         PROVE  FencedStep
    BY <2>1, <2>13 DEF WarpStart, WarpRead, WarpFails
  <2>. QED
    BY <1>1, <2>2, <2>3, <2>4, <2>5, <2>6, <2>7, <2>8, <2>9, <2>10, <2>11, <2>12, <2>13 DEF Next
<1>. QED
  BY <1>1, Inductive, PTL DEF Spec, ClaimFences, FencedStep

-----------------------------------------------------------------------------
(* While nobody warps the session *)

\* No warp has been asked for yet.
Unwarped == \A k \in Warps : warp[k].pc = "new"

\* An event of the place where the session was created, which keeps it there.
HomeRow(r) == r.by = Start /\ r.to = Start

\* Only that place works on the session and is asked about it, and a request that
\* was let through found its event's number in the control plane's log.
Alone ==
  /\ \A n \in Nodes : \A r \in store[n].rows : HomeRow(r)
  /\ \A n \in Nodes : loop[n] => n = Start
  /\ fence.pc \in {"waiting", "ok"} => fence.ws = Start
  /\ fence.pc = "ok" => fence.seq <= store[Control].seq

\* A request goes to the place where the session was created.
LEMMA RouteHome ==
  ASSUME IInv, Alone
  PROVE  /\ Route = Start
         /\ \A n \in Nodes : Has(n) => PlaceOf(store[n]) = Start
<1>1. ASSUME NEW n \in Nodes, Has(n)
      PROVE  PlaceOf(store[n]) = Start
  <2>1. Latest(store[n]) \in store[n].rows
    BY <1>1, LatestRow DEF Has, IInv, TypeOK, LogIsWhole
  <2>. QED
    BY <2>1 DEF PlaceOf, Alone, HomeRow
<1>. QED
  BY <1>1 DEF Route

\* What a step does to the logs and to those who use them: the session's place
\* publishes, or the control plane replays an event that this place has published.
HomePublishes ==
  /\ Has(Start) /\ Publish(Start, Start)
  /\ \A n \in Nodes : loop'[n] => loop[n] \/ n = Start
  /\ fence' = fence \/ fence' = [pc |-> "waiting", ws |-> Start, seq |-> store[Start].seq + 1]

ControlReplays ==
  /\ \E r \in store[Start].rows : store' = [store EXCEPT ![Control] = Replayed(@, r, None)]
  /\ UNCHANGED <<loop, fence>>

LogsRest ==
  /\ UNCHANGED store
  /\ \A n \in Nodes : loop'[n] => loop[n] \/ n = Start
  /\ \/ fence' = fence
     \/ fence.pc = "waiting" /\ CaughtUp /\ fence' = [fence EXCEPT !.pc = "ok"]
     \/ fence' = [fence EXCEPT !.pc = "timeout"]

LEMMA HomeSteps ==
  ASSUME IInv, Alone, Unwarped, [Next]_vars
  PROVE  HomePublishes \/ ControlReplays \/ LogsRest
<1>1. ASSUME NEW n \in Nodes, Work(n)
      PROVE  HomePublishes
  <2>1. n = Start /\ Has(n)
    BY <1>1 DEF Work, Alone, IInv, LoopHasLog
  <2>2. PlaceOf(store[n]) = Start
    BY <2>1, RouteHome
  <2>. QED
    BY <1>1, <2>1, <2>2 DEF Work, HomePublishes
<1>2. ASSUME NEW w \in Workspaces, Ask(w)
      PROVE  HomePublishes
  <2>1. w = Start /\ Has(w)
    BY <1>2, RouteHome DEF Ask
  <2>2. PlaceOf(store[w]) = Start
    BY <2>1, RouteHome
  <2>3. \A n \in Nodes : loop'[n] => loop[n] \/ n = Start
    BY <1>2, <2>1 DEF Ask, IInv, TypeOK
  <2>. QED
    BY <1>2, <2>1, <2>2, <2>3 DEF Ask, HomePublishes
<1>3. ASSUME NEW f \in Fetchers, HistoryReplay(f)
      PROVE  ControlReplays
  <2>1. PICK r \in fetch[f].rows : store' = [store EXCEPT ![Control] = Replayed(@, r, None)]
    BY <1>3 DEF HistoryReplay, Firsts
  <2>2. r \in store[r.by].rows /\ r.by \in Nodes
    BY DEF IInv, TypeOK, FetchState, Row, EventsAreGenuine
  <2>3. r \in store[Start].rows
    BY <2>2 DEF Alone, HomeRow
  <2>. QED
    BY <1>3, <2>1, <2>3 DEF HistoryReplay, ControlReplays
<1>4. ASSUME NEW w \in Workspaces, Receive(w)
      PROVE  ControlReplays
  <2>1. PICK r \in pipe[w] : store' = [store EXCEPT ![Control] = Replayed(@, r, None)]
    BY <1>4 DEF Receive, Firsts
  <2>2. r \in store[w].rows /\ w \in Nodes
    BY DEF IInv, EventsAreGenuine
  <2>3. r \in store[r.by].rows /\ r.by = Start
    BY <2>2 DEF Alone, HomeRow, IInv, EventsAreGenuine
  <2>. QED
    BY <1>4, <2>1, <2>3 DEF Receive, ControlReplays
<1>5. CASE PromptHere
  <2>1. Control = Start
    BY <1>5, RouteHome DEF PromptHere
  <2>. QED
    BY <1>5, <2>1 DEF PromptHere, LogsRest, IInv, TypeOK
<1>6. CASE FenceOpens \/ FenceTimesOut \/ UNCHANGED vars
  BY <1>6 DEF FenceOpens, FenceTimesOut, vars, LogsRest
<1>7. ASSUME NEW n \in Nodes, LoopEnds(n)
      PROVE  LogsRest
  BY <1>7 DEF LoopEnds, LogsRest, IInv, TypeOK
<1>8. ASSUME NEW f \in Fetchers, HistoryArrives(f) \/ HistoryFails(f) \/ HistoryEnds(f)
      PROVE  LogsRest
  BY <1>8 DEF HistoryArrives, HistoryFails, HistoryEnds, LogsRest
<1>9. ASSUME NEW w \in Workspaces,
             \/ StartSync(w) \/ Connect(w) \/ ConnectFails(w)
             \/ AfterHistory(w) \/ Disconnect(w) \/ Retry(w)
      PROVE  LogsRest
  BY <1>9 DEF StartSync, Connect, ConnectFails, AfterHistory, Disconnect, Retry, LogsRest
<1>10. ASSUME NEW k \in Warps, NEW to \in Nodes, WarpStart(k, to)
       PROVE  LogsRest
  BY <1>10 DEF WarpStart, LogsRest
<1>11. ASSUME NEW k \in Warps,
              \/ WarpClaim(k) \/ WarpRead(k) \/ WarpPost(k)
              \/ WarpFails(k) \/ WarpSteal(k) \/ WarpAttach(k)
       PROVE  FALSE
  BY <1>11 DEF Unwarped, WarpClaim, WarpRead, WarpPost, WarpFails, WarpSteal, WarpAttach
<1>. QED
  BY <1>1, <1>2, <1>3, <1>4, <1>5, <1>6, <1>7, <1>8, <1>9, <1>10, <1>11 DEF Next

\* A warp that has begun does not become new again.
LEMMA StaysWarped ==
  ASSUME IInv, [Next]_vars, Unwarped'
  PROVE  Unwarped
<1>1. CASE warp' = warp
  BY <1>1 DEF Unwarped
<1>2. CASE warp' # warp
  <2>1. PICK k \in Warps :
          \/ \E to \in Nodes : WarpStart(k, to)
          \/ WarpClaim(k) \/ WarpRead(k) \/ WarpPost(k)
          \/ WarpFails(k) \/ WarpSteal(k) \/ WarpAttach(k)
    BY <1>2 DEF Next, vars, PromptHere, FenceOpens, FenceTimesOut, Work, LoopEnds,
       HistoryArrives, HistoryFails, HistoryReplay, HistoryEnds, Ask, StartSync, Connect,
       ConnectFails, AfterHistory, Receive, Disconnect, Retry
  <2>2. warp \in [Warps -> WarpState]
    BY DEF IInv, TypeOK
  <2>3. warp'[k].pc # "new"
    <3>0. warp[k] \in WarpState
      BY <2>2
    <3>1. ASSUME NEW to \in Nodes, WarpStart(k, to)
          PROVE  warp'[k].pc # "new"
      <4>1. PICK pc \in {"read", "attach", "source"} :
              warp' = [warp EXCEPT ![k] = [@ EXCEPT !.pc = pc, !.to = to]]
        BY <3>1 DEF WarpStart, AfterClaim
      <4>2. warp'[k] = [warp[k] EXCEPT !.pc = pc, !.to = to]
        BY <2>2, <4>1
      <4>. QED
        BY <3>0, <4>2 DEF WarpState
    <3>2. CASE WarpClaim(k)
      BY <2>2, <3>2 DEF WarpClaim, AfterClaim, WarpState
    <3>3. ASSUME WarpRead(k) \/ WarpPost(k) \/ WarpFails(k)
          PROVE  warp'[k].pc # "new"
      <4>1. warp[k].pc # "new"
        BY <3>3 DEF WarpRead, WarpPost, WarpFails
      <4>2. \/ \E pc \in {"post", "failed"}, rows \in {store[Control].rows, {}} :
                 warp' = [warp EXCEPT ![k] = [@ EXCEPT !.pc = pc, !.rows = rows]]
            \/ \E r \in Firsts(warp[k].rows) : warp' = [warp EXCEPT ![k].rows = @ \ {r}]
        BY <3>3 DEF WarpRead, WarpPost, WarpFails
      <4>3. ASSUME NEW pc \in {"post", "failed"}, NEW rows,
                   warp' = [warp EXCEPT ![k] = [@ EXCEPT !.pc = pc, !.rows = rows]]
            PROVE  warp'[k].pc # "new"
        <5>1. warp'[k] = [warp[k] EXCEPT !.pc = pc, !.rows = rows]
          BY <2>2, <4>3
        <5>. QED
          BY <3>0, <5>1 DEF WarpState
      <4>4. ASSUME NEW r, warp' = [warp EXCEPT ![k].rows = @ \ {r}]
            PROVE  warp'[k].pc # "new"
        BY <2>2, <3>0, <4>1, <4>4 DEF WarpState
      <4>. QED
        BY <4>2, <4>3, <4>4
    <3>4. CASE WarpSteal(k) \/ WarpAttach(k)
      BY <2>2, <3>4 DEF WarpSteal, WarpAttach, WarpState
    <3>. QED
      BY <2>1, <3>1, <3>2, <3>3, <3>4
  <2>. QED
    BY <2>3 DEF Unwarped
<1>. QED
  BY <1>1, <1>2

LEMMA AloneInit ==
  ASSUME Init
  PROVE  Alone
<1>1. \A n \in Nodes : store[n].rows \subseteq {Created}
  BY DEF Init, Insert, Empty
<1>2. \A n \in Nodes : \A r \in store[n].rows : HomeRow(r)
  BY <1>1 DEF HomeRow, Created
<1>3. \A n \in Nodes : loop[n] => n = Start
  BY DEF Init
<1>4. fence.pc = "none"
  BY DEF Init, NoFence
<1>. QED
  BY <1>2, <1>3, <1>4 DEF Alone

LEMMA AloneKeeps ==
  ASSUME IInv, Alone, Unwarped, [Next]_vars
  PROVE  Alone'
<1>a. TypeOK /\ fence \in FenceState /\ store \in [Nodes -> Store]
  BY DEF IInv, TypeOK
<1>1. CASE HomePublishes
  <2>1. /\ \A m \in Nodes : m # Start => store'[m] = store[m]
        /\ Grows /\ store' \in [Nodes -> Store]
    BY <1>1, PublishFacts DEF HomePublishes
  <2>2. store'[Start].rows = store[Start].rows \cup {NewRow(store[Start], Start, Start)}
    BY <1>1, <1>a DEF HomePublishes, Publish, Published, Insert
  <2>3. \A n \in Nodes : \A r \in store'[n].rows : HomeRow(r)
    BY <2>1, <2>2 DEF Alone, HomeRow, NewRow
  <2>4. store[Control].seq <= store'[Control].seq
        /\ store[Control].seq \in Int /\ store'[Control].seq \in Int /\ fence.seq \in Int
    BY <2>1, <1>a DEF Grows, Store, FenceState
  <2>. QED
    BY <1>1, <2>3, <2>4 DEF HomePublishes, Alone
<1>2. CASE ControlReplays
  <2>1. PICK r \in store[Start].rows : store' = [store EXCEPT ![Control] = Replayed(@, r, None)]
    BY <1>2 DEF ControlReplays
  <2>2. r \in Row /\ Control \in Nodes
    BY <1>a DEF Store
  <2>3. /\ \A m \in Nodes : m # Control => store'[m] = store[m]
        /\ Grows /\ store' \in [Nodes -> Store]
        /\ store'[Control].rows \subseteq store[Control].rows \cup {r}
    BY <2>1, <2>2, ReplayFacts
  <2>4. \A n \in Nodes : \A q \in store'[n].rows : HomeRow(q)
    BY <2>1, <2>3 DEF Alone
  <2>5. store[Control].seq <= store'[Control].seq
        /\ store[Control].seq \in Int /\ store'[Control].seq \in Int /\ fence.seq \in Int
    BY <2>3, <1>a DEF Grows, Store, FenceState
  <2>. QED
    BY <1>2, <2>4, <2>5 DEF ControlReplays, Alone
<1>3. CASE LogsRest
  BY <1>3, <1>a DEF LogsRest, Alone, CaughtUp, FenceState
<1>. QED
  BY <1>1, <1>2, <1>3, HomeSteps

\* Until a warp begins, one place works on the session.
THEOREM HomeIsAlone == Spec => [](Unwarped => Alone)
<1>1. Init => Alone
  BY AloneInit
<1>2. IInv /\ (Unwarped => Alone) /\ [Next]_vars => (Unwarped => Alone)'
  BY AloneKeeps, StaysWarped
<1>. QED
  BY <1>1, <1>2, Inductive, PTL DEF Spec

\* A proxied request is answered only when the control plane has the very event that
\* the request published (fence.ts waits for a number, not for an event): so it is
\* for any number of workspaces and events until a warp begins.
THEOREM AnswersAreVisible == Spec => [](Unwarped => AnsweredIsVisible)
<1>1. ASSUME IInv, Alone, fence.pc = "ok"
      PROVE  \E r \in store[Control].rows : r.seq = fence.seq /\ r.by = fence.ws
  <2>1. fence.seq \in Nat /\ store[Control].seq \in Int /\ Whole(store[Control])
    BY <1>1 DEF IInv, TypeOK, FenceState, Store, LogIsWhole
  <2>2. fence.seq \in 0 .. store[Control].seq
    BY <1>1, <2>1 DEF Alone
  <2>3. PICK r \in store[Control].rows : r.seq = fence.seq
    BY <2>1, <2>2 DEF Whole
  <2>. QED
    BY <1>1, <2>3 DEF Alone, HomeRow
<1>2. IInv /\ (Unwarped => Alone) => (Unwarped => AnsweredIsVisible)
  BY <1>1 DEF AnsweredIsVisible
<1>. QED
  BY <1>2, HomeIsAlone, Inductive, PTL

\* What sync/README.md:33 promises of sequence ids, two logs agree on every number,
\* holds until a warp begins: it takes a second writer to break it (OneOrder).
THEOREM OrderUntilWarp == Spec => [](Unwarped => OneOrder)
<1>1. ASSUME IInv, Alone
      PROVE  OneOrder
  <2>. SUFFICES ASSUME NEW m \in Nodes, NEW n \in Nodes,
                       NEW q \in store[m].rows, NEW r \in store[n].rows, q.seq = r.seq
                PROVE  q = r
    BY DEF OneOrder, SameEvent
  <2>1. q \in store[q.by].rows /\ r \in store[r.by].rows
    BY <1>1 DEF IInv, EventsAreGenuine
  <2>2. q \in store[Start].rows /\ r \in store[Start].rows /\ Whole(store[Start])
    BY <1>1, <2>1 DEF Alone, HomeRow, IInv, LogIsWhole
  <2>. QED
    BY <2>2 DEF Whole
<1>2. IInv /\ (Unwarped => Alone) => (Unwarped => OneOrder)
  BY <1>1
<1>. QED
  BY <1>2, HomeIsAlone, Inductive, PTL

-----------------------------------------------------------------------------
(* The control plane's log is a copy of the workspace's *)

\* A whole log read as a sequence has its events in the order of their numbers.
LEMMA SequenceOf ==
  ASSUME NEW s \in Store, Whole(s)
  PROVE  /\ AsSequence(s) \in Seq(Row) /\ Len(AsSequence(s)) = s.seq + 1
         /\ \A r \in s.rows : /\ r.seq + 1 \in 1 .. (s.seq + 1)
                              /\ AsSequence(s)[r.seq + 1] = r
<1>. DEFINE n == s.seq + 1
            l == AsSequence(s)
<1>1. n \in Nat
  BY DEF Store
<1>2. ASSUME NEW i \in 1 .. n
      PROVE  l[i] \in s.rows /\ l[i].seq = i - 1
  <2>1. i - 1 \in 0 .. s.seq
    BY <1>1 DEF Store
  <2>2. \E r \in s.rows : r.seq = i - 1
    BY <2>1 DEF Whole
  <2>. QED
    BY <2>2 DEF AsSequence
<1>3. l \in [1 .. n -> Row]
  BY <1>2 DEF AsSequence, Store
<1>4. l \in Seq(Row) /\ Len(l) = n
  BY <1>1, <1>3
<1>5. ASSUME NEW r \in s.rows
      PROVE  r.seq + 1 \in 1 .. n /\ l[r.seq + 1] = r
  <2>1. r.seq \in 0 .. s.seq
    BY DEF Whole
  <2>2. r.seq + 1 \in 1 .. n /\ (r.seq + 1) - 1 = r.seq
    BY <2>1 DEF Store
  <2>3. l[r.seq + 1] \in s.rows /\ l[r.seq + 1].seq = r.seq
    BY <1>2, <2>2
  <2>. QED
    BY <2>2, <2>3 DEF Whole
<1>. QED
  BY <1>4, <1>5

\* The log that gets the next event is the sequence with that event at its end.
LEMMA InsertAppends ==
  ASSUME NEW s \in Store, Whole(s), NEW r \in Row, r.seq = s.seq + 1,
         NEW o \in Nodes \cup {None}
  PROVE  AsSequence(Insert(s, r, o)) = Append(AsSequence(s), r)
<1>. DEFINE t == Insert(s, r, o)
            l == AsSequence(s)
            m == AsSequence(t)
<1>1. t \in Store /\ Whole(t)
  BY InsertWhole
<1>2. t.seq = s.seq + 1 /\ t.rows = s.rows \cup {r}
  BY DEF Insert
<1>3. /\ l \in Seq(Row) /\ Len(l) = s.seq + 1
      /\ \A q \in s.rows : q.seq + 1 \in 1 .. Len(l) /\ l[q.seq + 1] = q
  BY SequenceOf
<1>4. /\ m \in Seq(Row) /\ Len(m) = s.seq + 2
      /\ \A q \in t.rows : m[q.seq + 1] = q
  BY <1>1, <1>2, SequenceOf DEF Store
<1>5. m[Len(l) + 1] = r
  BY <1>2, <1>3, <1>4
<1>6. ASSUME NEW i \in 1 .. Len(l)
      PROVE  m[i] = l[i]
  <2>1. i - 1 \in 0 .. s.seq /\ i \in Int
    BY <1>3 DEF Store
  <2>2. PICK q \in s.rows : q.seq = i - 1
    BY <2>1 DEF Whole
  <2>3. q.seq + 1 = i
    BY <2>1, <2>2
  <2>. QED
    BY <1>2, <1>3, <1>4, <2>3
<1>. HIDE DEF l, m, t
<1>7. Append(l, r) \in Seq(Row) /\ Len(Append(l, r)) = Len(m)
  BY <1>3, <1>4 DEF Store
<1>8. \A i \in 1 .. Len(m) : m[i] = Append(l, r)[i]
  BY <1>3, <1>4, <1>5, <1>6 DEF Store
<1>9. m = Append(l, r)
  BY <1>4, <1>7, <1>8
<1>. QED
  BY <1>9 DEF l, m, t

\* While nobody warps a session that was created in a workspace, what the control
\* plane has of its log is a beginning of it that only grows, whatever the fibers
\* fetch, receive, repeat, drop or lose (syncWorkspaceLoop, commitSyncEvent).
THEOREM CopyFollows ==
  ASSUME Start \in Workspaces
  PROVE  Spec /\ []Unwarped => Followed
<1>1. Init => Log!Init
  <2>. SUFFICES ASSUME Init PROVE Log!Init
    OBVIOUS
  <2>1. store[Control] = Empty
    BY DEF Init
  <2>2. Empty \in Store /\ Whole(Empty)
    BY DEF Empty, Store, Whole
  <2>3. AsSequence(store[Control]) = <<>>
    BY <2>1, <2>2, SequenceOf DEF Empty
  <2>4. store[Start] \in Store /\ Whole(store[Start])
    BY InitInv DEF IInv, TypeOK, LogIsWhole
  <2>. QED
    BY <2>3, <2>4, SequenceOf DEF Log!Init
<1>2. ASSUME IInv, Alone, Unwarped, [Next]_vars
      PROVE  [Log!Next]_(Log!vars)
  <2>. DEFINE a == store[Start]
              c == store[Control]
  <2>a. /\ a \in Store /\ Whole(a) /\ (a.seq = -1 => a.owner = None)
        /\ c \in Store /\ Whole(c) /\ store \in [Nodes -> Store]
    BY <1>2 DEF IInv, TypeOK, LogIsWhole, Unowned
  <2>1. CASE HomePublishes
    <3>. DEFINE r == NewRow(a, Start, Start)
    <3>1. /\ store'[Start] = Insert(a, r, None) /\ store'[Control] = c
      BY <2>1, <2>a DEF HomePublishes, Publish, Published
    <3>2. r \in Row /\ r.seq = a.seq + 1
      BY <2>a DEF NewRow, Row, Store
    <3>3. AsSequence(store'[Start]) = Append(AsSequence(a), r)
      BY <2>a, <3>1, <3>2, InsertAppends
    <3>4. AsSequence(a) \in Seq(Row)
      BY <2>a, SequenceOf
    <3>. DEFINE l == AsSequence(a)
                m == AsSequence(store'[Start])
    <3>. HIDE DEF r, l
    <3>5. /\ Len(m) = Len(l) + 1 /\ m[Len(m)] \in Row
      BY <3>2, <3>3, <3>4 DEF l
    <3>6. SubSeq(m, 1, Len(l)) = l
      BY <3>2, <3>3, <3>4 DEF l
    <3>7. Log!Write
      BY <3>1, <3>5, <3>6 DEF Log!Write, l
    <3>. QED
      BY <3>7 DEF Log!Next
  <2>2. CASE ControlReplays
    <3>1. PICK r \in a.rows : store' = [store EXCEPT ![Control] = Replayed(@, r, None)]
      BY <2>2 DEF ControlReplays
    <3>2. store'[Control] = Replayed(c, r, None) /\ store'[Start] = a /\ r \in Row
      BY <2>a, <3>1 DEF Store
    <3>3. CASE Accepts(c, r, None)
      <4>1. store'[Control] = Insert(c, r, None) /\ r.seq = c.seq + 1
        BY <3>2, <3>3 DEF Replayed, Accepts, Gap
      <4>2. AsSequence(store'[Control]) = Append(AsSequence(c), r)
        BY <2>a, <3>2, <4>1, InsertAppends
      <4>3. /\ Len(AsSequence(c)) = c.seq + 1 /\ Len(AsSequence(a)) = a.seq + 1
            /\ r.seq + 1 \in 1 .. (a.seq + 1) /\ AsSequence(a)[r.seq + 1] = r
        BY <2>a, SequenceOf
      <4>4. /\ Len(AsSequence(c)) < Len(AsSequence(a))
            /\ AsSequence(a)[Len(AsSequence(c)) + 1] = r
        BY <2>a, <4>1, <4>3 DEF Store
      <4>5. Log!Follow
        BY <3>2, <4>2, <4>4 DEF Log!Follow
      <4>. QED
        BY <4>5 DEF Log!Next
    <3>4. CASE ~Accepts(c, r, None)
      BY <3>2, <3>4 DEF Replayed, Log!vars
    <3>. QED
      BY <3>3, <3>4
  <2>3. CASE LogsRest
    BY <2>3 DEF LogsRest, Log!vars
  <2>. QED
    BY <1>2, <2>1, <2>2, <2>3, HomeSteps
<1>. QED
  BY <1>1, <1>2, HomeIsAlone, Inductive, PTL DEF Spec, Followed, Log!Spec

=============================================================================
