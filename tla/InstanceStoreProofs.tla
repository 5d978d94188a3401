------------------------ MODULE InstanceStoreProofs ------------------------
(***************************************************************************)
(* What holds of InstanceStore for any finite sets of loads and reloads and *)
(* any set of disposals.                                                    *)
(*                                                                         *)
(* The pending entries form a queue: each but the one in the map is awaited *)
(* by the reload that replaced it.  That the queue has one front is not     *)
(* inductive by itself; it is counted.  Each pending entry outside the map  *)
(* gives a pending entry that is no front, different ones for different     *)
(* entries, so there is at most one front, and none if the map holds no     *)
(* pending entry.                                                           *)
(***************************************************************************)
EXTENDS InstanceStore, FiniteSetTheorems, TLAPS

Pending == {c \in Calls : result[c] = "pending"}

\* The pending entries that wait for no other.
Front == {c \in Pending : previous[c] \notin Pending}

\* The Deferred of an entry is open while its fiber lives, and no entry is known
\* before its call.
EntryOK(c) ==
  /\ fiber[c] \in {"awaiting", "closing", "booting"} <=> result[c] = "pending"
  /\ call[c] = "new" => result[c] = "none" /\ previous[c] = None
  /\ previous[c] # None => result[previous[c]] # "none"
  /\ fiber[c] = "awaiting" => previous[c] # None
  /\ fiber[c] \in {"closing", "booting"} => c \in Front

\* An entry that was replaced while it was pending is awaited.
Queued ==
  \A p \in Pending : p # cache =>
    \E c \in Calls : fiber[c] = "awaiting" /\ previous[c] = p

CacheOK == cache # None => result[cache] # "none"

\* What a disposal knows: its context is ready, and either is the entry's or has
\* left the map.
DisposeOK(d) ==
  LET x == dispose[d] IN
  /\ x.ctx # None => result[x.ctx] = "ready"
  /\ x.entry # None => result[x.entry] # "none"
  /\ x.pc = "awaiting" => x.entry # None
  /\ x.pc = "new" => x.ctx = None /\ x.entry = None
  /\ x.pc = "closing" /\ x.entry # None => result[x.entry] \in {"ready", "failed"}
  /\ x.pc # "new" /\ x.ctx # None => x.ctx = x.entry \/ cache # x.ctx
  /\ x.pc = "returned" /\ x.ctx # None => cache # x.ctx

IInv ==
  /\ TypeOK
  /\ \A c \in Calls : EntryOK(c)
  /\ Queued
  /\ CacheOK
  /\ \A d \in Disposes : DisposeOK(d)

USE CallsAssumption DEF Calls

\* At most one pending entry waits for no other, and none does if the map holds no
\* pending entry.
LEMMA FrontIsOne ==
  ASSUME TypeOK, Queued, \A c \in Calls : EntryOK(c)
  PROVE  /\ \A c, d \in Front : c = d
         /\ cache \notin Pending => Front = {}
<1>. DEFINE Behind == Pending \ {cache}
            next == [p \in Behind |-> CHOOSE c \in Calls : fiber[c] = "awaiting" /\ previous[c] = p]
<1>1. IsFiniteSet(Pending) /\ IsFiniteSet(Front) /\ Front \subseteq Pending
  <2>1. IsFiniteSet(Calls)
    BY FS_Union
  <2>2. Pending \subseteq Calls /\ Front \subseteq Pending
    BY DEF Pending, Front
  <2>. QED
    BY <2>1, <2>2, FS_Subset
<1>2. ASSUME NEW p \in Behind
      PROVE  next[p] \in Pending \ Front /\ previous[next[p]] = p
  <2>1. next[p] \in Calls /\ fiber[next[p]] = "awaiting" /\ previous[next[p]] = p
    BY DEF Queued
  <2>. QED
    BY <2>1 DEF EntryOK, Pending, Front
<1>3. next \in Injection(Behind, Pending \ Front)
  BY <1>2 DEF Injection, IsInjective
<1>4. IsFiniteSet(Pending \ Front)
      /\ Cardinality(Pending \ Front) = Cardinality(Pending) - Cardinality(Front)
  <2>1. Pending \cap Front = Front
    BY <1>1
  <2>. QED
    BY <1>1, <2>1, FS_Difference
<1>5. Cardinality(Behind) <= Cardinality(Pending) - Cardinality(Front)
  BY <1>3, <1>4, FS_Injection
<1>6. Cardinality(Behind) = IF cache \in Pending THEN Cardinality(Pending) - 1 ELSE Cardinality(Pending)
  BY <1>1, FS_RemoveElement
<1>7. Cardinality(Pending) \in Nat /\ Cardinality(Front) \in Nat
  BY <1>1, FS_CardinalityType
<1>8. ASSUME NEW c \in Front, NEW d \in Front, c # d
      PROVE  FALSE
  <2>1. IsFiniteSet(Front \ {c}) /\ Cardinality(Front \ {c}) = Cardinality(Front) - 1
    BY <1>1, FS_RemoveElement
  <2>2. Cardinality(Front \ {c}) \in Nat
    BY <2>1, FS_CardinalityType
  <2>3. Cardinality(Front \ {c}) = 0
    BY <1>5, <1>6, <1>7, <2>1, <2>2
  <2>4. Front \ {c} = {}
    BY <2>1, <2>3, FS_EmptySet
  <2>. QED
    BY <1>8, <2>4
<1>9. ASSUME cache \notin Pending
      PROVE  Front = {}
  BY <1>1, <1>5, <1>6, <1>7, <1>9, FS_EmptySet
<1>. QED
  BY <1>8, <1>9

\* Who boots waits for no other.
LEMMA BootingIsFront ==
  ASSUME IInv, NEW c \in Calls, fiber[c] = "booting"
  PROVE  c \in Front
BY DEF IInv, EntryOK

LEMMA InitInv == Init => IInv
BY DEF Init, IInv, TypeOK, EntryOK, Queued, CacheOK, DisposeOK, NewDisposal, Disposal, Pending, Front











\* @@

\* Callers that join an entry, return, leave or use the service disturb no entry.
LEMMA CallerInv ==
  ASSUME IInv, NEW c \in Calls, LoadExisting(c) \/ Return(c) \/ Leave(c) \/ UseService(c)
  PROVE  IInv'
<1>1. TypeOK'
  BY DEF LoadExisting, Join, Return, Leave, UseService, IInv, TypeOK, Disposal
<1>2. ASSUME NEW e \in Calls
      PROVE  EntryOK(e)'
  BY DEF LoadExisting, Join, Return, Leave, UseService, IInv, TypeOK, EntryOK, CacheOK, Pending, Front
<1>3. Queued'
  BY DEF LoadExisting, Join, Return, Leave, UseService, IInv, TypeOK, EntryOK, Queued, Pending
<1>4. CacheOK'
  BY DEF LoadExisting, Join, Return, Leave, UseService, IInv, TypeOK, EntryOK, CacheOK
<1>5. ASSUME NEW f \in Disposes
      PROVE  DisposeOK(f)'
  BY DEF LoadExisting, Join, Return, Leave, UseService, IInv, TypeOK, Disposal, EntryOK, DisposeOK, CacheOK
<1>. QED
  BY <1>1, <1>2, <1>3, <1>4, <1>5 DEF IInv

\* A load that finds the map empty: whatever is pending is awaited already.
LEMMA LoadNewInv ==
  ASSUME IInv, NEW c \in Loads, LoadNew(c)
  PROVE  IInv'
<1>1. TypeOK'
  BY DEF LoadNew, Join, Enter, IInv, TypeOK, Disposal
<1>2. ASSUME NEW e \in Calls
      PROVE  EntryOK(e)'
  BY DEF LoadNew, Join, Enter, IInv, TypeOK, EntryOK, CacheOK, Pending, Front
<1>3. ASSUME NEW p \in Pending', p # cache'
      PROVE  \E w \in Calls : (fiber[w] = "awaiting" /\ previous[w] = p)'
  <2>1. p \in Pending /\ p # cache
    BY <1>3 DEF LoadNew, Join, Enter, IInv, TypeOK, Pending
  <2>2. PICK w \in Calls : fiber[w] = "awaiting" /\ previous[w] = p
    BY <2>1 DEF IInv, Queued
  <2>3. w # c
    BY <2>2 DEF LoadNew, IInv, EntryOK
  <2>. QED
    BY <2>2, <2>3 DEF LoadNew, Enter, IInv, TypeOK
<1>4. CacheOK'
  BY DEF LoadNew, Join, Enter, IInv, TypeOK, EntryOK, CacheOK
<1>5. ASSUME NEW f \in Disposes
      PROVE  DisposeOK(f)'
  BY DEF LoadNew, Join, Enter, IInv, TypeOK, Disposal, EntryOK, DisposeOK, CacheOK
<1>. QED
  BY <1>1, <1>2, <1>3, <1>4, <1>5 DEF IInv, Queued

\* A reload awaits the entry it replaces, which so keeps its place in the queue.
LEMMA ReloadInv ==
  ASSUME IInv, NEW c \in Reloads, Reload(c)
  PROVE  IInv'
<1>1. TypeOK'
  BY DEF Reload, Join, Enter, IInv, TypeOK, Disposal
<1>2. ASSUME NEW e \in Calls
      PROVE  EntryOK(e)'
  BY DEF Reload, Join, Enter, IInv, TypeOK, EntryOK, CacheOK, Pending, Front
<1>3. ASSUME NEW p \in Pending', p # cache'
      PROVE  \E w \in Calls : (fiber[w] = "awaiting" /\ previous[w] = p)'
  <2>1. p \in Pending
    BY <1>3 DEF Reload, Join, Enter, IInv, TypeOK, Pending
  <2>2. CASE p = cache
    <3>1. cache # None
      BY <2>1, <2>2 DEF Pending
    <3>2. (fiber[c] = "awaiting" /\ previous[c] = p)'
      BY <2>2, <3>1 DEF Reload, Enter, IInv, TypeOK
    <3>. QED
      BY <3>2
  <2>3. CASE p # cache
    <3>1. PICK w \in Calls : fiber[w] = "awaiting" /\ previous[w] = p
      BY <2>1, <2>3 DEF IInv, Queued
    <3>2. w # c
      BY <3>1 DEF Reload, IInv, EntryOK
    <3>. QED
      BY <3>1, <3>2 DEF Reload, Enter, IInv, TypeOK
  <2>. QED
    BY <2>2, <2>3
<1>4. CacheOK'
  BY DEF Reload, Join, Enter, IInv, TypeOK, EntryOK, CacheOK
<1>5. ASSUME NEW f \in Disposes
      PROVE  DisposeOK(f)'
  BY DEF Reload, Join, Enter, IInv, TypeOK, Disposal, EntryOK, DisposeOK, CacheOK
<1>. QED
  BY <1>1, <1>2, <1>3, <1>4, <1>5 DEF IInv, Queued

\* A fiber that goes on before its Deferred is done was, or becomes, a front.
LEMMA FiberInv ==
  ASSUME IInv, NEW c \in Calls, ReloadDisposes(c) \/ ReloadBoots(c) \/ BootService(c)
  PROVE  IInv'
<1>1. TypeOK'
  BY DEF ReloadDisposes, ReloadBoots, BootService, IInv, TypeOK, Disposal
<1>2. ASSUME NEW e \in Calls
      PROVE  EntryOK(e)'
  BY DEF ReloadDisposes, ReloadBoots, BootService, IInv, TypeOK, EntryOK, CacheOK, Pending, Front
<1>3. Queued'
  BY DEF ReloadDisposes, ReloadBoots, BootService, IInv, TypeOK, EntryOK, Queued, Pending
<1>4. CacheOK'
  BY DEF ReloadDisposes, ReloadBoots, BootService, IInv, TypeOK, EntryOK, CacheOK
<1>5. ASSUME NEW f \in Disposes
      PROVE  DisposeOK(f)'
  BY DEF ReloadDisposes, ReloadBoots, BootService, IInv, TypeOK, Disposal, EntryOK, DisposeOK, CacheOK
<1>. QED
  BY <1>1, <1>2, <1>3, <1>4, <1>5 DEF IInv

\* A boot that ends takes its entry from the queue's front.
LEMMA BootEndsInv ==
  ASSUME IInv, NEW c \in Calls, BootSucceeds(c) \/ BootFails(c)
  PROVE  IInv'
<1>1. TypeOK'
  BY DEF BootSucceeds, BootFails, IInv, TypeOK, Disposal
<1>2. ASSUME NEW e \in Calls
      PROVE  EntryOK(e)'
  BY DEF BootSucceeds, BootFails, IInv, TypeOK, EntryOK, CacheOK, Pending, Front
<1>3. Queued'
  BY DEF BootSucceeds, BootFails, IInv, TypeOK, EntryOK, Queued, Pending
<1>4. CacheOK'
  BY DEF BootSucceeds, BootFails, IInv, TypeOK, EntryOK, CacheOK
<1>5. ASSUME NEW f \in Disposes
      PROVE  DisposeOK(f)'
  BY DEF BootSucceeds, BootFails, IInv, TypeOK, Disposal, EntryOK, DisposeOK, CacheOK
<1>. QED
  BY <1>1, <1>2, <1>3, <1>4, <1>5 DEF IInv

\* dispose finds an entry, or runs the disposers of a context that has left the map.
LEMMA DisposeInv ==
  ASSUME IInv, NEW d \in Disposes, Dispose(d)
  PROVE  IInv'
<1>1. TypeOK'
  <2>1. PICK e \in {None} \cup Calls : DisposeUnknown(d, e) \/ DisposeKnown(d, e)
    BY DEF Dispose
  <2>2. dispose \in [Disposes -> Disposal] /\ dispose[d] \in Disposal
    BY DEF IInv, TypeOK
  <2>3. CASE DisposeUnknown(d, e)
    <3>. DEFINE y(pc) == [dispose[d] EXCEPT !.pc = pc, !.ctx = e]
    <3>1. y("returned") \in Disposal /\ y("closing") \in Disposal
      BY <2>2 DEF Disposal
    <3>2. dispose' = [dispose EXCEPT ![d] = y(IF e = None THEN "returned" ELSE "closing")]
      BY <2>3 DEF DisposeUnknown
    <3>3. dispose' \in [Disposes -> Disposal]
      BY <2>2, <3>1, <3>2
    <3>. QED
      BY <2>3, <3>3 DEF DisposeUnknown, IInv, TypeOK
  <2>4. CASE DisposeKnown(d, e)
    BY <2>4 DEF DisposeKnown, IInv, TypeOK, Disposal
  <2>. QED
    BY <2>1, <2>3, <2>4
<1>2. ASSUME NEW e \in Calls
      PROVE  EntryOK(e)'
  BY DEF Dispose, DisposeKnown, DisposeUnknown, IInv, TypeOK, EntryOK, CacheOK, Pending, Front
<1>3. Queued'
  BY DEF Dispose, DisposeKnown, DisposeUnknown, IInv, TypeOK, EntryOK, Queued, Pending
<1>4. CacheOK'
  BY DEF Dispose, DisposeKnown, DisposeUnknown, IInv, TypeOK, EntryOK, CacheOK
<1>5. ASSUME NEW f \in Disposes
      PROVE  DisposeOK(f)'
  <2>1. PICK e \in {None} \cup {c \in Calls : result[c] = "ready"} :
               DisposeUnknown(d, e) \/ DisposeKnown(d, e)
    BY DEF Dispose
  <2>2. CASE f # d
    BY <2>1, <2>2 DEF DisposeKnown, DisposeUnknown, IInv, TypeOK, DisposeOK
  <2>3. CASE f = d /\ DisposeUnknown(d, e)
    BY <2>1, <2>3 DEF DisposeUnknown, IInv, TypeOK, Disposal, DisposeOK
  <2>4. CASE f = d /\ DisposeKnown(d, e)
    BY <2>1, <2>4 DEF DisposeKnown, IInv, TypeOK, Disposal, DisposeOK, CacheOK
  <2>. QED
    BY <2>1, <2>2, <2>3, <2>4
<1>. QED
  BY <1>1, <1>2, <1>3, <1>4, <1>5 DEF IInv

\* The entry found is no longer pending.
LEMMA DisposeAwaitedInv ==
  ASSUME IInv, NEW d \in Disposes, DisposeAwaited(d)
  PROVE  IInv'
<1>1. TypeOK'
  BY DEF DisposeAwaited, NothingToDispose, IInv, TypeOK, Disposal
<1>2. ASSUME NEW e \in Calls
      PROVE  EntryOK(e)'
  BY DEF DisposeAwaited, NothingToDispose, IInv, TypeOK, EntryOK, CacheOK, Pending, Front
<1>3. Queued'
  BY DEF DisposeAwaited, NothingToDispose, IInv, TypeOK, EntryOK, Queued, Pending
<1>4. CacheOK'
  BY DEF DisposeAwaited, NothingToDispose, IInv, TypeOK, EntryOK, CacheOK
<1>5. ASSUME NEW f \in Disposes
      PROVE  DisposeOK(f)'
  BY DEF DisposeAwaited, NothingToDispose, IInv, TypeOK, Disposal, EntryOK, DisposeOK, CacheOK
<1>. QED
  BY <1>1, <1>2, <1>3, <1>4, <1>5 DEF IInv

\* The entry dropped from the map was not pending.
LEMMA DisposeClosedInv ==
  ASSUME IInv, NEW d \in Disposes, DisposeClosed(d)
  PROVE  IInv'
<1>1. TypeOK'
  <2>1. dispose' \in [Disposes -> Disposal]
    BY DEF DisposeClosed, IInv, TypeOK, Disposal
  <2>2. cache' \in Calls \cup {None}
    BY DEF DisposeClosed, IInv, TypeOK
  <2>. QED
    BY <2>1, <2>2 DEF DisposeClosed, IInv, TypeOK
<1>2. ASSUME NEW e \in Calls
      PROVE  EntryOK(e)'
  BY DEF DisposeClosed, IInv, TypeOK, EntryOK, CacheOK, Pending, Front
<1>3. Queued'
  BY DEF DisposeClosed, IInv, TypeOK, EntryOK, Queued, Pending, DisposeOK
<1>4. CacheOK'
  BY DEF DisposeClosed, IInv, TypeOK, EntryOK, CacheOK
<1>5. ASSUME NEW f \in Disposes
      PROVE  DisposeOK(f)'
  BY DEF DisposeClosed, IInv, TypeOK, Disposal, EntryOK, DisposeOK, CacheOK
<1>. QED
  BY <1>1, <1>2, <1>3, <1>4, <1>5 DEF IInv

\* A disposal that is given up leaves the entry where it is.
LEMMA DisposeAbandonInv ==
  ASSUME IInv, NEW d \in Disposes, DisposeAbandon(d)
  PROVE  IInv'
<1>1. TypeOK'
  BY DEF DisposeAbandon, IInv, TypeOK, Disposal
<1>2. ASSUME NEW e \in Calls
      PROVE  EntryOK(e)'
  BY DEF DisposeAbandon, IInv, TypeOK, EntryOK, CacheOK, Pending, Front
<1>3. Queued'
  BY DEF DisposeAbandon, IInv, TypeOK, EntryOK, Queued, Pending
<1>4. CacheOK'
  BY DEF DisposeAbandon, IInv, TypeOK, EntryOK, CacheOK
<1>5. ASSUME NEW f \in Disposes
      PROVE  DisposeOK(f)'
  BY DEF DisposeAbandon, IInv, TypeOK, Disposal, EntryOK, DisposeOK, CacheOK
<1>. QED
  BY <1>1, <1>2, <1>3, <1>4, <1>5 DEF IInv

LEMMA Inductive == IInv /\ [Next]_vars => IInv'
<1>1. ASSUME IInv, UNCHANGED vars
      PROVE  IInv'
  BY <1>1 DEF vars, IInv, TypeOK, EntryOK, Queued, CacheOK, DisposeOK, Pending, Front
<1>. QED
  BY <1>1, CallerInv, LoadNewInv, ReloadInv, FiberInv, BootEndsInv, DisposeInv,
     DisposeAwaitedInv, DisposeClosedInv, DisposeAbandonInv DEF Next

LEMMA Invariant == Spec => []IInv
BY InitInv, Inductive, PTL DEF Spec

\* Every variable keeps its declared values.
THEOREM Typing == Spec => []TypeOK
<1>1. IInv => TypeOK
  BY DEF IInv
<1>. QED
  BY <1>1, Invariant, PTL

\* Two boots of the directory never overlap: a fiber that boots is a front, and there
\* is one.
THEOREM BootsOneAtATime == Spec => []OneBoot
<1>1. IInv => OneBoot
  BY FrontIsOne, BootingIsFront DEF IInv, OneBoot
<1>. QED
  BY <1>1, Invariant, PTL

\* A context that was disposed of is in the map no more.
THEOREM DisposedLeaves == Spec => []DisposedIsGone
<1>1. IInv => DisposedIsGone
  BY DEF IInv, DisposeOK, DisposedIsGone
<1>. QED
  BY <1>1, Invariant, PTL

\* No disposer takes the service of an instance that boots: whoever runs the disposers
\* is the one front itself, or has found that no entry is pending.
THEOREM BootingKeepsService == Spec => BootKeepsService
<1>. DEFINE Keeps == \A c \in Calls : fiber[c] = "booting" /\ service = c => service' = c
<1>1. ASSUME IInv, [Next]_vars, NEW c \in Calls, fiber[c] = "booting", service = c
      PROVE  service' = c
  <2>1. c \in Front /\ service # None
    BY <1>1, BootingIsFront
  <2>2. \A e \in Front : e = c
    BY <1>1, <2>1, FrontIsOne DEF IInv
  <2>3. cache \in Pending
    BY <1>1, <2>1, FrontIsOne DEF IInv
  <2>4. ASSUME NEW e \in Reloads, ReloadDisposes(e)
        PROVE  FALSE
    <3>1. e \in Front /\ fiber[e] = "awaiting"
      BY <1>1, <2>4 DEF ReloadDisposes, IInv, EntryOK, Pending, Front
    <3>. QED
      BY <1>1, <2>2, <3>1
  <2>5. ASSUME NEW d \in Disposes, Dispose(d)
        PROVE  service' = service
    BY <2>3, <2>5 DEF Dispose, DisposeKnown, DisposeUnknown, Pending
  <2>6. ASSUME NEW d \in Disposes, DisposeAwaited(d)
        PROVE  service' = service
    BY <2>3, <2>6 DEF DisposeAwaited, NothingToDispose, Pending
  <2>. QED
    BY <1>1, <2>1, <2>4, <2>5, <2>6
       DEF Next, vars, LoadExisting, LoadNew, Reload, ReloadBoots, BootService, BootSucceeds,
           BootFails, Return, Leave, UseService, DisposeClosed, DisposeAbandon
<1>2. IInv /\ [Next]_vars => Keeps
  BY <1>1
<1>. QED
  BY <1>2, Invariant, PTL DEF Spec, BootKeepsService

\* An entry that is still to boot leaves the map for a reload, or by its failure.
THEOREM PendingKeepsPlace == Spec => PendingStays
<1>. DEFINE Stays == cache # None /\ result[cache] = "pending" /\ cache' # cache =>
                       cache' \in Reloads \/ result'[cache] = "failed"
<1>1. ASSUME IInv, [Next]_vars
      PROVE  Stays
  <2>1. ASSUME NEW c \in Calls, BootFails(c)
        PROVE  Stays
    BY <1>1, <2>1 DEF BootFails, IInv, TypeOK
  <2>2. ASSUME NEW d \in Disposes, DisposeClosed(d)
        PROVE  Stays
    BY <1>1, <2>2 DEF DisposeClosed, IInv, DisposeOK
  <2>3. ASSUME NEW c \in Reloads, Reload(c)
        PROVE  Stays
    BY <2>3 DEF Reload, Enter
  <2>4. ASSUME NEW c \in Loads, LoadNew(c)
        PROVE  Stays
    BY <2>4 DEF LoadNew
  <2>. QED
    BY <1>1, <2>1, <2>2, <2>3, <2>4
       DEF Next, vars, LoadExisting, Join, ReloadDisposes, ReloadBoots, BootService,
           BootSucceeds, Return, Leave, UseService, Dispose, DisposeKnown, DisposeUnknown,
           DisposeAwaited, DisposeAbandon
<1>. QED
  BY <1>1, Invariant, PTL DEF Spec, PendingStays

=============================================================================
