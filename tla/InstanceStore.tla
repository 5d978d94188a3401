--------------------------- MODULE InstanceStore ---------------------------
(***************************************************************************)
(* The instances of the project's directories: project/instance-store.ts,   *)
(* with the per-directory services of effect/instance-state.ts.             *)
(*                                                                         *)
(* A load or a reload puts an entry into the map and forks the fiber that   *)
(* boots it; everybody else joins the entry.  Disposing runs the disposers  *)
(* of the directory, which close the Scopes of its services, and then drops *)
(* the entry.  Directories share nothing, so one is modelled, with one      *)
(* service in place of all that boot with it.                               *)
(*                                                                         *)
(* An entry, the context its boot makes and the fiber that boots it carry   *)
(* the name of the call.  A step is the code between two suspensions.       *)
(***************************************************************************)
EXTENDS FiniteSets

CONSTANTS
  Loads,     \* calls of load, or of provide
  Reloads,   \* calls of reload
  Disposes,  \* calls of dispose, disposeDirectory or disposeAll
  None

ASSUME CallsAssumption ==
  /\ Loads \cap Reloads = {}
  /\ None \notin Loads \cup Reloads
  /\ IsFiniteSet(Loads) /\ IsFiniteSet(Reloads)

Calls == Loads \cup Reloads

VARIABLES
  cache,     \* the directory's entry in the map
  fiber,     \* fiber[c]: the fiber that boots the entry of call c
  result,    \* result[c]: the Deferred of that entry
  previous,  \* previous[c]: the entry that the reload c has replaced
  call,      \* call[c]: the caller, from its call until it is done with the context
  joins,     \* joins[c]: the entry whose context the caller gets
  service,   \* the context that the directory's service was made for
  dispose    \* dispose[d]: a disposal

vars == <<cache, fiber, result, previous, call, joins, service, dispose>>

Disposal ==
  [pc    : {"new", "awaiting", "closing", "returned", "gone"},
   ctx   : Calls \cup {None},   \* the context given to dispose
   entry : Calls \cup {None}]   \* the entry found in the map

NewDisposal == [pc |-> "new", ctx |-> None, entry |-> None]

Init ==
  /\ cache = None
  /\ fiber = [c \in Calls |-> "none"]
  /\ result = [c \in Calls |-> "none"]
  /\ previous = [c \in Calls |-> None]
  /\ call = [c \in Calls |-> "new"]
  /\ joins = [c \in Calls |-> None]
  /\ service = None
  /\ dispose = [d \in Disposes |-> NewDisposal]

\* A new entry, whose fiber starts at once.
Enter(c, pc) ==
  /\ cache' = c
  /\ fiber' = [fiber EXCEPT ![c] = pc]
  /\ result' = [result EXCEPT ![c] = "pending"]

\* The caller waits for the context of entry e.
Join(c, e) ==
  /\ call' = [call EXCEPT ![c] = "waiting"]
  /\ joins' = [joins EXCEPT ![c] = e]

LoadExisting(c) ==
  /\ call[c] = "new"
  /\ cache # None
  /\ Join(c, cache)
  /\ UNCHANGED <<cache, fiber, result, previous, service, dispose>>

LoadNew(c) ==
  /\ call[c] = "new"
  /\ cache = None
  /\ Enter(c, "booting")
  /\ Join(c, c)
  /\ UNCHANGED <<previous, service, dispose>>

\* Mutant: the new instance does not wait for the old one.
ReloadAtOnce(c) ==
  /\ call[c] = "new"
  /\ Enter(c, "booting")
  /\ Join(c, c)
  /\ previous' = [previous EXCEPT ![c] = cache]
  /\ UNCHANGED <<service, dispose>>

Reload(c) ==
  /\ call[c] = "new"
  /\ Enter(c, IF cache = None THEN "booting" ELSE "awaiting")
  /\ Join(c, c)
  /\ previous' = [previous EXCEPT ![c] = cache]
  /\ UNCHANGED <<service, dispose>>

-----------------------------------------------------------------------------
(* The fiber of an entry *)

\* The replaced entry is booted, or has failed: its services are disposed of.
ReloadDisposes(c) ==
  /\ fiber[c] = "awaiting"
  /\ result[previous[c]] # "pending"
  /\ fiber' = [fiber EXCEPT ![c] = "closing"]
  /\ service' = None
  /\ UNCHANGED <<cache, result, previous, call, joins, dispose>>

ReloadBoots(c) ==
  /\ fiber[c] = "closing"
  /\ fiber' = [fiber EXCEPT ![c] = "booting"]
  /\ UNCHANGED <<cache, result, previous, call, joins, service, dispose>>

\* bootstrap.run materializes the service, unless the directory has one.
BootService(c) ==
  /\ fiber[c] = "booting"
  /\ service = None
  /\ service' = c
  /\ UNCHANGED <<cache, fiber, result, previous, call, joins, dispose>>

BootSucceeds(c) ==
  /\ fiber[c] = "booting"
  /\ fiber' = [fiber EXCEPT ![c] = "over"]
  /\ result' = [result EXCEPT ![c] = "ready"]
  /\ UNCHANGED <<cache, previous, call, joins, service, dispose>>

\* Mutant: the Deferred of a failed boot is left alone.
BootFailsSilently(c) ==
  /\ fiber[c] = "booting"
  /\ fiber' = [fiber EXCEPT ![c] = "over"]
  /\ cache' = IF cache = c THEN None ELSE cache
  /\ UNCHANGED <<result, previous, call, joins, service, dispose>>

\* A failed entry leaves the map, if it still is there.
BootFails(c) ==
  /\ fiber[c] = "booting"
  /\ fiber' = [fiber EXCEPT ![c] = "over"]
  /\ result' = [result EXCEPT ![c] = "failed"]
  /\ cache' = IF cache = c THEN None ELSE cache
  /\ UNCHANGED <<previous, call, joins, service, dispose>>

-----------------------------------------------------------------------------
(* The callers *)

\* Mutant: the caller takes the Exit for the context.
ReturnExit(c) ==
  /\ call[c] = "waiting"
  /\ result[joins[c]] # "pending"
  /\ call' = [call EXCEPT ![c] = result[joins[c]]]
  /\ UNCHANGED <<cache, fiber, result, previous, joins, service, dispose>>

Return(c) ==
  /\ call[c] = "waiting"
  /\ result[joins[c]] # "pending"
  /\ call' = [call EXCEPT ![c] = IF result[joins[c]] = "ready" THEN "holding" ELSE "gone"]
  /\ UNCHANGED <<cache, fiber, result, previous, joins, service, dispose>>

\* A caller is interrupted while it waits, or is done with the context.
Leave(c) ==
  /\ call[c] \in {"waiting", "holding"}
  /\ call' = [call EXCEPT ![c] = "gone"]
  /\ UNCHANGED <<cache, fiber, result, previous, joins, service, dispose>>

\* InstanceState.get under a context: the directory's service is made if need be.
UseService(c) ==
  /\ call[c] = "holding"
  /\ service = None
  /\ service' = joins[c]
  /\ UNCHANGED <<cache, fiber, result, previous, call, joins, dispose>>

-----------------------------------------------------------------------------
(* Disposal *)

\* No entry: a given context has its directory's disposers run all the same.
DisposeUnknown(d, e) ==
  /\ dispose[d].pc = "new"
  /\ cache = None
  /\ dispose' = [dispose EXCEPT ![d] = [@ EXCEPT !.pc = IF e = None THEN "returned" ELSE "closing",
                                                 !.ctx = e]]
  /\ service' = IF e = None THEN service ELSE None
  /\ UNCHANGED <<cache, fiber, result, previous, call, joins>>

DisposeKnown(d, e) ==
  /\ dispose[d].pc = "new"
  /\ cache # None
  /\ dispose' = [dispose EXCEPT ![d] = [pc |-> "awaiting", ctx |-> e, entry |-> cache]]
  /\ UNCHANGED <<cache, fiber, result, previous, call, joins, service>>

\* A context is given by a caller that once got it; a directory by anybody (None).
Dispose(d) ==
  \E e \in {None} \cup {c \in Calls : result[c] = "ready"} :
    DisposeUnknown(d, e) \/ DisposeKnown(d, e)

\* Mutant: a replaced entry is disposed of all the same.
NothingLeft(d) ==
  LET x == dispose[d] IN
  \/ result[x.entry] = "failed"
  \/ x.ctx \notin {None, x.entry}

\* The entry awaited has failed, is not the given context's, or has been replaced.
NothingToDispose(d) ==
  LET x == dispose[d] IN
  \/ result[x.entry] = "failed"
  \/ x.ctx \notin {None, x.entry}
  \/ cache # x.entry

DisposeAwaited(d) ==
  LET x == dispose[d] IN
  /\ x.pc = "awaiting"
  /\ result[x.entry] # "pending"
  /\ IF NothingToDispose(d)
     THEN /\ dispose' = [dispose EXCEPT ![d].pc = "returned"]
          /\ UNCHANGED service
     ELSE /\ dispose' = [dispose EXCEPT ![d].pc = "closing"]
          /\ service' = None
  /\ UNCHANGED <<cache, fiber, result, previous, call, joins>>

\* The Scopes are closed: the entry is dropped, if it still is there.
DisposeClosed(d) ==
  /\ dispose[d].pc = "closing"
  /\ dispose' = [dispose EXCEPT ![d].pc = "returned"]
  /\ cache' = IF cache = dispose[d].entry THEN None ELSE cache
  /\ UNCHANGED <<fiber, result, previous, call, joins, service>>

\* A request that disposes of a worktree's directory is closed meanwhile: the entry
\* stays, whatever has become of its services.
DisposeAbandon(d) ==
  /\ dispose[d].pc \in {"awaiting", "closing"}
  /\ dispose' = [dispose EXCEPT ![d].pc = "gone"]
  /\ UNCHANGED <<cache, fiber, result, previous, call, joins, service>>

-----------------------------------------------------------------------------
Next ==
  \/ \E c \in Loads : LoadExisting(c) \/ LoadNew(c)
  \/ \E c \in Reloads : Reload(c) \/ ReloadDisposes(c) \/ ReloadBoots(c)
  \/ \E c \in Calls : \/ BootService(c)
                      \/ BootSucceeds(c)
                      \/ BootFails(c)
                      \/ Return(c)
                      \/ Leave(c)
                      \/ UseService(c)
  \/ \E d \in Disposes : \/ Dispose(d)
                         \/ DisposeAwaited(d)
                         \/ DisposeClosed(d)
                         \/ DisposeAbandon(d)

Spec == Init /\ [][Next]_vars

(***************************************************************************)
(* Fairness.  Fibers that can go on go on.  A boot or a finalizer that      *)
(* hangs is possible: WorkEnds says when they do not.                       *)
(***************************************************************************)
Fairness ==
  /\ \A c \in Calls : WF_vars(Return(c))
  /\ \A c \in Reloads : WF_vars(ReloadDisposes(c))
  /\ \A d \in Disposes : WF_vars(DisposeAwaited(d))

FairSpec == Spec /\ Fairness

-----------------------------------------------------------------------------
(* Properties *)

TypeOK ==
  /\ cache \in Calls \cup {None}
  /\ fiber \in [Calls -> {"none", "awaiting", "closing", "booting", "over"}]
  /\ result \in [Calls -> {"none", "pending", "ready", "failed"}]
  /\ previous \in [Calls -> Calls \cup {None}]
  /\ call \in [Calls -> {"new", "waiting", "holding", "gone"}]
  /\ joins \in [Calls -> Calls \cup {None}]
  /\ service \in Calls \cup {None}
  /\ dispose \in [Disposes -> Disposal]

\* Two boots of one directory never overlap, however loads, failed boots, reloads of
\* reloads and disposals follow each other: bootstrap.run is not written to run twice
\* at a time on one directory's services.
OneBoot ==
  \A c, d \in Calls : fiber[c] = "booting" /\ fiber[d] = "booting" => c = d

\* No disposer of an earlier instance, whoever runs it, takes away the service of
\* an instance while that boots.
BootKeepsService ==
  [][\A c \in Calls : fiber[c] = "booting" /\ service = c => service' = c]_vars

\* A test of instance-store.ts: "stale dispose does not delete an in-flight reload".
\* An entry that still boots leaves the map only for a reload, or by its own failure.
PendingStays ==
  [][cache # None /\ result[cache] = "pending" /\ cache' # cache =>
       cache' \in Reloads \/ result'[cache] = "failed"]_vars

\* When dispose has returned nobody who loads afterwards gets the context it was
\* given, whatever reloads, disposals and failures overlapped it.
DisposedIsGone ==
  \A d \in Disposes : dispose[d].pc = "returned" /\ dispose[d].ctx # None =>
    cache # dispose[d].ctx

WorkEnds ==
  /\ \A c \in Calls : []<>(fiber[c] \notin {"booting", "closing"})
  /\ \A d \in Disposes : []<>(dispose[d].pc # "closing")

\* If boots and finalizers end, everybody who waits is answered: the callers of load
\* and reload, behind a chain of reloads and of a failed boot too, and every disposal
\* that awaits its entry, unless its caller goes away.
EveryoneReturns ==
  WorkEnds =>
    /\ \A c \in Calls : call[c] = "waiting" ~> call[c] # "waiting"
    /\ \A d \in Disposes :
         dispose[d].pc = "awaiting" ~> dispose[d].pc \in {"returned", "gone"}

=============================================================================
