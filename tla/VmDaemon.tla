---------------------------- MODULE VmDaemon ----------------------------
(***************************************************************************)
(* The desktop machines of the micro-VM daemon: internal/daemon/server.go   *)
(* serves every request in a goroutine of its own, and                      *)
(* internal/engine/qemu_sandbox.go answers it by reading the machine's      *)
(* vm.json, acting on the QEMU process that it names, and writing the file  *)
(* back.  Nothing orders two requests (the engine's mutex is never taken),  *)
(* a request may lose its client while QEMU starts, and the daemon may end  *)
(* at any moment, while the machines, which are daemonized, go on.          *)
(*                                                                          *)
(* A record is abstracted to the process it names: status "running" is      *)
(* written with a pid and "stopped" with pid 0, never otherwise.  A process *)
(* is numbered by the start that made it; the reuse of a number by the      *)
(* operating system is left out.                                            *)
(***************************************************************************)
EXTENDS Naturals, FiniteSets

CONSTANTS Handlers,     \* requests being served
          Machines,     \* identities that Create draws
          MaxStarts,    \* QEMU processes started of a machine
          MaxCrashes    \* ends of the daemon

ASSUME VmAssumption == /\ MaxStarts \in Nat \ {0}
                       /\ MaxCrashes \in Nat

VARIABLES
    record,   \* what the directory of a machine holds
    live,     \* the QEMU processes of a machine
    started,  \* the number of processes started of a machine
    h,        \* what each request has done so far
    crashes,
    strays    \* history: the processes lost at an event that explains the loss

vars == <<record, live, started, h, crashes, strays>>

Pid     == 1 .. MaxStarts
Stopped == 0               \* vm.json with pid 0
Bare    == MaxStarts + 1   \* a directory without a vm.json that can be read
Absent  == MaxStarts + 2   \* no directory
Found  == {Stopped} \cup Pid

Ops == {"create", "list", "start", "stop", "delete"}
Idle == [at |-> "idle"]

\* A request holds the pid that it read, and later the pid that it started.
At(op, place, m, read, pid) ==
    [at |-> place, op |-> op, m |-> m, read |-> read, pid |-> pid]
Places == {"read", "launch", "write", "fill", "term", "wait", "remove"}

VTypeOK ==
    /\ record \in [Machines -> Found \cup {Absent, Bare}]
    /\ live \in [Machines -> SUBSET Pid]
    /\ strays \in [Machines -> SUBSET Pid]
    /\ started \in [Machines -> 0 .. MaxStarts]
    /\ h \in [Handlers -> {Idle} \cup
              [at : Places, op : Ops, m : Machines, read : Found, pid : Found]]
    /\ crashes \in 0 .. MaxCrashes

VInit ==
    /\ record = [m \in Machines |-> Absent]
    /\ live = [m \in Machines |-> {}]
    /\ started = [m \in Machines |-> 0]
    /\ h = [x \in Handlers |-> Idle]
    /\ crashes = 0
    /\ strays = [m \in Machines |-> {}]

InDirectory(m) == record[m] # Absent

GoTo(x, place) == h' = [h EXCEPT ![x].at = place]
Return(x) == h' = [h EXCEPT ![x] = Idle]
Reaches(x, place) == h[x].at = place /\ UNCHANGED crashes

\* The process that request x forgets when it empties or removes m's record: the
\* record changed since x read it.
Forgotten(x, m) == (live[m] \cap {record[m]}) \ {h[x].read}

Lose(m, ps) == strays' = [strays EXCEPT ![m] = @ \cup ps]

-----------------------------------------------------------------------------
(* Arrival of a request: Create makes a directory under a fresh identity,   *)
(* every other operation finds the record that the identity names.          *)

Create(x, m) ==
    /\ h[x] = Idle /\ record[m] = Absent /\ started[m] = 0
    /\ \A y \in Handlers : h[y] # Idle => h[y].m # m
    /\ record' = [record EXCEPT ![m] = Bare]
    /\ h' = [h EXCEPT ![x] = At("create", "launch", m, Stopped, Stopped)]
    /\ UNCHANGED <<live, started, crashes, strays>>

Find(x, m, op) ==
    /\ h[x] = Idle /\ record[m] \in Found
    /\ LET place == CASE op \in {"list", "start"} -> "read"
                      [] op = "stop"   -> IF record[m] = Stopped THEN "write" ELSE "term"
                      [] op = "delete" -> IF record[m] = Stopped THEN "remove" ELSE "term"
       IN h' = [h EXCEPT ![x] = At(op, place, m, record[m],
                                   IF op = "stop" THEN Stopped ELSE record[m])]
    /\ UNCHANGED <<record, live, started, crashes, strays>>

\* refreshQemuStatus: a process that does not answer signal 0 has stopped.
Refreshed(x) == IF h[x].pid \in live[h[x].m] THEN h[x].pid ELSE Stopped

\* List writes the refreshed record back; Start returns when the machine runs,
\* or when its disk is gone, and launches QEMU otherwise.
Refresh(x) ==
    /\ Reaches(x, "read")
    /\ IF h[x].op = "list"
       THEN h' = [h EXCEPT ![x] = [@ EXCEPT !.at = "write", !.pid = Refreshed(x)]]
       ELSE IF Refreshed(x) # Stopped \/ ~InDirectory(h[x].m)
       THEN Return(x)
       ELSE GoTo(x, "launch")
    /\ UNCHANGED <<record, live, started, strays>>

-----------------------------------------------------------------------------
(* startQemu: the command daemonizes QEMU, whose lock on the pid file and   *)
(* the disk lets one process of a machine run.  It may fail, and it may     *)
(* fail late: when the client has gone its context kills the launcher,      *)
(* whose machine may already be on its own.                                 *)

CanRun(m) == InDirectory(m) /\ live[m] = {} /\ started[m] < MaxStarts

\* What Create undoes when a later step of it fails: the directory.
Undo(x) == record' = IF h[x].op = "create" THEN [record EXCEPT ![h[x].m] = Absent]
                     ELSE record

Launch(x) == LET m == h[x].m  p == started[m] + 1 IN
    /\ Reaches(x, "launch")
    /\ CanRun(m)
    /\ started' = [started EXCEPT ![m] = p]
    /\ live' = [live EXCEPT ![m] = {p}]
    /\ \/ h' = [h EXCEPT ![x] = [@ EXCEPT !.at = "write", !.pid = p]] /\ UNCHANGED <<record, strays>>
       \/ Return(x) /\ Undo(x) /\ Lose(m, {p})

LaunchFails(x) ==
    /\ Reaches(x, "launch")
    /\ Undo(x) /\ Return(x)
    /\ UNCHANGED <<live, started, strays>>

-----------------------------------------------------------------------------
(* stopPID: SIGTERM, five seconds of polling, SIGKILL.  A process that is   *)
(* not there makes it fail; Stop then returns, Delete goes on.              *)

AfterKill(x) == IF h[x].op = "delete" THEN "remove" ELSE "write"
KillFails(x) == IF h[x].op = "delete" THEN GoTo(x, "remove") ELSE Return(x)

Terminate(x) ==
    /\ Reaches(x, "term")
    /\ IF h[x].read \in live[h[x].m] THEN GoTo(x, "wait") ELSE KillFails(x)
    /\ UNCHANGED <<record, live, started, strays>>

Poll(x) ==
    /\ Reaches(x, "wait")
    /\ h[x].read \notin live[h[x].m]
    /\ GoTo(x, AfterKill(x))
    /\ UNCHANGED <<record, live, started, strays>>

\* mutant: the polling ends and nothing is killed.
DeadlineOnly(x) ==
    /\ Reaches(x, "wait")
    /\ GoTo(x, AfterKill(x))
    /\ UNCHANGED <<record, live, started, strays>>
\* The deadline passed: what still runs is killed; a process that ended since
\* the last poll makes Kill fail.
Deadline(x) ==
    /\ Reaches(x, "wait")
    /\ live' = [live EXCEPT ![h[x].m] = @ \ {h[x].read}]
    /\ IF h[x].read \in live[h[x].m] THEN GoTo(x, AfterKill(x)) ELSE KillFails(x)
    /\ UNCHANGED <<record, started, strays>>

-----------------------------------------------------------------------------
(* The write at the end of Create, List, Start and Stop: os.WriteFile opens  *)
(* vm.json, which empties it, and then fills it.  The directory may have     *)
(* gone, and the disk may refuse either step: Create then stops what it      *)
(* started, the others do not.                                               *)

Open(x) == LET m == h[x].m IN
    /\ Reaches(x, "write")
    /\ InDirectory(m)
    /\ record' = [record EXCEPT ![m] = Bare]
    /\ Lose(m, Forgotten(x, m))
    /\ GoTo(x, "fill")
    /\ UNCHANGED <<live, started>>

\* What the file holds once x has filled it: nobody sees a file that was removed,
\* and another text that was put in since it was emptied may stick out at the end.
Filled(x) == LET m == h[x].m IN
    IF ~InDirectory(m) THEN {Absent}
    ELSE {h[x].pid} \cup {r \in {Bare} : record[m] \in Found \ {h[x].pid}}

\* The running processes that x leaves unnamed when m's record becomes v.
Dropped(x, m, v) == live'[m] \cap ({record[m], h[x].pid} \ {v})

Fill(x) == LET m == h[x].m IN
    /\ Reaches(x, "fill")
    /\ Return(x)
    /\ UNCHANGED <<live, started>>
    /\ \E v \in Filled(x) : /\ record' = [record EXCEPT ![m] = v]
                            /\ Lose(m, Dropped(x, m, v))

\* The file stays as it was, or a part of the text makes it unreadable.
Broken(x) == {record[h[x].m]} \cup {r \in {Bare} : h[x].at = "fill" /\ InDirectory(h[x].m)}

\* mutant: Create removes the directory and leaves the process.
WriteFailsOnly(x) == LET m == h[x].m IN
    /\ h[x].at \in {"write", "fill"} /\ UNCHANGED crashes
    /\ Return(x)
    /\ UNCHANGED <<live, started>>
    /\ IF h[x].op = "create"
       THEN /\ record' = [record EXCEPT ![m] = Absent]
            /\ UNCHANGED strays
       ELSE /\ \E v \in Broken(x) : /\ record' = [record EXCEPT ![m] = v]
                                   /\ Lose(m, Dropped(x, m, v))
WriteFails(x) == LET m == h[x].m IN
    /\ h[x].at \in {"write", "fill"} /\ UNCHANGED crashes
    /\ Return(x)
    /\ UNCHANGED started
    /\ IF h[x].op = "create"
       THEN /\ record' = [record EXCEPT ![m] = Absent]
            /\ live' = [live EXCEPT ![m] = @ \ {h[x].pid}]
            /\ UNCHANGED strays
       ELSE /\ live' = live
            /\ \E v \in Broken(x) : /\ record' = [record EXCEPT ![m] = v]
                                   /\ Lose(m, Dropped(x, m, v))

Remove(x) == LET m == h[x].m IN
    /\ Reaches(x, "remove")
    /\ record' = [record EXCEPT ![m] = Absent]
    /\ Lose(m, Forgotten(x, m))
    /\ Return(x)
    /\ UNCHANGED <<live, started>>

-----------------------------------------------------------------------------
(* The machine powers itself off; the daemon ends, and what its requests    *)
(* held is gone.                                                            *)

Exit(m, p) ==
    /\ p \in live[m]
    /\ live' = [live EXCEPT ![m] = @ \ {p}]
    /\ UNCHANGED <<record, started, h, crashes, strays>>

\* The processes that a request has still to write down: what it started, and what
\* the file named before it was emptied.
Holds(x) == \/ h[x].at = "write" /\ h[x].op \in {"create", "start"}
            \/ h[x].at = "fill"
Carried(m) == {h[x].pid : x \in {y \in Handlers : h[y] # Idle /\ h[y].m = m /\ Holds(y)}}

Crash ==
    /\ crashes < MaxCrashes
    /\ crashes' = crashes + 1
    /\ strays' = [m \in Machines |-> strays[m] \cup (Carried(m) \cap live[m])]
    /\ h' = [x \in Handlers |-> Idle]
    /\ UNCHANGED <<record, live, started>>

Steps(x) == \/ Refresh(x) \/ Launch(x) \/ LaunchFails(x)
            \/ Terminate(x) \/ Poll(x) \/ Deadline(x)
            \/ Open(x) \/ Fill(x) \/ WriteFails(x) \/ Remove(x)

VNext ==
    \/ \E x \in Handlers, m \in Machines :
         \/ Create(x, m)
         \/ \E op \in Ops \ {"create"} : Find(x, m, op)
    \/ \E x \in Handlers : Steps(x)
    \/ \E m \in Machines, p \in Pid : Exit(m, p)
    \/ Crash

VSpec == VInit /\ [][VNext]_vars

\* A goroutine that serves a request runs to its end.
VFairSpec == VSpec /\ \A x \in Handlers : WF_vars(Steps(x))

-----------------------------------------------------------------------------
(* Properties.                                                              *)

\* The processes of a machine that its record does not name and no request is
\* about to write down: nobody can stop them, and their locks keep Start out.
Unnamed(m) == live[m] \ ({record[m]} \cup Carried(m))

\* A running machine is lost only at one of five events: a request empties or
\* removes a record that changed since it read it (qemu_sandbox.go:186, :280, :291);
\* Start cannot write what it started (:263); the launcher fails after QEMU went its
\* own way (:459); a write of the record, the one List ignores (:186) included, fails
\* after the file was emptied, or fills it at once with another (:762); or the
\* daemon ends while a request holds what no file names.  No other order of
\* requests, failures and exits leaves a process that no record names.
LossIsExplained == \A m \in Machines : Unnamed(m) \subseteq strays[m]

\* A Stop or a Delete that has signalled a process sees it end, whether the
\* guest obeys or not, unless the daemon ends first (stopPID).
StopStops ==
    \A m \in Machines, p \in Pid, c \in 0 .. MaxCrashes :
        (crashes = c /\ \E x \in Handlers : h[x].at = "wait" /\ h[x].m = m /\ h[x].read = p)
            ~> (p \notin live[m] \/ crashes > c)
=============================================================================
