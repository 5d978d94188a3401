--------------------------- MODULE VmDaemonProofs ---------------------------
(***************************************************************************)
(* VmDaemon.tla for any number of requests and machines, of starts and of   *)
(* ends of the daemon: a running machine is lost at the five events that    *)
(* LossIsExplained names and at no other.  A request that empties or removes *)
(* a record has seen the end of the process it read there, or writes that   *)
(* process down again, so that only a record that changed meanwhile can     *)
(* name another process that runs.                                          *)
(***************************************************************************)
EXTENDS VmDaemon, TLAPS

Requests == [at : Places, op : Ops, m : Machines, read : Found, pid : Found]

\* Processes are numbered in the order of their starts, and nothing names a
\* process that has not been started.
Numbered ==
  \A m \in Machines : /\ live[m] \subseteq 1 .. started[m]
                      /\ record[m] \in Found => record[m] <= started[m]

Known(x) == h[x] # Idle => /\ h[x].read <= started[h[x].m]
                           /\ h[x].pid <= started[h[x].m]

\* Which operations come where, and that a request which is about to launch,
\* write or remove has seen the end of the process it read; only List writes
\* down the process it found running.
Gone(x) == h[x].read \notin live[h[x].m]

Progress(x) ==
  h[x] # Idle =>
    /\ h[x].at = "read" => h[x].op \in {"list", "start"} /\ h[x].pid = h[x].read
    /\ h[x].at = "launch" => h[x].op \in {"create", "start"} /\ Gone(x)
    /\ h[x].at \in {"term", "wait"} => h[x].op \in {"stop", "delete"}
    /\ h[x].at \in {"write", "fill"} => Gone(x) \/ (h[x].op = "list" /\ h[x].pid = h[x].read)
    /\ h[x].at = "remove" => Gone(x)

\* While Create makes a machine its directory has no record, so that no other
\* request finds it.
CreateAlone ==
  \A x \in Handlers : h[x] # Idle /\ h[x].op = "create" =>
    /\ record[h[x].m] = Bare
    /\ \A y \in Handlers : y # x /\ h[y] # Idle => h[y].m # h[x].m

IInv ==
  /\ VTypeOK /\ Numbered
  /\ \A x \in Handlers : Known(x) /\ Progress(x)
  /\ CreateAlone
  /\ LossIsExplained

-----------------------------------------------------------------------------
(* The fields of a request, and how a step changes them. *)

LEMMA Numbers ==
  /\ MaxStarts \in Nat /\ Pid \subseteq Nat /\ Found \subseteq Nat
  /\ Bare \notin Found /\ Absent \notin Found /\ Bare # Absent
  /\ Stopped \notin Pid /\ Stopped \in Found /\ Stopped <= MaxStarts
  /\ Found = 0 .. MaxStarts /\ Pid = 1 .. MaxStarts
BY VmAssumption DEF Pid, Found, Stopped, Bare, Absent

LEMMA RequestIs ==
  ASSUME VTypeOK, NEW x \in Handlers
  PROVE  /\ h[x] # Idle => /\ h[x] \in Requests /\ h[x].at \in Places
                           /\ h[x].op \in Ops /\ h[x].m \in Machines
                           /\ h[x].read \in Found /\ h[x].pid \in Found
         /\ h[x].at \in Places => h[x] # Idle
<1>1. h[x] \in {Idle} \cup Requests
  BY DEF VTypeOK, Requests
<1>2. Idle.at \notin Places
  BY DEF Idle, Places
<1>. QED
  BY <1>1, <1>2 DEF Requests

\* A request between two of its steps: only h[x] changes.
Others(x) == /\ h' \in [Handlers -> {Idle} \cup Requests]
             /\ \A y \in Handlers : y # x => h'[y] = h[y]

\* The request goes on to a place, with a new pid.
Moves(x, place, pid) ==
  /\ Others(x) /\ h'[x] # Idle
  /\ h'[x].at = place /\ h'[x].pid = pid
  /\ h'[x].op = h[x].op /\ h'[x].m = h[x].m /\ h'[x].read = h[x].read

Ends(x) == Others(x) /\ h'[x] = Idle

LEMMA MoveIs ==
  ASSUME VTypeOK, NEW x \in Handlers, h[x] # Idle, NEW place \in Places, NEW pid \in Found
  PROVE  /\ h' = [h EXCEPT ![x] = [@ EXCEPT !.at = place, !.pid = pid]] => Moves(x, place, pid)
         /\ GoTo(x, place) => Moves(x, place, h[x].pid)
<1>. DEFINE y == [h[x] EXCEPT !.at = place, !.pid = pid]
            z == [h[x] EXCEPT !.at = place]
<1>1. /\ h[x] \in Requests /\ h \in [Handlers -> {Idle} \cup Requests]
  BY RequestIs DEF VTypeOK, Requests
<1>2. /\ y \in Requests /\ y.at = place /\ y.pid = pid
      /\ y.op = h[x].op /\ y.m = h[x].m /\ y.read = h[x].read
  BY <1>1 DEF Requests
<1>3. /\ z \in Requests /\ z.at = place /\ z.pid = h[x].pid
      /\ z.op = h[x].op /\ z.m = h[x].m /\ z.read = h[x].read
  BY <1>1 DEF Requests
<1>4. place # "idle" /\ Idle.at = "idle"
  BY DEF Places, Idle
<1>5. y # Idle /\ z # Idle
  BY <1>2, <1>3, <1>4
<1>6. ASSUME h' = [h EXCEPT ![x] = [@ EXCEPT !.at = place, !.pid = pid]]
      PROVE  Moves(x, place, pid)
  <2>1. h' = [h EXCEPT ![x] = y]
    BY <1>1, <1>6
  <2>. HIDE DEF y
  <2>2. h'[x] = y /\ Others(x)
    BY <1>1, <1>2, <2>1 DEF Others
  <2>. QED
    BY <1>2, <1>5, <2>2 DEF Moves
<1>7. ASSUME GoTo(x, place) PROVE Moves(x, place, h[x].pid)
  <2>1. h' = [h EXCEPT ![x] = z]
    BY <1>1, <1>7 DEF GoTo
  <2>. HIDE DEF z
  <2>2. h'[x] = z /\ Others(x)
    BY <1>1, <1>3, <2>1 DEF Others
  <2>. QED
    BY <1>3, <1>5, <2>2 DEF Moves
<1>. QED
  BY <1>6, <1>7

LEMMA ReturnIs ==
  ASSUME VTypeOK, NEW x \in Handlers, Return(x)
  PROVE  Ends(x)
BY DEF VTypeOK, Requests, Return, Ends, Others

-----------------------------------------------------------------------------
(* What each action does, machine by machine. *)

\* Records is the change of one record, and so on.
Records(m, v) == /\ record' \in [Machines -> Found \cup {Absent, Bare}]
                 /\ record'[m] = v
                 /\ \A k \in Machines : k # m => record'[k] = record[k]
Lives(m, S) == /\ live' \in [Machines -> SUBSET Pid]
               /\ live'[m] = S
               /\ \A k \in Machines : k # m => live'[k] = live[k]
Strays(m, S) == /\ strays' \in [Machines -> SUBSET Pid]
                /\ strays'[m] = S
                /\ \A k \in Machines : k # m => strays'[k] = strays[k]

Undone(x) == IF h[x].op = "create" THEN Records(h[x].m, Absent) ELSE UNCHANGED record

LEMMA UndoIs ==
  ASSUME VTypeOK, NEW x \in Handlers, h[x] # Idle, Undo(x)
  PROVE  Undone(x) /\ record' \in [Machines -> Found \cup {Absent, Bare}]
<1>1. h[x].m \in Machines
  BY RequestIs
<1>. QED
  BY <1>1 DEF VTypeOK, Undo, Undone, Records

LEMMA LoseIs ==
  ASSUME VTypeOK, NEW m \in Machines, NEW S \in SUBSET Pid, Lose(m, S)
  PROVE  Strays(m, strays[m] \cup S)
BY DEF VTypeOK, Lose, Strays

LEMMA ForgottenIs ==
  ASSUME VTypeOK, NEW x \in Handlers, NEW m \in Machines
  PROVE  Forgotten(x, m) \subseteq Pid
BY DEF VTypeOK, Forgotten

LEMMA DroppedIs ==
  ASSUME VTypeOK, live' = live, NEW x \in Handlers, NEW m \in Machines, NEW v
  PROVE  /\ Dropped(x, m, v) \subseteq Pid
         /\ \A p \in live[m] : p \in {record[m], h[x].pid} => p = v \/ p \in Dropped(x, m, v)
BY DEF VTypeOK, Dropped

LEMMA CreateEffect ==
  ASSUME VTypeOK, NEW x \in Handlers, NEW m \in Machines, Create(x, m)
  PROVE  /\ h[x] = Idle /\ record[m] = Absent
         /\ \A y \in Handlers : h[y] # Idle => h[y].m # m
         /\ Records(m, Bare)
         /\ Others(x) /\ h'[x] # Idle
         /\ h'[x].at = "launch" /\ h'[x].op = "create" /\ h'[x].m = m
         /\ h'[x].read = Stopped /\ h'[x].pid = Stopped
         /\ UNCHANGED <<live, started, crashes, strays>>
<1>. DEFINE y == At("create", "launch", m, Stopped, Stopped)
<1>1. /\ y.at = "launch" /\ y.op = "create" /\ y.m = m /\ y.read = Stopped /\ y.pid = Stopped
      /\ y \in Requests
  BY Numbers DEF At, Requests, Places, Ops
<1>2. y # Idle
  BY <1>1 DEF Idle
<1>3. Records(m, Bare)
  BY DEF Create, Records, VTypeOK
<1>4. h' = [h EXCEPT ![x] = y]
  BY DEF Create
<1>. HIDE DEF y
<1>5. Others(x) /\ h'[x] = y
  BY <1>1, <1>4 DEF Others, VTypeOK, Requests
<1>. QED
  BY <1>1, <1>2, <1>3, <1>5 DEF Create

LEMMA FindEffect ==
  ASSUME VTypeOK, NEW x \in Handlers, NEW m \in Machines, NEW op \in Ops \ {"create"},
         Find(x, m, op)
  PROVE  /\ h[x] = Idle /\ record[m] \in Found
         /\ Others(x) /\ h'[x] # Idle
         /\ h'[x].op = op /\ h'[x].m = m /\ h'[x].read = record[m]
         /\ h'[x].pid = IF op = "stop" THEN Stopped ELSE record[m]
         /\ \/ op \in {"list", "start"} /\ h'[x].at = "read"
            \/ op = "stop" /\ record[m] = Stopped /\ h'[x].at = "write"
            \/ op = "stop" /\ record[m] # Stopped /\ h'[x].at = "term"
            \/ op = "delete" /\ record[m] = Stopped /\ h'[x].at = "remove"
            \/ op = "delete" /\ record[m] # Stopped /\ h'[x].at = "term"
         /\ UNCHANGED <<record, live, started, crashes, strays>>
<1>. DEFINE place == CASE op \in {"list", "start"} -> "read"
                       [] op = "stop"   -> IF record[m] = Stopped THEN "write" ELSE "term"
                       [] op = "delete" -> IF record[m] = Stopped THEN "remove" ELSE "term"
            pid == IF op = "stop" THEN Stopped ELSE record[m]
            y == At(op, place, m, record[m], pid)
<1>1. \/ op \in {"list", "start"} /\ place = "read"
      \/ op = "stop" /\ record[m] = Stopped /\ place = "write"
      \/ op = "stop" /\ record[m] # Stopped /\ place = "term"
      \/ op = "delete" /\ record[m] = Stopped /\ place = "remove"
      \/ op = "delete" /\ record[m] # Stopped /\ place = "term"
  BY DEF Ops
<1>2. h' = [h EXCEPT ![x] = y] /\ h[x] = Idle /\ record[m] \in Found
      /\ UNCHANGED <<record, live, started, crashes, strays>>
  BY DEF Find
<1>3. place \in Places
  BY <1>1 DEF Places
<1>. HIDE DEF place
<1>4. /\ y.at = place /\ y.op = op /\ y.m = m /\ y.read = record[m] /\ y.pid = pid
      /\ y \in Requests
  BY <1>2, <1>3, Numbers DEF At, Requests
<1>5. y # Idle
  BY <1>3, <1>4 DEF Idle, Places
<1>. HIDE DEF y
<1>6. Others(x) /\ h'[x] = y
  BY <1>2, <1>4 DEF Others, VTypeOK, Requests
<1>. QED
  BY <1>1, <1>2, <1>4, <1>5, <1>6

LEMMA RefreshEffect ==
  ASSUME VTypeOK, NEW x \in Handlers, Refresh(x)
  PROVE  /\ h[x] # Idle /\ h[x].at = "read"
         /\ \/ h[x].op = "list" /\ h[x].pid \in live[h[x].m] /\ Moves(x, "write", h[x].pid)
            \/ h[x].op = "list" /\ h[x].pid \notin live[h[x].m] /\ Moves(x, "write", Stopped)
            \/ Ends(x)
            \/ /\ h[x].op # "list" /\ h[x].pid \notin live[h[x].m]
               /\ Moves(x, "launch", h[x].pid)
         /\ UNCHANGED <<record, live, started, crashes, strays>>
<1>1. h[x].at = "read" /\ h[x] # Idle /\ h[x].pid \in Found /\ h[x].m \in Machines
  BY RequestIs DEF Refresh, Reaches, Places
<1>2. Refreshed(x) \in Found
  BY <1>1, Numbers DEF Refreshed
<1>3. CASE h[x].op = "list"
  <2>1. h' = [h EXCEPT ![x] = [@ EXCEPT !.at = "write", !.pid = Refreshed(x)]]
    BY <1>3 DEF Refresh
  <2>2. Moves(x, "write", Refreshed(x))
    BY <1>1, <1>2, <2>1, MoveIs DEF Places
  <2>. QED
    BY <1>1, <1>3, <2>2 DEF Refresh, Reaches, Refreshed
<1>4. CASE h[x].op # "list" /\ Return(x)
  BY <1>1, <1>4, ReturnIs DEF Refresh, Reaches
<1>5. CASE h[x].op # "list" /\ ~Return(x)
  <2>1. GoTo(x, "launch") /\ Refreshed(x) = Stopped
    BY <1>5 DEF Refresh
  <2>2. Moves(x, "launch", h[x].pid)
    BY <1>1, <2>1, MoveIs DEF Places
  <2>3. h[x].pid \notin live[h[x].m]
    BY <1>1, <2>1, Numbers DEF Refreshed, VTypeOK
  <2>. QED
    BY <1>1, <1>5, <2>2, <2>3 DEF Refresh, Reaches
<1>. QED
  BY <1>3, <1>4, <1>5

LEMMA LaunchEffect ==
  ASSUME VTypeOK, NEW x \in Handlers, Launch(x)
  PROVE  /\ h[x] # Idle /\ h[x].at = "launch" /\ h[x].m \in Machines /\ started[h[x].m] + 1 \in Pid
         /\ record[h[x].m] # Absent /\ live[h[x].m] = {}
         /\ started' \in [Machines -> 0 .. MaxStarts] /\ started'[h[x].m] = started[h[x].m] + 1
         /\ \A k \in Machines : k # h[x].m => started'[k] = started[k]
         /\ Lives(h[x].m, {started[h[x].m] + 1})
         /\ \/ Moves(x, "write", started[h[x].m] + 1) /\ UNCHANGED <<record, strays>>
            \/ Ends(x) /\ Undone(x) /\ Strays(h[x].m, strays[h[x].m] \cup {started[h[x].m] + 1})
         /\ UNCHANGED crashes
<1>. DEFINE m == h[x].m
            p == started[m] + 1
<1>1. h[x].at = "launch" /\ h[x] # Idle /\ m \in Machines
  BY RequestIs DEF Launch, Reaches, Places
<1>2. started[m] \in 0 .. MaxStarts /\ started[m] < MaxStarts
  BY <1>1 DEF VTypeOK, Launch, CanRun
<1>3. p \in Pid /\ p \in Found /\ p \in 0 .. MaxStarts /\ {p} \in SUBSET Pid
  BY <1>2, Numbers
<1>4. /\ started' = [started EXCEPT ![m] = p] /\ live' = [live EXCEPT ![m] = {p}]
      /\ record[m] # Absent /\ live[m] = {} /\ UNCHANGED crashes
  BY DEF Launch, CanRun, Reaches, InDirectory
<1>5. \/ h' = [h EXCEPT ![x] = [@ EXCEPT !.at = "write", !.pid = p]] /\ UNCHANGED <<record, strays>>
      \/ Return(x) /\ Undo(x) /\ Lose(m, {p})
  BY DEF Launch
<1>. HIDE DEF m, p
<1>6. /\ started' \in [Machines -> 0 .. MaxStarts] /\ started'[m] = p
      /\ \A k \in Machines : k # m => started'[k] = started[k]
      /\ Lives(m, {p})
  BY <1>1, <1>3, <1>4 DEF VTypeOK, Lives
<1>7. \/ Moves(x, "write", p) /\ UNCHANGED <<record, strays>>
      \/ Ends(x) /\ Undone(x) /\ Strays(m, strays[m] \cup {p})
  BY <1>1, <1>3, <1>5, ReturnIs, UndoIs, LoseIs, MoveIs DEF Places
<1>. QED
  BY <1>1, <1>3, <1>4, <1>6, <1>7 DEF m, p

LEMMA LaunchFailsEffect ==
  ASSUME VTypeOK, NEW x \in Handlers, LaunchFails(x)
  PROVE  /\ h[x] # Idle /\ h[x].at = "launch"
         /\ Ends(x) /\ Undone(x)
         /\ UNCHANGED <<live, started, strays, crashes>>
<1>1. h[x].at = "launch" /\ h[x] # Idle
  BY RequestIs DEF LaunchFails, Reaches, Places
<1>. QED
  BY <1>1, UndoIs, ReturnIs DEF LaunchFails, Reaches

\* A Stop or Delete that finds the process gone.
AfterWait(x) ==
  \/ Ends(x)
  \/ h[x].op = "delete" /\ Moves(x, "remove", h[x].pid)
  \/ h[x].op # "delete" /\ Moves(x, "write", h[x].pid)

LEMMA KillIs ==
  ASSUME VTypeOK, NEW x \in Handlers, h[x] # Idle
  PROVE  /\ KillFails(x) => AfterWait(x)
         /\ GoTo(x, AfterKill(x)) => AfterWait(x)
<1>1. AfterKill(x) \in Places /\ "remove" \in Places
  BY DEF AfterKill, Places
<1>2. ASSUME KillFails(x) PROVE AfterWait(x)
  <2>1. CASE h[x].op = "delete"
    BY <1>1, <1>2, <2>1, MoveIs, RequestIs DEF KillFails, AfterWait
  <2>2. CASE h[x].op # "delete"
    BY <1>2, <2>2, ReturnIs DEF KillFails, AfterWait
  <2>. QED
    BY <2>1, <2>2
<1>3. ASSUME GoTo(x, AfterKill(x)) PROVE AfterWait(x)
  <2>1. Moves(x, AfterKill(x), h[x].pid)
    BY <1>1, <1>3, MoveIs, RequestIs
  <2>. QED
    BY <2>1 DEF AfterKill, AfterWait
<1>. QED
  BY <1>2, <1>3

LEMMA TerminateEffect ==
  ASSUME VTypeOK, NEW x \in Handlers, Terminate(x)
  PROVE  /\ h[x] # Idle /\ h[x].at = "term"
         /\ \/ Moves(x, "wait", h[x].pid)
            \/ h[x].read \notin live[h[x].m] /\ AfterWait(x)
         /\ UNCHANGED <<record, live, started, strays, crashes>>
<1>1. h[x].at = "term" /\ h[x] # Idle
  BY RequestIs DEF Terminate, Reaches, Places
<1>2. GoTo(x, "wait") => Moves(x, "wait", h[x].pid)
  BY <1>1, MoveIs, RequestIs DEF Places
<1>. QED
  BY <1>1, <1>2, KillIs DEF Terminate, Reaches

LEMMA PollEffect ==
  ASSUME VTypeOK, NEW x \in Handlers, Poll(x)
  PROVE  /\ h[x] # Idle /\ h[x].at = "wait"
         /\ h[x].read \notin live[h[x].m] /\ AfterWait(x)
         /\ UNCHANGED <<record, live, started, strays, crashes>>
<1>1. h[x].at = "wait" /\ h[x] # Idle
  BY RequestIs DEF Poll, Reaches, Places
<1>. QED
  BY <1>1, KillIs DEF Poll, Reaches

LEMMA DeadlineEffect ==
  ASSUME VTypeOK, NEW x \in Handlers, Deadline(x)
  PROVE  /\ h[x] # Idle /\ h[x].at = "wait" /\ h[x].m \in Machines
         /\ Lives(h[x].m, live[h[x].m] \ {h[x].read})
         /\ AfterWait(x)
         /\ UNCHANGED <<record, started, strays, crashes>>
<1>1. h[x].at = "wait" /\ h[x] # Idle /\ h[x].m \in Machines
  BY RequestIs DEF Deadline, Reaches, Places
<1>2. Lives(h[x].m, live[h[x].m] \ {h[x].read})
  BY <1>1 DEF Deadline, VTypeOK, Lives
<1>. QED
  BY <1>1, <1>2, KillIs DEF Deadline, Reaches

\* The record becomes v, and what x leaves unnamed by that is lost.
Leaves(x, v) == LET m == h[x].m IN
  /\ Records(m, v) /\ Strays(m, strays[m] \cup Dropped(x, m, v))
  /\ \A p \in live[m] : p \in {record[m], h[x].pid} => p = record'[m] \/ p \in strays'[m]

LEMMA LeavesIs ==
  ASSUME VTypeOK, live' = live, NEW x \in Handlers, h[x].m \in Machines,
         NEW v \in Found \cup {Absent, Bare},
         record' = [record EXCEPT ![h[x].m] = v], Lose(h[x].m, Dropped(x, h[x].m, v))
  PROVE  Leaves(x, v)
<1>1. Records(h[x].m, v)
  BY DEF VTypeOK, Records
<1>2. Strays(h[x].m, strays[h[x].m] \cup Dropped(x, h[x].m, v))
  BY DroppedIs, LoseIs
<1>3. \A p \in live[h[x].m] : p \in {record[h[x].m], h[x].pid} =>
        p = v \/ p \in Dropped(x, h[x].m, v)
  BY DroppedIs
<1>. QED
  BY <1>1, <1>2, <1>3 DEF Leaves, Records, Strays

LEMMA OpenEffect ==
  ASSUME VTypeOK, NEW x \in Handlers, Open(x)
  PROVE  /\ h[x] # Idle /\ h[x].at = "write" /\ h[x].m \in Machines
         /\ Records(h[x].m, Bare)
         /\ Strays(h[x].m, strays[h[x].m] \cup Forgotten(x, h[x].m))
         /\ Moves(x, "fill", h[x].pid)
         /\ UNCHANGED <<live, started, crashes>>
<1>1. h[x].at = "write" /\ h[x] # Idle /\ h[x].m \in Machines /\ h[x].pid \in Found
  BY RequestIs DEF Open, Reaches, Places
<1>2. Records(h[x].m, Bare)
  BY <1>1 DEF Open, VTypeOK, Records
<1>3. Strays(h[x].m, strays[h[x].m] \cup Forgotten(x, h[x].m))
  BY <1>1, ForgottenIs, LoseIs DEF Open
<1>4. Moves(x, "fill", h[x].pid)
  BY <1>1, MoveIs DEF Open, Places
<1>. QED
  BY <1>1, <1>2, <1>3, <1>4 DEF Open, Reaches

LEMMA FillEffect ==
  ASSUME VTypeOK, NEW x \in Handlers, Fill(x)
  PROVE  /\ h[x] # Idle /\ h[x].at = "fill" /\ h[x].m \in Machines
         /\ \E v \in {h[x].pid, Absent, Bare} : Leaves(x, v)
         /\ Ends(x)
         /\ UNCHANGED <<live, started, crashes>>
<1>1. h[x].at = "fill" /\ h[x] # Idle /\ h[x].m \in Machines /\ h[x].pid \in Found
  BY RequestIs DEF Fill, Reaches, Places
<1>2. PICK v \in Filled(x) : /\ record' = [record EXCEPT ![h[x].m] = v]
                             /\ Lose(h[x].m, Dropped(x, h[x].m, v))
  BY DEF Fill
<1>3. v \in {h[x].pid, Absent, Bare} /\ v \in Found \cup {Absent, Bare}
  BY <1>1, Numbers DEF Filled, InDirectory
<1>4. live' = live /\ Ends(x) /\ UNCHANGED <<started, crashes>>
  BY ReturnIs DEF Fill, Reaches
<1>5. Leaves(x, v)
  BY <1>1, <1>2, <1>3, <1>4, LeavesIs
<1>. QED
  BY <1>1, <1>3, <1>4, <1>5 DEF Leaves, Records

LEMMA WriteFailsEffect ==
  ASSUME VTypeOK, NEW x \in Handlers, WriteFails(x)
  PROVE  /\ h[x] # Idle /\ h[x].at \in {"write", "fill"} /\ h[x].m \in Machines
         /\ Ends(x)
         /\ \/ /\ h[x].op = "create" /\ Records(h[x].m, Absent) /\ strays' = strays
               /\ Lives(h[x].m, live[h[x].m] \ {h[x].pid})
            \/ /\ h[x].op # "create" /\ live' = live
               /\ \E v \in {record[h[x].m], Bare} : Leaves(x, v)
         /\ UNCHANGED <<started, crashes>>
<1>1. h[x].at \in {"write", "fill"} /\ h[x] # Idle /\ h[x].m \in Machines
  BY RequestIs DEF WriteFails, Places
<1>2. Ends(x) /\ UNCHANGED <<started, crashes>>
  BY ReturnIs DEF WriteFails
<1>3. CASE h[x].op = "create"
  <2>1. Records(h[x].m, Absent)
    BY <1>1, <1>3 DEF WriteFails, VTypeOK, Records
  <2>2. Lives(h[x].m, live[h[x].m] \ {h[x].pid}) /\ strays' = strays
    BY <1>1, <1>3 DEF WriteFails, VTypeOK, Lives
  <2>. QED
    BY <1>1, <1>2, <1>3, <2>1, <2>2
<1>4. CASE h[x].op # "create"
  <2>1. live' = live
    BY <1>4 DEF WriteFails
  <2>2. PICK v \in Broken(x) : /\ record' = [record EXCEPT ![h[x].m] = v]
                               /\ Lose(h[x].m, Dropped(x, h[x].m, v))
    BY <1>4 DEF WriteFails
  <2>3. v \in {record[h[x].m], Bare} /\ v \in Found \cup {Absent, Bare}
    BY <1>1, <2>2 DEF Broken, VTypeOK
  <2>4. Leaves(x, v)
    BY <1>1, <2>1, <2>2, <2>3, LeavesIs
  <2>. QED
    BY <1>1, <1>2, <1>4, <2>1, <2>3, <2>4
<1>. QED
  BY <1>3, <1>4

LEMMA RemoveEffect ==
  ASSUME VTypeOK, NEW x \in Handlers, Remove(x)
  PROVE  /\ h[x] # Idle /\ h[x].at = "remove" /\ h[x].m \in Machines
         /\ Records(h[x].m, Absent)
         /\ Strays(h[x].m, strays[h[x].m] \cup Forgotten(x, h[x].m))
         /\ Ends(x)
         /\ UNCHANGED <<live, started, crashes>>
<1>1. h[x].at = "remove" /\ h[x] # Idle /\ h[x].m \in Machines
  BY RequestIs DEF Remove, Reaches, Places
<1>2. Records(h[x].m, Absent)
  BY <1>1 DEF Remove, VTypeOK, Records
<1>3. Strays(h[x].m, strays[h[x].m] \cup Forgotten(x, h[x].m))
  BY <1>1, ForgottenIs, LoseIs DEF Remove
<1>. QED
  BY <1>1, <1>2, <1>3, ReturnIs DEF Remove, Reaches

LEMMA ExitEffect ==
  ASSUME VTypeOK, NEW m \in Machines, NEW p \in Pid, Exit(m, p)
  PROVE  /\ Lives(m, live[m] \ {p})
         /\ UNCHANGED <<record, started, h, crashes, strays>>
BY DEF VTypeOK, Exit, Lives

LEMMA CrashEffect ==
  ASSUME VTypeOK, Crash
  PROVE  /\ strays' \in [Machines -> SUBSET Pid]
         /\ \A m \in Machines : strays'[m] = strays[m] \cup (Carried(m) \cap live[m])
         /\ h' \in [Handlers -> {Idle} \cup Requests]
         /\ \A x \in Handlers : h'[x] = Idle
         /\ crashes' \in 0 .. MaxCrashes
         /\ UNCHANGED <<record, live, started>>
<1>1. crashes' \in 0 .. MaxCrashes
  BY VmAssumption DEF VTypeOK, Crash
<1>. QED
  BY <1>1 DEF VTypeOK, Crash, Requests

-----------------------------------------------------------------------------
(* What every step keeps. *)

LEMMA TypeStep ==
  ASSUME IInv, [VNext]_vars
  PROVE  VTypeOK'
<1>a. VTypeOK
  BY DEF IInv
<1>1. ASSUME NEW x \in Handlers, NEW m \in Machines, Create(x, m)
      PROVE  VTypeOK'
  BY <1>1, <1>a, CreateEffect, Numbers
  DEF VTypeOK, Requests, Others, Records
<1>2. ASSUME NEW x \in Handlers, NEW m \in Machines, NEW op \in Ops \ {"create"},
             Find(x, m, op)
      PROVE  VTypeOK'
  BY <1>2, <1>a, FindEffect, Numbers
  DEF VTypeOK, Requests, Others
<1>3. ASSUME NEW x \in Handlers, Refresh(x)
      PROVE  VTypeOK'
  BY <1>3, <1>a, RefreshEffect, Numbers
  DEF VTypeOK, Requests, Moves, Others, Ends
<1>4. ASSUME NEW x \in Handlers, Launch(x)
      PROVE  VTypeOK'
  BY <1>4, <1>a, LaunchEffect, Numbers
  DEF VTypeOK, Requests, Moves, Others, Ends, Undone, Records, Lives, Strays
<1>5. ASSUME NEW x \in Handlers, LaunchFails(x)
      PROVE  VTypeOK'
  BY <1>5, <1>a, LaunchFailsEffect, Numbers
  DEF VTypeOK, Requests, Others, Ends, Undone, Records
<1>6. ASSUME NEW x \in Handlers, Terminate(x)
      PROVE  VTypeOK'
  BY <1>6, <1>a, TerminateEffect, Numbers
  DEF VTypeOK, Requests, Moves, Others, Ends, AfterWait
<1>7. ASSUME NEW x \in Handlers, Poll(x)
      PROVE  VTypeOK'
  BY <1>7, <1>a, PollEffect, Numbers
  DEF VTypeOK, Requests, Moves, Others, Ends, AfterWait
<1>8. ASSUME NEW x \in Handlers, Deadline(x)
      PROVE  VTypeOK'
  BY <1>8, <1>a, DeadlineEffect, Numbers
  DEF VTypeOK, Requests, Moves, Others, Ends, AfterWait, Lives
<1>9. ASSUME NEW x \in Handlers, Open(x)
      PROVE  VTypeOK'
  BY <1>9, <1>a, OpenEffect, Numbers
  DEF VTypeOK, Requests, Moves, Others, Records, Strays
<1>9a. ASSUME NEW x \in Handlers, Fill(x)
      PROVE  VTypeOK'
  BY <1>9a, <1>a, FillEffect, Numbers
  DEF VTypeOK, Requests, Others, Ends, Leaves, Records, Strays
<1>10. ASSUME NEW x \in Handlers, WriteFails(x)
      PROVE  VTypeOK'
  BY <1>10, <1>a, WriteFailsEffect, Numbers
  DEF VTypeOK, Requests, Others, Ends, Leaves, Records, Lives, Strays
<1>11. ASSUME NEW x \in Handlers, Remove(x)
      PROVE  VTypeOK'
  BY <1>11, <1>a, RemoveEffect, Numbers
  DEF VTypeOK, Requests, Others, Ends, Records, Strays
<1>12. ASSUME NEW m \in Machines, NEW q \in Pid, Exit(m, q)
      PROVE  VTypeOK'
  BY <1>12, <1>a, ExitEffect, Numbers
  DEF VTypeOK, Requests, Lives
<1>13. CASE Crash
  BY <1>13, <1>a, CrashEffect
  DEF VTypeOK, Requests
<1>14. CASE UNCHANGED vars
  BY <1>14, <1>a DEF vars, VTypeOK, Requests
<1>. QED
  BY <1>1, <1>2, <1>3, <1>4, <1>5, <1>6, <1>7,
     <1>8, <1>9, <1>10, <1>11, <1>12, <1>13, <1>14, <1>9a DEF VNext, Steps

\* A process that has ended does not come back, whoever starts another one.
Processes(k) ==
  \/ started'[k] = started[k] /\ live'[k] \subseteq live[k]
  \/ started'[k] = started[k] + 1 /\ live'[k] = {started[k] + 1}

LEMMA ProcessStep ==
  ASSUME IInv, [VNext]_vars, NEW k \in Machines
  PROVE  Processes(k)
<1>a. VTypeOK
  BY DEF IInv
<1>1. ASSUME NEW x \in Handlers, NEW m \in Machines, Create(x, m)
      PROVE  Processes(k)
  BY <1>1, <1>a DEF Processes, Create
<1>2. ASSUME NEW x \in Handlers, NEW m \in Machines, NEW op \in Ops \ {"create"},
             Find(x, m, op)
      PROVE  Processes(k)
  BY <1>2, <1>a DEF Processes, Find
<1>3. ASSUME NEW x \in Handlers, Refresh(x)
      PROVE  Processes(k)
  BY <1>3, <1>a DEF Processes, Refresh
<1>4. ASSUME NEW x \in Handlers, Launch(x)
      PROVE  Processes(k)
  <2>1. CASE k = h[x].m
    BY <1>4, <1>a, <2>1, LaunchEffect DEF Lives, Processes
  <2>2. CASE k # h[x].m
    BY <1>4, <1>a, <2>2, LaunchEffect DEF Lives, Processes
  <2>. QED
    BY <2>1, <2>2
<1>5. ASSUME NEW x \in Handlers, LaunchFails(x)
      PROVE  Processes(k)
  BY <1>5, <1>a DEF Processes, LaunchFails
<1>6. ASSUME NEW x \in Handlers, Terminate(x)
      PROVE  Processes(k)
  BY <1>6, <1>a DEF Processes, Terminate
<1>7. ASSUME NEW x \in Handlers, Poll(x)
      PROVE  Processes(k)
  BY <1>7, <1>a DEF Processes, Poll
<1>8. ASSUME NEW x \in Handlers, Deadline(x)
      PROVE  Processes(k)
  <2>1. CASE k = h[x].m
    BY <1>8, <1>a, <2>1, DeadlineEffect DEF Lives, Processes
  <2>2. CASE k # h[x].m
    BY <1>8, <1>a, <2>2, DeadlineEffect DEF Lives, Processes
  <2>. QED
    BY <2>1, <2>2
<1>9. ASSUME NEW x \in Handlers, Open(x)
      PROVE  Processes(k)
  BY <1>9, <1>a DEF Processes, Open
<1>9a. ASSUME NEW x \in Handlers, Fill(x)
      PROVE  Processes(k)
  BY <1>9a, <1>a DEF Processes, Fill
<1>10. ASSUME NEW x \in Handlers, WriteFails(x)
      PROVE  Processes(k)
  <2>1. CASE k = h[x].m
    BY <1>10, <1>a, <2>1, WriteFailsEffect DEF Lives, Processes
  <2>2. CASE k # h[x].m
    BY <1>10, <1>a, <2>2, WriteFailsEffect DEF Lives, Processes
  <2>. QED
    BY <2>1, <2>2
<1>11. ASSUME NEW x \in Handlers, Remove(x)
      PROVE  Processes(k)
  BY <1>11, <1>a DEF Processes, Remove
<1>12. ASSUME NEW m \in Machines, NEW q \in Pid, Exit(m, q)
      PROVE  Processes(k)
  <2>1. CASE k = m
    BY <1>12, <1>a, <2>1, ExitEffect DEF Lives, Processes
  <2>2. CASE k # m
    BY <1>12, <1>a, <2>2, ExitEffect DEF Lives, Processes
  <2>. QED
    BY <2>1, <2>2
<1>13. CASE Crash
  BY <1>13, <1>a, CrashEffect, Numbers DEF Processes
<1>14. CASE UNCHANGED vars
  BY <1>14, <1>a DEF vars, Processes
<1>. QED
  BY <1>1, <1>2, <1>3, <1>4, <1>5, <1>6, <1>7,
     <1>8, <1>9, <1>10, <1>11, <1>12, <1>13, <1>14, <1>9a DEF VNext, Steps

LEMMA EndedStays ==
  ASSUME IInv, [VNext]_vars, NEW k \in Machines
  PROVE  /\ started[k] <= started'[k]
         /\ \A n \in Found : n <= started[k] /\ n \notin live[k] => n \notin live'[k]
<1>1. started[k] \in Nat /\ Found \subseteq Nat
  BY Numbers DEF IInv, VTypeOK
<1>. QED
  BY <1>1, ProcessStep DEF Processes

LEMMA NumberedStep ==
  ASSUME IInv, [VNext]_vars
  PROVE  Numbered'
<1>a. VTypeOK /\ Numbered /\ \A x \in Handlers : Known(x)
  BY DEF IInv
<1>b. /\ \A m \in Machines : started[m] \in Nat /\ started'[m] \in Nat
      /\ Found \subseteq Nat
  BY <1>a, TypeStep, Numbers DEF VTypeOK
<1>c. ASSUME NEW k \in Machines
      PROVE  live'[k] \subseteq 1 .. started'[k] /\ started[k] <= started'[k]
  BY <1>a, <1>b, ProcessStep DEF Numbered, Processes
<1>d. ASSUME NEW k \in Machines, record'[k] \in Found,
             record'[k] = record[k] \/ record'[k] <= started[k]
      PROVE  record'[k] <= started'[k]
  <2>1. record'[k] <= started[k]
    BY <1>a, <1>d DEF Numbered
  <2>2. started[k] \in Nat /\ started'[k] \in Nat /\ record'[k] \in Nat
    BY <1>b, <1>d
  <2>3. started[k] <= started'[k]
    BY <1>c
  <2>. QED
    BY <2>1, <2>2, <2>3
<1>e. SUFFICES ASSUME NEW k \in Machines, record'[k] \in Found
               PROVE  record'[k] = record[k] \/ record'[k] <= started[k]
  BY <1>c, <1>d DEF Numbered
<1>1. ASSUME NEW x \in Handlers, NEW m \in Machines, Create(x, m)
      PROVE  record'[k] = record[k] \/ record'[k] <= started[k]
  <2>1. CASE k = m
    BY <1>1, <1>a, <1>e, <2>1, CreateEffect, Numbers, RequestIs DEF Records, Undone, Known
  <2>2. CASE k # m
    BY <1>1, <1>a, <2>2, CreateEffect DEF Records, Undone
  <2>. QED
    BY <2>1, <2>2
<1>2. ASSUME NEW x \in Handlers, NEW m \in Machines, NEW op \in Ops \ {"create"},
             Find(x, m, op)
      PROVE  record'[k] = record[k] \/ record'[k] <= started[k]
  BY <1>2 DEF Find
<1>3. ASSUME NEW x \in Handlers, Refresh(x)
      PROVE  record'[k] = record[k] \/ record'[k] <= started[k]
  BY <1>3 DEF Refresh
<1>4. ASSUME NEW x \in Handlers, Launch(x)
      PROVE  record'[k] = record[k] \/ record'[k] <= started[k]
  <2>1. CASE k = h[x].m
    BY <1>4, <1>a, <1>e, <2>1, LaunchEffect, Numbers, RequestIs DEF Records, Undone, Known
  <2>2. CASE k # h[x].m
    BY <1>4, <1>a, <2>2, LaunchEffect DEF Records, Undone
  <2>. QED
    BY <2>1, <2>2
<1>5. ASSUME NEW x \in Handlers, LaunchFails(x)
      PROVE  record'[k] = record[k] \/ record'[k] <= started[k]
  <2>1. CASE k = h[x].m
    BY <1>5, <1>a, <1>e, <2>1, LaunchFailsEffect, Numbers, RequestIs DEF Records, Undone, Known
  <2>2. CASE k # h[x].m
    BY <1>5, <1>a, <2>2, LaunchFailsEffect DEF Records, Undone
  <2>. QED
    BY <2>1, <2>2
<1>6. ASSUME NEW x \in Handlers, Terminate(x)
      PROVE  record'[k] = record[k] \/ record'[k] <= started[k]
  BY <1>6 DEF Terminate
<1>7. ASSUME NEW x \in Handlers, Poll(x)
      PROVE  record'[k] = record[k] \/ record'[k] <= started[k]
  BY <1>7 DEF Poll
<1>8. ASSUME NEW x \in Handlers, Deadline(x)
      PROVE  record'[k] = record[k] \/ record'[k] <= started[k]
  BY <1>8 DEF Deadline
<1>9. ASSUME NEW x \in Handlers, Open(x)
      PROVE  record'[k] = record[k] \/ record'[k] <= started[k]
  <2>1. CASE k = h[x].m
    BY <1>9, <1>a, <1>e, <2>1, OpenEffect, Numbers DEF Records
  <2>2. CASE k # h[x].m
    BY <1>9, <1>a, <2>2, OpenEffect DEF Records
  <2>. QED
    BY <2>1, <2>2
<1>9a. ASSUME NEW x \in Handlers, Fill(x)
      PROVE  record'[k] = record[k] \/ record'[k] <= started[k]
  <2>1. CASE k = h[x].m
    <3>1. record'[k] \in {h[x].pid, Absent, Bare} /\ h[x] # Idle
      BY <1>9a, <1>a, <2>1, FillEffect DEF Leaves, Records
    <3>. QED
      BY <1>a, <1>e, <2>1, <3>1, Numbers DEF Known
  <2>2. CASE k # h[x].m
    BY <1>9a, <1>a, <2>2, FillEffect DEF Leaves, Records
  <2>. QED
    BY <2>1, <2>2
<1>10. ASSUME NEW x \in Handlers, WriteFails(x)
      PROVE  record'[k] = record[k] \/ record'[k] <= started[k]
  <2>1. CASE k = h[x].m
    <3>1. record'[k] \in {record[k], Absent, Bare}
      BY <1>10, <1>a, <2>1, WriteFailsEffect DEF Leaves, Records
    <3>. QED
      BY <1>e, <3>1, Numbers
  <2>2. CASE k # h[x].m
    BY <1>10, <1>a, <2>2, WriteFailsEffect DEF Leaves, Records
  <2>. QED
    BY <2>1, <2>2
<1>11. ASSUME NEW x \in Handlers, Remove(x)
      PROVE  record'[k] = record[k] \/ record'[k] <= started[k]
  <2>1. CASE k = h[x].m
    BY <1>11, <1>a, <1>e, <2>1, RemoveEffect, Numbers, RequestIs DEF Records, Undone, Known
  <2>2. CASE k # h[x].m
    BY <1>11, <1>a, <2>2, RemoveEffect DEF Records, Undone
  <2>. QED
    BY <2>1, <2>2
<1>12. ASSUME NEW m \in Machines, NEW q \in Pid, Exit(m, q)
      PROVE  record'[k] = record[k] \/ record'[k] <= started[k]
  BY <1>12 DEF Exit
<1>13. CASE Crash
  BY <1>13 DEF Crash
<1>14. CASE UNCHANGED vars
  BY <1>14, <1>a DEF vars
<1>. QED
  BY <1>1, <1>2, <1>3, <1>4, <1>5, <1>6, <1>7,
     <1>8, <1>9, <1>10, <1>11, <1>12, <1>13, <1>14, <1>9a DEF VNext, Steps

LEMMA KnownStep ==
  ASSUME IInv, [VNext]_vars
  PROVE  \A y \in Handlers : Known(y)'
<1>a. VTypeOK /\ Numbered /\ \A x \in Handlers : Known(x)
  BY DEF IInv
<1>b. ASSUME NEW y \in Handlers, h'[y] = h[y] PROVE Known(y)'
  <2>1. SUFFICES ASSUME h[y] # Idle PROVE Known(y)'
    BY <1>b DEF Known
  <2>2. h[y].m \in Machines /\ h[y].read \in Nat /\ h[y].pid \in Nat
    BY <1>a, <2>1, RequestIs, Numbers
  <2>3. /\ started[h[y].m] <= started'[h[y].m]
        /\ started[h[y].m] \in Nat /\ started'[h[y].m] \in Nat
    BY <1>a, <2>2, EndedStays, TypeStep, Numbers DEF VTypeOK
  <2>. QED
    BY <1>a, <1>b, <2>1, <2>2, <2>3 DEF Known
<1>c. \A m \in Machines : started[m] \in Nat /\ started'[m] \in Nat /\ started[m] <= started'[m]
  BY <1>a, EndedStays, TypeStep, Numbers DEF VTypeOK
<1>1. ASSUME NEW x \in Handlers, NEW m \in Machines, Create(x, m)
      PROVE  \A y \in Handlers : Known(y)'
  <2>1. h'[x].m = m /\ h'[x].read = 0 /\ h'[x].pid = 0
    BY <1>1, <1>a, CreateEffect DEF Stopped
  <2>2. Known(x)'
    BY <1>c, <2>1 DEF Known
  <2>. QED
    BY <1>1, <1>a, <1>b, <2>2, CreateEffect DEF Others
<1>2. ASSUME NEW x \in Handlers, NEW m \in Machines, NEW op \in Ops \ {"create"},
             Find(x, m, op)
      PROVE  \A y \in Handlers : Known(y)'
  <2>1. h'[x].m = m /\ h'[x].read <= started[m] /\ h'[x].read \in Nat
        /\ (h'[x].pid = 0 \/ h'[x].pid = h'[x].read)
    BY <1>2, <1>a, FindEffect, Numbers DEF Stopped, Numbered
  <2>2. Known(x)'
    BY <1>c, <2>1 DEF Known
  <2>. QED
    BY <1>2, <1>a, <1>b, <2>2, FindEffect DEF Others
<1>3. ASSUME NEW x \in Handlers, Refresh(x)
      PROVE  \A y \in Handlers : Known(y)'
  <2>0. h[x].m \in Machines /\ h[x].read \in Nat /\ h[x].pid \in Nat
        /\ h[x].read <= started[h[x].m] /\ h[x].pid <= started[h[x].m]
    BY <1>3, <1>a, RefreshEffect, RequestIs, Numbers DEF Known
  <2>1. \/ h'[x] = Idle
        \/ h'[x].m = h[x].m /\ h'[x].read = h[x].read /\ (h'[x].pid = h[x].pid \/ h'[x].pid = 0)
    BY <1>3, <1>a, RefreshEffect DEF Moves, Ends, AfterWait, Stopped
  <2>2. Known(x)'
    BY <1>c, <2>0, <2>1 DEF Known
  <2>3. Others(x)
    BY <1>3, <1>a, RefreshEffect DEF Moves, Ends, AfterWait
  <2>. QED
    BY <1>b, <2>2, <2>3 DEF Others
<1>4. ASSUME NEW x \in Handlers, Launch(x)
      PROVE  \A y \in Handlers : Known(y)'
  <2>0. h[x].m \in Machines /\ h[x].read \in Nat /\ h[x].pid \in Nat
        /\ h[x].read <= started[h[x].m] /\ h[x].pid <= started[h[x].m]
    BY <1>4, <1>a, LaunchEffect, RequestIs, Numbers DEF Known
  <2>1. \/ h'[x] = Idle
        \/ h'[x].m = h[x].m /\ h'[x].read = h[x].read /\ h'[x].pid = started'[h[x].m]
    BY <1>4, <1>a, LaunchEffect DEF Moves, Ends, AfterWait, Stopped
  <2>2. Known(x)'
    BY <1>c, <2>0, <2>1 DEF Known
  <2>3. Others(x)
    BY <1>4, <1>a, LaunchEffect DEF Moves, Ends, AfterWait
  <2>. QED
    BY <1>b, <2>2, <2>3 DEF Others
<1>5. ASSUME NEW x \in Handlers, LaunchFails(x)
      PROVE  \A y \in Handlers : Known(y)'
  <2>1. Others(x) /\ h'[x] = Idle
    BY <1>5, <1>a, LaunchFailsEffect DEF Ends
  <2>. QED
    BY <1>b, <2>1 DEF Others, Known
<1>6. ASSUME NEW x \in Handlers, Terminate(x)
      PROVE  \A y \in Handlers : Known(y)'
  <2>0. h[x].m \in Machines /\ h[x].read \in Nat /\ h[x].pid \in Nat
        /\ h[x].read <= started[h[x].m] /\ h[x].pid <= started[h[x].m]
    BY <1>6, <1>a, TerminateEffect, RequestIs, Numbers DEF Known
  <2>1. \/ h'[x] = Idle
        \/ h'[x].m = h[x].m /\ h'[x].read = h[x].read /\ h'[x].pid = h[x].pid
    BY <1>6, <1>a, TerminateEffect DEF Moves, Ends, AfterWait, Stopped
  <2>2. Known(x)'
    BY <1>c, <2>0, <2>1 DEF Known
  <2>3. Others(x)
    BY <1>6, <1>a, TerminateEffect DEF Moves, Ends, AfterWait
  <2>. QED
    BY <1>b, <2>2, <2>3 DEF Others
<1>7. ASSUME NEW x \in Handlers, Poll(x)
      PROVE  \A y \in Handlers : Known(y)'
  <2>0. h[x].m \in Machines /\ h[x].read \in Nat /\ h[x].pid \in Nat
        /\ h[x].read <= started[h[x].m] /\ h[x].pid <= started[h[x].m]
    BY <1>7, <1>a, PollEffect, RequestIs, Numbers DEF Known
  <2>1. \/ h'[x] = Idle
        \/ h'[x].m = h[x].m /\ h'[x].read = h[x].read /\ h'[x].pid = h[x].pid
    BY <1>7, <1>a, PollEffect DEF Moves, Ends, AfterWait, Stopped
  <2>2. Known(x)'
    BY <1>c, <2>0, <2>1 DEF Known
  <2>3. Others(x)
    BY <1>7, <1>a, PollEffect DEF Moves, Ends, AfterWait
  <2>. QED
    BY <1>b, <2>2, <2>3 DEF Others
<1>8. ASSUME NEW x \in Handlers, Deadline(x)
      PROVE  \A y \in Handlers : Known(y)'
  <2>0. h[x].m \in Machines /\ h[x].read \in Nat /\ h[x].pid \in Nat
        /\ h[x].read <= started[h[x].m] /\ h[x].pid <= started[h[x].m]
    BY <1>8, <1>a, DeadlineEffect, RequestIs, Numbers DEF Known
  <2>1. \/ h'[x] = Idle
        \/ h'[x].m = h[x].m /\ h'[x].read = h[x].read /\ h'[x].pid = h[x].pid
    BY <1>8, <1>a, DeadlineEffect DEF Moves, Ends, AfterWait, Stopped
  <2>2. Known(x)'
    BY <1>c, <2>0, <2>1 DEF Known
  <2>3. Others(x)
    BY <1>8, <1>a, DeadlineEffect DEF Moves, Ends, AfterWait
  <2>. QED
    BY <1>b, <2>2, <2>3 DEF Others
<1>9. ASSUME NEW x \in Handlers, Open(x)
      PROVE  \A y \in Handlers : Known(y)'
  <2>0. h[x].m \in Machines /\ h[x].read \in Nat /\ h[x].pid \in Nat
        /\ h[x].read <= started[h[x].m] /\ h[x].pid <= started[h[x].m]
    BY <1>9, <1>a, OpenEffect, RequestIs, Numbers DEF Known
  <2>1. h'[x].m = h[x].m /\ h'[x].read = h[x].read /\ h'[x].pid = h[x].pid
    BY <1>9, <1>a, OpenEffect DEF Moves
  <2>2. Known(x)'
    BY <1>c, <2>0, <2>1 DEF Known
  <2>3. Others(x)
    BY <1>9, <1>a, OpenEffect DEF Moves
  <2>. QED
    BY <1>b, <2>2, <2>3 DEF Others
<1>9a. ASSUME NEW x \in Handlers, Fill(x)
      PROVE  \A y \in Handlers : Known(y)'
  <2>1. Others(x) /\ h'[x] = Idle
    BY <1>9a, <1>a, FillEffect DEF Ends
  <2>. QED
    BY <1>b, <2>1 DEF Others, Known
<1>10. ASSUME NEW x \in Handlers, WriteFails(x)
      PROVE  \A y \in Handlers : Known(y)'
  <2>1. Others(x) /\ h'[x] = Idle
    BY <1>10, <1>a, WriteFailsEffect DEF Ends
  <2>. QED
    BY <1>b, <2>1 DEF Others, Known
<1>11. ASSUME NEW x \in Handlers, Remove(x)
      PROVE  \A y \in Handlers : Known(y)'
  <2>1. Others(x) /\ h'[x] = Idle
    BY <1>11, <1>a, RemoveEffect DEF Ends
  <2>. QED
    BY <1>b, <2>1 DEF Others, Known
<1>12. ASSUME NEW m \in Machines, NEW q \in Pid, Exit(m, q)
      PROVE  \A y \in Handlers : Known(y)'
  BY <1>12, <1>a, <1>b, ExitEffect
<1>13. CASE Crash
  BY <1>13, <1>a, CrashEffect DEF Known
<1>14. CASE UNCHANGED vars
  BY <1>14, <1>b DEF vars
<1>. QED
  BY <1>1, <1>2, <1>3, <1>4, <1>5, <1>6, <1>7,
     <1>8, <1>9, <1>10, <1>11, <1>12, <1>13, <1>14, <1>9a DEF VNext, Steps

LEMMA ProgressStep ==
  ASSUME IInv, [VNext]_vars
  PROVE  \A y \in Handlers : Progress(y)'
<1>a. VTypeOK /\ Numbered /\ \A x \in Handlers : Known(x) /\ Progress(x)
  BY DEF IInv
<1>b. ASSUME NEW y \in Handlers, h'[y] = h[y] PROVE Progress(y)'
  <2>1. SUFFICES ASSUME h[y] # Idle PROVE Progress(y)'
    BY <1>b DEF Progress
  <2>2. h[y].m \in Machines /\ h[y].read \in Found /\ h[y].read <= started[h[y].m]
    BY <1>a, <2>1, RequestIs DEF Known
  <2>3. Gone(y) => Gone(y)'
    BY <1>b, <2>2, EndedStays DEF Gone
  <2>. QED
    BY <1>a, <1>b, <2>1, <2>3 DEF Progress
<1>1. ASSUME NEW x \in Handlers, NEW m \in Machines, Create(x, m)
      PROVE  \A y \in Handlers : Progress(y)'
  <2>1. h'[x].at = "launch" /\ h'[x].op = "create" /\ h'[x].m = m /\ h'[x].read = Stopped
        /\ live' = live
    BY <1>1, <1>a, CreateEffect
  <2>2. Stopped \notin live[m]
    BY <1>a, Numbers DEF VTypeOK
  <2>3. Progress(x)'
    BY <2>1, <2>2 DEF Progress, Gone
  <2>. QED
    BY <1>1, <1>a, <1>b, <2>3, CreateEffect DEF Others
<1>2. ASSUME NEW x \in Handlers, NEW m \in Machines, NEW op \in Ops \ {"create"},
             Find(x, m, op)
      PROVE  \A y \in Handlers : Progress(y)'
  <2>1. /\ h'[x].op = op /\ h'[x].m = m /\ h'[x].read = record[m] /\ live' = live
        /\ h'[x].pid = IF op = "stop" THEN Stopped ELSE record[m]
        /\ \/ op \in {"list", "start"} /\ h'[x].at = "read"
           \/ op = "stop" /\ record[m] = Stopped /\ h'[x].at = "write"
           \/ op = "stop" /\ h'[x].at = "term"
           \/ op = "delete" /\ record[m] = Stopped /\ h'[x].at = "remove"
           \/ op = "delete" /\ h'[x].at = "term"
    BY <1>2, <1>a, FindEffect
  <2>2. Stopped \notin live[m]
    BY <1>a, Numbers DEF VTypeOK
  <2>3. Progress(x)'
    BY <2>1, <2>2 DEF Progress, Gone
  <2>. QED
    BY <1>2, <1>a, <1>b, <2>3, FindEffect DEF Others
<1>3. ASSUME NEW x \in Handlers, Refresh(x)
      PROVE  \A y \in Handlers : Progress(y)'
  <2>0. h[x].at = "read" /\ h[x].op \in {"list", "start"} /\ h[x].pid = h[x].read
    BY <1>3, <1>a, RefreshEffect DEF Progress
  <2>1. \/ h'[x] = Idle
        \/ /\ h'[x].m = h[x].m /\ h'[x].read = h[x].read /\ h'[x].op = h[x].op /\ live' = live
           /\ \/ h[x].op = "list" /\ h'[x].at = "write" /\ (h'[x].pid = h[x].pid \/ Gone(x))
              \/ h[x].op = "start" /\ h'[x].at = "launch" /\ Gone(x)
    BY <1>3, <1>a, <2>0, RefreshEffect DEF Moves, Ends, Gone
  <2>2. Progress(x)'
    BY <2>0, <2>1 DEF Progress, Gone
  <2>. QED
    BY <1>3, <1>a, <1>b, <2>2, RefreshEffect DEF Others, Moves, Ends
<1>4. ASSUME NEW x \in Handlers, Launch(x)
      PROVE  \A y \in Handlers : Progress(y)'
  <2>0. /\ h[x] # Idle /\ h[x].m \in Machines /\ h[x].read \in Found
        /\ h[x].op \in {"create", "start"} /\ h[x].read \notin live[h[x].m]
        /\ h[x].read <= started[h[x].m]
    BY <1>4, <1>a, LaunchEffect, RequestIs DEF Progress, Gone, Known
  <2>1. \/ h'[x] = Idle
        \/ h'[x].m = h[x].m /\ h'[x].read = h[x].read /\ h'[x].op = h[x].op /\ h'[x].at = "write"
    BY <1>4, <1>a, LaunchEffect DEF Moves, Ends
  <2>2. h[x].read \notin live'[h[x].m]
    BY <2>0, EndedStays
  <2>3. Progress(x)'
    BY <2>0, <2>1, <2>2 DEF Progress, Gone
  <2>4. Others(x)
    BY <1>4, <1>a, LaunchEffect DEF Moves, Ends
  <2>. QED
    BY <1>b, <2>3, <2>4 DEF Others
<1>5. ASSUME NEW x \in Handlers, LaunchFails(x)
      PROVE  \A y \in Handlers : Progress(y)'
  <2>1. Others(x) /\ h'[x] = Idle
    BY <1>5, <1>a, LaunchFailsEffect DEF Ends
  <2>. QED
    BY <1>b, <2>1 DEF Others, Progress
<1>6. ASSUME NEW x \in Handlers, Terminate(x)
      PROVE  \A y \in Handlers : Progress(y)'
  <2>0. h[x] # Idle /\ h[x].m \in Machines /\ h[x].op \in {"stop", "delete"}
    BY <1>6, <1>a, TerminateEffect, RequestIs DEF Progress
  <2>1. \/ h'[x] = Idle
        \/ /\ h'[x].m = h[x].m /\ h'[x].read = h[x].read /\ h'[x].op = h[x].op
           /\ (h'[x].at = "wait" \/ (h'[x].at \in {"write", "remove"} /\ Gone(x)'))
    BY <1>6, <1>a, <2>0, TerminateEffect DEF Moves, Ends, AfterWait, Gone, Lives
  <2>2. Progress(x)'
    BY <2>0, <2>1 DEF Progress
  <2>. QED
    BY <1>6, <1>a, <1>b, <2>2, TerminateEffect DEF Others, Moves, Ends, AfterWait
<1>7. ASSUME NEW x \in Handlers, Poll(x)
      PROVE  \A y \in Handlers : Progress(y)'
  <2>0. h[x] # Idle /\ h[x].m \in Machines /\ h[x].op \in {"stop", "delete"}
    BY <1>7, <1>a, PollEffect, RequestIs DEF Progress
  <2>1. \/ h'[x] = Idle
        \/ /\ h'[x].m = h[x].m /\ h'[x].read = h[x].read /\ h'[x].op = h[x].op
           /\ (h'[x].at \in {"write", "remove"} /\ Gone(x)')
    BY <1>7, <1>a, <2>0, PollEffect DEF Moves, Ends, AfterWait, Gone, Lives
  <2>2. Progress(x)'
    BY <2>0, <2>1 DEF Progress
  <2>. QED
    BY <1>7, <1>a, <1>b, <2>2, PollEffect DEF Others, Moves, Ends, AfterWait
<1>8. ASSUME NEW x \in Handlers, Deadline(x)
      PROVE  \A y \in Handlers : Progress(y)'
  <2>0. h[x] # Idle /\ h[x].m \in Machines /\ h[x].op \in {"stop", "delete"}
    BY <1>8, <1>a, DeadlineEffect, RequestIs DEF Progress
  <2>1. \/ h'[x] = Idle
        \/ /\ h'[x].m = h[x].m /\ h'[x].read = h[x].read /\ h'[x].op = h[x].op
           /\ (h'[x].at \in {"write", "remove"} /\ Gone(x)')
    BY <1>8, <1>a, <2>0, DeadlineEffect DEF Moves, Ends, AfterWait, Gone, Lives
  <2>2. Progress(x)'
    BY <2>0, <2>1 DEF Progress
  <2>. QED
    BY <1>8, <1>a, <1>b, <2>2, DeadlineEffect DEF Others, Moves, Ends, AfterWait
<1>9. ASSUME NEW x \in Handlers, Open(x)
      PROVE  \A y \in Handlers : Progress(y)'
  <2>0. h[x] # Idle /\ (Gone(x) \/ (h[x].op = "list" /\ h[x].pid = h[x].read))
    BY <1>9, <1>a, OpenEffect DEF Progress
  <2>1. /\ h'[x].m = h[x].m /\ h'[x].read = h[x].read /\ h'[x].op = h[x].op
        /\ h'[x].pid = h[x].pid /\ h'[x].at = "fill" /\ live' = live
    BY <1>9, <1>a, OpenEffect DEF Moves
  <2>2. Progress(x)'
    BY <2>0, <2>1 DEF Progress, Gone
  <2>. QED
    BY <1>9, <1>a, <1>b, <2>2, OpenEffect DEF Others, Moves
<1>9a. ASSUME NEW x \in Handlers, Fill(x)
      PROVE  \A y \in Handlers : Progress(y)'
  <2>1. Others(x) /\ h'[x] = Idle
    BY <1>9a, <1>a, FillEffect DEF Ends
  <2>. QED
    BY <1>b, <2>1 DEF Others, Progress
<1>10. ASSUME NEW x \in Handlers, WriteFails(x)
      PROVE  \A y \in Handlers : Progress(y)'
  <2>1. Others(x) /\ h'[x] = Idle
    BY <1>10, <1>a, WriteFailsEffect DEF Ends
  <2>. QED
    BY <1>b, <2>1 DEF Others, Progress
<1>11. ASSUME NEW x \in Handlers, Remove(x)
      PROVE  \A y \in Handlers : Progress(y)'
  <2>1. Others(x) /\ h'[x] = Idle
    BY <1>11, <1>a, RemoveEffect DEF Ends
  <2>. QED
    BY <1>b, <2>1 DEF Others, Progress
<1>12. ASSUME NEW m \in Machines, NEW q \in Pid, Exit(m, q)
      PROVE  \A y \in Handlers : Progress(y)'
  BY <1>12, <1>a, <1>b, ExitEffect
<1>13. CASE Crash
  BY <1>13, <1>a, CrashEffect DEF Progress
<1>14. CASE UNCHANGED vars
  BY <1>14, <1>b DEF vars
<1>. QED
  BY <1>1, <1>2, <1>3, <1>4, <1>5, <1>6, <1>7,
     <1>8, <1>9, <1>10, <1>11, <1>12, <1>13, <1>14, <1>9a DEF VNext, Steps

\* What a request does to its own machine leaves the others' alone.
Serves(x) ==
  /\ h[x] # Idle /\ Others(x)
  /\ \A k \in Machines : k # h[x].m => record'[k] = record[k]
  /\ \/ h'[x] = Idle
     \/ h'[x].op = h[x].op /\ h'[x].m = h[x].m /\ record'[h[x].m] \in {record[h[x].m], Bare}

LEMMA ServesAlone ==
  ASSUME VTypeOK, CreateAlone, NEW x \in Handlers, Serves(x)
  PROVE  CreateAlone'
<1>. SUFFICES ASSUME NEW y \in Handlers, h'[y] # Idle, h'[y].op = "create"
              PROVE  /\ record'[h'[y].m] = Bare
                     /\ \A z \in Handlers : z # y /\ h'[z] # Idle => h'[z].m # h'[y].m
  BY DEF CreateAlone
<1>1. /\ h[y] # Idle /\ h[y].op = "create" /\ h'[y].m = h[y].m /\ h[y].m \in Machines
  BY RequestIs DEF Serves, Others
<1>2. record[h[y].m] = Bare /\ \A z \in Handlers : z # y /\ h[z] # Idle => h[z].m # h[y].m
  BY <1>1 DEF CreateAlone
<1>3. record'[h[y].m] = Bare
  <2>1. CASE x = y
    BY <1>1, <1>2, <2>1 DEF Serves
  <2>2. CASE x # y
    BY <1>1, <1>2, <2>2 DEF Serves
  <2>. QED
    BY <2>1, <2>2
<1>4. ASSUME NEW z \in Handlers, z # y, h'[z] # Idle PROVE h'[z].m # h[y].m
  <2>1. h[z] # Idle /\ h'[z].m = h[z].m
    BY <1>4 DEF Serves, Others
  <2>. QED
    BY <1>2, <1>4, <2>1
<1>. QED
  BY <1>1, <1>3, <1>4

LEMMA CreateAloneStep ==
  ASSUME IInv, [VNext]_vars
  PROVE  CreateAlone'
<1>a. VTypeOK /\ (\A x \in Handlers : Progress(x)) /\ CreateAlone
  BY DEF IInv
<1>1. ASSUME NEW x \in Handlers, NEW m \in Machines, Create(x, m)
      PROVE  CreateAlone'
  <2>. SUFFICES ASSUME NEW y \in Handlers, h'[y] # Idle, h'[y].op = "create"
                PROVE  /\ record'[h'[y].m] = Bare
                       /\ \A z \in Handlers : z # y /\ h'[z] # Idle => h'[z].m # h'[y].m
    BY DEF CreateAlone
  <2>1. CASE y = x
    BY <1>1, <1>a, <2>1, CreateEffect DEF Others, Records
  <2>2. CASE y # x
    <3>1. h[y] # Idle /\ h[y].op = "create" /\ h'[y] = h[y] /\ h[y].m # m /\ h[y].m \in Machines
      BY <1>1, <1>a, <2>2, CreateEffect, RequestIs DEF Others
    <3>2. record'[h[y].m] = Bare
      BY <1>1, <1>a, <3>1, CreateEffect DEF CreateAlone, Records
    <3>3. ASSUME NEW z \in Handlers, z # y, h'[z] # Idle PROVE h'[z].m # h[y].m
      BY <1>1, <1>a, <3>1, <3>3, CreateEffect DEF CreateAlone, Others
    <3>. QED
      BY <3>1, <3>2, <3>3
  <2>. QED
    BY <2>1, <2>2
<1>2. ASSUME NEW x \in Handlers, NEW m \in Machines, NEW op \in Ops \ {"create"},
             Find(x, m, op)
      PROVE  CreateAlone'
  <2>. SUFFICES ASSUME NEW y \in Handlers, h'[y] # Idle, h'[y].op = "create"
                PROVE  /\ record'[h'[y].m] = Bare
                       /\ \A z \in Handlers : z # y /\ h'[z] # Idle => h'[z].m # h'[y].m
    BY DEF CreateAlone
  <2>1. y # x /\ h[y] # Idle /\ h[y].op = "create" /\ h'[y] = h[y]
    BY <1>2, <1>a, FindEffect DEF Others
  <2>2. record'[h[y].m] = Bare /\ h[y].m # m
    BY <1>2, <1>a, <2>1, FindEffect, Numbers DEF CreateAlone
  <2>3. ASSUME NEW z \in Handlers, z # y, h'[z] # Idle PROVE h'[z].m # h[y].m
    BY <1>2, <1>a, <2>1, <2>2, <2>3, FindEffect DEF CreateAlone, Others
  <2>. QED
    BY <2>1, <2>2, <2>3
<1>3. ASSUME NEW x \in Handlers, Refresh(x)
      PROVE  CreateAlone'
  <2>1. Serves(x)
    BY <1>3, <1>a, RefreshEffect, RequestIs
    DEF Serves, Moves, Ends, Others, AfterWait, Undone, Records
  <2>. QED
    BY <1>a, <2>1, ServesAlone
<1>4. ASSUME NEW x \in Handlers, Launch(x)
      PROVE  CreateAlone'
  <2>1. Serves(x)
    BY <1>4, <1>a, LaunchEffect, RequestIs
    DEF Serves, Moves, Ends, Others, AfterWait, Undone, Records
  <2>. QED
    BY <1>a, <2>1, ServesAlone
<1>5. ASSUME NEW x \in Handlers, LaunchFails(x)
      PROVE  CreateAlone'
  <2>1. Serves(x)
    BY <1>5, <1>a, LaunchFailsEffect, RequestIs
    DEF Serves, Moves, Ends, Others, AfterWait, Undone, Records
  <2>. QED
    BY <1>a, <2>1, ServesAlone
<1>6. ASSUME NEW x \in Handlers, Terminate(x)
      PROVE  CreateAlone'
  <2>1. Serves(x)
    BY <1>6, <1>a, TerminateEffect, RequestIs
    DEF Serves, Moves, Ends, Others, AfterWait, Undone, Records
  <2>. QED
    BY <1>a, <2>1, ServesAlone
<1>7. ASSUME NEW x \in Handlers, Poll(x)
      PROVE  CreateAlone'
  <2>1. Serves(x)
    BY <1>7, <1>a, PollEffect, RequestIs
    DEF Serves, Moves, Ends, Others, AfterWait, Undone, Records
  <2>. QED
    BY <1>a, <2>1, ServesAlone
<1>8. ASSUME NEW x \in Handlers, Deadline(x)
      PROVE  CreateAlone'
  <2>1. Serves(x)
    BY <1>8, <1>a, DeadlineEffect, RequestIs
    DEF Serves, Moves, Ends, Others, AfterWait, Undone, Records
  <2>. QED
    BY <1>a, <2>1, ServesAlone
<1>9. ASSUME NEW x \in Handlers, Open(x)
      PROVE  CreateAlone'
  <2>1. Serves(x)
    BY <1>9, <1>a, OpenEffect, RequestIs DEF Serves, Moves, Others, Records
  <2>. QED
    BY <1>a, <2>1, ServesAlone
<1>9a. ASSUME NEW x \in Handlers, Fill(x)
      PROVE  CreateAlone'
  <2>1. Serves(x)
    BY <1>9a, <1>a, FillEffect, RequestIs DEF Serves, Ends, Others, Leaves, Records
  <2>. QED
    BY <1>a, <2>1, ServesAlone
<1>10. ASSUME NEW x \in Handlers, WriteFails(x)
      PROVE  CreateAlone'
  <2>1. Serves(x)
    BY <1>10, <1>a, WriteFailsEffect, RequestIs
    DEF Serves, Ends, Others, Leaves, Records
  <2>. QED
    BY <1>a, <2>1, ServesAlone
<1>11. ASSUME NEW x \in Handlers, Remove(x)
      PROVE  CreateAlone'
  <2>1. Serves(x)
    BY <1>11, <1>a, RemoveEffect, RequestIs
    DEF Serves, Moves, Ends, Others, AfterWait, Undone, Records
  <2>. QED
    BY <1>a, <2>1, ServesAlone
<1>12. ASSUME NEW m \in Machines, NEW q \in Pid, Exit(m, q)
      PROVE  CreateAlone'
  BY <1>12, <1>a, ExitEffect, Numbers DEF CreateAlone
<1>13. CASE Crash
  BY <1>13, <1>a, CrashEffect, Numbers DEF CreateAlone
<1>14. CASE UNCHANGED vars
  BY <1>14, <1>a DEF vars, CreateAlone
<1>. QED
  BY <1>1, <1>2, <1>3, <1>4, <1>5, <1>6, <1>7,
     <1>8, <1>9, <1>10, <1>11, <1>12, <1>13, <1>14, <1>9a DEF VNext, Steps

-----------------------------------------------------------------------------
(* No running process is lost but at the five events.                       *)

Carries(y, k, p) == /\ h[y] # Idle /\ h[y].m = k /\ h[y].pid = p
                    /\ Holds(y)

Accounted(k, p) == \/ p = record[k]
                   \/ \E y \in Handlers : Carries(y, k, p)
                   \/ p \in strays[k]

LEMMA LossIs ==
  /\ LossIsExplained <=> \A k \in Machines : \A p \in live[k] : Accounted(k, p)
  /\ LossIsExplained' <=> \A k \in Machines : \A p \in live'[k] : Accounted(k, p)'
<1>1. ASSUME NEW k \in Machines, NEW p
      PROVE  /\ p \in Carried(k) <=> \E y \in Handlers : Carries(y, k, p)
             /\ p \in Carried(k)' <=> \E y \in Handlers : Carries(y, k, p)'
  BY DEF Carried, Carries
<1>2. ASSUME NEW k \in Machines
      PROVE  /\ Unnamed(k) \subseteq strays[k] <=> \A p \in live[k] : Accounted(k, p)
             /\ Unnamed(k)' \subseteq strays'[k] <=> \A p \in live'[k] : Accounted(k, p)'
  BY <1>1 DEF Unnamed, Accounted
<1>. QED
  BY <1>2 DEF LossIsExplained

\* A step of request x leaves a process accounted for that x did not carry,
\* unless it overwrites the record that names it.
LEMMA AccountKept ==
  ASSUME NEW x \in Handlers, NEW k \in Machines, NEW p, Accounted(k, p), Others(x),
         ~Carries(x, k, p), strays[k] \subseteq strays'[k],
         p = record[k] => p = record'[k] \/ p \in strays'[k]
  PROVE  Accounted(k, p)'
<1>1. CASE p = record[k] \/ p \in strays[k]
  BY <1>1 DEF Accounted
<1>2. CASE \E y \in Handlers : Carries(y, k, p)
  <2>1. PICK y \in Handlers : Carries(y, k, p)
    BY <1>2
  <2>2. y # x /\ h'[y] = h[y]
    BY <2>1 DEF Others
  <2>3. Carries(y, k, p)'
    BY <2>1, <2>2 DEF Carries, Holds
  <2>. QED
    BY <2>3 DEF Accounted
<1>. QED
  BY <1>1, <1>2 DEF Accounted

\* Create undoes a directory that names nobody.
LEMMA UndoneKeeps ==
  ASSUME VTypeOK, CreateAlone, NEW x \in Handlers, h[x] # Idle, Undone(x),
         NEW k \in Machines, NEW p \in Pid, p = record[k]
  PROVE  p = record'[k]
<1>1. CASE h[x].op = "create"
  <2>1. record[h[x].m] = Bare
    BY <1>1 DEF CreateAlone
  <2>2. k # h[x].m
    BY <2>1, Numbers
  <2>. QED
    BY <1>1, <2>2 DEF Undone, Records
<1>2. CASE h[x].op # "create"
  BY <1>2 DEF Undone
<1>. QED
  BY <1>1, <1>2

LEMMA LossStep ==
  ASSUME IInv, [VNext]_vars
  PROVE  LossIsExplained'
<1>a. VTypeOK /\ (\A x \in Handlers : Progress(x)) /\ CreateAlone /\ LossIsExplained
  BY DEF IInv
<1>b. SUFFICES ASSUME NEW k \in Machines, NEW p \in live'[k] PROVE Accounted(k, p)'
  BY LossIs
<1>c. p \in live[k] => Accounted(k, p)
  BY <1>a, LossIs
<1>d. live[k] \subseteq Pid
  BY <1>a DEF VTypeOK
<1>1. ASSUME NEW x \in Handlers, NEW m \in Machines, Create(x, m)
      PROVE  Accounted(k, p)'
  <2>1. Others(x) /\ ~Carries(x, k, p) /\ live' = live /\ strays' = strays
    BY <1>1, <1>a, CreateEffect DEF Carries, Holds
  <2>2. p = record[k] => p = record'[k]
    BY <1>1, <1>a, <1>b, <1>d, <2>1, CreateEffect, Numbers DEF Records
  <2>. QED
    BY <1>b, <1>c, <2>1, <2>2, AccountKept
<1>2. ASSUME NEW x \in Handlers, NEW m \in Machines, NEW op \in Ops \ {"create"},
             Find(x, m, op)
      PROVE  Accounted(k, p)'
  <2>1. Others(x) /\ ~Carries(x, k, p) /\ live' = live /\ strays' = strays /\ record' = record
    BY <1>2, <1>a, FindEffect DEF Carries, Holds
  <2>. QED
    BY <1>b, <1>c, <2>1, AccountKept
<1>3. ASSUME NEW x \in Handlers, Refresh(x)
      PROVE  Accounted(k, p)'
  <2>1. ~Carries(x, k, p) /\ live' = live /\ strays' = strays /\ record' = record
    BY <1>3, <1>a, RefreshEffect DEF Carries, Holds
  <2>2. Others(x)
    BY <1>3, <1>a, RefreshEffect DEF Moves, Ends, AfterWait
  <2>. QED
    BY <1>b, <1>c, <2>1, <2>2, AccountKept
<1>4. ASSUME NEW x \in Handlers, Launch(x)
      PROVE  Accounted(k, p)'
  <2>1. ~Carries(x, k, p) /\ h[x] # Idle /\ h[x].at = "launch"
    BY <1>4, <1>a, LaunchEffect DEF Carries, Holds
  <2>2. h[x].op \in {"create", "start"}
    BY <1>a, <2>1 DEF Progress
  <2>3. CASE k = h[x].m
    <3>0. Lives(h[x].m, {started[h[x].m] + 1})
      BY <1>4, <1>a, LaunchEffect
    <3>1. p = started[k] + 1
      BY <1>b, <2>3, <3>0 DEF Lives
    <3>2. \/ Moves(x, "write", p)
          \/ p \in strays'[k]
      BY <1>4, <1>a, <2>3, <3>1, LaunchEffect DEF Strays
    <3>3. Moves(x, "write", p) => Carries(x, k, p)'
      BY <2>2, <2>3 DEF Moves, Carries, Holds
    <3>. QED
      BY <3>2, <3>3 DEF Accounted
  <2>4. CASE k # h[x].m
    <3>1. Others(x)
      BY <1>4, <1>a, LaunchEffect DEF Moves, Ends
    <3>2. p \in live[k] /\ strays'[k] = strays[k]
      BY <1>4, <1>a, <1>b, <2>4, LaunchEffect DEF Lives, Strays
    <3>3. record'[k] = record[k]
      BY <1>4, <1>a, <2>4, LaunchEffect DEF Undone, Records
    <3>. QED
      BY <1>c, <2>1, <3>1, <3>2, <3>3, AccountKept
  <2>. QED
    BY <2>3, <2>4
<1>5. ASSUME NEW x \in Handlers, LaunchFails(x)
      PROVE  Accounted(k, p)'
  <2>1. ~Carries(x, k, p) /\ Others(x) /\ live' = live /\ strays' = strays
    BY <1>5, <1>a, LaunchFailsEffect DEF Carries, Holds, Ends
  <2>2. p = record[k] => p = record'[k]
    BY <1>a, <1>b, <1>d, <2>1, UndoneKeeps, <1>5, LaunchFailsEffect
  <2>. QED
    BY <1>b, <1>c, <2>1, <2>2, AccountKept
<1>6. ASSUME NEW x \in Handlers, Terminate(x)
      PROVE  Accounted(k, p)'
  <2>1. ~Carries(x, k, p) /\ live' = live /\ strays' = strays /\ record' = record
    BY <1>6, <1>a, TerminateEffect DEF Carries, Holds
  <2>2. Others(x)
    BY <1>6, <1>a, TerminateEffect DEF Moves, Ends, AfterWait
  <2>. QED
    BY <1>b, <1>c, <2>1, <2>2, AccountKept
<1>7. ASSUME NEW x \in Handlers, Poll(x)
      PROVE  Accounted(k, p)'
  <2>1. ~Carries(x, k, p) /\ live' = live /\ strays' = strays /\ record' = record
    BY <1>7, <1>a, PollEffect DEF Carries, Holds
  <2>2. Others(x)
    BY <1>7, <1>a, PollEffect DEF Moves, Ends, AfterWait
  <2>. QED
    BY <1>b, <1>c, <2>1, <2>2, AccountKept
<1>8. ASSUME NEW x \in Handlers, Deadline(x)
      PROVE  Accounted(k, p)'
  <2>1. ~Carries(x, k, p) /\ strays' = strays /\ record' = record
    BY <1>8, <1>a, DeadlineEffect DEF Carries, Holds
  <2>2. Others(x)
    BY <1>8, <1>a, DeadlineEffect DEF Moves, Ends, AfterWait
  <2>3. p \in live[k]
    BY <1>8, <1>a, <1>b, DeadlineEffect DEF Lives
  <2>. QED
    BY <1>c, <2>1, <2>2, <2>3, AccountKept
<1>9. ASSUME NEW x \in Handlers, Open(x)
      PROVE  Accounted(k, p)'
  <2>1. /\ Moves(x, "fill", h[x].pid) /\ live' = live /\ p \in live[k]
        /\ h[x] # Idle /\ h[x].at = "write"
    BY <1>9, <1>a, <1>b, OpenEffect
  <2>2. Accounted(k, p) /\ Others(x)
    BY <1>c, <2>1 DEF Moves
  <2>3. strays[k] \subseteq strays'[k]
    BY <1>9, <1>a, OpenEffect DEF Strays
  <2>4. CASE k = h[x].m
    <3>1. Forgotten(x, k) \subseteq strays'[k]
      BY <1>9, <1>a, <2>4, OpenEffect DEF Strays
    <3>2. p = h[x].pid => Carries(x, k, p)'
      BY <2>1, <2>4 DEF Moves, Carries, Holds
    <3>3. p = record[k] => p = h[x].pid \/ p \in strays'[k]
      BY <1>a, <2>1, <2>4, <3>1 DEF Forgotten, Progress, Gone
    <3>4. CASE p = h[x].pid
      BY <3>2, <3>4 DEF Accounted
    <3>5. CASE p # h[x].pid
      <4>1. ~Carries(x, k, p)
        BY <3>5 DEF Carries
      <4>. QED
        BY <2>2, <2>3, <3>3, <3>5, <4>1, AccountKept
    <3>. QED
      BY <3>4, <3>5
  <2>5. CASE k # h[x].m
    <3>1. record'[k] = record[k]
      BY <1>9, <1>a, <2>5, OpenEffect DEF Records
    <3>2. ~Carries(x, k, p)
      BY <2>5 DEF Carries
    <3>. QED
      BY <2>2, <2>3, <3>1, <3>2, AccountKept
  <2>. QED
    BY <2>4, <2>5
<1>e. ASSUME NEW x \in Handlers, Others(x), live' = live, NEW v, Leaves(x, v)
      PROVE  Accounted(k, p)'
  <2>1. p \in live[k] /\ Accounted(k, p)
    BY <1>b, <1>c, <1>e
  <2>2. strays[k] \subseteq strays'[k]
    BY <1>e DEF Leaves, Strays
  <2>3. CASE k = h[x].m
    <3>1. p \in {record[k], h[x].pid} => p = record'[k] \/ p \in strays'[k]
      BY <1>e, <2>1, <2>3 DEF Leaves
    <3>2. Carries(x, k, p) => p = record'[k] \/ p \in strays'[k]
      BY <3>1 DEF Carries
    <3>. QED
      BY <1>e, <2>1, <2>2, <3>1, <3>2, AccountKept DEF Accounted
  <2>4. CASE k # h[x].m
    <3>1. record'[k] = record[k] /\ ~Carries(x, k, p)
      BY <1>e, <2>4 DEF Leaves, Records, Carries
    <3>. QED
      BY <1>e, <2>1, <2>2, <3>1, AccountKept
  <2>. QED
    BY <2>3, <2>4
<1>9a. ASSUME NEW x \in Handlers, Fill(x)
      PROVE  Accounted(k, p)'
  BY <1>9a, <1>a, <1>e, FillEffect DEF Ends
<1>10. ASSUME NEW x \in Handlers, WriteFails(x)
      PROVE  Accounted(k, p)'
  <2>1. Others(x) /\ h[x] # Idle /\ h[x].m \in Machines
    BY <1>10, <1>a, WriteFailsEffect DEF Ends
  <2>2. CASE /\ h[x].op = "create" /\ Records(h[x].m, Absent) /\ strays' = strays
             /\ Lives(h[x].m, live[h[x].m] \ {h[x].pid})
    <3>1. p \in live[k] /\ ~(k = h[x].m /\ p = h[x].pid)
      BY <1>b, <2>2 DEF Lives
    <3>2. ~Carries(x, k, p) /\ Accounted(k, p)
      BY <1>c, <3>1 DEF Carries
    <3>3. p = record[k] => p = record'[k]
      <4>1. record[h[x].m] = Bare /\ p \in Found
        BY <1>a, <1>d, <2>1, <2>2, <3>1, Numbers DEF CreateAlone
      <4>. QED
        BY <2>2, <4>1, Numbers DEF Records
    <3>. QED
      BY <2>1, <2>2, <3>2, <3>3, AccountKept
  <2>3. CASE live' = live /\ \E v \in {record[h[x].m], Bare} : Leaves(x, v)
    BY <1>e, <2>1, <2>3
  <2>. QED
    BY <1>10, <1>a, <2>2, <2>3, WriteFailsEffect
<1>11. ASSUME NEW x \in Handlers, Remove(x)
      PROVE  Accounted(k, p)'
  <2>1. Others(x) /\ live' = live /\ p \in live[k] /\ h[x] # Idle /\ h[x].at = "remove"
    BY <1>11, <1>a, <1>b, RemoveEffect DEF Ends
  <2>2. Accounted(k, p)
    BY <1>c, <2>1
  <2>3. strays[k] \subseteq strays'[k]
    BY <1>11, <1>a, RemoveEffect DEF Strays
  <2>4. CASE k = h[x].m
    <3>1. record'[k] = Absent /\ Forgotten(x, k) \subseteq strays'[k]
      BY <1>11, <1>a, <2>4, RemoveEffect DEF Records, Strays
    <3>2. p = record[k] => p = record'[k] \/ p \in strays'[k]
      BY <1>a, <1>d, <2>1, <2>4, <3>1, Numbers DEF Forgotten, Progress, Gone
    <3>3. ~Carries(x, k, p)
      BY <2>1 DEF Carries, Holds
    <3>. QED
      BY <2>1, <2>2, <2>3, <3>2, <3>3, AccountKept
  <2>5. CASE k # h[x].m
    <3>1. record'[k] = record[k]
      BY <1>11, <1>a, <2>5, RemoveEffect DEF Records
    <3>2. ~Carries(x, k, p)
      BY <2>5 DEF Carries, Holds
    <3>. QED
      BY <2>1, <2>2, <2>3, <3>1, <3>2, AccountKept
  <2>. QED
    BY <2>4, <2>5
<1>12. ASSUME NEW m \in Machines, NEW q \in Pid, Exit(m, q)
      PROVE  Accounted(k, p)'
  <2>1. p \in live[k]
    BY <1>12, <1>a, <1>b, ExitEffect DEF Lives
  <2>2. UNCHANGED <<record, h, strays>>
    BY <1>12, <1>a, ExitEffect
  <2>. QED
    BY <1>c, <2>1, <2>2 DEF Accounted, Carries, Holds
<1>13. CASE Crash
  <2>1. p \in live[k] /\ UNCHANGED record /\ strays'[k] = strays[k] \cup (Carried(k) \cap live[k])
    BY <1>13, <1>a, <1>b, CrashEffect
  <2>2. (\E y \in Handlers : Carries(y, k, p)) => p \in Carried(k)
    BY DEF Carries, Carried
  <2>. QED
    BY <1>c, <2>1, <2>2 DEF Accounted
<1>14. CASE UNCHANGED vars
  <2>1. UNCHANGED <<record, live, h, strays>>
    BY <1>14 DEF vars
  <2>. QED
    BY <1>b, <1>c, <2>1 DEF Accounted, Carries, Holds
<1>. QED
  BY <1>1, <1>2, <1>3, <1>4, <1>5, <1>6, <1>7,
     <1>8, <1>9, <1>10, <1>11, <1>12, <1>13, <1>14, <1>9a DEF VNext, Steps

-----------------------------------------------------------------------------
(* The theorems.                                                            *)

LEMMA InvInit == VInit => IInv
<1>. SUFFICES ASSUME VInit PROVE IInv
  OBVIOUS
<1>1. \A m \in Machines : record[m] = Absent /\ live[m] = {} /\ started[m] = 0
  BY DEF VInit
<1>2. \A x \in Handlers : h[x] = Idle
  BY DEF VInit
<1>3. VTypeOK
  BY VmAssumption DEF VInit, VTypeOK
<1>4. Numbered
  BY <1>1, Numbers DEF Numbered
<1>5. \A x \in Handlers : Known(x) /\ Progress(x)
  BY <1>2 DEF Known, Progress
<1>6. CreateAlone /\ LossIsExplained
  BY <1>1, <1>2 DEF CreateAlone, LossIsExplained, Unnamed
<1>. QED
  BY <1>3, <1>4, <1>5, <1>6 DEF IInv

LEMMA InvNext == IInv /\ [VNext]_vars => IInv'
BY TypeStep, NumberedStep, KnownStep, ProgressStep, CreateAloneStep, LossStep DEF IInv

\* Every reachable state satisfies the inductive invariant.
THEOREM Invariant == VSpec => []IInv
BY InvInit, InvNext, PTL DEF VSpec

\* The records, processes and requests of the daemon keep their ranges.
THEOREM Typing == VSpec => []VTypeOK
<1>1. IInv => VTypeOK
  BY DEF IInv
<1>. QED
  BY <1>1, Invariant, PTL

\* A running machine is lost at one of the five events and at no other, however
\* many requests of a machine interleave, between the emptying and the filling of
\* vm.json too, whichever of them fail, whenever the guest powers off and as often
\* as the daemon ends.
THEOREM LossesAreExplained == VSpec => []LossIsExplained
<1>1. IInv => LossIsExplained
  BY DEF IInv
<1>. QED
  BY <1>1, Invariant, PTL

\* While Create makes a machine nobody else serves it: the identity is fresh and
\* the directory has no record that another request could find.
THEOREM CreateIsAlone == VSpec => []CreateAlone
<1>1. IInv => CreateAlone
  BY DEF IInv
<1>. QED
  BY <1>1, Invariant, PTL

=============================================================================
