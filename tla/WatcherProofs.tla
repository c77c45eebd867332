---------------------------- MODULE WatcherProofs ----------------------------
(***************************************************************************)
(* For every tree, every set of cores, every queue limit and every number  *)
(* of disturbances and crashes: the types of Watcher, and that no          *)
(* directory whose creation was reported is forgotten.                     *)
(***************************************************************************)
EXTENDS Watcher, TLAPS

-----------------------------------------------------------------------------
(* Sequences of events                                                     *)

\* Overflow and stray events are about no path.
LEMMA EventsAboutNothing ==
  /\ Overflow \in AllEvents /\ Stray \in AllEvents
  /\ Overflow.path = NoPath /\ Stray.path = NoPath
  /\ \A op \in Ops, p \in Paths : Event(op, p) \in AllEvents
  /\ \A op, p : Event(op, p).path = p /\ Event(op, p).op = op
  /\ \A e \in AllEvents : e.path \in Paths \cup {NoPath}
  BY DEF Overflow, Stray, AllEvents, Event

\* inotify's queue keeps its type and its limit, whatever is reported.
LEMMA DeliveredType ==
  ASSUME NEW q \in Seq(AllEvents),
         Len(q) <= QueueLimit + 1,
         Len(q) > QueueLimit => HasOverflow(q),
         NEW e \in AllEvents,
         NEW r \in Delivered(q, e)
  PROVE  /\ r \in Seq(AllEvents)
         /\ Len(r) <= QueueLimit + 1
         /\ Len(r) > QueueLimit => HasOverflow(r)
<1> USE WatcherAssumption
<1>1. CASE r = q
  BY <1>1
<1>2. CASE Len(q) < QueueLimit /\ r = Append(q, e)
  BY <1>2
<1>3. CASE Len(q) = QueueLimit /\ r = Append(q, Overflow)
  <2>1. r \in Seq(AllEvents) /\ Len(r) = QueueLimit + 1
    BY <1>3, EventsAboutNothing
  <2>2. r[Len(r)] = Overflow /\ Len(r) \in 1..Len(r)
    BY <1>3, <2>1
  <2> QED  BY <2>1, <2>2 DEF HasOverflow
<1>4. Len(q) >= QueueLimit /\ ~HasOverflow(q) => Len(q) = QueueLimit
  OBVIOUS
<1> QED  BY <1>1, <1>2, <1>3, <1>4 DEF Delivered

\* A report about another path changes nothing for the directory d.
LEMMA DeliveredElsewhere ==
  ASSUME NEW q \in Seq(AllEvents), NEW e \in AllEvents,
         NEW d \in Dirs, e.path # d, NEW r \in Delivered(q, e)
  PROVE  /\ PendingCreate(q, d) => PendingCreate(r, d)
         /\ Silent(q, d) => Silent(r, d)
<1>1. CASE r = q
  BY <1>1
<1>2. ASSUME NEW x \in AllEvents, x.path # d, r = Append(q, x)
      PROVE  /\ PendingCreate(q, d) => PendingCreate(r, d)
             /\ Silent(q, d) => Silent(r, d)
  <2>1. Len(r) = Len(q) + 1 /\ r[Len(q) + 1] = x
    BY <1>2
  <2>2. \A i \in 1..Len(q) : r[i] = q[i]
    BY <1>2
  <2>3. ASSUME PendingCreate(q, d) PROVE PendingCreate(r, d)
    <3>1. PICK i \in 1..Len(q) :
            /\ q[i] = Event("create", d)
            /\ \A j \in (i + 1)..Len(q) : q[j].path # d
      BY <2>3 DEF PendingCreate
    <3>2. i \in 1..Len(r) /\ r[i] = Event("create", d)
      BY <2>1, <2>2, <3>1
    <3>3. \A j \in (i + 1)..Len(r) : r[j].path # d
      BY <1>2, <2>1, <2>2, <3>1
    <3> QED  BY <3>2, <3>3 DEF PendingCreate
  <2>4. Silent(q, d) => Silent(r, d)
    BY <1>2, <2>1, <2>2 DEF Silent
  <2> QED  BY <2>3, <2>4
<1>3. Overflow.path # d
  BY EventsAboutNothing, WatcherAssumption DEF Paths
<1> QED  BY <1>1, <1>2, <1>3, EventsAboutNothing DEF Delivered

\* A creation reported last is pending.
LEMMA LastIsPending ==
  ASSUME NEW q \in Seq(AllEvents), NEW d \in Dirs, q # <<>>,
         q[Len(q)] = Event("create", d)
  PROVE  PendingCreate(q, d)
<1>1. Len(q) \in 1..Len(q)
  OBVIOUS
<1> QED  BY <1>1 DEF PendingCreate

\* Handling the first event: what it leaves of an obligation towards d.
LEMMA TailKeeps ==
  ASSUME NEW q \in Seq(AllEvents), NEW d \in Dirs, q # <<>>
  PROVE  /\ Tail(q) \in Seq(AllEvents)
         /\ Len(Tail(q)) = Len(q) - 1
         /\ Silent(q, d) => Silent(Tail(q), d) /\ Head(q).path # d
         /\ PendingCreate(q, d) =>
              \/ PendingCreate(Tail(q), d)
              \/ Silent(Tail(q), d) /\ Head(q) = Event("create", d)
<1>1. /\ Tail(q) \in Seq(AllEvents)
      /\ Len(Tail(q)) = Len(q) - 1
      /\ \A i \in 1..Len(Tail(q)) : Tail(q)[i] = q[i + 1]
      /\ Head(q) = q[1] /\ 1 \in 1..Len(q)
  OBVIOUS
<1>2. ASSUME Silent(q, d) PROVE Silent(Tail(q), d) /\ Head(q).path # d
  BY <1>1, <1>2 DEF Silent
<1>3. ASSUME PendingCreate(q, d)
      PROVE  \/ PendingCreate(Tail(q), d)
             \/ Silent(Tail(q), d) /\ Head(q) = Event("create", d)
  <2>1. PICK i \in 1..Len(q) : /\ q[i] = Event("create", d)
                               /\ \A j \in (i + 1)..Len(q) : q[j].path # d
    BY <1>3 DEF PendingCreate
  <2>2. CASE i = 1
    BY <1>1, <2>1, <2>2 DEF Silent
  <2>3. CASE i > 1
    <3>1. i - 1 \in 1..Len(Tail(q)) /\ Tail(q)[i - 1] = Event("create", d)
      BY <1>1, <2>1, <2>3
    <3>2. \A j \in ((i - 1) + 1)..Len(Tail(q)) : Tail(q)[j].path # d
      BY <1>1, <2>1, <2>3
    <3> QED  BY <3>1, <3>2 DEF PendingCreate
  <2> QED  BY <2>2, <2>3
<1> QED  BY <1>1, <1>2, <1>3

\* The limit survives the handling of an event that is not the overflow.
LEMMA TailLimit ==
  ASSUME NEW q \in Seq(AllEvents), q # <<>>,
         Len(q) <= QueueLimit + 1
  PROVE  /\ Tail(q) \in Seq(AllEvents)
         /\ Len(Tail(q)) <= QueueLimit + 1
         /\ Len(Tail(q)) > QueueLimit => HasOverflow(Tail(q))
  BY WatcherAssumption

\* Forgetting the names below x spares the events about everything else.
LEMMA StrayedKeeps ==
  ASSUME NEW q \in Seq(AllEvents), NEW x \in Paths, NEW read \in {0, 1}
  PROVE  /\ Strayed(q, x, read) \in Seq(AllEvents)
         /\ Len(Strayed(q, x, read)) = Len(q)
         /\ \A d \in Dirs : Parent[d] # x =>
              /\ PendingCreate(q, d) => PendingCreate(Strayed(q, x, read), d)
              /\ Silent(q, d) => Silent(Strayed(q, x, read), d)
<1> DEFINE r == Strayed(q, x, read)
<1>1. \A i \in 1..Len(q) :
        /\ r[i] \in AllEvents
        /\ r[i] = q[i] \/ (Parent[q[i].path] = x /\ r[i] = Stray)
  BY EventsAboutNothing DEF Strayed
<1>2. r = [i \in 1..Len(q) |-> r[i]] /\ Len(q) \in Nat
  BY DEF Strayed
<1>3. r \in Seq(AllEvents) /\ Len(r) = Len(q)
  BY <1>1, <1>2
<1>4. ASSUME NEW d \in Dirs, Parent[d] # x
      PROVE  \A i \in 1..Len(q) :
               /\ q[i].path = d => r[i] = q[i]
               /\ q[i].path # d => r[i].path # d
  <2>1. Stray.path # d
    BY EventsAboutNothing, WatcherAssumption DEF Paths
  <2> QED  BY <1>1, <1>4, <2>1
<1>5. ASSUME NEW d \in Dirs, Parent[d] # x, PendingCreate(q, d)
      PROVE  PendingCreate(r, d)
  <2>1. PICK i \in 1..Len(q) : /\ q[i] = Event("create", d)
                               /\ \A j \in (i + 1)..Len(q) : q[j].path # d
    BY <1>5 DEF PendingCreate
  <2>2. i \in 1..Len(r) /\ r[i] = Event("create", d)
    BY <1>3, <1>4, <1>5, <2>1, EventsAboutNothing
  <2>3. \A j \in (i + 1)..Len(r) : r[j].path # d
    BY <1>3, <1>4, <1>5, <2>1
  <2> QED  BY <2>2, <2>3 DEF PendingCreate
<1>6. ASSUME NEW d \in Dirs, Parent[d] # x, Silent(q, d)
      PROVE  Silent(r, d)
  BY <1>3, <1>4, <1>6 DEF Silent
<1> QED  BY <1>3, <1>5, <1>6

-----------------------------------------------------------------------------
(* Cores                                                                   *)

\* What the kernel, the agent and operators do to a core keeps its type.
LEMMA CoreTypes ==
  ASSUME NEW core \in CoreState
  PROVE  /\ core.gen < MaxGen => BeginDump(core) \in CoreState
         /\ core.phase = "dumping" =>
              WriteDump(core) \in CoreState /\ WriteDump(core).gen = core.gen
         /\ Unlink(core) \in CoreState /\ Unlink(core).gen = core.gen
         /\ core.phase # "absent" =>
              Empty(core) \in CoreState /\ Empty(core).gen = core.gen
<1> USE CoreFSAssumption DEF CoreState, Phases
<1>1. core.gen < MaxGen => BeginDump(core) \in CoreState
  BY DEF BeginDump
<1>2. core.phase = "dumping" =>
        WriteDump(core) \in CoreState /\ WriteDump(core).gen = core.gen
  BY DEF WriteDump
<1>3. /\ Unlink(core) \in CoreState /\ Unlink(core).gen = core.gen
      /\ core.phase # "absent" =>
           Empty(core) \in CoreState /\ Empty(core).gen = core.gen
  BY DEF Unlink, Empty
<1> QED  BY <1>1, <1>2, <1>3

\* A report keeps the queue within its type.
LEMMA ReportType ==
  ASSUME QueueOK, NEW op \in Ops, NEW p \in Paths,
         Report(op, p) \/ ReportGone(op, p)
  PROVE  QueueOK'
<1>1. Event(op, p) \in AllEvents
  BY EventsAboutNothing
<1>2. CASE UNCHANGED queue
  BY <1>2 DEF QueueOK, HasOverflow
<1>3. CASE queue' \in Delivered(queue, Event(op, p))
  BY <1>1, <1>3, DeliveredType DEF QueueOK
<1> QED  BY <1>2, <1>3 DEF Report, ReportGone

\* So does the handling of an event.
LEMMA TailType ==
  ASSUME QueueOK, queue # <<>>, queue' = Tail(queue)
  PROVE  QueueOK'
  BY TailLimit DEF QueueOK

\* And so does the removal of a watch on the way.
LEMMA RemoveWatchType ==
  ASSUME QueueOK, queue # <<>>, watches \in SUBSET dirs, heard \in SUBSET Paths,
         UNCHANGED dirs, NEW p \in Paths, RemoveWatch(p, Tail(queue))
  PROVE  QueueOK' /\ watches' \in SUBSET dirs' /\ heard' \in SUBSET Paths
<1>1. watches' \in SUBSET dirs' /\ heard' \in SUBSET Paths
  BY DEF RemoveWatch
<1>2. CASE queue' = Tail(queue)
  BY <1>1, <1>2, TailType
<1>3. CASE \E read \in {0, 1} : queue' = Strayed(Tail(queue), p, read)
  <2>1. Tail(queue) \in Seq(AllEvents) /\ Len(Tail(queue)) <= QueueLimit
    BY WatcherAssumption DEF QueueOK
  <2>2. queue' \in Seq(AllEvents) /\ Len(queue') = Len(Tail(queue))
    BY <1>3, <2>1, StrayedKeeps
  <2> QED  BY <1>1, <2>1, <2>2, WatcherAssumption, SMTT(30) DEF QueueOK
<1> QED  BY <1>2, <1>3 DEF RemoveWatch

-----------------------------------------------------------------------------
(* Types                                                                   *)

LEMMA InitType == Init => TypeOK
  BY WatcherAssumption, CoreFSAssumption
  DEF Init, TypeOK, QueueOK, HasOverflow, NoCore, CoreState, Phases, PCs, Paths

\* The node's steps.
LEMMA NodeType == TypeOK /\ NodeStep => TypeOK'
<1> SUFFICES ASSUME TypeOK, NodeStep PROVE TypeOK'
  OBVIOUS
<1> USE WatcherAssumption, CoreFSAssumption
<1>1. ASSUME NEW d \in Dirs, MkDir(d) PROVE TypeOK'
  <2>1. QueueOK'
    BY <1>1, ReportType DEF TypeOK, MkDir, Ops, Paths
  <2> QED  BY <1>1, <2>1
           DEF TypeOK, MkDir, walkVars, fileVars, budgets, Paths
<1>2. ASSUME NEW d \in Dirs, NEW op \in {"remove", "rename"}, LoseDir(op, d)
      PROVE  TypeOK'
  <2>1. QueueOK'
    BY <1>2, ReportType DEF TypeOK, LoseDir, Ops, Paths
  <2> QED  BY <1>2, <2>1
           DEF TypeOK, LoseDir, walkVars, fileVars, budgets, Paths
<1>3. ASSUME NEW f \in Files, CoreBegin(f) PROVE TypeOK'
  <2>1. QueueOK'
    BY <1>3, ReportType DEF TypeOK, CoreBegin, Ops, Paths
  <2>2. BeginDump(disk[f]) \in CoreState /\ BeginDump(disk[f]).gen > 0
    BY <1>3, CoreTypes DEF TypeOK, CoreBegin, CoreState, BeginDump
  <2>3. /\ disk' \in [Files -> CoreState]
        /\ \A g \in Files : disk[g].gen > 0 => disk'[g].gen > 0
    BY <1>3, <2>2 DEF TypeOK, CoreBegin
  <2> QED  BY <1>3, <2>1, <2>3
           DEF TypeOK, CoreBegin, walkVars, fileVars, budgets, Paths
<1>4. ASSUME NEW f \in Files, CoreWrite(f) PROVE TypeOK'
  <2>1. QueueOK'
    BY <1>4, ReportType DEF TypeOK, CoreWrite, Ops, Paths
  <2>2. /\ WriteDump(disk[f]) \in CoreState
        /\ WriteDump(disk[f]).gen = disk[f].gen
    BY <1>4, CoreTypes DEF TypeOK, CoreWrite
  <2>3. /\ disk' \in [Files -> CoreState]
        /\ \A g \in Files : disk'[g].gen = disk[g].gen
    BY <1>4, <2>2 DEF TypeOK, CoreWrite
  <2> QED  BY <1>4, <2>1, <2>3
           DEF TypeOK, CoreWrite, walkVars, fileVars, budgets, Paths
<1>5. ASSUME NEW f \in Files, NEW op \in {"remove", "rename"}, LoseCore(op, f)
      PROVE  TypeOK'
  <2>1. QueueOK'
    BY <1>5, ReportType DEF TypeOK, LoseCore, Ops, Paths
  <2>2. Unlink(disk[f]) \in CoreState /\ Unlink(disk[f]).gen = disk[f].gen
    BY CoreTypes DEF TypeOK
  <2>3. /\ disk' \in [Files -> CoreState]
        /\ \A g \in Files : disk'[g].gen = disk[g].gen
    BY <1>5, <2>2 DEF TypeOK, LoseCore
  <2> QED  BY <1>5, <2>1, <2>3
           DEF TypeOK, LoseCore, walkVars, fileVars, budgets, Paths
<1> QED  BY <1>1, <1>2, <1>3, <1>4, <1>5
         DEF NodeStep, RmDir, MvDir, Purge, MvCore

\* Start, crashes and the walk.
LEMMA ProcessType == TypeOK /\ (Start \/ Crash \/ WalkStep) => TypeOK'
<1> SUFFICES ASSUME TypeOK, Start \/ Crash \/ WalkStep PROVE TypeOK'
  OBVIOUS
<1> USE WatcherAssumption, CoreFSAssumption
    DEF TypeOK, nodeVars, walkVars, fileVars, budgets
<1>1. UNCHANGED queue => QueueOK'
  BY DEF QueueOK, HasOverflow
<1>2. ProcessLost => QueueOK'
  BY DEF ProcessLost, QueueOK, HasOverflow
<1>3. CASE Start
  BY <1>1, <1>3 DEF Start, Paths, PCs
<1>4. CASE Crash
  BY <1>2, <1>4 DEF Crash, ProcessLost, PCs
<1>5. ASSUME NEW p \in Paths, WalkDir(p) PROVE TypeOK'
  BY <1>1, <1>5 DEF WalkDir, Entries, Paths
<1>6. ASSUME NEW p \in Paths, WalkFile(p) PROVE TypeOK'
  BY <1>1, <1>6 DEF WalkFile, Paths
<1>7. ASSUME NEW p \in Paths, WalkGone(p) PROVE TypeOK'
  <2>1. CASE ProcessLost
    BY <1>2, <1>7, <2>1 DEF WalkGone, ProcessLost, PCs
  <2>2. CASE UNCHANGED queue /\ UNCHANGED pc
    BY <1>1, <1>7, <2>2 DEF WalkGone, ProcessLost, PCs, Paths
  <2> QED  BY <1>7, <2>1, <2>2 DEF WalkGone
<1>8. CASE WalkAdd
  BY <1>1, <1>8 DEF WalkAdd, AddWatch, AddFails, Paths
<1>9. CASE WalkDone
  BY <1>1, <1>9 DEF WalkDone, PCs
<1> QED  BY <1>3, <1>4, <1>5, <1>6, <1>7, <1>8, <1>9 DEF WalkStep

\* The event loop.
LEMMA TakeType == TypeOK /\ (AddNewDir \/ TakeStep) => TypeOK'
<1> SUFFICES ASSUME TypeOK, AddNewDir \/ TakeStep PROVE TypeOK'
  OBVIOUS
<1> USE WatcherAssumption DEF TypeOK, nodeVars, walkVars, fileVars, budgets
<1>1. CASE AddNewDir
  <2>1. QueueOK'
    BY <1>1 DEF AddNewDir, QueueOK, HasOverflow
  <2> QED  BY <1>1, <2>1 DEF AddNewDir, AddWatch, AddFails, PCs, Paths
<1>2. ASSUME NEW d \in Dirs, TakeDirCreate(d) PROVE TypeOK'
  BY <1>2, TailType DEF TakeDirCreate, Receives, PCs, Paths
<1>3. ASSUME NEW f \in Files, TakeCore(f) PROVE TypeOK'
  <2>1. disk[f] \in CoreState /\ disk[f].phase # "absent"
    BY <1>3 DEF TakeCore, Exists, OnDisk, Paths
  <2>2. disk[f].size \in 0..CoreSize /\ disk[f].gen > 0
    BY <2>1 DEF CoreState
  <2>3. QueueOK'
    BY <1>3, TailType DEF TakeCore, Receives
  <2> QED  BY <1>3, <2>2, <2>3 DEF TakeCore, PCs, Paths
<1>4. ASSUME NEW p \in Paths, TakeIdly(p) PROVE TypeOK'
  BY <1>4, TailType DEF TakeIdly, Receives
<1>5. ASSUME NEW p \in Paths, TakeRemove(p) PROVE TypeOK'
  BY <1>5, TailType, RemoveWatchType DEF TakeRemove, Receives, Unmarked
<1>6. ASSUME NEW p \in Paths, TakeRename(p) PROVE TypeOK'
  BY <1>6, RemoveWatchType DEF TakeRename, Receives
<1>7. CASE TakeStray
  BY <1>7, TailType DEF TakeStray, Receives
<1>8. CASE TakeOverflow
  BY <1>8, TailType DEF TakeOverflow, Receives, PCs
<1> QED  BY <1>1, <1>2, <1>3, <1>4, <1>5, <1>6, <1>7, <1>8 DEF TakeStep

\* The capture of a core, and what its consumer does.
LEMMA CaptureType == TypeOK /\ (FileStep \/ ConsumerStep) => TypeOK'
<1> SUFFICES ASSUME TypeOK, FileStep \/ ConsumerStep PROVE TypeOK'
  OBVIOUS
<1> USE WatcherAssumption, CoreFSAssumption
    DEF TypeOK, nodeVars, walkVars, fileVars, budgets
<1>1. UNCHANGED queue => QueueOK'
  BY DEF QueueOK, HasOverflow
<1>2. CASE SecondStat
  <2>1. ev \in Files /\ disk[ev].size \in 0..CoreSize
    BY <1>2 DEF SecondStat, CoreState
  <2> QED  BY <1>1, <1>2, <2>1
           DEF SecondStat, Marked, InitialSize, PCs, Paths
<1>3. CASE Send
  <2>1. ev \in Files /\ disk[ev].gen \in 1..MaxGen
    BY <1>3, CoreFSAssumption DEF Send, CoreState
  <2>2. captures' \in [Files -> [1..MaxGen -> 0..2]]
    <3> DEFINE c == captures[ev][disk[ev].gen]
               row == [captures[ev] EXCEPT
                         ![disk[ev].gen] = IF c < 2 THEN c + 1 ELSE c]
    <3>1. captures \in [Files -> [1..MaxGen -> 0..2]]
      OBVIOUS
    <3>4. captures[ev] \in [1..MaxGen -> 0..2]
      BY <2>1, <3>1
    <3>5. c \in 0..2
      BY <2>1, <3>4
    <3>2. row \in [1..MaxGen -> 0..2]
      BY <2>1, <3>4, <3>5
    <3>3. captures' = [captures EXCEPT ![ev] = row]
      BY <1>3 DEF Send
    <3> HIDE DEF row
    <3> QED  BY <2>1, <3>1, <3>2, <3>3
  <2> QED  BY <1>1, <1>3, <2>1, <2>2 DEF Send, PCs
<1>4. ASSUME NEW f \in Files, Dispose(f) PROVE TypeOK'
  <2>1. QueueOK'
    BY <1>4, ReportType DEF Dispose, Ops, Paths
  <2>2. /\ Unlink(disk[f]) \in CoreState
        /\ Unlink(disk[f]).gen = disk[f].gen
        /\ disk[f].phase # "absent" => /\ Empty(disk[f]) \in CoreState
                                       /\ Empty(disk[f]).gen = disk[f].gen
    BY CoreTypes
  <2>3. /\ disk' \in [Files -> CoreState]
        /\ \A g \in Files : disk'[g].gen = disk[g].gen
    <3>1. PICK core \in CoreState : /\ core.gen = disk[f].gen
                                   /\ disk' = [disk EXCEPT ![f] = core]
      BY <1>4, <2>2 DEF Dispose, OnDisk
    <3> QED  BY <3>1
  <2> QED  BY <1>4, <2>1, <2>3 DEF Dispose
<1>5. CASE Finish
  BY <1>1, <1>5 DEF Finish
<1> QED  BY <1>2, <1>3, <1>4, <1>5 DEF FileStep, ConsumerStep

LEMMA TypeStep == TypeOK /\ [Next]_vars => TypeOK'
<1> SUFFICES ASSUME TypeOK, [Next]_vars PROVE TypeOK'
  OBVIOUS
<1>1. CASE UNCHANGED vars
  BY <1>1 DEF TypeOK, QueueOK, HasOverflow, vars
<1>2. CASE Next
  BY <1>2, NodeType, ProcessType, TakeType, CaptureType DEF Next, WatcherStep
<1> QED  BY <1>1, <1>2

\* The types hold, the limit of the queue and the path an event is handled
\* for among them, in every state of every run of the watcher.
THEOREM TypeCorrect == Spec => []TypeOK
BY InitType, TypeStep, PTL DEF Spec

-----------------------------------------------------------------------------
(* Reported directories are not forgotten                                  *)

\* What is owed to d stays owed when the queue keeps what concerns d and d
\* keeps its watch, its refusal or its turn.
LEMMA CoveredStays ==
  ASSUME NEW d \in Dirs, Covered(d),
         PendingCreate(queue, d) => PendingCreate(queue, d)',
         Silent(queue, d) => Silent(queue, d)',
         d \in watches \cup refused => d \in watches' \cup refused',
         pc = "adding" /\ ev = d => \/ pc' = "adding" /\ ev' = d
                                   \/ d \in watches' \cup refused'
  PROVE  Covered(d)'
  BY DEF Covered

\* A report about another path, with watches and handling as they were.
LEMMA ReportElsewhere ==
  ASSUME TypeOK, NEW d \in Dirs, NEW op \in Ops, NEW p \in Paths, p # d,
         Report(op, p) \/ ReportGone(op, p)
  PROVE  /\ PendingCreate(queue, d) => PendingCreate(queue, d)'
         /\ Silent(queue, d) => Silent(queue, d)'
<1>1. Event(op, p) \in AllEvents /\ Event(op, p).path # d
  BY EventsAboutNothing
<1>2. CASE UNCHANGED queue
  BY <1>2 DEF PendingCreate, Silent
<1>3. CASE queue' \in Delivered(queue, Event(op, p))
  <2>1. \A r \in Delivered(queue, Event(op, p)) :
          /\ PendingCreate(queue, d) => PendingCreate(r, d)
          /\ Silent(queue, d) => Silent(r, d)
    BY <1>1, DeliveredElsewhere DEF TypeOK, QueueOK
  <2> QED  BY <1>3, <2>1 DEF PendingCreate, Silent
<1> QED  BY <1>2, <1>3 DEF Report, ReportGone

\* Steps that leave the queue alone.
LEMMA SameQueue ==
  ASSUME UNCHANGED queue, NEW d \in Dirs
  PROVE  /\ PendingCreate(queue, d) => PendingCreate(queue, d)'
         /\ Silent(queue, d) => Silent(queue, d)'
  BY DEF PendingCreate, Silent

\* The node's steps: a directory is heard of again only with its creation
\* last in the queue, and is not heard of any more once it is gone.
LEMMA NodeCovers ==
  TypeOK /\ TypeOK' /\ HeardDirCovered /\ NodeStep => HeardDirCovered'
<1> SUFFICES ASSUME TypeOK, TypeOK', HeardDirCovered, NodeStep,
                    NEW d \in heard' \cap Dirs
             PROVE  d \in dirs' /\ Covered(d)'
  BY DEF HeardDirCovered
<1> USE WatcherAssumption DEF Ops, Paths
<1>1. ASSUME NEW x \in Dirs, MkDir(x) PROVE d \in dirs' /\ Covered(d)'
  <2>1. CASE d \notin heard
    <3>1. d = x /\ Told("create", x)
      BY <1>1, <2>1 DEF MkDir
    <3>2. queue' # <<>> /\ queue'[Len(queue')] = Event("create", d)
      BY <3>1 DEF Told
    <3>3. PendingCreate(queue', d)
      BY <3>2, LastIsPending DEF TypeOK, QueueOK
    <3>4. PendingCreate(queue, d)'
      BY <3>3 DEF PendingCreate
    <3> QED  BY <1>1, <3>1, <3>4 DEF MkDir, Covered
  <2>2. CASE d \in heard
    <3>1. d \in dirs /\ Covered(d) /\ d # x
      BY <1>1, <2>2 DEF HeardDirCovered, MkDir
    <3> QED  BY <1>1, <3>1, ReportElsewhere, CoveredStays DEF MkDir
  <2> QED  BY <2>1, <2>2
<1>2. ASSUME NEW x \in Dirs, NEW op \in {"remove", "rename"}, LoseDir(op, x)
      PROVE  d \in dirs' /\ Covered(d)'
  <2>1. d # x /\ d \in dirs /\ Covered(d)
    BY <1>2 DEF HeardDirCovered, LoseDir
  <2> QED  BY <1>2, <2>1, ReportElsewhere, CoveredStays DEF LoseDir
<1>3. ASSUME NEW f \in Files, CoreBegin(f) PROVE d \in dirs' /\ Covered(d)'
  <2>1. d # f /\ d \in dirs /\ Covered(d)
    BY <1>3 DEF HeardDirCovered, CoreBegin
  <2> QED  BY <1>3, <2>1, ReportElsewhere, CoveredStays DEF CoreBegin
<1>4. ASSUME NEW f \in Files, CoreWrite(f) PROVE d \in dirs' /\ Covered(d)'
  <2>1. d # f /\ d \in dirs /\ Covered(d)
    BY <1>4 DEF HeardDirCovered, CoreWrite
  <2> QED  BY <1>4, <2>1, ReportElsewhere, CoveredStays DEF CoreWrite
<1>5. ASSUME NEW f \in Files, NEW op \in {"remove", "rename"}, LoseCore(op, f)
      PROVE  d \in dirs' /\ Covered(d)'
  <2>1. d # f /\ d \in dirs /\ Covered(d)
    BY <1>5 DEF HeardDirCovered, LoseCore
  <2> QED  BY <1>5, <2>1, ReportElsewhere, CoveredStays DEF LoseCore
<1> QED  BY <1>1, <1>2, <1>3, <1>4, <1>5
         DEF NodeStep, RmDir, MvDir, Purge, MvCore

\* Start, crashes and the walk: nothing but watches is added.
LEMMA ProcessCovers ==
  TypeOK /\ HeardDirCovered /\ (Start \/ Crash \/ WalkStep) => HeardDirCovered'
<1> SUFFICES ASSUME TypeOK, HeardDirCovered, Start \/ Crash \/ WalkStep,
                    NEW d \in heard' \cap Dirs
             PROVE  d \in dirs' /\ Covered(d)'
  BY DEF HeardDirCovered
<1> USE DEF nodeVars, walkVars
<1>1. ASSUME UNCHANGED <<queue, dirs, heard>>, pc # "adding",
             watches \cup refused \subseteq watches' \cup refused'
      PROVE  d \in dirs' /\ Covered(d)'
  <2>1. d \in dirs /\ Covered(d)
    BY <1>1 DEF HeardDirCovered
  <2> QED  BY <1>1, <2>1, SameQueue, CoveredStays
<1>2. ~ProcessLost
  BY DEF ProcessLost
<1>3. CASE Start
  BY <1>1, <1>3 DEF Start
<1>4. CASE Crash
  BY <1>2, <1>4 DEF Crash
<1>5. ASSUME NEW p \in Paths, WalkDir(p) \/ WalkFile(p)
      PROVE  d \in dirs' /\ Covered(d)'
  BY <1>1, <1>5 DEF WalkDir, WalkFile
<1>6. ASSUME NEW p \in Paths, WalkGone(p) PROVE d \in dirs' /\ Covered(d)'
  BY <1>1, <1>2, <1>6 DEF WalkGone
<1>7. CASE WalkAdd
  BY <1>1, <1>7 DEF WalkAdd, AddWatch, AddFails
<1>8. CASE WalkDone
  BY <1>1, <1>8 DEF WalkDone
<1> QED  BY <1>3, <1>4, <1>5, <1>6, <1>7, <1>8 DEF WalkStep

\* The event that is handled: unless it is the last one about d it changes
\* nothing for d, and if it is, it is d's creation and d is there.
LEMMA TakeCovers ==
  TypeOK /\ HeardDirCovered /\ (AddNewDir \/ TakeStep) => HeardDirCovered'
<1> SUFFICES ASSUME TypeOK, HeardDirCovered, AddNewDir \/ TakeStep,
                    NEW d \in heard' \cap Dirs
             PROVE  d \in dirs' /\ Covered(d)'
  BY DEF HeardDirCovered
<1> USE WatcherAssumption DEF nodeVars, walkVars, fileVars, budgets, Paths
<1>1. CASE AddNewDir
  <2>1. d \in dirs /\ Covered(d)
    BY <1>1 DEF HeardDirCovered, AddNewDir
  <2>2. \/ watches' = watches \cup {ev} /\ refused' = refused \ {ev}
        \/ /\ watches' = watches
           /\ refused' = IF ev \in dirs \ watches THEN refused \cup {ev}
                         ELSE refused
    BY <1>1 DEF AddNewDir, AddWatch, AddFails
  <2> QED  BY <1>1, <2>1, <2>2, SameQueue, CoveredStays DEF AddNewDir
<1>2. CASE TakeStep
  <2>1. queue # <<>> /\ pc = "idle" /\ UNCHANGED dirs
    BY <1>2 DEF TakeStep, TakeDirCreate, TakeCore, TakeIdly, TakeRemove,
                TakeRename, TakeStray, TakeOverflow, Receives
  <2>2. d \in heard
    BY <1>2 DEF TakeStep, TakeDirCreate, TakeCore, TakeIdly, TakeRemove,
                TakeRename, TakeStray, TakeOverflow, RemoveWatch
  <2>3. d \in dirs /\ Covered(d)
    BY <2>2 DEF HeardDirCovered
  <2>4. /\ Silent(queue, d) => Silent(Tail(queue), d) /\ Head(queue).path # d
        /\ PendingCreate(queue, d) =>
             \/ PendingCreate(Tail(queue), d)
             \/ Silent(Tail(queue), d) /\ Head(queue) = Event("create", d)
    BY <2>1, TailKeeps DEF TypeOK, QueueOK
  <2>5. \A op, p : Receives(Event(op, p)) /\ p # d =>
          /\ Head(queue).path # d
          /\ Head(queue) # Event("create", d)
    BY DEF Receives, Event
  <2>6. ASSUME queue' = Tail(queue), UNCHANGED refused,
               Head(queue) # Event("create", d),
               Head(queue).path # d => (d \in watches => d \in watches')
        PROVE  Covered(d)'
    <3>1. CASE PendingCreate(queue, d)
      BY <2>4, <2>6, <3>1 DEF Covered, PendingCreate
    <3>2. CASE Silent(queue, d)
      BY <2>1, <2>3, <2>4, <2>6, <3>2
      DEF Covered, Silent, PendingCreate, Event
    <3> QED  BY <2>3, <3>1, <3>2 DEF Covered
  <2>7. ASSUME NEW p \in Paths, RemoveWatch(p, Tail(queue)), UNCHANGED refused,
               Head(queue).path = p, Head(queue).op # "create"
        PROVE  Covered(d)'
    <3>1. Head(queue) # Event("create", d)
      BY <2>7 DEF Event
    <3>2. p # d => (d \in watches => d \in watches')
      BY <2>7 DEF RemoveWatch
    <3>3. CASE queue' = Tail(queue)
      BY <2>6, <2>7, <3>1, <3>2, <3>3
    <3>4. ASSUME NEW read \in {0, 1}, p \in watches,
                 queue' = Strayed(Tail(queue), p, read)
          PROVE  Covered(d)'
      <4>1. Parent[d] # p
        BY <2>7, <3>4 DEF RemoveWatch
      <4>2. /\ PendingCreate(Tail(queue), d) => PendingCreate(queue', d)
            /\ Silent(Tail(queue), d) => Silent(queue', d)
        BY <2>1, <3>4, <4>1, StrayedKeeps, TailLimit DEF TypeOK, QueueOK
      <4>3. CASE PendingCreate(queue, d)
        BY <2>4, <3>1, <4>2, <4>3 DEF Covered, PendingCreate
      <4>4. CASE Silent(queue, d)
        <5>1. d \in watches \cup refused \/ PendingCreate(queue, d)
          BY <2>1, <2>3 DEF Covered
        <5>2. Silent(queue', d) /\ p # d
          BY <2>4, <2>7, <4>2, <4>4
        <5> QED  BY <2>7, <3>2, <4>3, <5>1, <5>2 DEF Covered, Silent
      <4> QED  BY <2>3, <4>3, <4>4 DEF Covered
    <3> QED  BY <2>7, <3>3, <3>4 DEF RemoveWatch
  <2>8. ASSUME NEW x \in Dirs, TakeDirCreate(x) PROVE Covered(d)'
    <3>1. CASE x # d
      BY <2>5, <2>6, <2>8, <3>1 DEF TakeDirCreate
    <3>2. CASE x = d
      <4>1. CASE Silent(Tail(queue), d)
        BY <2>8, <3>2, <4>1 DEF TakeDirCreate, Covered, Silent
      <4>2. CASE PendingCreate(Tail(queue), d)
        BY <2>8, <4>2 DEF TakeDirCreate, Covered, PendingCreate
      <4>3. Head(queue).path = d
        BY <2>8, <3>2 DEF TakeDirCreate, Receives, Event
      <4> QED  BY <2>3, <2>4, <4>1, <4>2, <4>3 DEF Covered
    <3> QED  BY <3>1, <3>2
  <2>9. ASSUME NEW f \in Files, TakeCore(f) PROVE Covered(d)'
    BY <2>5, <2>6, <2>9 DEF TakeCore
  <2>10. ASSUME NEW p \in Paths, TakeIdly(p) PROVE Covered(d)'
    <3>1. Head(queue) # Event("create", d)
      BY <2>3, <2>10 DEF TakeIdly, Receives, Event
    <3> QED  BY <2>6, <2>10, <3>1 DEF TakeIdly
  <2>11. ASSUME NEW p \in Paths, TakeRemove(p) PROVE Covered(d)'
    <3>1. Head(queue).path = p /\ Head(queue).op # "create"
      BY <2>11 DEF TakeRemove, Receives, Event
    <3>2. CASE RemoveWatch(p, Tail(queue))
      BY <2>7, <2>11, <3>1, <3>2 DEF TakeRemove
    <3>3. CASE queue' = Tail(queue) /\ UNCHANGED watches
      BY <2>6, <2>11, <3>1, <3>3 DEF TakeRemove, Event
    <3> QED  BY <2>11, <3>2, <3>3 DEF TakeRemove
  <2>12. ASSUME NEW p \in Paths, TakeRename(p) PROVE Covered(d)'
    <3>1. Head(queue).path = p /\ Head(queue).op # "create"
      BY <2>12 DEF TakeRename, Receives, Event
    <3> QED  BY <2>7, <2>12, <3>1 DEF TakeRename
  <2>13. CASE TakeStray
    BY <2>1, <2>3, <2>6, <2>13 DEF TakeStray, Receives, Stray, Event
  <2>14. CASE TakeOverflow
    BY <2>1, <2>3, <2>6, <2>14 DEF TakeOverflow, Receives, Overflow, Event
  <2> QED  BY <1>2, <2>1, <2>3, <2>8, <2>9, <2>10, <2>11, <2>12, <2>13, <2>14
           DEF TakeStep
<1> QED  BY <1>1, <1>2

\* The capture of a core, and what its consumer does.
LEMMA CaptureCovers ==
  TypeOK /\ HeardDirCovered /\ (FileStep \/ ConsumerStep) => HeardDirCovered'
<1> SUFFICES ASSUME TypeOK, HeardDirCovered, FileStep \/ ConsumerStep,
                    NEW d \in heard' \cap Dirs
             PROVE  d \in dirs' /\ Covered(d)'
  BY DEF HeardDirCovered
<1> USE WatcherAssumption DEF nodeVars, walkVars, Paths, Ops
<1>1. CASE SecondStat \/ Send \/ Finish
  <2>1. d \in dirs /\ Covered(d)
    BY <1>1 DEF HeardDirCovered, SecondStat, Send, Finish
  <2> QED  BY <1>1, <2>1, SameQueue, CoveredStays
           DEF SecondStat, Send, Finish
<1>2. ASSUME NEW f \in Files, Dispose(f) PROVE d \in dirs' /\ Covered(d)'
  <2>1. d # f /\ d \in dirs /\ Covered(d)
    BY <1>2 DEF HeardDirCovered, Dispose
  <2> QED  BY <1>2, <2>1, ReportElsewhere, CoveredStays DEF Dispose
<1> QED  BY <1>1, <1>2 DEF FileStep, ConsumerStep

\* No directory whose creation was reported is forgotten, however directories
\* come, go and come back while their events wait.
THEOREM DirCovered == Spec => []HeardDirCovered
<1>1. Init => HeardDirCovered
  BY DEF Init, HeardDirCovered
<1>2. TypeOK /\ TypeOK' /\ HeardDirCovered /\ [Next]_vars => HeardDirCovered'
  <2> SUFFICES ASSUME TypeOK, TypeOK', HeardDirCovered, [Next]_vars
               PROVE  HeardDirCovered'
    OBVIOUS
  <2>1. CASE UNCHANGED vars
    BY <2>1 DEF vars, HeardDirCovered, Covered, PendingCreate, Silent
  <2>2. CASE Next
    BY <2>2, NodeCovers, ProcessCovers, TakeCovers, CaptureCovers
    DEF Next, WatcherStep
  <2> QED  BY <2>1, <2>2
<1> QED  BY <1>1, <1>2, TypeCorrect, PTL DEF Spec
-----------------------------------------------------------------------------
(* No dump is sent twice                                                   *)

\* The event e waits in queue q.
Has(q, e) == \E i \in 1..Len(q) : q[i] = e

\* A core that was sent will not be sent again: its mark is there, or its
\* file is not, or, after a restart, nothing will come up about it.
Settled(f) ==
  \/ f \in processed
  \/ disk[f].phase = "absent"
  \/ /\ busy # f
     /\ ~Has(queue, Event("create", f)) /\ ~Has(queue, Event("write", f))

\* The inductive invariant for a path that is dumped to once: a mark goes
\* only with the file, the consumer has what was sent, and only a complete
\* core with a mark is being sent.
Once(f) ==
  /\ captures[f][1] \in 0..1
  /\ Has(queue, Event("remove", f)) => disk[f].phase = "absent" /\ disk[f].gen > 0
  /\ busy = f => captures[f][1] = 1
  /\ captures[f][1] = 1 => /\ disk[f].gen > 0 /\ disk[f].phase # "dumping"
                           /\ ~(pc \in {"sleeping", "sending"} /\ ev = f)
                           /\ Settled(f)
  /\ pc = "sending" /\ ev = f => f \in processed /\ disk[f].phase # "dumping"

OnceInv == \A f \in Files : Once(f)

\* A report adds nothing to the queue but the event, or the overflow.
LEMMA ReportHas ==
  ASSUME TypeOK, NEW op \in Ops, NEW p \in Paths,
         Report(op, p) \/ ReportGone(op, p),
         NEW o \in Ops, NEW f \in Files, p # f \/ o # op,
         Has(queue', Event(o, f))
  PROVE  Has(queue, Event(o, f))
<1> DEFINE e == Event(o, f)
<1>1. e # Event(op, p) /\ e # Overflow
  BY WatcherAssumption DEF Event, Overflow, Paths
<1>2. queue \in Seq(AllEvents)
  BY DEF TypeOK, QueueOK
<1> HIDE DEF e
<1>3. ASSUME NEW x, x # e, queue' = Append(queue, x), Has(queue', e)
      PROVE  Has(queue, e)
  <2>1. /\ Len(queue') = Len(queue) + 1 /\ queue'[Len(queue) + 1] = x
        /\ \A i \in 1..Len(queue) : queue'[i] = queue[i]
        /\ Len(queue) \in Nat
    BY <1>2, <1>3
  <2> QED  BY <1>3, <2>1 DEF Has
<1>4. \/ queue' = queue
      \/ queue' = Append(queue, Event(op, p))
      \/ queue' = Append(queue, Overflow)
  BY DEF Report, ReportGone, Delivered
<1> QED  BY <1>1, <1>3, <1>4 DEF e

\* Nor does the handling of an event add one, but strays.
LEMMA TailHas ==
  ASSUME QueueOK, queue # <<>>, NEW e, Has(Tail(queue), e)
  PROVE  Has(queue, e)
<1>1. /\ Len(Tail(queue)) = Len(queue) - 1 /\ Len(queue) \in Nat
      /\ \A i \in 1..Len(Tail(queue)) : Tail(queue)[i] = queue[i + 1]
  BY DEF QueueOK
<1>2. PICK i \in 1..Len(Tail(queue)) : Tail(queue)[i] = e
  BY DEF Has
<1>3. i + 1 \in 1..Len(queue) /\ queue[i + 1] = e
  BY <1>1, <1>2
<1> QED  BY <1>3 DEF Has

LEMMA RemoveWatchHas ==
  ASSUME QueueOK, queue # <<>>, NEW p \in Paths, RemoveWatch(p, Tail(queue)),
         NEW o \in Ops, NEW f \in Files, Has(queue', Event(o, f))
  PROVE  Has(queue, Event(o, f))
<1>1. CASE queue' = Tail(queue)
  BY <1>1, TailHas
<1>2. CASE \E read \in {0, 1} : queue' = Strayed(Tail(queue), p, read)
  <2>1. PICK read \in {0, 1} : queue' = Strayed(Tail(queue), p, read)
    BY <1>2
  <2>2. Tail(queue) \in Seq(AllEvents)
    BY DEF QueueOK
  <2>3. Len(queue') = Len(Tail(queue))
    BY <2>1, <2>2, StrayedKeeps
  <2>4. \A i \in 1..Len(queue') : queue'[i] = Tail(queue)[i] \/ queue'[i] = Stray
    BY <2>1, <2>3 DEF Strayed
  <2>5. Event(o, f) # Stray
    BY WatcherAssumption DEF Event, Stray, Paths
  <2>6. Has(Tail(queue), Event(o, f))
    BY <2>3, <2>4, <2>5 DEF Has
  <2> QED  BY <2>6, TailHas
<1> QED  BY <1>1, <1>2 DEF RemoveWatch

\* Steps that leave the core f and its mark alone.
LEMMA OnceStays ==
  ASSUME NEW f \in Files, Once(f),
         captures'[f] = captures[f], disk'[f] = disk[f],
         \A o \in Ops : Has(queue', Event(o, f)) => Has(queue, Event(o, f)),
         f \in processed => f \in processed',
         busy' = f => busy = f,
         pc' \in {"sleeping", "sending"} /\ ev' = f => pc' = pc /\ ev' = ev
  PROVE  Once(f)'
<1>1. "create" \in Ops /\ "write" \in Ops /\ "remove" \in Ops
  BY DEF Ops
<1>2. \A o \in {"create", "write", "remove"} :
        Has(queue, Event(o, f))' => Has(queue, Event(o, f))
  BY <1>1 DEF Has, Event
<1> QED  BY <1>2 DEF Once, Settled

\* The process is lost, and what it knew of the core.
LEMMA OnceLost ==
  ASSUME NEW f \in Files, Once(f), ProcessLost, UNCHANGED <<disk, captures>>
  PROVE  Once(f)'
<1>1. \A e : ~Has(queue, e)'
  BY DEF ProcessLost, Has
<1> QED  BY <1>1, WatcherAssumption DEF Once, Settled, ProcessLost, Paths

LEMMA OnceNode ==
  ASSUME MaxGen = 1, TypeOK, OnceInv, NodeStep, NEW f \in Files
  PROVE  Once(f)'
<1>1. Once(f) /\ disk \in [Files -> CoreState] /\ f \in Paths
  BY DEF OnceInv, TypeOK, Paths
<1>2. disk[f] \in CoreState
  BY <1>1
<1>3. disk[f].gen > 0 => disk[f].gen = 1
  BY <1>2 DEF CoreState
<1>4. UNCHANGED queue => \A e : Has(queue', e) => Has(queue, e)
  OBVIOUS
<1>5. ASSUME NEW d \in Dirs, NEW op \in Ops, MkDir(d) \/ LoseDir(op, d)
      PROVE  Once(f)'
  <2>1. d # f /\ d \in Paths /\ "create" \in Ops
    BY WatcherAssumption DEF Paths, Ops
  <2>2. \A o \in Ops : Has(queue', Event(o, f)) => Has(queue, Event(o, f))
    BY <1>5, <2>1, ReportHas DEF MkDir, LoseDir
  <2> QED  BY <1>1, <1>5, <2>2, OnceStays DEF MkDir, LoseDir, fileVars
<1>6. ASSUME NEW x \in Files, x # f, NEW op \in Ops, Report(op, x),
             \E core : disk' = [disk EXCEPT ![x] = core],
             UNCHANGED <<captures, processed, busy, pc, ev>>
      PROVE  Once(f)'
  <2>1. x \in Paths
    BY DEF Paths
  <2>2. \A o \in Ops : Has(queue', Event(o, f)) => Has(queue, Event(o, f))
    BY <1>6, <2>1, ReportHas
  <2>3. disk'[f] = disk[f]
    BY <1>1, <1>6
  <2> QED  BY <1>1, <1>6, <2>2, <2>3, OnceStays
<1>7. ASSUME NEW x \in Files, CoreBegin(x) PROVE Once(f)'
  <2>1. PICK op \in {"create", "write"} : Report(op, x)
    BY <1>7 DEF CoreBegin
  <2>2. op \in Ops /\ "remove" \in Ops /\ op # "remove"
    BY DEF Ops
  <2>3. CASE x # f
    BY <1>6, <1>7, <2>1, <2>2, <2>3 DEF CoreBegin, fileVars
  <2>4. CASE x = f
    <3>1. ~(disk[f].gen > 0)
      BY <1>2, <1>3, <1>7, <2>4 DEF CoreBegin
    <3>2. ~Has(queue', Event("remove", f))
      BY <1>1, <2>1, <2>2, <2>4, <3>1, ReportHas DEF Once
    <3>3. captures[f][1] = 0 /\ busy # f
      BY <1>1, <3>1 DEF Once
    <3>4. ~(pc = "sending" /\ ev = f)
      BY <3>1 DEF TypeOK
    <3>5. UNCHANGED <<captures, busy, pc, ev>>
      BY <1>7 DEF CoreBegin
    <3> QED  BY <3>2, <3>3, <3>4, <3>5 DEF Once, Has, Event
  <2> QED  BY <2>3, <2>4
<1>8. ASSUME NEW x \in Files, CoreWrite(x) PROVE Once(f)'
  <2>1. Report("write", x) /\ "write" \in Ops /\ "remove" \in Ops
    BY <1>8 DEF CoreWrite, Ops
  <2>2. CASE x # f
    BY <1>6, <1>8, <2>1, <2>2 DEF CoreWrite, fileVars
  <2>3. CASE x = f
    <3>1. disk[f].phase = "dumping"
      BY <1>8, <2>3 DEF CoreWrite
    <3>2. ~Has(queue', Event("remove", f))
      BY <1>1, <2>1, <2>3, <3>1, ReportHas DEF Once
    <3>3. captures[f][1] = 0 /\ busy # f /\ ~(pc = "sending" /\ ev = f)
      BY <1>1, <3>1 DEF Once
    <3>4. UNCHANGED <<captures, busy, pc, ev>>
      BY <1>8 DEF CoreWrite
    <3> QED  BY <3>2, <3>3, <3>4 DEF Once, Has, Event
  <2> QED  BY <2>2, <2>3
<1>9. ASSUME NEW x \in Files, NEW op \in {"remove", "rename"}, LoseCore(op, x)
      PROVE  Once(f)'
  <2>1. Report(op, x) /\ op \in Ops
    BY <1>9 DEF LoseCore, Ops
  <2>2. CASE x # f
    BY <1>6, <1>9, <2>1, <2>2 DEF LoseCore, fileVars
  <2>3. CASE x = f
    <3>1. disk'[f] = Unlink(disk[f]) /\ disk[f].phase # "absent"
      BY <1>1, <1>9, <2>3 DEF LoseCore
    <3>2. disk'[f].gen > 0 /\ disk'[f].phase = "absent"
      BY <1>2, <3>1 DEF Unlink, CoreState
    <3>3. UNCHANGED <<captures, processed, busy, pc, ev>>
      BY <1>9 DEF LoseCore, fileVars
    <3> QED  BY <1>1, <3>2, <3>3 DEF Once, Settled
  <2> QED  BY <2>2, <2>3
<1> QED  BY <1>5, <1>7, <1>8, <1>9
         DEF NodeStep, RmDir, MvDir, Purge, MvCore, Ops

LEMMA OnceProcess ==
  ASSUME TypeOK, OnceInv, Start \/ Crash \/ WalkStep \/ AddNewDir,
         NEW f \in Files
  PROVE  Once(f)'
<1>1. Once(f)
  BY DEF OnceInv
<1>2. ASSUME UNCHANGED <<disk, captures, queue, processed, busy>>,
             pc' \notin {"sleeping", "sending"}
      PROVE  Once(f)'
  BY <1>1, <1>2, OnceStays
<1> USE DEF nodeVars, fileVars
<1>3. CASE Start
  BY <1>2, <1>3 DEF Start
<1>4. CASE Crash
  BY <1>1, <1>4, OnceLost DEF Crash
<1>5. ASSUME NEW p \in Paths, WalkDir(p) \/ WalkFile(p) PROVE Once(f)'
  BY <1>2, <1>5 DEF WalkDir, WalkFile
<1>6. ASSUME NEW p \in Paths, WalkGone(p) PROVE Once(f)'
  BY <1>1, <1>2, <1>6, OnceLost DEF WalkGone
<1>7. CASE WalkAdd \/ WalkDone \/ AddNewDir
  BY <1>2, <1>7 DEF WalkAdd, WalkDone, AddNewDir
<1> QED  BY <1>3, <1>4, <1>5, <1>6, <1>7 DEF WalkStep

LEMMA OnceTake ==
  ASSUME TypeOK, OnceInv, TakeStep, NEW f \in Files
  PROVE  Once(f)'
<1> USE DEF nodeVars, fileVars
<1>1. Once(f) /\ QueueOK /\ queue # <<>>
  BY DEF OnceInv, TypeOK, TakeStep, TakeDirCreate, TakeCore, TakeIdly,
         TakeRemove, TakeRename, TakeStray, TakeOverflow, Receives
<1>2. \A e : Has(Tail(queue), e) => Has(queue, e)
  BY <1>1, TailHas
<1>3. Has(queue, Head(queue))
  <2>1. Head(queue) = queue[1] /\ 1 \in 1..Len(queue)
    BY <1>1 DEF QueueOK
  <2> QED  BY <2>1 DEF Has
<1>4. ASSUME NEW d \in Dirs, TakeDirCreate(d) PROVE Once(f)'
  BY <1>1, <1>2, <1>4, OnceStays DEF TakeDirCreate
<1>5. ASSUME NEW x \in Files, TakeCore(x) PROVE Once(f)'
  <2>1. CASE x # f
    BY <1>1, <1>2, <1>5, <2>1, OnceStays DEF TakeCore
  <2>2. CASE x = f
    <3>1. disk[f].phase # "absent" /\ f \notin processed
      BY <1>5, <2>2, WatcherAssumption DEF TakeCore, Exists, OnDisk, TypeOK
    <3>2. Has(queue, Event("create", f)) \/ Has(queue, Event("write", f))
      BY <1>3, <1>5, <2>2 DEF TakeCore, Receives
    <3>3. captures[f][1] = 0
      BY <1>1, <3>1, <3>2 DEF Once, Settled
    <3>4. /\ UNCHANGED <<disk, captures, busy>>
          /\ pc' = "sleeping" /\ queue' = Tail(queue)
      BY <1>5 DEF TakeCore
    <3>5. Has(queue, Event("remove", f))' => Has(queue, Event("remove", f))
      BY <1>2, <3>4 DEF Has, Event
    <3> QED  BY <1>1, <3>3, <3>4, <3>5 DEF Once
  <2> QED  BY <2>1, <2>2
<1>6. ASSUME NEW p \in Paths, TakeIdly(p) PROVE Once(f)'
  BY <1>1, <1>2, <1>6, OnceStays DEF TakeIdly
<1>7. ASSUME NEW p \in Paths, RemoveWatch(p, Tail(queue)),
             UNCHANGED <<disk, captures, processed, busy, pc, ev>>
      PROVE  Once(f)'
  <2>1. \A o \in Ops : Has(queue', Event(o, f)) => Has(queue, Event(o, f))
    BY <1>1, <1>7, RemoveWatchHas
  <2> QED  BY <1>1, <1>7, <2>1, OnceStays
<1>8. ASSUME NEW p \in Paths, TakeRemove(p) PROVE Once(f)'
  <2>1. CASE RemoveWatch(p, Tail(queue)) /\ UNCHANGED processed
    BY <1>7, <1>8, <2>1 DEF TakeRemove
  <2>2. CASE processed' = processed \ {p} /\ queue' = Tail(queue)
    <3>1. UNCHANGED <<disk, captures, busy, pc, ev>> /\ pc = "idle"
      BY <1>8 DEF TakeRemove, Receives
    <3>2. CASE p # f
      BY <1>1, <1>2, <2>2, <3>1, <3>2, OnceStays
    <3>3. CASE p = f
      <4>1. Has(queue, Event("remove", f))
        BY <1>3, <1>8, <3>3 DEF TakeRemove, Receives
      <4>2. disk[f].phase = "absent" /\ disk[f].gen > 0
        BY <1>1, <4>1 DEF Once
      <4> QED  BY <1>1, <3>1, <4>2 DEF Once, Settled
    <3> QED  BY <3>2, <3>3
  <2> QED  BY <1>8, <2>1, <2>2 DEF TakeRemove, Unmarked
<1>9. ASSUME NEW p \in Paths, TakeRename(p) PROVE Once(f)'
  BY <1>7, <1>9 DEF TakeRename
<1>10. CASE TakeStray
  BY <1>1, <1>2, <1>10, OnceStays DEF TakeStray
<1>11. CASE TakeOverflow
  BY <1>1, <1>2, <1>11, OnceStays DEF TakeOverflow
<1> QED  BY <1>4, <1>5, <1>6, <1>8, <1>9, <1>10, <1>11 DEF TakeStep

LEMMA OnceCapture ==
  ASSUME MaxGen = 1, ~StallPossible, TypeOK, OnceInv, FileStep \/ ConsumerStep,
         NEW f \in Files
  PROVE  Once(f)'
<1> USE DEF nodeVars, fileVars
<1>1. Once(f) /\ f \in Paths /\ disk[f] \in CoreState
  BY DEF OnceInv, TypeOK, Paths
<1>2. CASE SecondStat
  <2>1. UNCHANGED <<disk, captures, busy, queue>> /\ pc = "sleeping"
    BY <1>2 DEF SecondStat
  <2>2. \/ pc' = "idle" /\ processed' = processed
        \/ /\ processed' = processed \cup {ev} /\ ev' = ev
           /\ disk[ev].phase # "dumping"
        \/ UNCHANGED <<pc, ev, processed>>
    BY <1>2 DEF SecondStat, Marked
  <2>3. Has(queue, Event("remove", f))' <=> Has(queue, Event("remove", f))
    BY <2>1 DEF Has, Event
  <2>4. Settled(f) => Settled(f)'
    BY <2>1, <2>2 DEF Settled, Has, Event
  <2>5. pc' = "sending" /\ ev' = f => f \in processed' /\ disk[f].phase # "dumping"
    BY <2>1, <2>2
  <2>6. pc' \in {"sleeping", "sending"} /\ ev' = f => pc = "sleeping" /\ ev = f
    BY <2>1, <2>2
  <2> QED  BY <1>1, <2>1, <2>3, <2>4, <2>5, <2>6 DEF Once
<1>3. CASE Send
  <2>1. /\ pc = "sending" /\ busy' = ev /\ pc' = "idle"
        /\ UNCHANGED <<disk, queue, processed>> /\ ev \in Files
    BY <1>3 DEF Send, TypeOK
  <2>2. disk[ev].gen = 1
    BY <2>1 DEF TypeOK, CoreState
  <2>3. captures' = [captures EXCEPT ![ev][1] =
                       IF captures[ev][1] < 2 THEN captures[ev][1] + 1
                       ELSE captures[ev][1]]
    BY <1>3, <2>2 DEF Send
  <2>4. captures \in [Files -> [{1} -> 0..2]]
    <3>1. 1..MaxGen = {1}
      OBVIOUS
    <3> QED  BY <3>1 DEF TypeOK
  <2>5. CASE ev # f
    <3>1. captures'[f] = captures[f]
      BY <2>3, <2>4, <2>5
    <3>2. busy' # f /\ pc' \notin {"sleeping", "sending"}
      BY <2>1, <2>5
    <3> QED  BY <1>1, <2>1, <3>1, <3>2, OnceStays
  <2>6. CASE ev = f
    <3>1. captures[f][1] = 0 /\ f \in processed /\ disk[f].phase # "dumping"
      BY <1>1, <2>1, <2>6 DEF Once
    <3>2. captures'[f][1] = 1
      BY <2>3, <2>4, <2>6, <3>1
    <3>3. Has(queue, Event("remove", f))' <=> Has(queue, Event("remove", f))
      BY <2>1 DEF Has, Event
    <3> QED  BY <1>1, <2>1, <2>2, <2>6, <3>1, <3>2, <3>3 DEF Once, Settled
  <2> QED  BY <2>5, <2>6
<1>4. ASSUME NEW x \in Files, Dispose(x) PROVE Once(f)'
  <2>1. PICK op \in {"remove", "write"} : Report(op, x)
    BY <1>4 DEF Dispose
  <2>2. op \in Ops /\ x \in Paths
    BY DEF Ops, Paths
  <2>3. /\ UNCHANGED <<captures, processed, busy, pc, ev>>
        /\ busy = x /\ OnDisk(disk[x])
        /\ \/ disk' = [disk EXCEPT ![x] = Unlink(@)]
           \/ disk' = [disk EXCEPT ![x] = Empty(@)] /\ Report("write", x)
    BY <1>4 DEF Dispose
  <2>4. disk \in [Files -> CoreState]
    BY DEF TypeOK
  <2>5. CASE x # f
    <3>1. \A o \in Ops : Has(queue', Event(o, f)) => Has(queue, Event(o, f))
      BY <2>1, <2>2, <2>5, ReportHas
    <3>2. disk'[f] = disk[f]
      BY <2>3, <2>4, <2>5
    <3> QED  BY <1>1, <2>3, <3>1, <3>2, OnceStays
  <2>6. CASE x = f
    <3>1. /\ captures[f][1] = 1 /\ disk[f].gen > 0 /\ disk[f].phase # "absent"
          /\ ~(pc \in {"sleeping", "sending"} /\ ev = f) /\ Settled(f)
      BY <1>1, <2>3, <2>6 DEF Once, OnDisk
    <3>2. f \in processed
      BY <2>3, <2>6, <3>1 DEF Settled
    <3>3. CASE disk' = [disk EXCEPT ![x] = Unlink(@)]
      <4>1. disk'[f].gen = disk[f].gen /\ disk'[f].phase = "absent"
        BY <2>4, <2>6, <3>3 DEF Unlink
      <4> QED  BY <2>3, <3>1, <3>2, <4>1 DEF Once, Settled
    <3>4. CASE disk' = [disk EXCEPT ![x] = Empty(@)] /\ Report("write", x)
      <4>1. disk'[f].gen = disk[f].gen /\ disk'[f].phase = "emptied"
        BY <2>4, <2>6, <3>4 DEF Empty
      <4>2. "write" \in Ops /\ "remove" \in Ops
        BY DEF Ops
      <4>3. ~Has(queue', Event("remove", f))
        BY <1>1, <2>2, <2>6, <3>1, <3>4, <4>2, ReportHas DEF Once
      <4> QED  BY <2>3, <3>1, <3>2, <4>1, <4>3 DEF Once, Settled, Has, Event
    <3> QED  BY <2>3, <3>3, <3>4
  <2> QED  BY <2>5, <2>6
<1>5. CASE Finish
  <2>1. /\ busy' = NoPath
        /\ UNCHANGED <<disk, captures, queue, processed, pc, ev>>
    BY <1>5 DEF Finish
  <2>2. busy' # f
    BY <1>1, <2>1, WatcherAssumption
  <2> QED  BY <1>1, <2>1, <2>2, OnceStays
<1> QED  BY <1>2, <1>3, <1>4, <1>5 DEF FileStep, ConsumerStep

LEMMA OnceInit == Init => OnceInv
<1> SUFFICES ASSUME Init, NEW f \in Files PROVE Once(f)
  BY DEF OnceInv
<1>1. captures[f][1] = 0
  BY CoreFSAssumption DEF Init
<1>2. busy # f /\ pc = "down" /\ \A e : ~Has(queue, e)
  BY WatcherAssumption DEF Init, Has, Paths
<1> QED  BY <1>1, <1>2 DEF Once

LEMMA OnceStep ==
  ASSUME MaxGen = 1, ~StallPossible
  PROVE  TypeOK /\ OnceInv /\ [Next]_vars => OnceInv'
<1> SUFFICES ASSUME TypeOK, OnceInv, [Next]_vars, NEW f \in Files
             PROVE  Once(f)'
  BY DEF OnceInv
<1>1. CASE UNCHANGED vars
  BY <1>1 DEF vars, OnceInv, Once, Settled, Has, Event
<1>2. CASE Next
  BY <1>2, OnceNode, OnceProcess, OnceTake, OnceCapture DEF Next, WatcherStep
<1> QED  BY <1>1, <1>2

\* When dumps do not stall and a path is dumped to once, no dump is sent
\* twice: not with the events of its own dump and of its truncation, nor by a
\* process that was restarted and has no marks (filewatch.go:126-164).
THEOREM AtMostOnce ==
  ASSUME MaxGen = 1, ~StallPossible
  PROVE  Spec => []AtMostOnceCaptured
<1>1. TypeOK /\ OnceInv /\ [Next]_vars => OnceInv'
  BY OnceStep
<1>2. OnceInv => AtMostOnceCaptured
  <2>1. 1..MaxGen = {1}
    OBVIOUS
  <2> QED  BY <2>1 DEF OnceInv, Once, AtMostOnceCaptured
<1> QED  BY OnceInit, <1>1, <1>2, TypeCorrect, PTL DEF Spec
=============================================================================
