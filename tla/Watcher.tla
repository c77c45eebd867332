------------------------------- MODULE Watcher -------------------------------
(***************************************************************************)
(* FileWatcher (src/internal/watcher/filewatch.go): the goroutine that     *)
(* turns inotify events into the paths of complete core files, and the     *)
(* node it watches.                                                        *)
(*                                                                         *)
(* The actors are the kernel and the kubelet (directories appear, cores    *)
(* are dumped), an operator (directories and cores are removed or moved),  *)
(* inotify and fsnotify v1.7.0 (a bounded queue of events), the watcher    *)
(* goroutine, and the consumer at the other end of the receiver channel.   *)
(* What the consumer does besides touching the file is module Agent.       *)
(*                                                                         *)
(* One step of the watcher ends at each point where the code can be        *)
(* overtaken: a system call on the tree, the sleep, the channel send.      *)
(***************************************************************************)
EXTENDS CoreFS, FiniteSets, Sequences

CONSTANTS
  Dirs,          \* directories that may exist below CorefileDir, and itself
  Root,          \* CorefileDir
  Parent,        \* the directory a path is an entry of
  NoPath,
  QueueLimit,    \* max_queued_events, with what the reader goroutine buffers
  AddMayFail,    \* can watch.Add be refused (max_user_watches)?
  StallPossible, \* can a dump make no progress for as long as the sleep?
  Disposal,      \* what the consumer does to the file it is given
  Disturbances,  \* what operators and the core_pattern do to the tree
  MaxChurn,      \* bound on those disturbances
  MaxCrashes     \* bound on the crashes of the process

Paths == Dirs \cup Files

ASSUME WatcherAssumption ==
  /\ Root \in Dirs
  /\ Dirs \cap Files = {}
  /\ NoPath \notin Paths
  /\ Parent \in [Paths -> Dirs \cup {NoPath}]
  /\ \A p \in Paths : Parent[p] = NoPath <=> p = Root
  /\ QueueLimit \in Nat \ {0}
  /\ AddMayFail \in BOOLEAN
  /\ StallPossible \in BOOLEAN
  /\ Disposal \subseteq {"remove", "truncate"}
  /\ Disturbances \subseteq {"rmdir", "mvdir", "purge", "mvcore", "reuse"}
  /\ MaxChurn \in Nat
  /\ MaxCrashes \in Nat

VARIABLES
  disk,      \* state of every core file
  dirs,      \* directories that exist
  watches,   \* directories whose inode has a watch
  queue,     \* events not yet received from fsnotify
  pc,        \* where the process is
  ev,        \* path of the event being handled
  todo,      \* entries filepath.Walk has listed and not visited
  cur,       \* directory whose entries Walk has read, its walkFn not yet run
  seen,      \* file size before the sleep of isFileWriteComplete
  processed, \* processedFiles
  busy,      \* core the consumer works on
  refused,   \* history: directories whose last watch.Add was refused
  heard,     \* history: paths that exist and this watcher was told of
  captures,  \* history: times each dump was sent, 2 stands for more
  churn,     \* disturbances left
  crashes    \* crashes left

nodeVars == <<disk, dirs>>
walkVars == <<todo, cur>>
fileVars == <<seen, processed>>
budgets == <<churn, crashes>>
vars == <<disk, dirs, watches, queue, pc, ev, todo, cur, seen, processed,
          busy, refused, heard, captures, churn, crashes>>

Ops == {"create", "write", "remove", "rename"}
Event(op, p) == [op |-> op, path |-> p]
Overflow == Event("overflow", NoPath)  \* IN_Q_OVERFLOW, ErrEventOverflow
Stray == Event("stray", NoPath)        \* an event under a forgotten name

HasOverflow(q) == \E i \in 1..Len(q) : q[i] = Overflow

AllEvents == [op : Ops, path : Paths] \cup {Overflow, Stray}
PCs == {"down", "boot", "idle", "adding", "walking", "sleeping", "sending",
        "dead"}

Init ==
  /\ disk = [f \in Files |-> NoCore]
  /\ dirs = {Root}
  /\ watches = {}
  /\ queue = <<>>
  /\ pc = "down"
  /\ ev = NoPath
  /\ todo = {}
  /\ cur = NoPath
  /\ seen = 0
  /\ processed = {}
  /\ busy = NoPath
  /\ refused = {}
  /\ heard = {}
  /\ captures = [f \in Files |-> [g \in 1..MaxGen |-> 0]]
  /\ churn = MaxChurn
  /\ crashes = MaxCrashes

Exists(p) == p \in dirs \/ (p \in Files /\ OnDisk(disk[p]))

Entries(d) == {p \in Paths : Parent[p] = d /\ Exists(p)}

-----------------------------------------------------------------------------
(* inotify                                                                 *)

\* Mutant of Delivered: a queue without a limit.
DeliveredUnbounded(q, e) == {Append(q, e)}

\* What becomes of queue q when event e is reported: e is appended, or merged
\* with an identical event that nobody has read yet, or lost to a full queue,
\* which then holds one overflow event.
Delivered(q, e) ==
  IF Len(q) < QueueLimit
  THEN {Append(q, e)} \cup {q_ \in {q} : q # <<>> /\ q[Len(q)] = e}
  ELSE IF HasOverflow(q) THEN {q} ELSE {Append(q, Overflow)}

\* An event on the entry p is reported when its directory is watched.
Report(op, p) ==
  IF Parent[p] \in watches
  THEN queue' \in Delivered(queue, Event(op, p))
  ELSE UNCHANGED queue

\* A directory's removal or move is also reported by its own watch.  The two
\* reports are adjacent and have the effect of one.
ReportGone(op, d) ==
  IF d \in watches \/ Parent[d] \in watches
  THEN queue' \in Delivered(queue, Event(op, d))
  ELSE UNCHANGED queue

\* The watcher will read of a creation when its event is now the last one.
Told(op, p) ==
  /\ Parent[p] \in watches
  /\ queue' # <<>>
  /\ queue'[Len(queue')] = Event(op, p)

\* fsnotify names an event when it reads it.  Events of a directory whose
\* watch is removed, and that it has not read (it reads at most one ahead),
\* come out with no directory in their name, which no file has.
Strayed(q, d, read) ==
  [i \in 1..Len(q) |->
     IF i > read /\ q[i].path \in Paths /\ Parent[q[i].path] = d
     THEN Stray ELSE q[i]]

\* watch.Remove(d), q being the events after the one that is handled.
RemoveWatch(d, q) ==
  /\ watches' = watches \ {d}
  /\ IF d \in watches
     THEN /\ \E read \in {0, 1} : queue' = Strayed(q, d, read)
          /\ heard' = {p \in heard : Parent[p] # d}
     ELSE /\ queue' = q
          /\ UNCHANGED heard

\* watch.Add(d) succeeds.
AddWatch(d) ==
  /\ d \in dirs
  /\ watches' = watches \cup {d}
  /\ refused' = refused \ {d}

\* watch.Add(d) fails: the directory is gone, or there is no watch left.
AddFails(d) ==
  /\ d \notin dirs \/ (AddMayFail /\ d \notin watches)
  /\ refused' = IF d \in dirs \ watches THEN refused \cup {d} ELSE refused
  /\ UNCHANGED watches

-----------------------------------------------------------------------------
(* The node: kubelet, kernel, operators                                    *)

\* The kubelet creates a directory of a hostPath DirectoryOrCreate volume.
MkDir(d) ==
  /\ d \notin dirs
  /\ Parent[d] \in dirs
  /\ dirs' = dirs \cup {d}
  /\ Report("create", d)
  /\ heard' = IF Told("create", d) THEN heard \cup {d} ELSE heard
  /\ UNCHANGED <<disk, watches, pc, ev, walkVars, fileVars, busy, refused,
                 captures, budgets>>

\* An empty directory is removed (op = "remove") or moved out of the tree
\* (op = "rename").  The watch of a directory that is moved stays with it.
LoseDir(op, d) ==
  /\ churn > 0
  /\ d \in dirs \ {Root}
  /\ Entries(d) = {}
  /\ dirs' = dirs \ {d}
  /\ watches' = watches \ {d}
  /\ ReportGone(op, d)
  /\ heard' = heard \ {d}
  /\ refused' = refused \ {d}
  /\ churn' = churn - 1
  /\ UNCHANGED <<disk, pc, ev, walkVars, fileVars, busy, captures, crashes>>

RmDir(d) == "rmdir" \in Disturbances /\ LoseDir("remove", d)
MvDir(d) == "mvdir" \in Disturbances /\ LoseDir("rename", d)

\* A process crashes and the kernel opens its core file.
CoreBegin(f) ==
  /\ Parent[f] \in dirs
  /\ disk[f].gen < MaxGen
  /\ \/ disk[f].phase = "absent"
     \/ disk[f].phase \in {"dumped", "emptied"} /\ "reuse" \in Disturbances
  /\ disk' = [disk EXCEPT ![f] = BeginDump(@)]
  /\ LET op == IF OnDisk(disk[f]) THEN "write" ELSE "create"
     IN /\ Report(op, f)
        /\ heard' = IF Told(op, f) THEN heard \cup {f} ELSE heard \ {f}
  /\ UNCHANGED <<dirs, watches, pc, ev, walkVars, fileVars, busy, refused,
                 captures, budgets>>

\* The kernel writes some more of a core.
CoreWrite(f) ==
  /\ disk[f].phase = "dumping"
  /\ disk' = [disk EXCEPT ![f] = WriteDump(@)]
  /\ Report("write", f)
  /\ heard' = IF Told("write", f) THEN heard \cup {f} ELSE heard
  /\ UNCHANGED <<dirs, watches, pc, ev, walkVars, fileVars, busy, refused,
                 captures, budgets>>

\* An operator removes a core, or moves it out of the tree.
LoseCore(op, f) ==
  /\ churn > 0
  /\ disk[f].phase \in {"dumped", "emptied"}
  /\ disk' = [disk EXCEPT ![f] = Unlink(@)]
  /\ Report(op, f)
  /\ heard' = heard \ {f}
  /\ churn' = churn - 1
  /\ UNCHANGED <<dirs, watches, pc, ev, walkVars, fileVars, busy, refused,
                 captures, crashes>>

Purge(f) == "purge" \in Disturbances /\ LoseCore("remove", f)
MvCore(f) == "mvcore" \in Disturbances /\ LoseCore("rename", f)

-----------------------------------------------------------------------------
(* The process: start, the first walk, the walk of a new directory         *)

\* NewFileWatcher and the beginning of Watch: a new inotify instance, an
\* empty processedFiles, and filepath.Walk at CorefileDir.
Start ==
  /\ pc = "down"
  /\ pc' = "boot"
  /\ todo' = {Root}
  /\ UNCHANGED <<nodeVars, watches, queue, ev, cur, fileVars, busy, refused,
                 heard, captures, budgets>>

\* What is lost with the process.  The kernel frees the inotify instance.
ProcessLost ==
  /\ pc' = "down"
  /\ ev' = NoPath
  /\ todo' = {}
  /\ cur' = NoPath
  /\ seen' = 0
  /\ watches' = {}
  /\ queue' = <<>>
  /\ processed' = {}
  /\ busy' = NoPath
  /\ refused' = {}
  /\ heard' = {}

Crash ==
  /\ crashes > 0
  /\ pc # "down"
  /\ ProcessLost
  /\ crashes' = crashes - 1
  /\ UNCHANGED <<nodeVars, captures, churn>>

\* Walk visits a directory: filepath.walk reads its entries before it calls
\* walkFn, so before a watch is there to report the next ones.
WalkDir(p) ==
  /\ pc \in {"boot", "walking"}
  /\ cur = NoPath
  /\ p \in todo \cap dirs
  /\ todo' = (todo \ {p}) \cup Entries(p)
  /\ cur' = p
  /\ UNCHANGED <<nodeVars, watches, queue, pc, ev, fileVars, busy, refused,
                 heard, captures, budgets>>

\* walkFn returns without a call for an entry that is a file.
WalkFile(p) ==
  /\ pc \in {"boot", "walking"}
  /\ cur = NoPath
  /\ p \in todo \cap Files
  /\ Exists(p)
  /\ todo' = todo \ {p}
  /\ UNCHANGED <<nodeVars, watches, queue, pc, ev, cur, fileVars, busy,
                 refused, heard, captures, budgets>>

\* A listed entry is gone.  The walk of a new directory skips it.  walkFn of
\* the first walk does not look at its err: with the entry gone before lstat
\* info is nil and the process panics; with a directory gone between lstat
\* and the reading of its entries Add fails and the walk ends there.
WalkGone(p) ==
  /\ cur = NoPath
  /\ p \in todo
  /\ ~Exists(p)
  /\ \/ /\ pc = "walking"
        /\ todo' = todo \ {p}
        /\ UNCHANGED <<watches, queue, pc, ev, cur, fileVars, busy, refused,
                       heard>>
     \/ pc = "boot" /\ ProcessLost
     \/ /\ pc = "boot"
        /\ p \in Dirs
        /\ todo' = {}
        /\ UNCHANGED <<watches, queue, pc, ev, cur, fileVars, busy, refused,
                       heard>>
  /\ UNCHANGED <<nodeVars, captures, budgets>>

\* walkFn adds the watch of the directory, unless it is the new directory
\* itself, which has it already.
WalkAdd ==
  /\ pc \in {"boot", "walking"}
  /\ cur # NoPath
  /\ cur' = NoPath
  /\ \/ cur # ev /\ AddWatch(cur) /\ UNCHANGED todo
     \/ /\ cur # ev
        /\ AddFails(cur)
        /\ todo' = IF pc = "boot" THEN {} ELSE todo
     \/ cur = ev /\ UNCHANGED <<todo, watches, refused>>
  /\ UNCHANGED <<nodeVars, queue, pc, ev, fileVars, busy, heard, captures,
                 budgets>>

\* The walk ends.  After the first one Watch starts the goroutine.
WalkDone ==
  /\ pc \in {"boot", "walking"}
  /\ todo = {}
  /\ cur = NoPath
  /\ pc' = "idle"
  /\ ev' = NoPath
  /\ UNCHANGED <<nodeVars, watches, queue, walkVars, fileVars, busy, refused,
                 heard, captures, budgets>>

-----------------------------------------------------------------------------
(* watchEvents                                                             *)

\* Mutants of Marked and Unmarked: the mark is not set, is not cleared.
NeverMarked(p) == processed
NeverUnmarked(p) == processed

\* processedFiles with, and without, the path p.
Marked(p) == processed \cup {p}
Unmarked(p) == processed \ {p}

\* Mutant of InitialSize: the size is read once, before the loop.
InitialSizeKept == seen

\* isFileWriteComplete reads the size again whenever it loops.
InitialSize == disk[ev].size

\* The event loop receives the event e.
Receives(e) == pc = "idle" /\ queue # <<>> /\ e = Head(queue)

\* A new directory: it is watched, and its subdirectories are walked.
TakeDirCreate(d) ==
  /\ Receives(Event("create", d))
  /\ d \in dirs
  /\ queue' = Tail(queue)
  /\ pc' = "adding"
  /\ ev' = d
  /\ UNCHANGED <<nodeVars, watches, walkVars, fileVars, busy, refused, heard,
                 captures, budgets>>

\* Mutant of AddNewDir: the new directory is left to the walk, whose walkFn
\* passes over it.
AddNewDirByWalk ==
  /\ pc = "adding"
  /\ pc' = "walking"
  /\ todo' = {ev}
  /\ UNCHANGED <<nodeVars, watches, queue, ev, cur, fileVars, busy, refused,
                 heard, captures, budgets>>

\* The result of Add is not looked at.
AddNewDir ==
  /\ pc = "adding"
  /\ AddWatch(ev) \/ AddFails(ev)
  /\ pc' = "walking"
  /\ todo' = {ev}
  /\ UNCHANGED <<nodeVars, queue, ev, cur, fileVars, busy, heard, captures,
                 budgets>>

\* A core file that was not captured before: the first stat of
\* isFileWriteComplete, which sees what the stat before it saw.
TakeCore(f) ==
  /\ \E op \in {"create", "write"} : Receives(Event(op, f))
  /\ Exists(f)
  /\ f \notin processed
  /\ queue' = Tail(queue)
  /\ pc' = "sleeping"
  /\ ev' = f
  /\ seen' = disk[f].size
  /\ UNCHANGED <<nodeVars, watches, walkVars, processed, busy, refused, heard,
                 captures, budgets>>

\* A create or write event that leads to nothing: the path is gone, or it is
\* a processed file, or a directory that did not appear just now.
TakeIdly(p) ==
  /\ \/ Receives(Event("create", p)) /\ p \notin dirs
     \/ Receives(Event("write", p))
  /\ p \in Files /\ Exists(p) => p \in processed
  /\ queue' = Tail(queue)
  /\ UNCHANGED <<nodeVars, watches, pc, ev, walkVars, fileVars, busy, refused,
                 heard, captures, budgets>>

\* A remove event: a directory that is there again loses its watch, any other
\* path its mark.
TakeRemove(p) ==
  /\ Receives(Event("remove", p))
  /\ \/ /\ p \in dirs
        /\ RemoveWatch(p, Tail(queue))
        /\ UNCHANGED processed
     \/ /\ p \notin dirs
        /\ processed' = Unmarked(p)
        /\ queue' = Tail(queue)
        /\ UNCHANGED <<watches, heard>>
  /\ UNCHANGED <<nodeVars, pc, ev, walkVars, seen, busy, refused, captures,
                 budgets>>

\* A rename event: the watch goes, the mark stays.
TakeRename(p) ==
  /\ Receives(Event("rename", p))
  /\ RemoveWatch(p, Tail(queue))
  /\ UNCHANGED <<nodeVars, pc, ev, walkVars, fileVars, busy, refused, captures,
                 budgets>>

\* An event under a forgotten name is none of the above.
TakeStray ==
  /\ Receives(Stray)
  /\ queue' = Tail(queue)
  /\ UNCHANGED <<nodeVars, watches, pc, ev, walkVars, fileVars, busy, refused,
                 heard, captures, budgets>>

\* fsnotify reports the overflow on its Errors channel: the loop returns.
TakeOverflow ==
  /\ Receives(Overflow)
  /\ queue' = Tail(queue)
  /\ pc' = "dead"
  /\ UNCHANGED <<nodeVars, watches, ev, walkVars, fileVars, busy, refused,
                 heard, captures, budgets>>

\* isFileWriteComplete after its sleep.  When dumps do not stall the sleep is
\* long enough for a core that is being dumped to have grown.
SecondStat ==
  /\ pc = "sleeping"
  /\ \/ /\ ~Exists(ev)
        /\ pc' = "idle"
        /\ ev' = NoPath
        /\ seen' = 0
        /\ UNCHANGED processed
     \/ /\ Exists(ev)
        /\ disk[ev].size = seen
        /\ disk[ev].phase = "dumping" => StallPossible
        /\ processed' = Marked(ev)
        /\ pc' = "sending"
        /\ seen' = 0
        /\ UNCHANGED ev
     \/ /\ Exists(ev)
        /\ disk[ev].size # seen
        /\ seen' = InitialSize
        /\ UNCHANGED <<pc, ev, processed>>
  /\ UNCHANGED <<nodeVars, watches, queue, walkVars, busy, refused, heard,
                 captures, budgets>>

\* The receiver channel is unbuffered: the send completes when the consumer
\* is back at its receive.
Send ==
  /\ pc = "sending"
  /\ busy = NoPath
  /\ busy' = ev
  /\ pc' = "idle"
  /\ ev' = NoPath
  /\ captures' = [captures EXCEPT ![ev][disk[ev].gen] =
                    IF @ < 2 THEN @ + 1 ELSE @]
  /\ UNCHANGED <<nodeVars, watches, queue, walkVars, fileVars, refused, heard,
                 budgets>>

-----------------------------------------------------------------------------
(* The consumer                                                            *)

\* The consumer disposes of the file it was given, if it still can.
Dispose(f) ==
  /\ busy = f
  /\ \/ /\ "remove" \in Disposal
        /\ OnDisk(disk[f])
        /\ disk' = [disk EXCEPT ![f] = Unlink(@)]
        /\ Report("remove", f)
        /\ heard' = heard \ {f}
     \/ /\ "truncate" \in Disposal
        /\ OnDisk(disk[f])
        /\ disk' = [disk EXCEPT ![f] = Empty(@)]
        /\ Report("write", f)
        /\ UNCHANGED heard
  /\ UNCHANGED <<dirs, watches, pc, ev, walkVars, fileVars, busy, refused,
                 captures, budgets>>

\* It returns to its receive.
Finish ==
  /\ busy # NoPath
  /\ busy' = NoPath
  /\ UNCHANGED <<nodeVars, watches, queue, pc, ev, walkVars, fileVars, refused,
                 heard, captures, budgets>>

-----------------------------------------------------------------------------
NodeStep ==
  \/ \E d \in Dirs : MkDir(d) \/ RmDir(d) \/ MvDir(d)
  \/ \E f \in Files : CoreBegin(f) \/ CoreWrite(f) \/ Purge(f) \/ MvCore(f)

WalkStep == WalkAdd \/ WalkDone
            \/ \E p \in Paths : WalkDir(p) \/ WalkFile(p) \/ WalkGone(p)

TakeStep ==
  \/ \E d \in Dirs : TakeDirCreate(d)
  \/ \E f \in Files : TakeCore(f)
  \/ \E p \in Paths : TakeIdly(p) \/ TakeRemove(p) \/ TakeRename(p)
  \/ TakeStray \/ TakeOverflow

FileStep == SecondStat \/ Send

WatcherStep == WalkStep \/ AddNewDir \/ TakeStep \/ FileStep

ConsumerStep == Finish \/ \E f \in Files : Dispose(f)

Next == NodeStep \/ Start \/ Crash \/ WatcherStep \/ ConsumerStep

Spec == Init /\ [][Next]_vars

\* The goroutine is scheduled, the kernel goes on with a dump it has begun,
\* and the consumer comes back for the next file.
Fairness ==
  /\ WF_vars(WatcherStep)
  /\ WF_vars(Finish)
  /\ \A f \in Files : WF_vars(CoreWrite(f))

FairSpec == Spec /\ Fairness

-----------------------------------------------------------------------------
QueueOK ==
  /\ queue \in Seq(AllEvents)
  /\ Len(queue) <= QueueLimit + 1
  /\ Len(queue) > QueueLimit => HasOverflow(queue)

\* Types, with what they depend on: the queue's limit, and the path an event
\* is handled for, which is a directory where the code calls watch.Add and a
\* core that was dumped where it probes and sends.
TypeOK ==
  /\ disk \in [Files -> CoreState]
  /\ dirs \in SUBSET Dirs
  /\ Root \in dirs
  /\ watches \in SUBSET dirs
  /\ QueueOK
  /\ pc \in PCs
  /\ ev \in Paths \cup {NoPath}
  /\ pc = "adding" => ev \in Dirs
  /\ pc \in {"sleeping", "sending"} => ev \in Files /\ disk[ev].gen > 0
  /\ todo \in SUBSET Paths
  /\ cur \in Dirs \cup {NoPath}
  /\ seen \in 0..CoreSize
  /\ processed \in SUBSET Files
  /\ busy \in Files \cup {NoPath}
  /\ refused \in SUBSET dirs
  /\ heard \in SUBSET Paths
  /\ captures \in [Files -> [1..MaxGen -> 0..2]]
  /\ churn \in 0..MaxChurn
  /\ crashes \in 0..MaxCrashes

\* An event of queue q reports the creation of d and no later one is about d.
PendingCreate(q, d) ==
  \E i \in 1..Len(q) : /\ q[i] = Event("create", d)
                       /\ \A j \in (i + 1)..Len(q) : q[j].path # d

\* No event of queue q is about d.
Silent(q, d) == \A i \in 1..Len(q) : q[i].path # d

Covered(d) ==
  \/ PendingCreate(queue, d)
  \/ /\ Silent(queue, d)
     /\ d \in watches \cup refused \/ (pc = "adding" /\ ev = d)

\* A directory whose creation was reported is not forgotten: either the
\* report is still to be handled, and nothing queued behind it will undo the
\* watch, or no queued event concerns the directory and it is watched, about
\* to be, or was refused a watch.  This is what the order of the branches of
\* watchEvents (Create before Remove before Rename, each against the state of
\* the tree when it is handled, not when it was reported) has to achieve when
\* a directory comes, goes and comes back before its events are read.
HeardDirCovered == \A d \in heard \cap Dirs : d \in dirs /\ Covered(d)

\* The watcher has been, or is about to be, told that it missed events.
Deaf == pc = "dead" \/ HasOverflow(queue)

\* A core the watcher was told of and has not sent is still on its way: it is
\* being probed or sent, or an event is queued that will make it so because
\* by then processedFiles does not hold the path, even when an earlier core
\* of the same path was captured and removed (filewatch.go:127, 137, 154).
\* It takes directories that are lost only directly below CorefileDir: deeper
\* in the tree a late removal can take away the watch of a directory that is
\* there again, and with it the event that would unmark the path.
HeardCoreCovered ==
  \A f \in heard \cap Files :
    \/ Deaf
    \/ disk[f].phase \in {"absent", "emptied"}
    \/ captures[f][disk[f].gen] > 0
    \/ pc \in {"sleeping", "sending"} /\ ev = f
    \/ \E i \in 1..Len(queue) :
         /\ queue[i] \in {Event("create", f), Event("write", f)}
         /\ f \in processed =>
              \E j \in 1..(i - 1) : queue[j] = Event("remove", f)

\* No dump is sent twice, not even when the write events of its own dump and
\* of the truncation by the consumer are handled after it was sent, nor when
\* the process restarts with an empty processedFiles ("Track processed files
\* to avoid duplicates", filewatch.go:19).
AtMostOnceCaptured ==
  \A f \in Files : \A g \in 1..MaxGen : captures[f][g] <= 1

\* A reported directory is watched in the end, unless it goes away, its watch
\* is refused, or the event loop has returned.
HeardDirWatched ==
  \A d \in Dirs :
    d \in heard ~> (d \notin heard \/ d \in watches \cup refused \/ Deaf)

\* A complete core that was reported is sent in the end, however long its
\* dump took and however often isFileWriteComplete looped, unless it goes
\* away or the event loop has returned.
HeardCoreCaptured ==
  \A f \in Files :
    (f \in heard /\ disk[f].phase = "dumped")
      ~> (f \notin heard \/ captures[f][disk[f].gen] > 0
          \/ disk[f].phase = "emptied" \/ Deaf)

-----------------------------------------------------------------------------
(* What the documentation says and the code does not do.                   *)

\* Nothing is left to do for the watcher.
Quiet == pc = "idle" /\ queue = <<>> /\ busy = NoPath

\* "recursively watch all the subdirectories in the subdirectory"
\* (filewatch.go:106): once its events are handled the watcher watches, as
\* far as it may, every directory two levels below one it was told of.
SubdirsWatched ==
  Quiet => \A d \in dirs \ {Root} :
             Parent[d] # Root /\ Parent[Parent[d]] \in heard
               => d \in watches \cup refused

\* "core dumps are collected automatically" (README.md:86): once its events
\* are handled every complete core of the tree has been sent.
EveryCoreCollected ==
  Quiet => \A f \in Files :
             disk[f].phase = "dumped" => captures[f][disk[f].gen] > 0
=============================================================================
