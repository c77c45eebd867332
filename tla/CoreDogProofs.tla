---------------------------- MODULE CoreDogProofs ----------------------------
(***************************************************************************)
(* For every set of cores, keys, channels and configurations, and every    *)
(* number of disturbances and crashes: watcher and agent in one process.   *)
(* The process is a Watcher whose consumer is the agent.  So what is       *)
(* proved of the watcher is true of it, and what the watcher sends is what *)
(* the proofs about the agent assume of its arrivals.  With both, the      *)
(* process implements Collection.                                          *)
(***************************************************************************)
EXTENDS CoreDog, TLAPS

WP == INSTANCE WatcherCoreProofs WITH
        busy <- IF stage = "recv" THEN NoPath ELSE core

AP == INSTANCE AgentProofs WITH
        pc <- stage, purges <- churn, MaxPurges <- MaxChurn,
        StallPossible <- FALSE, Redelivered <- FALSE

-----------------------------------------------------------------------------
(* The modules and the proofs about them speak of the same                 *)

LEMMA SameWatcher ==
  /\ W!TypeOK <=> WP!TypeOK
  /\ W!Init => WP!Init
  /\ W!NodeStep => WP!NodeStep
  /\ W!Start => WP!Start
  /\ W!Crash => WP!Crash
  /\ W!WalkStep => WP!WalkStep
  /\ W!AddNewDir => WP!AddNewDir
  /\ W!TakeStep => WP!TakeStep
  /\ W!SecondStat => WP!SecondStat
  /\ W!Send => WP!Send
  /\ \A f : W!Dispose(f) => WP!Dispose(f)
<1> USE DEF
  W!CoreState, WP!CoreState, W!Phases, WP!Phases, W!NoCore, WP!NoCore,
  W!OnDisk, WP!OnDisk, W!BeginDump, WP!BeginDump, W!WriteDump, WP!WriteDump,
  W!Unlink, WP!Unlink, W!Empty, WP!Empty, W!Paths, WP!Paths,
  W!nodeVars, WP!nodeVars, W!walkVars, WP!walkVars, W!fileVars, WP!fileVars,
  W!budgets, WP!budgets, W!Ops, WP!Ops, W!Event, WP!Event,
  W!Overflow, WP!Overflow, W!Stray, WP!Stray,
  W!HasOverflow, WP!HasOverflow, W!Exists, WP!Exists, W!Entries, WP!Entries,
  W!Delivered, WP!Delivered, W!Report, WP!Report,
  W!ReportGone, WP!ReportGone, W!Told, WP!Told, W!Strayed, WP!Strayed,
  W!RemoveWatch, WP!RemoveWatch, W!AddWatch, WP!AddWatch,
  W!AddFails, WP!AddFails, W!ProcessLost, WP!ProcessLost,
  W!Receives, WP!Receives
<1>1. W!TypeOK <=> WP!TypeOK
  BY DEF W!TypeOK, WP!TypeOK, W!QueueOK, WP!QueueOK, W!AllEvents, WP!AllEvents,
         W!PCs, WP!PCs
<1>2. W!Init => WP!Init
  BY DEF W!Init, WP!Init
<1>3. W!NodeStep => WP!NodeStep
  BY DEF W!NodeStep, WP!NodeStep, W!MkDir, WP!MkDir, W!RmDir, WP!RmDir,
         W!MvDir, WP!MvDir, W!LoseDir, WP!LoseDir, W!CoreBegin, WP!CoreBegin,
         W!CoreWrite, WP!CoreWrite, W!Purge, WP!Purge, W!MvCore, WP!MvCore,
         W!LoseCore, WP!LoseCore
<1>4. (W!Start => WP!Start) /\ (W!Crash => WP!Crash)
  BY DEF W!Start, WP!Start, W!Crash, WP!Crash
<1>5. W!WalkStep => WP!WalkStep
  BY DEF W!WalkStep, WP!WalkStep, W!WalkAdd, WP!WalkAdd, W!WalkDone,
         WP!WalkDone, W!WalkDir, WP!WalkDir, W!WalkFile, WP!WalkFile,
         W!WalkGone, WP!WalkGone
<1>6. W!AddNewDir => WP!AddNewDir
  BY DEF W!AddNewDir, WP!AddNewDir
<1>7. W!TakeStep => WP!TakeStep
  BY DEF W!TakeStep, WP!TakeStep, W!TakeDirCreate, WP!TakeDirCreate,
         W!TakeCore, WP!TakeCore, W!TakeIdly, WP!TakeIdly, W!TakeRemove,
         WP!TakeRemove, W!Unmarked, WP!Unmarked, W!TakeRename, WP!TakeRename,
         W!TakeStray, WP!TakeStray, W!TakeOverflow, WP!TakeOverflow
<1>8. W!SecondStat => WP!SecondStat
  BY DEF W!SecondStat, WP!SecondStat, W!Marked, WP!Marked, W!InitialSize,
         WP!InitialSize
<1>9. W!Send => WP!Send
  BY DEF W!Send, WP!Send
<1>10. \A f : W!Dispose(f) => WP!Dispose(f)
  BY DEF W!Dispose, WP!Dispose
<1> QED  BY <1>1, <1>2, <1>3, <1>4, <1>5, <1>6, <1>7, <1>8, <1>9, <1>10

LEMMA SameAgent ==
  /\ A!TypeOK <=> AP!TypeOK
  /\ A!PassStep => AP!PassStep
  /\ A!ReportReply => AP!ReportReply
  /\ A!Crash => AP!Crash
<1> USE DEF
  A!CoreState, AP!CoreState, A!Phases, AP!Phases, A!OnDisk, AP!OnDisk,
  A!Unlink, AP!Unlink, A!Empty, AP!Empty, A!Config, AP!Config,
  A!Contents, AP!Contents, A!Parsed, AP!Parsed, A!Pods, AP!Pods,
  A!passVars, AP!passVars, A!budgets, AP!budgets,
  A!NoSkip, AP!NoSkip, A!FreshPass, AP!FreshPass, A!Snapshot, AP!Snapshot, A!NextCore, AP!NextCore,
  A!UploadSizes, AP!UploadSizes, A!Stored, AP!Stored, A!Leftovers,
  AP!Leftovers, A!Interrupted, AP!Interrupted, A!Publish, AP!Publish
<1>1. A!TypeOK <=> AP!TypeOK
  BY DEF A!TypeOK, AP!TypeOK, A!PCs, AP!PCs
<1>2. A!PassStep => AP!PassStep
  BY DEF A!PassStep, AP!PassStep, A!StatCore, AP!StatCore, A!HashCore,
         AP!HashCore, A!ParseFailed, AP!ParseFailed, A!UploadStep,
         AP!UploadStep, A!OpenUpload, AP!OpenUpload, A!OpenFails, AP!OpenFails,
         A!Uploaded, AP!Uploaded, A!UploadFails, AP!UploadFails, A!CleanLocal,
         AP!CleanLocal, A!ResolvePod, AP!ResolvePod, A!Handle, AP!Handle,
         A!HandlerCalled, AP!HandlerCalled, A!SkipFlags, AP!SkipFlags,
         A!NotifyChannel, AP!NotifyChannel, A!Recipients, AP!Recipients,
         A!NotifyDone, AP!NotifyDone, A!SkipReport, AP!SkipReport,
         A!Reportable, AP!Reportable, A!PostReport, AP!PostReport,
         A!ReportTimeout, AP!ReportTimeout
<1>3. A!ReportReply => AP!ReportReply
  BY DEF A!ReportReply, AP!ReportReply
<1>4. A!Crash => AP!Crash
  BY DEF A!Crash, AP!Crash
<1> QED  BY <1>1, <1>2, <1>3, <1>4

\* Receiving is the same when the core is complete and new.
LEMMA SameReceive ==
  ASSUME NEW f, A!Receive(f), disk[f].phase # "dumping",
         disk[f].gen # delivered[f]
  PROVE  AP!Receive(f) /\ Assumed!Receive(f)
<1> USE DEF A!Receive, A!FreshPass, A!NoSkip, A!budgets
<1>1. AP!Receive(f)
  BY DEF AP!Receive, AP!FreshPass, AP!NoSkip, AP!budgets
<1>2. Assumed!Receive(f)
  BY DEF Assumed!Receive, Assumed!FreshPass, Assumed!NoSkip, Assumed!budgets
<1> QED  BY <1>1, <1>2

LEMMA Assumptions == WP!WatcherAssumption /\ AP!AgentAssumption
BY CoreDogAssumption
   DEF W!WatcherAssumption, WP!WatcherAssumption, W!Paths, WP!Paths,
       A!AgentAssumption, AP!AgentAssumption, A!Config, AP!Config,
       A!Contents, AP!Contents, A!Parsed, AP!Parsed, A!Pods, AP!Pods

LEMMA Constants ==
  /\ CoreSize \in Nat \ {0} /\ MaxGen \in Nat \ {0}
  /\ NoPath \notin Files /\ None \notin Files /\ Dirs \cap Files = {}
  /\ KeyOf \in [Files -> Keys]
  /\ Channels \in Seq([known : BOOLEAN, matches : SUBSET Files])
  /\ MaxChurn \in Nat /\ MaxCrashes \in Nat
BY CoreDogAssumption, CoreFSAssumption
   DEF W!WatcherAssumption, A!AgentAssumption, W!Paths

-----------------------------------------------------------------------------
(* Watcher and agent in the process                                        *)

busy == IF stage = "recv" THEN NoPath ELSE core

LEMMA PassFacts ==
  ASSUME A!PassStep \/ A!ReportReply
  PROVE  /\ stage # "recv" /\ UNCHANGED <<core, delivered, churn, crashes>>
         /\ stage' # stage \/ stage = "notify"
         /\ disk' # disk => stage' = "resolve"
BY DEF A!PassStep, A!StatCore, A!HashCore, A!UploadStep, A!OpenUpload,
       A!OpenFails, A!Uploaded, A!UploadFails, A!CleanLocal, A!ResolvePod,
       A!Handle, A!NotifyChannel, A!NotifyDone, A!SkipReport, A!PostReport,
       A!ReportTimeout, A!ReportReply, A!NextCore, A!passVars, A!budgets

\* The watcher goes on at every step, or does not see it.  A consumer that is
\* the agent is done when its pass is.
LEMMA WatcherSees ==
  ASSUME TypeOK, [Next]_vars
  PROVE  [WP!Next]_(WP!vars)
<1>1. UNCHANGED <<disk, churn, crashes, watcherVars, busy>> => UNCHANGED WP!vars
  BY DEF watcherVars, busy, WP!vars
<1>2. CASE UNCHANGED vars
  BY <1>1, <1>2 DEF vars, agentVars, busy
<1>3. CASE NodeStep \/ Start \/ Watch
  BY <1>3, SameWatcher DEF NodeStep, Start, Watch, WP!Next, WP!WatcherStep,
                           WP!FileStep
<1>4. CASE HandOver
  BY <1>4, SameWatcher DEF HandOver, WP!Next, WP!WatcherStep, WP!FileStep
<1>5. CASE Crash
  BY <1>5, SameWatcher DEF Crash, WP!Next
<1>6. ASSUME A!PassStep \/ A!ReportReply, UNCHANGED <<disk, watcherVars>>
      PROVE  [WP!Next]_(WP!vars)
  <2>1. /\ stage # "recv" /\ core \in Files /\ core # NoPath
        /\ UNCHANGED <<core, churn, crashes>>
    BY <1>6, PassFacts, Constants DEF TypeOK, A!TypeOK
  <2>2. CASE stage' = "recv"
    <3>1. busy = core /\ busy' = NoPath
      BY <2>1, <2>2 DEF busy
    <3>2. WP!Finish
      BY <1>6, <2>1, <3>1
         DEF busy, watcherVars, WP!Finish, WP!nodeVars, WP!walkVars,
             WP!fileVars, WP!budgets
    <3> QED  BY <3>2 DEF WP!Next, WP!ConsumerStep
  <2>3. CASE stage' # "recv"
    <3>1. UNCHANGED busy
      BY <2>1, <2>3 DEF busy
    <3> QED  BY <1>1, <1>6, <2>1, <3>1
  <2> QED  BY <2>2, <2>3
<1>7. CASE Pass
  <2>1. CASE disk' # disk
    <3>1. WP!Dispose(core) /\ core \in Files
      BY <1>7, <2>1, PassFacts, SameWatcher DEF Pass, TypeOK, A!TypeOK
    <3> QED  BY <3>1 DEF WP!Next, WP!ConsumerStep
  <2>2. CASE disk' = disk
    BY <1>6, <1>7, <2>2 DEF Pass
  <2> QED  BY <2>1, <2>2
<1>8. CASE Reply
  BY <1>6, <1>8 DEF Reply, A!ReportReply
<1> QED  BY <1>2, <1>3, <1>4, <1>5, <1>7, <1>8 DEF Next

\* A step of the node or of the watcher alone leaves the dumps numbered.
LEMMA DumpsStay ==
  ASSUME TypeOK, NodeStep
  PROVE  \A f \in Files : disk[f].gen > 0 => disk'[f].gen > 0
<1> SUFFICES ASSUME NEW f \in Files, disk[f].gen > 0 PROVE disk'[f].gen > 0
  OBVIOUS
<1>1. disk \in [Files -> W!CoreState] /\ disk[f].gen \in Nat
  BY Constants DEF TypeOK, W!TypeOK, W!CoreState
<1>2. CASE UNCHANGED disk
  BY <1>2
<1>3. CASE \E x \in Files : \/ disk' = [disk EXCEPT ![x] = W!BeginDump(@)]
                            \/ disk' = [disk EXCEPT ![x] = W!WriteDump(@)]
                            \/ disk' = [disk EXCEPT ![x] = W!Unlink(@)]
  BY <1>1, <1>3 DEF W!BeginDump, W!WriteDump, W!Unlink
<1> QED  BY <1>2, <1>3
         DEF NodeStep, W!NodeStep, W!MkDir, W!RmDir, W!MvDir, W!LoseDir,
             W!CoreBegin, W!CoreWrite, W!Purge, W!MvCore, W!LoseCore

LEMMA WatchKeepsDisk ==
  ASSUME Watch \/ Start \/ Crash
  PROVE  UNCHANGED <<disk, churn>>
BY DEF Watch, Start, Crash, W!budgets, W!nodeVars, W!Start, W!Crash, W!SecondStat,
       W!AddNewDir, W!WalkStep, W!WalkAdd, W!WalkDone, W!WalkDir, W!WalkFile,
       W!WalkGone, W!TakeStep, W!TakeDirCreate, W!TakeCore, W!TakeIdly,
       W!TakeRemove, W!TakeRename, W!TakeStray, W!TakeOverflow

LEMMA AgentTypes ==
  ASSUME TypeOK, W!TypeOK', [Next]_vars
  PROVE  A!TypeOK'
<1> USE DEF TypeOK
<1>1. AP!TypeOK
  BY SameAgent
<1>2. /\ disk' \in [Files -> A!CoreState]
      /\ churn' \in 0..MaxChurn /\ crashes' \in 0..MaxCrashes
  BY DEF W!TypeOK, W!CoreState, W!Phases, A!CoreState, A!Phases
<1>3. ASSUME UNCHANGED agentVars,
             \A f \in Files : disk[f].gen > 0 => disk'[f].gen > 0
      PROVE  A!TypeOK'
  BY <1>2, <1>3 DEF A!TypeOK, agentVars
<1>4. CASE UNCHANGED vars
  BY <1>3, <1>4 DEF vars
<1>5. CASE NodeStep
  BY <1>3, <1>5, DumpsStay DEF NodeStep
<1>6. CASE Start \/ Watch \/ (Crash /\ stage = "recv")
  BY <1>3, <1>6, WatchKeepsDisk DEF Start, Watch, Crash
<1>7. CASE HandOver
  <2>1. ev \in Files /\ A!Receive(ev)
    BY <1>7 DEF HandOver, W!TypeOK
  <2>2. delivered' \in [Files -> 0..MaxGen]
    BY <2>1 DEF A!Receive, A!TypeOK, A!CoreState
  <2>3. Len(Channels) \in Nat
    BY Constants
  <2>4. 1 \in 1..(Len(Channels) + 1)
    BY <2>3
  <2> QED  BY <1>2, <2>1, <2>2, <2>4
           DEF A!Receive, A!FreshPass, A!NoSkip, A!TypeOK, A!PCs
<1>8. CASE Pass \/ Reply \/ (Crash /\ stage # "recv")
  <2>1. AP!PassStep \/ AP!ReportReply \/ AP!Crash
    BY <1>8, SameAgent DEF Pass, Reply, Crash
  <2>2. AP!TypeOK'
    BY <1>1, <2>1, AP!PassBounds, AP!UploadType, AP!TellType, Assumptions,
       CoreFSAssumption
       DEF AP!PassStep
  <2>3. AP!TypeOK' => A!TypeOK'
    BY DEF A!TypeOK, AP!TypeOK, A!CoreState, AP!CoreState, A!Phases, AP!Phases,
           A!Contents, AP!Contents, A!Parsed, AP!Parsed, A!Pods, AP!Pods,
           A!PCs, AP!PCs
  <2> QED  BY <2>2, <2>3
<1> QED  BY <1>4, <1>5, <1>6, <1>7, <1>8 DEF Next

LEMMA TypeInit == Init => TypeOK
<1> SUFFICES ASSUME Init PROVE TypeOK
  OBVIOUS
<1>1. W!TypeOK
  BY SameWatcher, WP!InitType, Assumptions, CoreFSAssumption DEF Init
<1>2. Len(Channels) \in Nat
  BY Constants
<1>3. 1 \in 1..(Len(Channels) + 1) /\ stage = "recv"
  BY <1>2 DEF Init, A!Init
<1>4. A!TypeOK
  <2>1. /\ disk \in [Files -> A!CoreState]
        /\ churn \in 0..MaxChurn /\ crashes \in 0..MaxCrashes
    BY <1>1 DEF W!TypeOK, W!CoreState, W!Phases, A!CoreState, A!Phases
  <2>2. /\ store \in [Keys -> A!Contents \cup {None}]
        /\ delivered \in [Files -> 0..MaxGen]
        /\ skip \in [notify : BOOLEAN, coreSight : BOOLEAN]
    BY Constants DEF Init, A!Init, A!NoSkip
  <2>3. ch \in 1..(Len(Channels) + 1) /\ told \in SUBSET (1..Len(Channels))
    BY <1>3 DEF Init, A!Init
  <2> QED  BY <1>3, <2>1, <2>2, <2>3 DEF Init, A!Init, A!TypeOK, A!PCs
<1> QED  BY <1>1, <1>4 DEF TypeOK

LEMMA TypeStep == TypeOK /\ [Next]_vars => TypeOK'
<1> SUFFICES ASSUME TypeOK, [Next]_vars PROVE TypeOK'
  OBVIOUS
<1>1. WP!TypeOK'
  BY WatcherSees, SameWatcher, WP!TypeStep, Assumptions, CoreFSAssumption
     DEF TypeOK
<1>2. WP!TypeOK' => W!TypeOK'
  BY DEF W!TypeOK, WP!TypeOK, W!QueueOK, WP!QueueOK, W!AllEvents, WP!AllEvents,
         W!PCs, WP!PCs, W!CoreState, WP!CoreState, W!Phases, WP!Phases,
         W!Paths, WP!Paths, W!Ops, WP!Ops, W!Event, WP!Event, W!Overflow,
         WP!Overflow, W!Stray, WP!Stray, W!HasOverflow, WP!HasOverflow
<1> QED  BY <1>1, <1>2, AgentTypes DEF TypeOK

\* The types of both hold in the process, whatever the watcher makes arrive
\* at the agent, incomplete cores and old ones included.
THEOREM TypeCorrect == Spec => []TypeOK
BY TypeInit, TypeStep, PTL DEF Spec

\* The process is a Watcher whose consumer works on a core as long as the
\* pass of the agent: every theorem about the specification of Watcher is one
\* about the process (filewatch.go:139, agent.go:114-191).
THEOREM WatcherInside == Spec => WP!Spec
<1>1. Init => WP!Init
  BY SameWatcher DEF Init
<1>2. TypeOK /\ [Next]_vars => [WP!Next]_(WP!vars)
  BY WatcherSees
<1> QED  BY <1>1, <1>2, TypeCorrect, PTL DEF Spec, WP!Spec

-----------------------------------------------------------------------------
(* What arrives at the agent                                               *)

\* Only the hand-over counts a core as sent, and as received.
LEMMA CountsStay ==
  ASSUME NodeStep \/ Start \/ Watch \/ Pass \/ Reply \/ Crash
  PROVE  UNCHANGED <<captures, delivered>>
<1> USE DEF agentVars, watcherVars
<1>1. CASE NodeStep
  BY <1>1 DEF NodeStep, W!NodeStep, W!MkDir, W!RmDir, W!MvDir, W!LoseDir,
              W!CoreBegin, W!CoreWrite, W!Purge, W!MvCore, W!LoseCore
<1>2. CASE Start \/ Watch \/ Crash
  <2>1. UNCHANGED captures
    BY <1>2
       DEF Start, Watch, Crash, W!Start, W!Crash, W!SecondStat, W!AddNewDir,
           W!WalkStep, W!WalkAdd, W!WalkDone, W!WalkDir, W!WalkFile,
           W!WalkGone, W!TakeStep, W!TakeDirCreate, W!TakeCore, W!TakeIdly,
           W!TakeRemove, W!TakeRename, W!TakeStray, W!TakeOverflow
  <2>2. UNCHANGED delivered
    BY <1>2 DEF Start, Watch, Crash, A!Crash
  <2> QED  BY <2>1, <2>2
<1>3. CASE Pass \/ Reply
  <2>1. UNCHANGED delivered
    BY <1>3, PassFacts DEF Pass, Reply
  <2>2. UNCHANGED captures
    BY <1>3 DEF Pass, Reply, W!Dispose
  <2> QED  BY <2>1, <2>2
<1> QED  BY <1>1, <1>2, <1>3

\* What the agent has received the watcher has sent.
Accounted == \A f \in Files : delivered[f] > 0 => captures[f][1] > 0

\* What is handed over is complete, and was not handed over before.
LEMMA NewAndComplete ==
  ASSUME MaxGen = 1, TypeOK, WP!OnceInv, Accounted, HandOver
  PROVE  /\ ev \in Files /\ disk[ev].gen = 1 /\ disk[ev].phase # "dumping"
         /\ captures[ev][1] = 0 /\ delivered[ev] = 0
         /\ AP!Receive(ev) /\ Assumed!Receive(ev)
<1>1. /\ ev \in Files /\ disk[ev] \in W!CoreState /\ pc = "sending"
      /\ disk[ev].gen = 1 /\ A!Receive(ev)
  BY DEF HandOver, TypeOK, W!TypeOK, W!CoreState
<1>2. /\ captures[ev][1] \in 0..1 /\ captures[ev][1] # 1
      /\ disk[ev].phase # "dumping"
  BY <1>1 DEF WP!OnceInv, WP!Once
<1>3. delivered[ev] \in 0..1 /\ ~(delivered[ev] > 0)
  BY <1>1, <1>2 DEF Accounted, TypeOK, A!TypeOK
<1>4. delivered[ev] = 0
  BY <1>3
<1>5. AP!Receive(ev) /\ Assumed!Receive(ev)
  BY <1>1, <1>2, <1>4, SameReceive
<1> QED  BY <1>1, <1>2, <1>4, <1>5

LEMMA AccountedStep ==
  ASSUME MaxGen = 1, TypeOK, WP!OnceInv, Accounted, [Next]_vars
  PROVE  Accounted'
<1>1. CASE UNCHANGED vars
  BY <1>1 DEF vars, watcherVars, agentVars, Accounted
<1>2. CASE NodeStep \/ Start \/ Watch \/ Pass \/ Reply \/ Crash
  BY <1>2, CountsStay DEF Accounted
<1>3. CASE HandOver
  <2>1. ev \in Files /\ disk[ev].gen = 1 /\ captures[ev][1] = 0
    BY <1>3, NewAndComplete
  <2>2. captures \in [Files -> [{1} -> 0..2]]
    <3>1. 1..MaxGen = {1}
      OBVIOUS
    <3> QED  BY <3>1 DEF TypeOK, W!TypeOK
  <2>3. captures' = [captures EXCEPT ![ev][1] = 1]
    BY <1>3, <2>1, <2>2 DEF HandOver, W!Send
  <2>4. captures'[ev][1] = 1 /\ \A f \in Files \ {ev} : captures'[f] = captures[f]
    BY <2>1, <2>2, <2>3
  <2>5. \A f \in Files \ {ev} : delivered'[f] = delivered[f]
    BY <1>3 DEF HandOver, A!Receive, TypeOK, A!TypeOK
  <2> QED  BY <2>4, <2>5 DEF Accounted
<1> QED  BY <1>1, <1>2, <1>3 DEF Next

ArrivalInv == TypeOK /\ WP!OnceInv /\ Accounted

LEMMA ArrivalInit == Init => ArrivalInv
<1> SUFFICES ASSUME Init PROVE ArrivalInv
  OBVIOUS
<1>1. WP!OnceInv
  BY SameWatcher, WP!OnceInit, Assumptions, CoreFSAssumption DEF Init
<1>2. Accounted
  BY DEF Init, A!Init, Accounted
<1> QED  BY <1>1, <1>2, TypeInit DEF ArrivalInv

LEMMA ArrivalStep ==
  ASSUME MaxGen = 1, ~StallPossible
  PROVE  ArrivalInv /\ [Next]_vars => ArrivalInv'
<1> SUFFICES ASSUME ArrivalInv, [Next]_vars PROVE ArrivalInv'
  OBVIOUS
<1>1. WP!TypeOK /\ [WP!Next]_(WP!vars)
  BY SameWatcher, WatcherSees DEF ArrivalInv, TypeOK
<1>2. WP!OnceInv'
  BY <1>1, WP!OnceStep, Assumptions, CoreFSAssumption DEF ArrivalInv
<1> QED  BY <1>2, TypeStep, AccountedStep DEF ArrivalInv

\* When dumps do not stall and a path is dumped to once, every core the agent
\* receives is complete, and none comes twice, restarts included: the agent's
\* assumptions are met by the watcher, not by luck (filewatch.go:126-139).
THEOREM ArrivalsAsAssumed ==
  ASSUME MaxGen = 1, ~StallPossible
  PROVE  Spec => ArrivesOnceComplete
<1>1. Init => ArrivalInv
  BY ArrivalInit
<1>2. ArrivalInv /\ [Next]_vars => ArrivalInv'
  BY ArrivalStep
<1>3. ArrivalInv => [HandOver => \E f \in Files : Assumed!Receive(f)]_vars
  BY NewAndComplete DEF ArrivalInv
<1> QED  BY <1>1, <1>2, <1>3, PTL DEF Spec, ArrivesOnceComplete

-----------------------------------------------------------------------------
(* What becomes of a core                                                  *)

\* What the store has of a core when it has all of it.
Whole(f) == [core |-> f, gen |-> 1, size |-> CoreSize]

InStore(f) == store[KeyOf[f]] = Whole(f)

BeforeUpload == {"stat", "hash", "open", "copy"}
AfterUpload == {"clean", "resolve", "handle", "notify", "report", "posting"}

\* Cores whose dump has ended have all their bytes until the agent empties
\* them; only what was received is emptied or stored.
CoreInv(f) ==
  /\ disk[f].phase = "dumped" => disk[f].size = CoreSize
  /\ disk[f].phase = "emptied" => delivered[f] > 0
  /\ InStore(f) => delivered[f] > 0

\* Along its only pass a core is not in the store until it is uploaded, and
\* is there from then on.
PassInv ==
  /\ stage # "recv" => delivered[core] > 0
  /\ stage \in BeforeUpload => ~InStore(core) /\ disk[core].phase # "emptied"
  /\ stage = "copy" => held = Whole(core)
  /\ stage \in AfterUpload => url = KeyOf[core] /\ InStore(core)

CollectInv ==
  /\ ArrivalInv
  /\ AP!Faithful
  /\ \A f \in Files : CoreInv(f)
  /\ PassInv

\* No two cores share a key, and a path is dumped to once: names are meant to
\* be unique, core.%e.%p.%h.%t (README.md:39).  Dumps do not stall, which is
\* what isFileWriteComplete goes by (filewatch.go:197).
Distinct ==
  /\ \A f, g \in Files : KeyOf[f] = KeyOf[g] => f = g
  /\ MaxGen = 1
  /\ ~StallPossible

\* The node ends the dump of a core or takes it away; a disturbance spares
\* the cores or takes away one.
LEMMA NodeDoes ==
  ASSUME MaxGen = 1, TypeOK, NodeStep
  PROVE  /\ UNCHANGED <<agentVars, crashes>>
         /\ \/ UNCHANGED <<disk, churn>>
            \/ UNCHANGED disk /\ churn > 0 /\ churn' = churn - 1
            \/ \E f \in Files :
                 /\ disk[f].gen = 0 /\ disk[f].phase = "absent"
                 /\ disk' = [disk EXCEPT ![f] = BeginDump(@)]
                 /\ UNCHANGED churn
            \/ \E f \in Files :
                 /\ disk[f].phase = "dumping"
                 /\ disk' = [disk EXCEPT ![f] = WriteDump(@)]
                 /\ UNCHANGED churn
            \/ \E f \in Files :
                 /\ disk[f].phase \in {"dumped", "emptied"}
                 /\ disk' = [disk EXCEPT ![f] = Unlink(@)]
                 /\ churn > 0 /\ churn' = churn - 1
<1> USE DEF W!budgets
<1>1. UNCHANGED agentVars /\ disk \in [Files -> W!CoreState]
  BY DEF NodeStep, TypeOK, W!TypeOK
<1>2. CASE \E d \in Dirs : W!MkDir(d) \/ W!RmDir(d) \/ W!MvDir(d)
  BY <1>1, <1>2 DEF W!MkDir, W!RmDir, W!MvDir, W!LoseDir
<1>3. ASSUME NEW f \in Files, W!CoreBegin(f)
      PROVE  /\ disk[f].gen = 0 /\ disk[f].phase = "absent"
             /\ disk' = [disk EXCEPT ![f] = BeginDump(@)]
             /\ UNCHANGED <<churn, crashes>>
  <2>1. disk[f].gen = 0 /\ disk[f].phase = "absent"
    BY <1>1, <1>3 DEF W!CoreBegin, W!CoreState
  <2> QED  BY <1>3, <2>1 DEF W!CoreBegin, W!BeginDump, BeginDump
<1>4. ASSUME NEW f \in Files, W!CoreWrite(f)
      PROVE  /\ disk[f].phase = "dumping"
             /\ disk' = [disk EXCEPT ![f] = WriteDump(@)]
             /\ UNCHANGED <<churn, crashes>>
  BY <1>4 DEF W!CoreWrite, W!WriteDump, WriteDump
<1>5. ASSUME NEW f \in Files, W!Purge(f) \/ W!MvCore(f)
      PROVE  /\ disk[f].phase \in {"dumped", "emptied"}
             /\ disk' = [disk EXCEPT ![f] = Unlink(@)]
             /\ churn > 0 /\ churn' = churn - 1 /\ UNCHANGED crashes
  BY <1>5 DEF W!Purge, W!MvCore, W!LoseCore, W!Unlink, Unlink
<1> QED  BY <1>1, <1>2, <1>3, <1>4, <1>5 DEF NodeStep, W!NodeStep

\* The agent goes on at every step, or what it depends on stays.
LEMMA AgentSees ==
  ASSUME MaxGen = 1, ArrivalInv, [Next]_vars
  PROVE  [AP!Next]_(AP!vars) \/ UNCHANGED <<disk, agentVars>>
<1> USE DEF ArrivalInv
<1>1. CASE UNCHANGED vars
  BY <1>1 DEF vars
<1>2. CASE NodeStep
  <2>1. UNCHANGED <<agentVars, crashes>>
    BY <1>2, NodeDoes
  <2>2. UNCHANGED AP!nodeUnchanged /\ UNCHANGED AP!passVars
    BY <2>1 DEF agentVars, AP!nodeUnchanged, AP!passVars
  <2>3. CASE UNCHANGED disk
    BY <2>1, <2>3
  <2>4. ASSUME NEW f \in Files,
               disk[f].gen = 0, disk[f].phase = "absent",
               disk' = [disk EXCEPT ![f] = BeginDump(@)], UNCHANGED churn
        PROVE  AP!Next
    <3>1. AP!CoreBegin(f)
      BY <2>1, <2>2, <2>4
         DEF AP!CoreBegin, AP!BeginDump, BeginDump, AP!budgets
    <3> QED  BY <3>1 DEF AP!Next, AP!NodeStep
  <2>5. ASSUME NEW f \in Files, disk[f].phase = "dumping",
               disk' = [disk EXCEPT ![f] = WriteDump(@)], UNCHANGED churn
        PROVE  AP!Next
    <3>1. AP!CoreWrite(f)
      BY <2>1, <2>2, <2>5
         DEF AP!CoreWrite, AP!WriteDump, WriteDump, AP!budgets
    <3> QED  BY <3>1 DEF AP!Next, AP!NodeStep
  <2>6. ASSUME NEW f \in Files, disk[f].phase \in {"dumped", "emptied"},
               disk' = [disk EXCEPT ![f] = Unlink(@)],
               churn > 0, churn' = churn - 1
        PROVE  AP!Next
    <3>1. AP!Purge(f)
      BY <2>1, <2>2, <2>6 DEF AP!Purge, AP!Unlink, Unlink
    <3> QED  BY <3>1 DEF AP!Next, AP!NodeStep
  <2> QED  BY <1>2, <2>3, <2>4, <2>5, <2>6, NodeDoes
<1>3. CASE Start \/ Watch \/ (Crash /\ stage = "recv")
  BY <1>3, WatchKeepsDisk DEF Start, Watch, Crash
<1>4. CASE HandOver
  BY <1>4, NewAndComplete DEF AP!Next
<1>5. CASE Pass \/ Reply \/ (Crash /\ stage # "recv")
  BY <1>5, SameAgent DEF Pass, Reply, Crash, AP!Next
<1> QED  BY <1>1, <1>2, <1>3, <1>4, <1>5 DEF Next

LEMMA FaithfulStep ==
  ASSUME MaxGen = 1, ArrivalInv, AP!Faithful, [Next]_vars
  PROVE  AP!Faithful'
<1>1. CASE [AP!Next]_(AP!vars)
  <2>1. AP!TypeOK
    BY SameAgent DEF ArrivalInv, TypeOK
  <2> QED  BY <1>1, <2>1, AP!FaithfulStep, Assumptions, CoreFSAssumption
<1>2. CASE UNCHANGED <<disk, agentVars>>
  BY <1>2 DEF agentVars, AP!Faithful, AP!Snapshot, AP!OnDisk
<1> QED  BY <1>1, <1>2, AgentSees

\* A pass works on a core that was received, whole and of one dump.
LEMMA PassCore ==
  ASSUME MaxGen = 1, CollectInv, stage # "recv"
  PROVE  /\ core \in Files /\ disk[core].gen = 1
         /\ disk[core].phase # "dumping" /\ delivered[core] > 0
         /\ KeyOf[core] \in Keys
         /\ disk[core].phase \in {"absent", "dumped", "emptied"}
<1>1. core \in Files /\ disk[core] \in A!CoreState /\ disk[core].gen > 0
  BY DEF CollectInv, ArrivalInv, TypeOK, A!TypeOK
<1>2. disk[core].gen = 1
  BY <1>1 DEF A!CoreState
<1>3. disk[core].phase # "dumping" /\ delivered[core] > 0
  BY DEF CollectInv, AP!Faithful, PassInv
<1> QED  BY <1>1, <1>2, <1>3, Constants DEF A!CoreState, A!Phases

LEMMA CollectNode ==
  ASSUME Distinct, CollectInv, NodeStep
  PROVE  (\A f \in Files : CoreInv(f)') /\ PassInv'
<1> USE DEF Distinct
<1>1. /\ UNCHANGED <<stage, core, held, url, store, delivered>>
      /\ disk \in [Files -> W!CoreState] /\ TypeOK
  BY NodeDoes DEF CollectInv, ArrivalInv, agentVars, TypeOK, W!TypeOK
<1>2. ASSUME \A f \in Files :
               /\ disk'[f].phase = "dumped" =>
                    disk'[f] = disk[f] \/ disk'[f].size = CoreSize
               /\ disk'[f].phase = "emptied" => disk'[f] = disk[f]
      PROVE  (\A f \in Files : CoreInv(f)') /\ PassInv'
  <2>1. \A f \in Files : CoreInv(f)'
    BY <1>1, <1>2 DEF CollectInv, CoreInv, InStore, Whole
  <2>2. stage # "recv" => core \in Files
    BY PassCore
  <2>3. "recv" \notin BeforeUpload
    BY DEF BeforeUpload
  <2> QED  BY <1>1, <1>2, <2>1, <2>2, <2>3
           DEF CollectInv, PassInv, InStore, Whole
<1>3. ASSUME NEW x \in Files, NEW c, disk' = [disk EXCEPT ![x] = c],
             c.phase = "dumped" => c.size = CoreSize, c.phase # "emptied"
      PROVE  (\A f \in Files : CoreInv(f)') /\ PassInv'
  BY <1>1, <1>2, <1>3
<1>4. CASE UNCHANGED disk
  BY <1>2, <1>4
<1>5. CASE \E f \in Files : /\ disk[f].gen = 0 /\ disk[f].phase = "absent"
                            /\ disk' = [disk EXCEPT ![f] = BeginDump(@)]
  <2>1. PICK f \in Files : /\ disk[f].gen = 0 /\ disk[f].phase = "absent"
                          /\ disk' = [disk EXCEPT ![f] = BeginDump(@)]
    BY <1>5
  <2> DEFINE c == BeginDump(disk[f])
  <2>2. disk' = [disk EXCEPT ![f] = c]
    BY <1>1, <2>1
  <2>3. (c.phase = "dumped" => c.size = CoreSize) /\ c.phase # "emptied"
    BY DEF BeginDump
  <2> HIDE DEF c
  <2> QED  BY <1>3, <2>2, <2>3
<1>6. CASE \E f \in Files : /\ disk[f].phase = "dumping"
                            /\ disk' = [disk EXCEPT ![f] = WriteDump(@)]
  <2>1. PICK f \in Files : /\ disk[f].phase = "dumping"
                          /\ disk' = [disk EXCEPT ![f] = WriteDump(@)]
    BY <1>6
  <2> DEFINE c == WriteDump(disk[f])
  <2>2. disk' = [disk EXCEPT ![f] = c]
    BY <1>1, <2>1
  <2>3. (c.phase = "dumped" => c.size = CoreSize) /\ c.phase # "emptied"
    BY DEF WriteDump
  <2> HIDE DEF c
  <2> QED  BY <1>3, <2>2, <2>3
<1>7. CASE \E f \in Files : /\ disk[f].phase \in {"dumped", "emptied"}
                            /\ disk' = [disk EXCEPT ![f] = Unlink(@)]
  <2>1. PICK f \in Files : /\ disk[f].phase \in {"dumped", "emptied"}
                          /\ disk' = [disk EXCEPT ![f] = Unlink(@)]
    BY <1>7
  <2> DEFINE c == Unlink(disk[f])
  <2>2. disk' = [disk EXCEPT ![f] = c]
    BY <1>1, <2>1
  <2>3. (c.phase = "dumped" => c.size = CoreSize) /\ c.phase # "emptied"
    BY DEF Unlink
  <2> HIDE DEF c
  <2> QED  BY <1>3, <2>2, <2>3
<1> QED  BY <1>1, <1>4, <1>5, <1>6, <1>7, NodeDoes

LEMMA CollectReceive ==
  ASSUME Distinct, CollectInv, HandOver
  PROVE  (\A f \in Files : CoreInv(f)') /\ PassInv'
<1>1. /\ ev \in Files /\ delivered[ev] = 0 /\ disk[ev].gen = 1
      /\ delivered \in [Files -> 0..MaxGen]
  BY NewAndComplete
     DEF Distinct, CollectInv, ArrivalInv, TypeOK, A!TypeOK
<1>2. /\ UNCHANGED <<disk, store>> /\ stage' = "stat" /\ core' = ev
      /\ delivered' = [delivered EXCEPT ![ev] = 1]
  BY <1>1 DEF HandOver, A!Receive
<1>3. delivered'[ev] = 1 /\ \A f \in Files : delivered[f] > 0 => delivered'[f] > 0
  BY <1>1, <1>2
<1>4. ~InStore(ev) /\ disk[ev].phase # "emptied"
  BY <1>1 DEF CollectInv, CoreInv
<1>5. \A f \in Files : CoreInv(f)'
  BY <1>2, <1>3 DEF CollectInv, CoreInv, InStore, Whole
<1> QED  BY <1>2, <1>3, <1>4, <1>5
         DEF PassInv, InStore, Whole, BeforeUpload, AfterUpload

\* The pass changes what the store has under the key of its core only.
LEMMA CollectStore ==
  ASSUME Distinct, CollectInv, stage # "recv", NEW left,
         store' = [store EXCEPT ![KeyOf[core]] = left]
  PROVE  /\ store'[KeyOf[core]] = left
         /\ \A f \in Files \ {core} : InStore(f)' <=> InStore(f)
<1>1. core \in Files /\ KeyOf[core] \in Keys
  BY PassCore DEF Distinct
<1>2. store \in [Keys -> A!Contents \cup {None}] /\ KeyOf \in [Files -> Keys]
  BY Constants DEF CollectInv, ArrivalInv, TypeOK, A!TypeOK
<1>3. \A f \in Files \ {core} : KeyOf[f] # KeyOf[core] /\ KeyOf[f] \in Keys
  BY <1>1, <1>2 DEF Distinct
<1> QED  BY <1>1, <1>2, <1>3 DEF InStore, Whole

\* An upload stores all of the core, or what its error left.
LEMMA CopyFacts ==
  ASSUME Distinct, CollectInv, stage = "copy"
  PROVE  /\ AP!UploadSizes = {CoreSize}
         /\ AP!Stored(CoreSize) = Whole(core)
         /\ \A m : AP!Stored(m) = [Whole(core) EXCEPT !.size = m]
<1>1. AP!TypeOK /\ AP!Faithful
  BY SameAgent DEF CollectInv, ArrivalInv, TypeOK
<1>2. AP!UploadSizes = {held.size} /\ AP!Stored(held.size) = held
  BY <1>1, AP!CopiesWhatWasOpened, Assumptions, CoreFSAssumption
<1>3. held = Whole(core)
  BY DEF CollectInv, PassInv
<1> QED  BY <1>2, <1>3 DEF Whole, AP!Stored

\* Steps of a pass that touch neither the file nor the store.
LEMMA CollectQuiet ==
  ASSUME Distinct, CollectInv, stage # "recv",
         UNCHANGED <<disk, store, core, delivered>>,
         \/ stage' = "recv"
         \/ /\ {stage, stage'} \subseteq BeforeUpload
            /\ UNCHANGED held /\ stage' # "copy"
         \/ {stage, stage'} \subseteq AfterUpload /\ UNCHANGED url
  PROVE  (\A f \in Files : CoreInv(f)') /\ PassInv'
<1>1. \A f \in Files : CoreInv(f)'
  BY DEF CollectInv, CoreInv, InStore, Whole
<1> QED  BY <1>1, PassCore
         DEF CollectInv, PassInv, InStore, Whole, BeforeUpload, AfterUpload

LEMMA CollectOpen ==
  ASSUME Distinct, CollectInv, A!OpenUpload
  PROVE  /\ \A f \in Files : InStore(f)' <=> InStore(f)
         /\ (\A f \in Files : CoreInv(f)') /\ PassInv'
<1>1. stage = "open" /\ stage' = "copy" /\ UNCHANGED <<disk, core, delivered>>
  BY DEF A!OpenUpload
<1>2. disk[core].phase = "dumped" /\ held' = Whole(core)
  <2>1. disk[core].phase = "dumped"
    BY <1>1, PassCore
       DEF A!OpenUpload, A!OnDisk, CollectInv, PassInv, BeforeUpload, Distinct
  <2>2. disk[core].size = CoreSize /\ disk[core].gen = 1
    BY <2>1, <1>1, PassCore DEF CollectInv, CoreInv, Distinct
  <2> QED  BY <2>1, <2>2 DEF A!OpenUpload, A!Snapshot, Whole
<1>3. /\ ~InStore(core) /\ ~InStore(core)'
      /\ \A f \in Files \ {core} : InStore(f)' <=> InStore(f)
  <2>1. ~InStore(core)
    BY <1>1 DEF CollectInv, PassInv, BeforeUpload
  <2>2. CASE UNCHANGED store
    BY <1>1, <2>1, <2>2 DEF InStore, Whole
  <2>3. CASE store' = [store EXCEPT ![KeyOf[core]] =
                         [A!Snapshot(core) EXCEPT !.size = 0]]
    <3> DEFINE left == [A!Snapshot(core) EXCEPT !.size = 0]
    <3>1. left # Whole(core)
      BY Constants DEF A!Snapshot, Whole
    <3> HIDE DEF left
    <3>2. /\ store'[KeyOf[core]] = left
          /\ \A f \in Files \ {core} : InStore(f)' <=> InStore(f)
      BY <1>1, <2>3, CollectStore DEF left
    <3> QED  BY <1>1, <2>1, <3>1, <3>2 DEF InStore, Whole
  <2> QED  BY <2>2, <2>3 DEF A!OpenUpload
<1>4. \A f \in Files : CoreInv(f)'
  BY <1>1, <1>3, PassCore DEF CollectInv, CoreInv, Distinct
<1>5. \A f \in Files : InStore(f)' <=> InStore(f)
  BY <1>1, <1>3 DEF InStore, Whole
<1>6. delivered[core] > 0
  BY <1>1, PassCore DEF Distinct
<1> QED  BY <1>1, <1>2, <1>3, <1>4, <1>5, <1>6
         DEF PassInv, Whole, BeforeUpload, AfterUpload

LEMMA CollectUploaded ==
  ASSUME Distinct, CollectInv, A!Uploaded
  PROVE  /\ InStore(core)'
         /\ \A f \in Files \ {core} : InStore(f)' <=> InStore(f)
         /\ (\A f \in Files : CoreInv(f)') /\ PassInv'
<1>1. /\ stage = "copy" /\ stage' = "clean" /\ url' = KeyOf[core]
      /\ UNCHANGED <<disk, core, delivered>>
  BY DEF A!Uploaded
<1>2. store' = [store EXCEPT ![KeyOf[core]] = Whole(core)]
  <2>1. AP!Uploaded
    BY DEF A!Uploaded, AP!Uploaded, A!UploadSizes, AP!UploadSizes, A!Stored,
           AP!Stored, A!budgets, AP!budgets
  <2> QED  BY <1>1, <2>1, CopyFacts DEF AP!Uploaded
<1>3. /\ store'[KeyOf[core]] = Whole(core)
      /\ \A f \in Files \ {core} : InStore(f)' <=> InStore(f)
  BY <1>1, <1>2, CollectStore
<1>4. InStore(core)'
  BY <1>1, <1>3 DEF InStore, Whole
<1>5. delivered[core] > 0
  BY <1>1, PassCore DEF Distinct
<1>6. \A f \in Files : CoreInv(f)'
  BY <1>1, <1>3, <1>5 DEF CollectInv, CoreInv
<1> QED  BY <1>1, <1>3, <1>4, <1>5, <1>6
         DEF PassInv, BeforeUpload, AfterUpload

\* An upload that ends early spares what other cores have in the store.
LEMMA CollectCut ==
  ASSUME Distinct, CollectInv, stage = "copy", store' \in A!Interrupted
  PROVE  \A f \in Files \ {core} : InStore(f)' <=> InStore(f)
<1>1. PICK left \in A!Leftovers :
        store' = [store EXCEPT ![KeyOf[core]] = left]
  BY DEF A!Interrupted
<1> QED  BY <1>1, CollectStore

LEMMA CollectFails ==
  ASSUME Distinct, CollectInv, stage = "copy", store' \in A!Interrupted,
         stage' = "recv", UNCHANGED <<disk, delivered>>
  PROVE  (\A f \in Files : CoreInv(f)') /\ PassInv'
<1>1. delivered[core] > 0
  BY PassCore DEF Distinct
<1>2. \A f \in Files : CoreInv(f)'
  BY <1>1, CollectCut DEF CollectInv, CoreInv
<1> QED  BY <1>2 DEF PassInv, BeforeUpload, AfterUpload

LEMMA CollectClean ==
  ASSUME Distinct, CollectInv, A!CleanLocal
  PROVE  (\A f \in Files : CoreInv(f)') /\ PassInv'
<1>1. /\ stage = "clean" /\ stage' = "resolve"
      /\ UNCHANGED <<store, core, url, delivered>>
  BY DEF A!CleanLocal, A!passVars
<1>2. delivered[core] > 0 /\ InStore(core) /\ url = KeyOf[core]
  BY <1>1, PassCore DEF Distinct, CollectInv, PassInv, AfterUpload
<1>3. disk \in [Files -> A!CoreState] /\ core \in Files
  BY <1>1, PassCore DEF Distinct, CollectInv, ArrivalInv, TypeOK, A!TypeOK
<1>4. PICK c : /\ disk' = [disk EXCEPT ![core] = c]
               /\ c = disk[core] \/ c.phase # "dumped"
  <2>1. disk = [disk EXCEPT ![core] = disk[core]]
    BY <1>3
  <2>2. A!Unlink(disk[core]).phase # "dumped" /\ A!Empty(disk[core]).phase # "dumped"
    BY DEF A!Unlink, A!Empty
  <2> QED  BY <1>3, <2>1, <2>2 DEF A!CleanLocal
<1>5. disk'[core] = c /\ \A f \in Files \ {core} : disk'[f] = disk[f]
  BY <1>3, <1>4
<1>6. \A f \in Files : CoreInv(f)'
  BY <1>1, <1>2, <1>4, <1>5 DEF CollectInv, CoreInv, InStore, Whole
<1> QED  BY <1>1, <1>2, <1>6
         DEF PassInv, InStore, Whole, BeforeUpload, AfterUpload

LEMMA CollectPass ==
  ASSUME Distinct, CollectInv,
         A!PassStep \/ A!ReportReply \/ A!Crash
  PROVE  (\A f \in Files : CoreInv(f)') /\ PassInv'
<1>1. CASE A!StatCore \/ A!HashCore
  BY <1>1, CollectQuiet DEF A!StatCore, A!HashCore, BeforeUpload
<1>2. CASE A!OpenFails \/ A!SkipReport \/ A!ReportReply \/ A!ReportTimeout
  BY <1>2, CollectQuiet
     DEF A!OpenFails, A!SkipReport, A!ReportReply, A!ReportTimeout, A!NextCore
<1>3. CASE A!OpenUpload
  BY <1>3, CollectOpen
<1>4. CASE A!Uploaded
  BY <1>4, CollectUploaded
<1>5. CASE A!UploadFails
  BY <1>5, CollectFails DEF A!UploadFails, A!NextCore
<1>6. CASE A!CleanLocal
  BY <1>6, CollectClean
<1>7. CASE A!ResolvePod \/ A!Handle \/ A!NotifyChannel \/ A!NotifyDone
           \/ A!PostReport
  BY <1>7, CollectQuiet
     DEF A!ResolvePod, A!Handle, A!NotifyChannel, A!NotifyDone, A!PostReport,
         A!passVars, AfterUpload
<1>8. CASE A!Crash
  <2>1. stage # "recv" /\ stage' = "recv" /\ UNCHANGED <<disk, core, delivered>>
    BY <1>8 DEF A!Crash, A!NextCore
  <2>2. CASE stage = "copy"
    BY <1>8, <2>1, <2>2, CollectFails DEF A!Crash
  <2>3. CASE stage # "copy"
    BY <1>8, <2>1, <2>3, CollectQuiet DEF A!Crash
  <2> QED  BY <2>2, <2>3
<1> QED  BY <1>1, <1>2, <1>3, <1>4, <1>5, <1>6, <1>7, <1>8
         DEF A!PassStep, A!UploadStep

LEMMA CollectInit == Init => CollectInv
<1> SUFFICES ASSUME Init PROVE CollectInv
  OBVIOUS
<1>1. ArrivalInv
  BY ArrivalInit
<1>2. AP!Faithful
  BY DEF Init, A!Init, A!NoSkip, AP!Faithful
<1>3. \A f \in Files : CoreInv(f)
  <2>1. \A f \in Files : KeyOf[f] \in Keys /\ store[KeyOf[f]] = None
    BY Constants DEF Init, A!Init
  <2>2. \A f \in Files : Whole(f) \in A!Contents
    BY Constants DEF A!Contents, Whole
  <2>3. None \notin A!Contents
    BY CoreDogAssumption DEF A!AgentAssumption
  <2>4. \A f \in Files : disk[f].phase = "absent"
    BY DEF Init, A!Init, A!NoCore
  <2> QED  BY <2>1, <2>2, <2>3, <2>4 DEF CoreInv, InStore
<1>4. PassInv
  BY DEF Init, A!Init, PassInv, BeforeUpload, AfterUpload
<1> QED  BY <1>1, <1>2, <1>3, <1>4 DEF CollectInv

LEMMA CollectStep ==
  ASSUME Distinct
  PROVE  CollectInv /\ [Next]_vars => CollectInv'
<1> SUFFICES ASSUME CollectInv, [Next]_vars PROVE CollectInv'
  OBVIOUS
<1>1. ArrivalInv' /\ AP!Faithful'
  BY ArrivalStep, FaithfulStep DEF Distinct, CollectInv
<1>2. CASE UNCHANGED <<disk, agentVars>>
  <2>1. (\A f \in Files : CoreInv(f)') /\ PassInv'
    BY <1>2 DEF agentVars, CollectInv, CoreInv, PassInv, InStore, Whole
  <2> QED  BY <1>1, <2>1 DEF CollectInv
<1>3. CASE UNCHANGED vars
  BY <1>2, <1>3 DEF vars
<1>4. CASE Start \/ Watch \/ (Crash /\ stage = "recv")
  BY <1>2, <1>4, WatchKeepsDisk DEF Start, Watch, Crash
<1>5. CASE NodeStep
  BY <1>1, <1>5, CollectNode DEF CollectInv
<1>6. CASE HandOver
  BY <1>1, <1>6, CollectReceive DEF CollectInv
<1>7. CASE Pass \/ Reply \/ (Crash /\ stage # "recv")
  BY <1>1, <1>7, CollectPass DEF CollectInv, Pass, Reply, Crash
<1> QED  BY <1>3, <1>4, <1>5, <1>6, <1>7 DEF Next

-----------------------------------------------------------------------------
(* The promise                                                             *)

\* What the variables of Collection are in the process.
completeCores == {f \in Files : disk[f].gen > 0 /\ disk[f].phase # "dumping"}
keptCores == {f \in Files : disk[f].phase = "dumped"}
storedCores == {f \in Files : InStore(f)}
announcedCores == {f \in Files : \E p \in published : p.url = KeyOf[f]}

LEMMA PromiseReads ==
  /\ Promise!vars = <<completeCores, keptCores, storedCores, announcedCores,
                      churn>>
  /\ Promise!vars' = <<completeCores', keptCores', storedCores',
                       announcedCores', churn'>>
BY DEF Promise!vars, completeCores, keptCores, storedCores, announcedCores,
       InStore, Whole

LEMMA PromiseInit == Init => Promise!Init
<1> SUFFICES ASSUME Init PROVE Promise!Init
  OBVIOUS
<1>1. \A f \in Files : disk[f].gen = 0 /\ disk[f].phase = "absent"
  BY DEF Init, A!Init, A!NoCore
<1>2. \A f \in Files : ~InStore(f)
  <2>1. \A f \in Files : CoreInv(f)
    BY CollectInit DEF CollectInv
  <2>2. \A f \in Files : delivered[f] = 0
    BY DEF Init, A!Init
  <2>3. ASSUME NEW f \in Files PROVE ~(delivered[f] > 0)
    <3>1. delivered[f] = 0
      BY <2>2
    <3> QED  BY <3>1
  <2> QED  BY <2>1, <2>3 DEF CoreInv, InStore
<1>3. published = {} /\ churn = MaxChurn
  BY DEF Init, A!Init
<1> QED  BY <1>1, <1>2, <1>3 DEF Promise!Init, InStore, Whole

LEMMA PromiseStays ==
  ASSUME UNCHANGED <<disk, store, published, churn>>
  PROVE  UNCHANGED Promise!vars
BY DEF Promise!vars

\* The node completes cores and operators take them away.
LEMMA PromiseNode ==
  ASSUME Distinct, CollectInv, NodeStep
  PROVE  [Promise!Next]_(Promise!vars)
<1>1. /\ UNCHANGED <<store, published>> /\ TypeOK
      /\ disk \in [Files -> A!CoreState]
  BY NodeDoes DEF Distinct, CollectInv, ArrivalInv, agentVars, TypeOK, A!TypeOK
<1>2. UNCHANGED <<storedCores, announcedCores>>
  BY <1>1 DEF storedCores, announcedCores, InStore, Whole
<1>3. CASE UNCHANGED <<disk, churn>>
  BY <1>1, <1>3, PromiseStays
<1>4. CASE UNCHANGED disk /\ churn > 0 /\ churn' = churn - 1
  <2>1. Promise!Disturb
    BY <1>1, <1>4 DEF Promise!Disturb
  <2> QED  BY <2>1 DEF Promise!Next
<1>5. ASSUME NEW x \in Files, NEW c, disk' = [disk EXCEPT ![x] = c]
      PROVE  /\ disk'[x] = c
             /\ \A f \in Files \ {x} : disk'[f] = disk[f]
  BY <1>1, <1>5
<1>6. ASSUME NEW x \in Files, disk[x].gen = 0, disk[x].phase = "absent",
             disk' = [disk EXCEPT ![x] = BeginDump(@)], UNCHANGED churn
      PROVE  UNCHANGED Promise!vars
  <2>1. disk' = [disk EXCEPT ![x] = BeginDump(disk[x])]
    BY <1>1, <1>6
  <2>2. /\ disk'[x] = BeginDump(disk[x])
        /\ \A f \in Files \ {x} : disk'[f] = disk[f]
    BY <1>5, <2>1
  <2>3. UNCHANGED <<completeCores, keptCores>>
    BY <1>6, <2>2 DEF BeginDump, completeCores, keptCores
  <2> QED  BY <1>2, <1>6, <2>3, PromiseReads
<1>7. ASSUME NEW x \in Files, disk[x].phase = "dumping",
             disk' = [disk EXCEPT ![x] = WriteDump(@)], UNCHANGED churn
      PROVE  [Promise!Next]_(Promise!vars)
  <2>1. disk' = [disk EXCEPT ![x] = WriteDump(disk[x])]
    BY <1>1, <1>7
  <2>2. disk[x].gen > 0
    BY <1>1, <1>7 DEF A!CoreState
  <2>3. /\ disk'[x] = WriteDump(disk[x])
        /\ \A f \in Files \ {x} : disk'[f] = disk[f]
    BY <1>5, <2>1
  <2>4. disk'[x].phase \in {"dumping", "dumped"} /\ disk'[x].gen > 0
    BY <2>2, <2>3 DEF WriteDump
  <2>5. CASE disk'[x].phase = "dumping"
    <3>1. UNCHANGED <<completeCores, keptCores>>
      BY <1>7, <2>2, <2>3, <2>5, <2>4 DEF completeCores, keptCores
    <3> QED  BY <1>2, <1>7, <3>1, PromiseReads
  <2>6. CASE disk'[x].phase = "dumped"
    <3>1. /\ x \notin completeCores
          /\ completeCores' = completeCores \cup {x}
          /\ keptCores' = keptCores \cup {x}
      BY <1>7, <2>3, <2>6, <2>4 DEF completeCores, keptCores
    <3>2. Promise!Complete(x)
      BY <1>2, <1>7, <3>1
         DEF Promise!Complete, completeCores, keptCores, storedCores,
             announcedCores, InStore, Whole
    <3> QED  BY <3>2 DEF Promise!Next
  <2> QED  BY <2>5, <2>6, <2>4
<1>8. ASSUME NEW x \in Files, disk[x].phase \in {"dumped", "emptied"},
             disk' = [disk EXCEPT ![x] = Unlink(@)],
             churn > 0, churn' = churn - 1
      PROVE  Promise!Next
  <2>1. disk' = [disk EXCEPT ![x] = Unlink(disk[x])]
    BY <1>1, <1>8
  <2>2. disk[x].gen > 0
    BY <1>1, <1>8 DEF A!CoreState
  <2>3. /\ disk'[x] = Unlink(disk[x])
        /\ \A f \in Files \ {x} : disk'[f] = disk[f]
    BY <1>5, <2>1
  <2>4. UNCHANGED completeCores /\ keptCores' = keptCores \ {x}
    BY <1>8, <2>2, <2>3 DEF Unlink, completeCores, keptCores
  <2>5. Promise!Purge(x)
    BY <1>2, <1>8, <2>4
       DEF Promise!Purge, completeCores, keptCores, storedCores,
           announcedCores, InStore, Whole
  <2> QED  BY <2>5 DEF Promise!Next
<1> QED  BY <1>1, <1>3, <1>4, <1>6, <1>7, <1>8, NodeDoes DEF Distinct

\* The store has one core more, or what it had.
LEMMA PromiseStore ==
  ASSUME Distinct, CollectInv, stage = "copy",
         UNCHANGED <<disk, core, published, churn>>,
         \A f \in Files \ {core} : InStore(f)' <=> InStore(f)
  PROVE  [Promise!Next]_(Promise!vars)
<1>1. core \in Files /\ core \in completeCores /\ ~InStore(core)
  BY PassCore DEF Distinct, completeCores, CollectInv, PassInv, BeforeUpload
<1>2. UNCHANGED <<completeCores, keptCores, announcedCores>>
  BY DEF completeCores, keptCores, announcedCores
<1>3. CASE ~InStore(core)'
  <2>1. UNCHANGED storedCores
    BY <1>1, <1>3 DEF storedCores, InStore, Whole
  <2> QED  BY <1>2, <2>1, PromiseReads
<1>4. CASE InStore(core)'
  <2>1. PICK x \in Files : x = core
    BY <1>1
  <2>2. storedCores' = storedCores \cup {x}
    BY <1>1, <1>4, <2>1 DEF storedCores, InStore, Whole
  <2>3. Promise!Store(x)
    BY <1>1, <1>2, <2>1, <2>2
       DEF Promise!Store, completeCores, keptCores, storedCores,
           announcedCores, InStore, Whole
  <2> QED  BY <2>3 DEF Promise!Next
<1> QED  BY <1>3, <1>4

\* Who is given the URL of a pass is told of its core, and of no other.
LEMMA PromiseAnnounce ==
  ASSUME Distinct, CollectInv, stage \in AfterUpload,
         UNCHANGED <<disk, store, churn>>, NEW what, NEW size,
         published' = published \cup
                        {[url |-> url, is |-> what, size |-> size]}
  PROVE  [Promise!Next]_(Promise!vars)
<1>1. stage # "recv"
  BY DEF AfterUpload
<1>2. PICK x \in Files : x = core
  BY <1>1, PassCore DEF Distinct
<1>3. x \in storedCores /\ url = KeyOf[x]
  BY <1>2 DEF CollectInv, PassInv, storedCores
<1>4. UNCHANGED <<completeCores, keptCores, storedCores>>
  BY DEF completeCores, keptCores, storedCores, InStore, Whole
<1>5. announcedCores' = announcedCores \cup {x}
  <2> DEFINE e == [url |-> url, is |-> what, size |-> size]
  <2>1. e.url = KeyOf[x] /\ published' = published \cup {e}
    BY <1>3
  <2> HIDE DEF e
  <2>2. \A f \in Files : KeyOf[f] = KeyOf[x] <=> f = x
    BY DEF Distinct
  <2> QED  BY <2>1, <2>2 DEF announcedCores
<1>6. Promise!Announce(x)
  BY <1>3, <1>4, <1>5
     DEF Promise!Announce, completeCores, keptCores, storedCores,
         announcedCores, InStore, Whole
<1> QED  BY <1>6 DEF Promise!Next

\* The agent gives up a copy the store has, too.
LEMMA PromiseClean ==
  ASSUME Distinct, CollectInv, A!CleanLocal, UNCHANGED churn
  PROVE  [Promise!Next]_(Promise!vars)
<1>1. stage = "clean" /\ UNCHANGED <<store, core, published>>
  BY DEF A!CleanLocal, A!passVars
<1>2. PICK x \in Files : x = core
  BY <1>1, PassCore DEF Distinct
<1>3. x \in storedCores
  BY <1>1, <1>2 DEF CollectInv, PassInv, storedCores, AfterUpload
<1>4. disk[x].gen = 1 /\ disk[x].phase # "dumping"
  BY <1>1, <1>2, PassCore DEF Distinct
<1>5. UNCHANGED <<storedCores, announcedCores>>
  BY <1>1 DEF storedCores, announcedCores, InStore, Whole
<1>6. CASE UNCHANGED disk
  BY <1>1, <1>6, PromiseStays
<1>7. ASSUME NEW c, disk' = [disk EXCEPT ![x] = c],
             c.gen = 1, c.phase \in {"absent", "emptied"}
      PROVE  [Promise!Next]_(Promise!vars)
  <2>1. disk'[x] = c /\ \A f \in Files \ {x} : disk'[f] = disk[f]
    BY <1>7 DEF CollectInv, ArrivalInv, TypeOK, A!TypeOK
  <2>2. UNCHANGED completeCores /\ keptCores' = keptCores \ {x}
    BY <1>4, <1>7, <2>1 DEF completeCores, keptCores
  <2>3. Promise!Dispose(x)
    BY <1>3, <1>5, <2>2
       DEF Promise!Dispose, completeCores, keptCores, storedCores,
           announcedCores, InStore, Whole
  <2> QED  BY <2>3 DEF Promise!Next
<1>8. /\ A!Unlink(disk[x]).gen = 1 /\ A!Unlink(disk[x]).phase = "absent"
      /\ A!Empty(disk[x]).gen = 1 /\ A!Empty(disk[x]).phase = "emptied"
  BY <1>4 DEF A!Unlink, A!Empty
<1>9. \/ UNCHANGED disk
      \/ disk' = [disk EXCEPT ![x] = A!Unlink(disk[x])]
      \/ disk' = [disk EXCEPT ![x] = A!Empty(disk[x])]
  BY <1>2 DEF A!CleanLocal, CollectInv, ArrivalInv, TypeOK, A!TypeOK
<1> QED  BY <1>6, <1>7, <1>8, <1>9

\* One step of a pass, its end by a crash included.
LEMMA PromisePass ==
  ASSUME Distinct, CollectInv, A!PassStep \/ A!ReportReply \/ A!Crash
  PROVE  [Promise!Next]_(Promise!vars)
<1>1. UNCHANGED churn
  BY PassFacts DEF A!Crash
<1>2. CASE \/ A!StatCore \/ A!HashCore \/ A!OpenFails \/ A!ResolvePod
           \/ A!NotifyDone \/ A!SkipReport \/ A!ReportReply
           \/ A!ReportTimeout
  BY <1>1, <1>2, PromiseStays
     DEF A!StatCore, A!HashCore, A!OpenFails, A!ResolvePod, A!NotifyDone,
         A!SkipReport, A!ReportReply, A!ReportTimeout
<1>3. CASE A!OpenUpload
  <2>1. UNCHANGED <<disk, published>>
    BY <1>3 DEF A!OpenUpload
  <2>2. UNCHANGED storedCores
    BY <1>3, CollectOpen DEF storedCores
  <2>3. UNCHANGED <<completeCores, keptCores, announcedCores>>
    BY <2>1 DEF completeCores, keptCores, announcedCores
  <2> QED  BY <1>1, <2>2, <2>3, PromiseReads
<1>4. CASE A!Uploaded
  <2>1. stage = "copy" /\ UNCHANGED <<disk, core, published>>
    BY <1>4 DEF A!Uploaded
  <2> QED  BY <1>1, <1>4, <2>1, CollectUploaded, PromiseStore
<1>5. CASE A!UploadFails \/ (A!Crash /\ stage = "copy")
  <2>1. /\ stage = "copy" /\ store' \in A!Interrupted
        /\ UNCHANGED <<disk, core, published>>
    BY <1>5 DEF A!UploadFails, A!Crash
  <2> QED  BY <1>1, <2>1, CollectCut, PromiseStore
<1>6. CASE A!CleanLocal
  BY <1>1, <1>6, PromiseClean
<1>7. CASE A!Handle \/ A!NotifyChannel \/ A!PostReport
  <2>1. stage \in AfterUpload /\ UNCHANGED <<disk, store>>
    BY <1>7 DEF A!Handle, A!NotifyChannel, A!PostReport, AfterUpload
  <2>2. \/ UNCHANGED published
        \/ \E what, size : published' = published \cup
                             {[url |-> url, is |-> what, size |-> size]}
    BY <1>7 DEF A!Handle, A!NotifyChannel, A!PostReport, A!Publish
  <2>3. CASE UNCHANGED published
    BY <1>1, <2>1, <2>3, PromiseStays
  <2>4. ASSUME NEW what, NEW size,
               published' = published \cup
                              {[url |-> url, is |-> what, size |-> size]}
        PROVE  [Promise!Next]_(Promise!vars)
    BY <1>1, <2>1, <2>4, PromiseAnnounce
  <2> QED  BY <2>2, <2>3, <2>4
<1>8. CASE A!Crash /\ stage # "copy"
  BY <1>1, <1>8, PromiseStays DEF A!Crash
<1> QED  BY <1>2, <1>3, <1>4, <1>5, <1>6, <1>7, <1>8
         DEF A!PassStep, A!UploadStep

LEMMA PromiseStep ==
  ASSUME Distinct
  PROVE  CollectInv /\ [Next]_vars => [Promise!Next]_(Promise!vars)
<1> SUFFICES ASSUME CollectInv, [Next]_vars
             PROVE  [Promise!Next]_(Promise!vars)
  OBVIOUS
<1>1. CASE UNCHANGED vars
  BY <1>1, PromiseStays DEF vars, agentVars
<1>2. CASE NodeStep
  BY <1>2, PromiseNode
<1>3. CASE Start \/ Watch \/ (Crash /\ stage = "recv")
  <2>1. UNCHANGED <<disk, agentVars, churn>>
    BY <1>3, WatchKeepsDisk DEF Start, Watch, Crash
  <2> QED  BY <2>1, PromiseStays DEF agentVars
<1>4. CASE HandOver
  BY <1>4, PromiseStays DEF HandOver, A!Receive, A!budgets
<1>5. CASE Pass \/ Reply \/ (Crash /\ stage # "recv")
  BY <1>5, PromisePass DEF Pass, Reply, Crash
<1> QED  BY <1>1, <1>2, <1>3, <1>4, <1>5 DEF Next

\* CoreDog implements Collection: in no interleaving of the watcher, the
\* agent, the stores, operators and crashes does it give up the only copy of
\* a complete core, overwrite a stored one or give away the URL of an object
\* that is not there (filewatch.go:126-139, agent.go:117-185).
THEOREM KeepsThePromise ==
  ASSUME Distinct
  PROVE  Spec => KeepsPromise
<1>1. Init => CollectInv
  BY CollectInit
<1>2. CollectInv /\ [Next]_vars => CollectInv'
  BY CollectStep
<1>3. Init => Promise!Init
  BY PromiseInit
<1>4. CollectInv /\ [Next]_vars => [Promise!Next]_(Promise!vars)
  BY PromiseStep
<1> QED  BY <1>1, <1>2, <1>3, <1>4, PTL DEF Spec, KeepsPromise, Promise!Spec

-----------------------------------------------------------------------------
(* What is proved of the parts, in the process                             *)

LEMMA SameCovered ==
  /\ WP!HeardDirCovered => W!HeardDirCovered
  /\ WP!HeardCoreCovered => W!HeardCoreCovered
  /\ WP!AtMostOnceCaptured => W!AtMostOnceCaptured
<1>1. WP!HeardDirCovered => W!HeardDirCovered
  BY DEF WP!HeardDirCovered, W!HeardDirCovered, WP!Covered, W!Covered,
         WP!PendingCreate, W!PendingCreate, WP!Silent, W!Silent,
         WP!Event, W!Event
<1>2. WP!HeardCoreCovered => W!HeardCoreCovered
  BY DEF WP!HeardCoreCovered, W!HeardCoreCovered, WP!Deaf, W!Deaf,
         WP!HasOverflow, W!HasOverflow, WP!Overflow, W!Overflow,
         WP!Event, W!Event
<1>3. WP!AtMostOnceCaptured => W!AtMostOnceCaptured
  BY DEF WP!AtMostOnceCaptured, W!AtMostOnceCaptured
<1> QED  BY <1>1, <1>2, <1>3

\* Whatever passes the agent makes meanwhile, and however long the watcher
\* waits for it in its send, no directory it was told of is forgotten
\* (filewatch.go:118-170, agent.go:114).
THEOREM DirsCovered == Spec => []W!HeardDirCovered
<1>1. WP!Spec => []WP!HeardDirCovered
  BY WP!DirCovered, Assumptions, CoreFSAssumption
<1> QED  BY <1>1, SameCovered, WatcherInside, PTL

\* A core the watcher was told of is received by the agent, or on its way to
\* it, while the agent is busy with others and truncates and removes them: the
\* events of its disposals do not unmark or unwatch too much
\* (filewatch.go:126-164, agent.go:130-145).
THEOREM CoresCovered ==
  ASSUME WP!Undisturbed
  PROVE  Spec => []W!HeardCoreCovered
<1>1. WP!Spec => []WP!HeardCoreCovered
  BY WP!CoreCovered, Assumptions, CoreFSAssumption
<1> QED  BY <1>1, SameCovered, WatcherInside, PTL

\* What a pass knows of its core, and what it announced.
KnownInv == AP!InfoHolds /\ AP!Announced

LEMMA KnownStep ==
  ASSUME Distinct
  PROVE  CollectInv /\ KnownInv /\ [Next]_vars => KnownInv'
<1> SUFFICES ASSUME CollectInv, KnownInv, [Next]_vars PROVE KnownInv'
  OBVIOUS
<1>1. AP!TypeOK /\ AP!Faithful /\ AP!Separate
  BY SameAgent DEF CollectInv, ArrivalInv, TypeOK, AP!Separate, Distinct
<1>2. CASE [AP!Next]_(AP!vars)
  <2>1. AP!InfoHolds'
    BY <1>1, <1>2, AP!InfoStep, Assumptions, CoreFSAssumption
       DEF KnownInv, Distinct
  <2>2. AP!Announced'
    BY <1>1, <1>2, AP!AnnouncedStep, Assumptions, CoreFSAssumption
       DEF KnownInv
  <2> QED  BY <2>1, <2>2 DEF KnownInv
<1>3. CASE UNCHANGED <<disk, agentVars>>
  BY <1>3 DEF agentVars, KnownInv, AP!InfoHolds, AP!Announced,
              AP!Snapshot, AP!OnDisk
<1> QED  BY <1>2, <1>3, AgentSees DEF CollectInv, Distinct

LEMMA KnownInit == Init => KnownInv
BY DEF Init, A!Init, KnownInv, AP!InfoHolds, AP!Announced

\* URLs given away by the process keep designating the bytes, size and MD5
\* they were given with: the watcher sends what this needs, in spite of
\* restarts, removals and the events of the agent's own disposals
\* (filewatch.go:126-164, agent.go:117, 159-166, 185).
THEOREM UrlsHold ==
  ASSUME Distinct
  PROVE  Spec => []A!PublishedUrlsHold
<1>1. KnownInv => A!PublishedUrlsHold
  BY DEF KnownInv, AP!Announced, A!PublishedUrlsHold
<1> QED  BY CollectInit, CollectStep, KnownInit, KnownStep, <1>1, PTL DEF Spec

\* In no interleaving does the agent truncate or remove a core of which the
\* store has less than the file (agent.go:123-145).
THEOREM DisposesOfStored ==
  ASSUME MaxGen = 1, ~StallPossible
  PROVE  Spec => A!DeletesOnlyStored
<1> DEFINE I == ArrivalInv /\ AP!Faithful
<1>1. Init => I
  BY ArrivalInit DEF Init, A!Init, A!NoSkip, AP!Faithful
<1>2. I /\ [Next]_vars => I'
  BY ArrivalStep, FaithfulStep
<1>3. I /\ [Next]_vars =>
        [stage = "clean" /\ stage' = "resolve" /\ disk' # disk
           => url # None /\ store[url] = A!Snapshot(core)]_(A!vars)
  <2> SUFFICES ASSUME I, [Next]_vars, stage = "clean", stage' = "resolve",
                      disk' # disk
               PROVE  url # None /\ store[url] = A!Snapshot(core)
    OBVIOUS
  <2>1. [AP!Next]_(AP!vars)
    BY AgentSees
  <2>2. AP!TypeOK
    BY SameAgent DEF ArrivalInv, TypeOK
  <2>3. [stage = "clean" /\ stage' = "resolve" /\ disk' # disk
           => url # None /\ store[url] = AP!Snapshot(core)]_(AP!vars)
    BY <2>1, <2>2, AP!CleanStep, Assumptions, CoreFSAssumption
  <2> QED  BY <2>3 DEF AP!vars, AP!Snapshot, A!Snapshot
<1> QED  BY <1>1, <1>2, <1>3, PTL DEF Spec, A!DeletesOnlyStored

\* Whom a pass has told is known whatever arrives.
LEMMA TellingStep == TypeOK /\ AP!Telling /\ [Next]_vars => AP!Telling'
<1> SUFFICES ASSUME TypeOK, AP!Telling, [Next]_vars PROVE AP!Telling'
  OBVIOUS
<1>1. CASE UNCHANGED agentVars
  BY <1>1 DEF agentVars, AP!Telling, AP!SkipsChannels, AP!Recipients
<1>2. CASE HandOver
  BY <1>2 DEF HandOver, A!Receive, A!FreshPass, AP!Telling
<1>3. CASE Pass \/ Reply \/ (Crash /\ stage # "recv")
  <2>1. AP!Next
    BY <1>3, SameAgent DEF Pass, Reply, Crash, AP!Next
  <2> QED  BY <2>1, SameAgent, AP!TellingStep, Assumptions, CoreFSAssumption
           DEF TypeOK
<1> QED  BY <1>1, <1>2, <1>3 DEF Next, NodeStep, Start, Watch, Crash, vars

LEMMA EndStep ==
  ASSUME TypeOK, AP!Telling, [Next]_vars
  PROVE  [stage # "recv" /\ stage' = "recv" /\ crashes' = crashes /\ url # None
            => \/ told = A!Recipients(core)
               \/ told = {} /\ AP!SkipsChannels]_(A!vars)
<1> SUFFICES ASSUME stage # "recv", stage' = "recv", crashes' = crashes,
                    url # None
             PROVE  told = A!Recipients(core) \/ (told = {} /\ AP!SkipsChannels)
  OBVIOUS
<1>1. AP!Next
  <2>1. Pass \/ Reply \/ Crash
    BY DEF Next, NodeStep, Start, Watch, HandOver, A!Receive, agentVars, vars
  <2> QED  BY <2>1, SameAgent DEF Pass, Reply, Crash, AP!Next
<1>2. [stage # "recv" /\ stage' = "recv" /\ crashes' = crashes /\ url # None
         => \/ told = AP!Recipients(core)
            \/ told = {} /\ AP!SkipsChannels]_(AP!vars)
  BY <1>1, SameAgent, AP!EndStep, Assumptions, CoreFSAssumption DEF TypeOK
<1> QED  BY <1>2 DEF AP!vars, AP!Recipients, A!Recipients

\* In every interleaving, whatever the watcher hands over: a core that was
\* incomplete, or comes again, is told of to all its channels or, with the
\* handler called in their place, to none (agent.go:49-66, 152-187).
THEOREM AllToldOrSkipped == Spec => A!ToldUnlessSkipped
<1>1. Init => AP!Telling
  BY DEF Init, A!Init, A!NoSkip, AP!Telling
<1>2. TypeOK /\ AP!Telling /\ [Next]_vars =>
        [stage # "recv" /\ stage' = "recv" /\ crashes' = crashes /\ url # None
           => \/ told = A!Recipients(core)
              \/ told = {} /\ AP!SkipsChannels]_(A!vars)
  BY EndStep
<1> QED  BY <1>1, <1>2, TellingStep, TypeCorrect, PTL
         DEF Spec, A!ToldUnlessSkipped, AP!SkipsChannels
=============================================================================
