----------------------------- MODULE AgentProofs -----------------------------
(***************************************************************************)
(* For every set of cores, keys and channels, every configuration and      *)
(* every number of purges and crashes: the types of Agent, that it deletes *)
(* only what it has stored, that what is uploaded is told, and that the    *)
(* URLs it has announced hold.                                             *)
(***************************************************************************)
EXTENDS Agent, TLAPS

-----------------------------------------------------------------------------
(* Types                                                                   *)

\* What is read from a core that was dumped.
LEMMA SnapshotType ==
  ASSUME NEW f \in Files, disk \in [Files -> CoreState], disk[f].gen > 0
  PROVE  /\ Snapshot(f) \in Contents
         /\ [Snapshot(f) EXCEPT !.size = 0] \in Contents
         /\ disk[f].size \in 0..CoreSize
<1>1. disk[f].gen \in 1..MaxGen /\ disk[f].size \in 0..CoreSize
  BY CoreFSAssumption DEF CoreState
<1>2. 0 \in 0..CoreSize
  BY CoreFSAssumption
<1>3. [Snapshot(f) EXCEPT !.size = 0] = [core |-> f, gen |-> disk[f].gen, size |-> 0]
  BY DEF Snapshot
<1> QED  BY <1>1, <1>2, <1>3 DEF Snapshot, Contents

\* None is none of the records the variables hold.
LEMMA NoneIsNone ==
  /\ None \notin Files /\ None \notin Keys /\ None \notin Contents
  /\ None \notin Parsed /\ None \notin Pods
  BY AgentAssumption

\* Purging, truncating and dumping keep a core in its type and its number.
LEMMA CoreTypes ==
  ASSUME NEW c \in CoreState
  PROVE  /\ c.gen < MaxGen => BeginDump(c) \in CoreState /\ BeginDump(c).gen > 0
         /\ c.phase = "dumping" =>
              WriteDump(c) \in CoreState /\ WriteDump(c).gen = c.gen
         /\ Unlink(c) \in CoreState /\ Unlink(c).gen = c.gen
         /\ c.phase # "absent" => Empty(c) \in CoreState /\ Empty(c).gen = c.gen
<1> USE CoreFSAssumption DEF CoreState, Phases
<1>1. c.gen < MaxGen => BeginDump(c) \in CoreState /\ BeginDump(c).gen > 0
  BY DEF BeginDump
<1>2. c.phase = "dumping" =>
        WriteDump(c) \in CoreState /\ WriteDump(c).gen = c.gen
  BY DEF WriteDump
<1>3. /\ Unlink(c) \in CoreState /\ Unlink(c).gen = c.gen
      /\ c.phase # "absent" => Empty(c) \in CoreState /\ Empty(c).gen = c.gen
  BY DEF Unlink, Empty
<1> QED  BY <1>1, <1>2, <1>3

\* The object of an upload, complete or not.
LEMMA StoredType ==
  ASSUME TypeOK, pc = "copy"
  PROVE  /\ UploadSizes \subseteq 0..CoreSize
         /\ \A n \in 0..CoreSize : Stored(n) \in Contents
         /\ Interrupted \subseteq [Keys -> Contents \cup {None}]
<1>1. held \in Contents /\ core \in Files /\ disk[core].gen > 0
  BY NoneIsNone DEF TypeOK
<1>2. disk[core].size \in 0..CoreSize /\ held.size \in 0..CoreSize
  BY <1>1, SnapshotType DEF TypeOK, Contents
<1>3. UploadSizes \subseteq 0..CoreSize
  BY <1>2, CoreFSAssumption DEF UploadSizes
<1>4. \A n \in 0..CoreSize : Stored(n) \in Contents
  BY <1>1 DEF Stored, Contents
<1>5. \A n \in UploadSizes : 0..n \subseteq 0..CoreSize
  BY <1>3, CoreFSAssumption
<1>6. store[KeyOf[core]] \in Contents \cup {None}
  BY <1>1, AgentAssumption DEF TypeOK
<1>7. Leftovers \subseteq Contents \cup {None}
  BY <1>3, <1>4, <1>5, <1>6 DEF Leftovers
<1>8. Interrupted \subseteq [Keys -> Contents \cup {None}]
  BY <1>7 DEF Interrupted, TypeOK
<1> QED  BY <1>3, <1>4, <1>8

LEMMA InitType == Init => TypeOK
<1> SUFFICES ASSUME Init PROVE TypeOK
  OBVIOUS
<1> USE AgentAssumption, CoreFSAssumption DEF Init
<1>1. disk \in [Files -> CoreState]
  BY DEF NoCore, CoreState, Phases
<1>2. delivered \in [Files -> 0..MaxGen] /\ store \in [Keys -> Contents \cup {None}]
  OBVIOUS
<1>3. Len(Channels) \in Nat
  OBVIOUS
<1>4. skip \in [notify : BOOLEAN, coreSight : BOOLEAN]
  BY DEF NoSkip
<1>5. ch \in 1..(Len(Channels) + 1) /\ told \in SUBSET (1..Len(Channels))
  BY <1>3
<1>6. /\ published \in SUBSET [url : Keys, is : Contents, size : 0..CoreSize]
      /\ purges \in 0..MaxPurges /\ crashes \in 0..MaxCrashes
  OBVIOUS
<1> QED  BY <1>1, <1>2, <1>4, <1>5, <1>6 DEF TypeOK, PCs

LEMMA NodeType == TypeOK /\ NodeStep => TypeOK'
<1> SUFFICES ASSUME TypeOK, NEW f \in Files,
                    CoreBegin(f) \/ CoreWrite(f) \/ Purge(f)
             PROVE  TypeOK'
  BY DEF NodeStep
<1>1. /\ disk' \in [Files -> CoreState]
      /\ \A g \in Files : disk[g].gen > 0 => disk'[g].gen > 0
  <2>1. PICK c \in CoreState : /\ disk' = [disk EXCEPT ![f] = c]
                               /\ c.gen > 0 \/ c.gen = disk[f].gen
    BY CoreTypes DEF TypeOK, CoreBegin, CoreWrite, Purge
  <2> QED  BY <2>1 DEF TypeOK
<1>2. UNCHANGED nodeUnchanged /\ purges' \in 0..MaxPurges /\ UNCHANGED crashes
  BY AgentAssumption DEF TypeOK, CoreBegin, CoreWrite, Purge, budgets
<1> QED  BY <1>1, <1>2 DEF TypeOK, nodeUnchanged, passVars, Snapshot

\* The start of a pass, its parser and its end.
LEMMA PassBounds ==
  ASSUME TypeOK, \/ \E f \in Files : Receive(f)
                 \/ StatCore \/ HashCore \/ Crash
  PROVE  TypeOK'
<1> USE AgentAssumption, CoreFSAssumption DEF TypeOK, PCs, budgets
<1>1. ASSUME NEW f \in Files, Receive(f) PROVE TypeOK'
  <2>1. delivered' \in [Files -> 0..MaxGen]
    BY <1>1 DEF Receive, CoreState
  <2>2. Len(Channels) \in Nat /\ ch' \in 1..(Len(Channels) + 1)
    BY <1>1 DEF Receive, FreshPass
  <2> QED  BY <1>1, <2>1, <2>2 DEF Receive, FreshPass, NoSkip
<1>2. CASE StatCore
  <2>1. disk[core].size \in 0..CoreSize
    BY <1>2, SnapshotType DEF StatCore
  <2>2. pc' # "hash" => info' \in Parsed \cup {None}
    BY <1>2 DEF StatCore
  <2>3. pc' = "hash" => info' \in [size : 0..CoreSize, digest : {None}]
    BY <1>2, <2>1 DEF StatCore
  <2> QED  BY <1>2, <2>2, <2>3 DEF StatCore
<1>3. CASE HashCore
  <2>1. Snapshot(core) \in Contents
    BY <1>3, SnapshotType DEF HashCore
  <2>2. info' \in Parsed \cup {None}
    BY <1>3, <2>1 DEF HashCore, Parsed, ParseFailed
  <2> QED  BY <1>3, <2>2 DEF HashCore
<1>4. CASE Crash
  <2>1. Len(Channels) \in Nat /\ ch' \in 1..(Len(Channels) + 1)
    BY <1>4 DEF Crash, FreshPass
  <2>2. crashes' \in 0..MaxCrashes
    BY <1>4 DEF Crash
  <2>3. store' \in [Keys -> Contents \cup {None}]
    BY <1>4, StoredType DEF Crash
  <2> QED  BY <1>4, <2>1, <2>2, <2>3 DEF Crash, NextCore, FreshPass, NoSkip
<1> QED  BY <1>1, <1>2, <1>3, <1>4

LEMMA UploadType == TypeOK /\ (UploadStep \/ CleanLocal) => TypeOK'
<1> SUFFICES ASSUME TypeOK, UploadStep \/ CleanLocal PROVE TypeOK'
  OBVIOUS
<1> USE AgentAssumption, CoreFSAssumption DEF TypeOK, PCs, budgets, passVars
<1>1. CASE OpenUpload
  <2>1. Snapshot(core) \in Contents
    BY <1>1, SnapshotType DEF OpenUpload
  <2>2. [Snapshot(core) EXCEPT !.size = 0] \in Contents
    BY <1>1, SnapshotType DEF OpenUpload
  <2>3. store' \in [Keys -> Contents \cup {None}] /\ held' \in Contents
    BY <1>1, <2>1, <2>2 DEF OpenUpload
  <2> QED  BY <1>1, <2>3, NoneIsNone DEF OpenUpload
<1>2. CASE OpenFails
  BY <1>2 DEF OpenFails, NextCore
<1>3. CASE Uploaded
  <2>1. PICK n \in 0..CoreSize :
          /\ store' = [store EXCEPT ![KeyOf[core]] = Stored(n)]
          /\ object' = Stored(n)
    BY <1>3, StoredType DEF Uploaded
  <2>2. Stored(n) \in Contents /\ KeyOf[core] \in Keys
    BY <1>3, StoredType DEF Uploaded
  <2> QED  BY <1>3, <2>1, <2>2, NoneIsNone DEF Uploaded
<1>4. CASE UploadFails
  <2>1. store' \in [Keys -> Contents \cup {None}]
    BY <1>4, StoredType DEF UploadFails
  <2> QED  BY <1>4, <2>1 DEF UploadFails, NextCore
<1>5. CASE CleanLocal
  <2>1. /\ disk' \in [Files -> CoreState]
        /\ \A g \in Files : disk'[g].gen = disk[g].gen
    <3>1. disk[core] \in CoreState
      BY <1>5 DEF CleanLocal
    <3>2. CASE UNCHANGED disk
      BY <3>2
    <3>3. CASE disk' # disk
      <4>1. PICK c \in CoreState : /\ disk' = [disk EXCEPT ![core] = c]
                                   /\ c.gen = disk[core].gen
        BY <1>5, <3>1, <3>3, CoreTypes DEF CleanLocal, OnDisk
      <4> QED  BY <4>1
    <3> QED  BY <3>2, <3>3
  <2> QED  BY <1>5, <2>1 DEF CleanLocal
<1> QED  BY <1>1, <1>2, <1>3, <1>4, <1>5 DEF UploadStep

\* The resolver, the handler, the channels and CoreSight.
LEMMA TellType ==
  ASSUME TypeOK, \/ ResolvePod \/ Handle \/ NotifyChannel \/ NotifyDone
                 \/ SkipReport \/ PostReport \/ ReportTimeout \/ ReportReply
  PROVE  TypeOK'
<1> USE AgentAssumption DEF TypeOK, PCs, budgets, passVars
<1>1. CASE ResolvePod
  <2>1. None \notin Pods \/ pod' \in Pods
    BY <1>1 DEF ResolvePod
  <2> QED  BY <1>1, <2>1 DEF ResolvePod
<1>2. ASSUME info # None, info \in Parsed \cup {None}
      PROVE  info.digest \in Contents /\ info.size \in 0..CoreSize
  BY <1>2 DEF Parsed
<1>3. ASSUME NEW what \in Contents, NEW size \in 0..CoreSize, url # None,
             Publish(what, size)
      PROVE  published' \in SUBSET [url : Keys, is : Contents,
                                    size : 0..CoreSize]
  BY <1>3 DEF Publish
<1>4. CASE Handle
  <2>1. published' \in SUBSET [url : Keys, is : Contents, size : 0..CoreSize]
    BY <1>2, <1>3, <1>4 DEF Handle, HandlerCalled
  <2>2. skip' \in [notify : BOOLEAN, coreSight : BOOLEAN]
    BY <1>4 DEF Handle, SkipFlags, HandlerCalled, NoSkip, Config
  <2> QED  BY <1>4, <2>1, <2>2 DEF Handle
<1>5. CASE NotifyChannel
  <2>1. Len(Channels) \in Nat /\ ch' \in 1..(Len(Channels) + 1)
    BY <1>5 DEF NotifyChannel
  <2>2. told' \in SUBSET (1..Len(Channels))
    <3>1. ch \in 1..Len(Channels)
      BY <1>5, <2>1 DEF NotifyChannel
    <3>2. told' \subseteq told \cup {ch}
      BY <1>5 DEF NotifyChannel
    <3> QED  BY <3>1, <3>2
  <2>3. published' \in SUBSET [url : Keys, is : Contents, size : 0..CoreSize]
    <3>1. object \in Contents /\ object.size \in 0..CoreSize /\ url # None
      BY <1>5 DEF NotifyChannel, Contents
    <3> QED  BY <1>3, <1>5, <3>1 DEF NotifyChannel
  <2> QED  BY <1>5, <2>1, <2>2, <2>3 DEF NotifyChannel
<1>6. CASE PostReport
  <2>1. published' \in SUBSET [url : Keys, is : Contents, size : 0..CoreSize]
    BY <1>2, <1>3, <1>6 DEF PostReport, Reportable
  <2> QED  BY <1>6, <2>1 DEF PostReport
<1>7. CASE NotifyDone
  BY <1>7 DEF NotifyDone
<1>8. CASE SkipReport \/ ReportTimeout \/ ReportReply
  BY <1>8 DEF SkipReport, ReportTimeout, ReportReply, NextCore
<1> QED  BY <1>1, <1>4, <1>5, <1>6, <1>7, <1>8

\* The types hold in every state of every run of the agent.
THEOREM TypeCorrect == Spec => []TypeOK
<1>1. TypeOK /\ [Next]_vars => TypeOK'
  <2> SUFFICES ASSUME TypeOK, [Next]_vars PROVE TypeOK'
    OBVIOUS
  <2>1. CASE UNCHANGED vars
    BY <2>1 DEF TypeOK, vars
  <2>2. CASE Next
    BY <2>2, NodeType, PassBounds, UploadType, TellType DEF Next, PassStep
  <2> QED  BY <2>1, <2>2
<1> QED  BY InitType, <1>1, PTL DEF Spec

-----------------------------------------------------------------------------
(* What is deleted is stored                                               *)

\* While the names of cores are not used again and dumps are complete when
\* they arrive, the core a pass works on does not change, except that an
\* operator may remove it: what was opened, and then what was stored, are the
\* bytes the file has as long as it is there.
Faithful ==
  /\ pc # "recv" => disk[core].phase # "dumping"
  /\ pc = "copy" =>
       /\ held.core = core
       /\ held.gen = disk[core].gen
       /\ OnDisk(disk[core]) => held.size = disk[core].size
  /\ pc = "clean" =>
       /\ url = KeyOf[core]
       /\ OnDisk(disk[core]) => store[url] = Snapshot(core)

\* What the node does to the core of a pass is to remove it.
LEMMA NodeKeepsCore ==
  ASSUME MaxGen = 1, TypeOK, Faithful, NodeStep, pc # "recv"
  PROVE  /\ disk'[core].gen = disk[core].gen
         /\ OnDisk(disk'[core]) => disk'[core] = disk[core]
         /\ disk'[core].phase # "dumping"
         /\ disk'[core].size <= disk[core].size
<1>1. PICK f \in Files : CoreBegin(f) \/ CoreWrite(f) \/ Purge(f)
  BY DEF NodeStep
<1>2. /\ core \in Files /\ disk \in [Files -> CoreState]
      /\ disk[core].gen = 1 /\ disk[core].size \in Nat
      /\ disk[core].phase # "dumping"
  BY CoreFSAssumption DEF TypeOK, CoreState, Faithful
<1>3. CASE f = core
  <2>1. Purge(f)
    BY <1>1, <1>2, <1>3 DEF CoreBegin, CoreWrite
  <2> QED  BY <1>2, <1>3, <2>1 DEF Purge, Unlink, OnDisk
<1>4. CASE f # core
  <2>1. disk'[core] = disk[core]
    BY <1>1, <1>2, <1>4 DEF CoreBegin, CoreWrite, Purge
  <2> QED  BY <1>2, <2>1
<1> QED  BY <1>3, <1>4

\* A complete copy has the size the file had when it was opened.
LEMMA CopiesWhatWasOpened ==
  ASSUME TypeOK, Faithful, pc = "copy"
  PROVE  /\ UploadSizes = {held.size}
         /\ Stored(held.size) = held
<1>1. /\ held \in Contents /\ core \in Files /\ disk[core] \in CoreState
      /\ disk[core].gen > 0
  BY NoneIsNone DEF TypeOK
<1>2. /\ held.size \in Nat /\ disk[core].size \in Nat
      /\ ~OnDisk(disk[core]) => disk[core].size = 0
  BY <1>1, CoreFSAssumption DEF Contents, CoreState, OnDisk
<1>3. ~(disk[core].size > held.size)
  BY <1>2 DEF Faithful
<1>5. UploadSizes = held.size..held.size
  BY <1>3 DEF UploadSizes
<1>4. Stored(held.size) = held
  BY <1>1 DEF Stored, Contents
<1> QED  BY <1>2, <1>4, <1>5

LEMMA FaithfulStep ==
  ASSUME MaxGen = 1, ~StallPossible, TypeOK, Faithful, [Next]_vars
  PROVE  Faithful'
<1>1. CASE UNCHANGED vars
  BY <1>1 DEF Faithful, vars, Snapshot
<1>2. CASE NodeStep
  <2>1. UNCHANGED nodeUnchanged
    BY <1>2 DEF NodeStep, CoreBegin, CoreWrite, Purge
  <2>2. CASE pc # "recv"
    BY <1>2, <2>1, <2>2, NodeKeepsCore
       DEF Faithful, nodeUnchanged, passVars, Snapshot
  <2>3. CASE pc = "recv"
    BY <2>1, <2>3 DEF Faithful, nodeUnchanged
  <2> QED  BY <2>2, <2>3
<1>3. CASE \E f \in Files : Receive(f)
  BY <1>3 DEF Receive, Faithful
<1>4. CASE OpenUpload
  BY <1>4 DEF OpenUpload, Faithful, Snapshot, TypeOK
<1>5. CASE Uploaded
  <2>1. KeyOf[core] \in Keys
    BY <1>5, AgentAssumption DEF Uploaded, TypeOK
  <2>2. UploadSizes = {held.size} /\ Stored(held.size) = held
    BY <1>5, CopiesWhatWasOpened DEF Uploaded
  <2>3. store' = [store EXCEPT ![KeyOf[core]] = held] /\ url' = KeyOf[core]
    BY <1>5, <2>2 DEF Uploaded
  <2>4. OnDisk(disk[core]) => held = Snapshot(core)
    BY <1>5, NoneIsNone DEF Uploaded, Faithful, TypeOK, Contents, Snapshot
  <2>5. store'[url'] = held
    BY <2>1, <2>3 DEF TypeOK
  <2> QED  BY <1>5, <2>1, <2>3, <2>4, <2>5 DEF Uploaded, Faithful, Snapshot
<1>6. CASE CleanLocal
  <2>1. disk'[core].phase # "dumping"
    BY <1>6 DEF CleanLocal, Faithful, TypeOK, Unlink, Empty
  <2> QED  BY <1>6, <2>1 DEF CleanLocal, Faithful
<1>7. CASE Crash \/ OpenFails \/ UploadFails \/ SkipReport \/ ReportReply
           \/ ReportTimeout
  BY <1>7 DEF Crash, OpenFails, UploadFails, SkipReport, ReportReply,
              ReportTimeout, NextCore, Faithful
<1>8. CASE StatCore \/ HashCore \/ ResolvePod \/ Handle \/ NotifyChannel
           \/ NotifyDone \/ PostReport
  BY <1>8 DEF StatCore, HashCore, ResolvePod, Handle, NotifyChannel,
              NotifyDone, PostReport, Faithful, passVars
<1> QED  BY <1>1, <1>2, <1>3, <1>4, <1>5, <1>6, <1>7, <1>8
         DEF Next, PassStep, UploadStep

\* Only the cleanup ends with a changed file, and the object is what it had.
LEMMA CleanStep ==
  ASSUME TypeOK, Faithful, [Next]_vars
  PROVE  [pc = "clean" /\ pc' = "resolve" /\ disk' # disk
            => url # None /\ store[url] = Snapshot(core)]_vars
<1>1. SUFFICES ASSUME pc = "clean", disk' # disk, pc' = "resolve", Next
               PROVE  url # None /\ store[url] = Snapshot(core)
  BY DEF vars
<1>2. CleanLocal
  BY <1>1 DEF Next, NodeStep, PassStep, UploadStep, CoreBegin, CoreWrite,
     Purge, nodeUnchanged, Receive, StatCore, HashCore, OpenUpload,
     OpenFails, Uploaded, UploadFails, ResolvePod, Handle, NotifyChannel,
     NotifyDone, SkipReport, PostReport, ReportTimeout, ReportReply, Crash,
     NextCore
<1>3. OnDisk(disk[core])
  BY <1>1, <1>2 DEF CleanLocal
<1> QED  BY <1>1, <1>3 DEF Faithful, TypeOK

\* The agent deletes only what it has stored, for every set of cores, every
\* mapping of cores to keys and every configuration, provided the names of
\* cores are used once and the dumps that arrive are complete.
THEOREM StoredBeforeDeleted ==
  ASSUME MaxGen = 1, ~StallPossible
  PROVE  Spec => DeletesOnlyStored
<1>1. Init => Faithful
  BY DEF Init, Faithful
<1>2. TypeOK /\ Faithful /\ [Next]_vars => Faithful'
  BY FaithfulStep
<1>3. TypeOK /\ Faithful /\ [Next]_vars =>
        [pc = "clean" /\ pc' = "resolve" /\ disk' # disk
           => url # None /\ store[url] = Snapshot(core)]_vars
  BY CleanStep
<1> QED  BY <1>1, <1>2, <1>3, TypeCorrect, PTL DEF Spec, DeletesOnlyStored

-----------------------------------------------------------------------------
(* Who is told of an upload                                                *)

\* What lets a pass leave the channels out.
SkipsChannels == cfg.handler /\ cfg.skipNotify /\ info # None

\* Which channels know of the upload, along the pass: none before the loop
\* over them, then those before ch, unless they are skipped, for which there
\* was a reason.
Telling ==
  /\ pc \in {"stat", "hash", "open", "copy"} => url = None
  /\ pc \in {"stat", "hash", "open", "copy", "clean", "resolve", "handle"} =>
       ch = 1 /\ told = {}
  /\ pc = "notify" => IF skip.notify THEN told = {} /\ SkipsChannels
                      ELSE told = {i \in Recipients(core) : i < ch}
  /\ pc \in {"report", "posting"} =>
       told = Recipients(core) \/ (told = {} /\ SkipsChannels)

LEMMA TellingStep ==
  ASSUME TypeOK, Telling, [Next]_vars
  PROVE  Telling'
<1>1. CASE UNCHANGED vars
  BY <1>1 DEF Telling, SkipsChannels, vars, Recipients
<1>2. CASE NodeStep
  BY <1>2 DEF NodeStep, CoreBegin, CoreWrite, Purge, nodeUnchanged, passVars,
              Telling, SkipsChannels, Recipients
<1>3. CASE \E f \in Files : Receive(f)
  BY <1>3 DEF Receive, FreshPass, Telling
<1>4. CASE Handle
  <2>1. told = {} /\ ch = 1
    BY <1>4 DEF Handle, Telling
  <2>2. skip'.notify => SkipsChannels'
    BY <1>4 DEF Handle, SkipFlags, HandlerCalled, NoSkip, SkipsChannels
  <2>3. \A i \in Recipients(core)' : ~(i < 1)
    BY AgentAssumption DEF Recipients
  <2> QED  BY <1>4, <2>1, <2>2, <2>3 DEF Handle, Telling
<1>5. CASE NotifyChannel
  <2>1. told = {i \in Recipients(core) : i < ch} /\ ch \in Nat
    BY <1>5, AgentAssumption DEF NotifyChannel, Telling, TypeOK
  <2>2. /\ ch' = ch + 1
        /\ told' = told \cup (IF ch \in Recipients(core) THEN {ch} ELSE {})
    BY <1>5 DEF NotifyChannel
  <2>3. \A i \in Recipients(core) : i < ch + 1 <=> i < ch \/ i = ch
    BY <2>1, AgentAssumption DEF Recipients
  <2>4. told' = {i \in Recipients(core) : i < ch'}
    BY <2>1, <2>2, <2>3
  <2> QED  BY <1>5, <2>4 DEF NotifyChannel, Telling, Recipients
<1>6. CASE NotifyDone
  <2>1. CASE skip.notify
    BY <1>6, <2>1 DEF NotifyDone, passVars, Telling, SkipsChannels
  <2>2. CASE ~skip.notify
    <3>1. told = {i \in Recipients(core) : i < ch} /\ ch > Len(Channels)
      BY <1>6, <2>2 DEF NotifyDone, Telling
    <3>2. \A i \in Recipients(core) : i < ch
      BY <3>1, AgentAssumption DEF Recipients, TypeOK
    <3> QED  BY <1>6, <3>1, <3>2 DEF NotifyDone, passVars, Telling, Recipients
  <2> QED  BY <2>1, <2>2
<1>7. CASE Crash \/ OpenFails \/ UploadFails \/ SkipReport \/ ReportReply
           \/ ReportTimeout
  BY <1>7 DEF Crash, OpenFails, UploadFails, SkipReport, ReportReply,
              ReportTimeout, NextCore, Telling
<1>8. CASE StatCore \/ HashCore \/ UploadStep \/ CleanLocal \/ ResolvePod
           \/ PostReport
  BY <1>7, <1>8 DEF StatCore, HashCore, UploadStep, OpenUpload, Uploaded,
     CleanLocal, ResolvePod, PostReport, Telling, SkipsChannels, passVars,
     Recipients
<1> QED  BY <1>1, <1>2, <1>3, <1>4, <1>5, <1>6, <1>7, <1>8
         DEF Next, PassStep

\* A pass with an uploaded core that ends by itself has told all or none.
LEMMA EndStep ==
  ASSUME TypeOK, Telling, [Next]_vars
  PROVE  [pc # "recv" /\ pc' = "recv" /\ crashes' = crashes /\ url # None
            => told = Recipients(core) \/ (told = {} /\ SkipsChannels)]_vars
<1>1. SUFFICES ASSUME pc # "recv", pc' = "recv", crashes' = crashes,
                      url # None, Next
               PROVE  told = Recipients(core) \/ (told = {} /\ SkipsChannels)
  BY DEF vars
<1>2. pc \in {"open", "copy", "report", "posting"} \/ Crash
  BY <1>1 DEF Next, NodeStep, PassStep, UploadStep, CoreBegin, CoreWrite,
     Purge, nodeUnchanged, Receive, StatCore, HashCore, OpenUpload,
     OpenFails, Uploaded, UploadFails, CleanLocal, ResolvePod, Handle,
     NotifyChannel, NotifyDone, SkipReport, PostReport, ReportTimeout,
     ReportReply
<1>3. ~Crash
  BY <1>1, AgentAssumption DEF Crash, TypeOK
<1> QED  BY <1>1, <1>2, <1>3 DEF Telling

\* When a pass with an uploaded core ends by itself, all channels it concerns
\* know of the core, or none does, and then because the handler was called and
\* replaces them: in every configuration, with every list of channels and every
\* mapping of cores to keys, whether or not the script of the handler started.
THEOREM AllToldOrSkipped == Spec => ToldUnlessSkipped
<1>1. Init => Telling
  BY DEF Init, Telling
<1>2. TypeOK /\ Telling /\ [Next]_vars => Telling'
  BY TellingStep
<1>3. TypeOK /\ Telling /\ [Next]_vars =>
        [pc # "recv" /\ pc' = "recv" /\ crashes' = crashes /\ url # None
           => told = Recipients(core) \/ (told = {} /\ SkipsChannels)]_vars
  BY EndStep
<1> QED  BY <1>1, <1>2, <1>3, TypeCorrect, PTL
         DEF Spec, ToldUnlessSkipped, SkipsChannels

-----------------------------------------------------------------------------
(* What is announced stays true                                            *)

\* Paths from the parser to the channels along which coreInfo is that of the
\* object: what was announced has the key of its own core, which was then
\* delivered, and the pass under way has announced nothing before its upload.
Announced ==
  /\ \A p \in published :
       /\ p.url = KeyOf[p.is.core]
       /\ store[p.url] = p.is
       /\ p.size = p.is.size
       /\ delivered[p.is.core] > 0
  /\ pc # "recv" => delivered[core] > 0
  /\ pc \in {"stat", "hash", "open", "copy"} =>
       \A p \in published : p.is.core # core

\* What coreInfo says, at every place of the pass.
InfoHolds ==
  /\ pc = "stat" => info = None
  /\ pc = "hash" /\ OnDisk(disk[core]) => info.size = disk[core].size
  /\ pc = "open" /\ info # None /\ OnDisk(disk[core]) =>
       info.digest = Snapshot(core) /\ info.size = disk[core].size
  /\ pc = "copy" /\ info # None => info.digest = held /\ info.size = held.size
  /\ pc \in {"clean", "resolve", "handle", "notify", "report", "posting"} =>
       /\ url = KeyOf[core]
       /\ object.core = core
       /\ store[url] = object
       /\ info # None => info.digest = object /\ info.size = object.size

LEMMA InfoStep ==
  ASSUME MaxGen = 1, ~StallPossible, TypeOK, Faithful, InfoHolds, [Next]_vars
  PROVE  InfoHolds'
<1>1. CASE UNCHANGED vars
  BY <1>1 DEF InfoHolds, vars, Snapshot
<1>2. CASE NodeStep
  <2>1. UNCHANGED nodeUnchanged
    BY <1>2 DEF NodeStep, CoreBegin, CoreWrite, Purge
  <2>2. CASE pc # "recv"
    BY <1>2, <2>1, <2>2, NodeKeepsCore
       DEF InfoHolds, nodeUnchanged, passVars, Snapshot, OnDisk
  <2>3. CASE pc = "recv"
    BY <2>1, <2>3 DEF InfoHolds, nodeUnchanged
  <2> QED  BY <2>2, <2>3
<1>3. CASE \E f \in Files : Receive(f)
  BY <1>3 DEF Receive, FreshPass, InfoHolds
<1>4. CASE StatCore
  BY <1>4 DEF StatCore, InfoHolds
<1>5. CASE HashCore
  <2>1. CASE info' = None
    BY <1>5, <2>1 DEF HashCore, InfoHolds
  <2>2. CASE OnDisk(disk[core]) /\ info' = [info EXCEPT !.digest = Snapshot(core)]
    <3>1. info'.digest = Snapshot(core) /\ info'.size = disk[core].size
      BY <1>5, <2>2 DEF HashCore, InfoHolds, TypeOK
    <3> QED  BY <1>5, <3>1 DEF HashCore, InfoHolds, Snapshot
  <2> QED  BY <1>5, <2>1, <2>2 DEF HashCore, ParseFailed
<1>6. CASE OpenUpload
  BY <1>6 DEF OpenUpload, InfoHolds, Snapshot
<1>7. CASE Uploaded
  <2>1. /\ store' = [store EXCEPT ![KeyOf[core]] = held] /\ object' = held
        /\ url' = KeyOf[core] /\ KeyOf[core] \in Keys /\ held.core = core
    <3>1. PICK n \in UploadSizes :
            store' = [store EXCEPT ![KeyOf[core]] = Stored(n)]
              /\ object' = Stored(n)
      BY <1>7 DEF Uploaded
    <3>2. Stored(n) = held
      BY <1>7, <3>1, CopiesWhatWasOpened DEF Uploaded
    <3>3. KeyOf[core] \in Keys /\ held.core = core
      BY <1>7, AgentAssumption DEF Uploaded, TypeOK, Faithful
    <3> QED  BY <1>7, <3>1, <3>2, <3>3 DEF Uploaded
  <2>2. store'[url'] = held
    BY <2>1 DEF TypeOK
  <2> QED  BY <1>7, <2>1, <2>2 DEF Uploaded, InfoHolds
<1>8. CASE CleanLocal \/ ResolvePod \/ Handle \/ NotifyChannel
           \/ NotifyDone \/ PostReport
  BY <1>8 DEF CleanLocal, ResolvePod, Handle, NotifyChannel, NotifyDone,
              PostReport, InfoHolds, passVars
<1>9. CASE Crash \/ OpenFails \/ UploadFails \/ SkipReport \/ ReportReply
           \/ ReportTimeout
  BY <1>9 DEF Crash, OpenFails, UploadFails, SkipReport, ReportReply,
              ReportTimeout, NextCore, InfoHolds
<1> QED  BY <1>1, <1>2, <1>3, <1>4, <1>5, <1>6, <1>7, <1>8, <1>9
         DEF Next, PassStep, UploadStep

\* The assumptions under which what is announced stays true: no two cores
\* share a key, a name is used once, and a dump arrives once, when complete.
Separate ==
  /\ \A f, g \in Files : KeyOf[f] = KeyOf[g] => f = g
  /\ MaxGen = 1
  /\ ~StallPossible
  /\ ~Redelivered

\* A URL that is given away when the object is known to be under it.
LEMMA PublishStep ==
  ASSUME InfoHolds, Announced,
         UNCHANGED <<store, delivered, core>>,
         pc \in {"handle", "notify", "report"},
         pc' \in {"notify", "posting"},
         \/ Publish(object, object.size)
         \/ info # None /\ Publish(info.digest, info.size)
  PROVE  Announced'
<1>1. /\ url = KeyOf[core] /\ object.core = core /\ store[url] = object
      /\ delivered[core] > 0
      /\ info # None => info.digest = object /\ info.size = object.size
  BY DEF InfoHolds, Announced
<1>2. Publish(object, object.size)
  BY <1>1 DEF Publish
<1>3. \A p \in published' :
        p \in published \/ p = [url |-> url, is |-> object, size |-> object.size]
  BY <1>2 DEF Publish
<1>4. \A p \in published' :
        /\ p.url = KeyOf[p.is.core]
        /\ store[p.url] = p.is
        /\ p.size = p.is.size
        /\ delivered[p.is.core] > 0
  BY <1>1, <1>3 DEF Announced
<1> QED  BY <1>1, <1>4 DEF Announced

LEMMA AnnouncedStep ==
  ASSUME Separate, TypeOK, Faithful, InfoHolds, Announced, [Next]_vars
  PROVE  Announced'
<1>1. CASE UNCHANGED vars
  BY <1>1 DEF Announced, vars
<1>2. CASE NodeStep
  BY <1>2 DEF NodeStep, CoreBegin, CoreWrite, Purge, nodeUnchanged, passVars,
              Announced
<1>3. ASSUME NEW f \in Files, Receive(f)
      PROVE  Announced'
  <2>1. delivered[f] = 0 /\ disk[f].gen = 1
    BY <1>3, CoreFSAssumption DEF Receive, Separate, TypeOK, CoreState
  <2>2. /\ delivered' = [delivered EXCEPT ![f] = 1] /\ core' = f
        /\ UNCHANGED <<store, published>>
    BY <1>3, <2>1 DEF Receive
  <2>3. \A p \in published : p.is.core # f /\ p.is.core \in Files
    BY <2>1 DEF Announced, TypeOK, Contents
  <2>4. delivered'[f] > 0 /\ \A g \in Files \ {f} : delivered'[g] = delivered[g]
    BY <2>2 DEF TypeOK
  <2> QED  BY <2>2, <2>3, <2>4 DEF Announced
<1>4. ASSUME OpenUpload \/ Uploaded \/ UploadFails \/ (Crash /\ pc = "copy")
      PROVE  Announced'
  <2>1. PICK left : store' \in {store, [store EXCEPT ![KeyOf[core]] = left]}
    <3>1. CASE OpenUpload
      BY <3>1 DEF OpenUpload
    <3>2. CASE Uploaded
      BY <3>2 DEF Uploaded
    <3>3. CASE UploadFails \/ (Crash /\ pc = "copy")
      BY <3>3 DEF UploadFails, Crash, Interrupted
    <3> QED  BY <1>4, <3>1, <3>2, <3>3
  <2>2. /\ pc \in {"open", "copy"} /\ UNCHANGED <<published, delivered, core>>
        /\ pc' \in {"copy", "clean", "recv"}
        /\ pc' = "copy" => pc = "open"
    BY <1>4 DEF OpenUpload, Uploaded, UploadFails, Crash, NextCore, passVars
  <2>3. \A p \in published : /\ p.is.core \in Files /\ p.is.core # core
                             /\ core \in Files /\ p.url = KeyOf[p.is.core]
    BY <2>2 DEF Announced, TypeOK, Contents
  <2>4. \A p \in published : p.url # KeyOf[core] /\ p.url \in Keys
    BY <2>3 DEF Separate, TypeOK
  <2>5. \A p \in published : store'[p.url] = store[p.url]
    BY <2>1, <2>4 DEF TypeOK
  <2> QED  BY <2>2, <2>5 DEF Announced
<1>5. CASE Handle
  BY <1>5, PublishStep DEF Handle, HandlerCalled, Announced
<1>6. CASE NotifyChannel
  BY <1>6, PublishStep DEF NotifyChannel, Announced
<1>7. CASE PostReport
  BY <1>7, PublishStep DEF PostReport, Reportable, passVars
<1>8. CASE StatCore \/ HashCore \/ CleanLocal \/ ResolvePod \/ NotifyDone
  BY <1>8 DEF StatCore, HashCore, CleanLocal, ResolvePod, NotifyDone,
              Announced, passVars
<1>9. CASE (Crash /\ pc # "copy") \/ OpenFails \/ SkipReport \/ ReportReply
           \/ ReportTimeout
  BY <1>9 DEF Crash, OpenFails, SkipReport, ReportReply, ReportTimeout,
              NextCore, Announced
<1> QED  BY <1>1, <1>2, <1>3, <1>4, <1>5, <1>6, <1>7, <1>8, <1>9
         DEF Next, PassStep, UploadStep

\* Every URL that was announced designates what it was announced for, with
\* its size, as long as the assumptions above hold; run agent_names drops the
\* first of them, and the store then has the core of another container.
THEOREM AnnouncedUrls ==
  ASSUME Separate
  PROVE  Spec => []PublishedUrlsHold
<1>1. Init => Faithful /\ InfoHolds /\ Announced
  BY DEF Init, Faithful, InfoHolds, Announced
<1>2. TypeOK /\ (Faithful /\ InfoHolds /\ Announced) /\ [Next]_vars
        => (Faithful /\ InfoHolds /\ Announced)'
  BY FaithfulStep, InfoStep, AnnouncedStep DEF Separate
<1>3. Announced => PublishedUrlsHold
  BY DEF Announced, PublishedUrlsHold
<1> QED  BY <1>1, <1>2, <1>3, TypeCorrect, PTL DEF Spec
=============================================================================
