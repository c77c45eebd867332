-------------------------------- MODULE Agent --------------------------------
(***************************************************************************)
(* The loop of agent.Run (src/internal/agent/agent.go): one pass for every *)
(* core file the watcher sends, which parses, uploads and disposes of the  *)
(* file, finds out the pod, runs the custom handler, notifies the channels *)
(* and reports to CoreSight.  The upload of both stores (store.go, cfs.go) *)
(* is part of it, so is the POST of the reporter.                          *)
(*                                                                         *)
(* The environment dumps and purges cores, answers or hangs, and may kill  *)
(* the process.  What decides the order of arrival is module Watcher.      *)
(***************************************************************************)
EXTENDS CoreFS, FiniteSets, Sequences

CONSTANTS
  Keys,          \* object keys of the store
  KeyOf,         \* key of a core: StoreDir and the base name of its path
  Channels,      \* NoticeChannel: is a channel known, which paths it matches
  Configs,       \* configurations to consider
  Resolved,      \* results of the resolver to consider
  None,
  StallPossible, \* may a core arrive while it is still being dumped?
  Redelivered,   \* may the same dump arrive twice?
  MaxPurges,     \* bound on the cores operators remove
  MaxCrashes     \* bound on the crashes of the process

Config == [protocol : {"s3", "cfs"},
           disposal : {"keep", "remove", "truncate"},
           handler : BOOLEAN,         \* CustomHandler.Enabled
           skipNotify : BOOLEAN,      \* CustomHandler.SkipDefaultNotify
           skipCoreSight : BOOLEAN,   \* CustomHandler.SkipCoreSight
           coreSight : BOOLEAN]       \* csReporter # nil

\* The bytes of a dump of a core, up to some size.
Contents == [core : Files, gen : 1..MaxGen, size : 0..CoreSize]

\* coreInfo when the parser has succeeded: a size, and the bytes it hashed.
Parsed == [size : 0..CoreSize, digest : Contents]

\* What podresolver.Resolve may return, as far as the loop looks at it: a name
\* that could be one made up from a UID ("pod-" and 8 more characters), the
\* legacy flag, and whether namespace, image and node IP are all known.
Pods == {pod \in [name : {"real", "generated", "none"},
                  legacy : BOOLEAN, full : BOOLEAN] :
           pod.name = "none" => pod.legacy /\ ~pod.full}

ASSUME AgentAssumption ==
  /\ KeyOf \in [Files -> Keys]
  /\ Channels \in Seq([known : BOOLEAN, matches : SUBSET Files])
  /\ Configs \subseteq Config
  /\ Resolved \subseteq Pods
  /\ None \notin Files \cup Keys \cup Contents \cup Parsed \cup Pods
  /\ StallPossible \in BOOLEAN
  /\ Redelivered \in BOOLEAN
  /\ MaxPurges \in Nat
  /\ MaxCrashes \in Nat

VARIABLES
  disk,      \* state of every core file
  cfg,       \* configuration
  store,     \* the bucket, or the CFS directory
  pc,        \* where the loop is
  core,      \* corefilePath
  info,      \* coreInfo, None when the parser failed
  held,      \* the open file of an upload
  url,       \* None until the upload has succeeded
  pod,       \* result of the resolver
  skip,      \* skipNotify and skipCoreSight
  ch,        \* index of the next channel
  object,    \* history: what this pass has stored
  told,      \* history: channels this pass has sent a message to
  published, \* history: URLs given away, and what they were to designate
  delivered, \* history: the last dump of every path that arrived
  purges,    \* purges left
  crashes    \* crashes left

passVars == <<info, held, url, pod, skip, ch, object, told>>
budgets == <<purges, crashes>>
vars == <<disk, cfg, store, pc, core, info, held, url, pod, skip, ch, object,
          told, published, delivered, purges, crashes>>

PCs == {"recv", "stat", "hash", "open", "copy", "clean", "resolve", "handle",
        "notify", "report", "posting"}

NoSkip == [notify |-> FALSE, coreSight |-> FALSE]

\* The variables of a pass before it has done anything.
FreshPass ==
  /\ info' = None
  /\ held' = None
  /\ url' = None
  /\ pod' = None
  /\ skip' = NoSkip
  /\ ch' = 1
  /\ object' = None
  /\ told' = {}

Init ==
  /\ disk = [f \in Files |-> NoCore]
  /\ cfg \in Configs
  /\ store = [k \in Keys |-> None]
  /\ pc = "recv"
  /\ core = None
  /\ info = None /\ held = None /\ url = None /\ pod = None
  /\ skip = NoSkip
  /\ ch = 1
  /\ object = None /\ told = {}
  /\ published = {}
  /\ delivered = [f \in Files |-> 0]
  /\ purges = MaxPurges
  /\ crashes = MaxCrashes

\* What one reads from the core's file now.
Snapshot(f) == [core |-> f, gen |-> disk[f].gen, size |-> disk[f].size]

\* The rest of the loop's body is skipped: "continue", or its end.
NextCore == pc' = "recv"

-----------------------------------------------------------------------------
(* The node                                                                *)

nodeUnchanged == <<cfg, store, pc, core, passVars, published, delivered>>

CoreBegin(f) ==
  /\ disk[f].phase = "absent"
  /\ disk[f].gen < MaxGen
  /\ disk' = [disk EXCEPT ![f] = BeginDump(@)]
  /\ UNCHANGED <<nodeUnchanged, budgets>>

CoreWrite(f) ==
  /\ disk[f].phase = "dumping"
  /\ disk' = [disk EXCEPT ![f] = WriteDump(@)]
  /\ UNCHANGED <<nodeUnchanged, budgets>>

Purge(f) ==
  /\ purges > 0
  /\ disk[f].phase \in {"dumped", "emptied"}
  /\ disk' = [disk EXCEPT ![f] = Unlink(@)]
  /\ purges' = purges - 1
  /\ UNCHANGED <<nodeUnchanged, crashes>>

-----------------------------------------------------------------------------
(* One pass                                                                *)

Receive(f) ==
  /\ pc = "recv"
  /\ disk[f].gen > 0
  /\ disk[f].phase = "dumping" => StallPossible
  /\ disk[f].gen = delivered[f] => Redelivered
  /\ pc' = "stat"
  /\ core' = f
  /\ FreshPass
  /\ delivered' = [delivered EXCEPT ![f] = disk[f].gen]
  /\ UNCHANGED <<disk, cfg, store, published, budgets>>

\* ParseCoreFile takes the size first.
StatCore ==
  /\ pc = "stat"
  /\ \/ /\ OnDisk(disk[core])
        /\ info' = [size |-> disk[core].size, digest |-> None]
        /\ pc' = "hash"
     \/ /\ ~OnDisk(disk[core])
        /\ pc' = "open"
        /\ UNCHANGED info
  /\ UNCHANGED <<disk, cfg, store, core, held, url, pod, skip, ch, object,
                 told, published, delivered, budgets>>

\* Mutant of ParseFailed: the half of coreInfo that is known is kept.
ParseHalfDone == info

\* coreInfo when the parser returns an error.
ParseFailed == None

\* Then it hashes the bytes and looks for the executable's path.  When any of
\* it fails the pass goes on without coreInfo.
HashCore ==
  /\ pc = "hash"
  /\ \/ OnDisk(disk[core]) /\ info' = [info EXCEPT !.digest = Snapshot(core)]
     \/ info' = ParseFailed
  /\ pc' = "open"
  /\ UNCHANGED <<disk, cfg, store, core, held, url, pod, skip, ch, object,
                 told, published, delivered, budgets>>

\* The store opens the file; os.Create of CFS empties what is under its key.
OpenUpload ==
  /\ pc = "open"
  /\ OnDisk(disk[core])
  /\ held' = Snapshot(core)
  /\ store' = IF cfg.protocol = "s3" THEN store
              ELSE [store EXCEPT ![KeyOf[core]] =
                      [Snapshot(core) EXCEPT !.size = 0]]
  /\ pc' = "copy"
  /\ UNCHANGED <<disk, cfg, core, info, url, pod, skip, ch, object, told,
                 published, delivered, budgets>>

\* No upload begins: the file is gone, or CFS cannot create the object.  The
\* core is not tried again, and nobody is told.
OpenFails ==
  /\ pc = "open"
  /\ OnDisk(disk[core]) => cfg.protocol = "cfs"
  /\ NextCore
  /\ UNCHANGED <<disk, cfg, store, core, passVars, published, delivered,
                 budgets>>

\* Mutant of UploadSizes: a copy that ended early passes for a complete one.
ShortSizes == 0..held.size

\* Sizes at which reading the open file may have met its end: what it had
\* when it was opened, or more while the kernel is dumping to it.
UploadSizes ==
  held.size..(IF disk[core].gen = held.gen /\ disk[core].size > held.size
              THEN disk[core].size ELSE held.size)

Stored(n) == [held EXCEPT !.size = n]

Uploaded ==
  /\ pc = "copy"
  /\ \E n \in UploadSizes :
       /\ store' = [store EXCEPT ![KeyOf[core]] = Stored(n)]
       /\ object' = Stored(n)
  /\ url' = KeyOf[core]
  /\ pc' = "clean"
  /\ UNCHANGED <<disk, cfg, core, info, held, pod, skip, ch, told, published,
                 delivered, budgets>>

\* What an upload that returns no URL leaves under the key.  S3 shows an object
\* only when it is complete, which it may be when the answer is lost or signing
\* the URL fails; CFS keeps what was copied until the error.
Leftovers ==
  IF cfg.protocol = "s3"
  THEN {store[KeyOf[core]]} \cup {Stored(n) : n \in UploadSizes}
  ELSE {Stored(m) : m \in UNION {0..n : n \in UploadSizes}}

Interrupted == {[store EXCEPT ![KeyOf[core]] = left] : left \in Leftovers}

\* Mutant of UploadFails: the error is logged, but the pass goes on.
UploadFailsSilently ==
  /\ pc = "copy"
  /\ store' \in Interrupted
  /\ url' = KeyOf[core]
  /\ pc' = "clean"
  /\ UNCHANGED <<disk, cfg, core, info, held, pod, skip, ch, object,
                 told, published, delivered, budgets>>

\* The pass ends with the error: no retry, no notification, no cleanup.
UploadFails ==
  /\ pc = "copy"
  /\ store' \in Interrupted
  /\ NextCore
  /\ UNCHANGED <<disk, cfg, core, passVars, published, delivered, budgets>>

\* The local file is truncated or removed when so configured; a failure is
\* only logged.
CleanLocal ==
  /\ pc = "clean"
  /\ \/ /\ cfg.disposal = "remove"
        /\ OnDisk(disk[core])
        /\ disk' = [disk EXCEPT ![core] = Unlink(@)]
     \/ /\ cfg.disposal = "truncate"
        /\ OnDisk(disk[core])
        /\ disk' = [disk EXCEPT ![core] = Empty(@)]
     \/ UNCHANGED disk
  /\ pc' = "resolve"
  /\ UNCHANGED <<cfg, store, core, passVars, published, delivered, budgets>>

ResolvePod ==
  /\ pc = "resolve"
  /\ pod' \in Resolved
  /\ pc' = "handle"
  /\ UNCHANGED <<disk, cfg, store, core, info, held, url, skip, ch, object,
                 told, published, delivered, budgets>>

\* A URL is given away, with what the receiver takes it to designate.
Publish(what, size) ==
  published' = published \cup {[url |-> url, is |-> what, size |-> size]}

\* Mutant of SkipFlags: the flags count also when the handler is not called.
ConfiguredFlags ==
  [notify |-> cfg.skipNotify, coreSight |-> cfg.skipCoreSight]

\* The custom handler is called when there is a coreInfo to give it.
HandlerCalled == cfg.handler /\ info # None

\* Its two flags count when it was called, whatever became of the call.
SkipFlags ==
  IF HandlerCalled
  THEN [notify |-> cfg.skipNotify, coreSight |-> cfg.skipCoreSight]
  ELSE NoSkip

\* Execute starts the script with the URL, or returns before: the script is
\* empty, its file cannot be written, bash cannot be started.  The error is
\* logged, as that of a script that fails or is killed.
Handle ==
  /\ pc = "handle"
  /\ skip' = SkipFlags
  /\ \/ HandlerCalled /\ Publish(info.digest, info.size)
     \/ UNCHANGED published
  /\ pc' = "notify"
  /\ UNCHANGED <<disk, cfg, store, core, info, held, url, pod, ch, object,
                 told, delivered, budgets>>

\* Channels a message about the core is due to.
Recipients(f) ==
  {i \in 1..Len(Channels) : Channels[i].known /\ f \in Channels[i].matches}

\* notify, one channel: errors of the request are logged by the channel.
NotifyChannel ==
  /\ pc = "notify"
  /\ ~skip.notify
  /\ ch <= Len(Channels)
  /\ IF ch \in Recipients(core)
     THEN told' = told \cup {ch} /\ Publish(object, object.size)
     ELSE UNCHANGED <<told, published>>
  /\ ch' = ch + 1
  /\ UNCHANGED <<disk, cfg, store, pc, core, info, held, url, pod, skip,
                 object, delivered, budgets>>

NotifyDone ==
  /\ pc = "notify"
  /\ skip.notify \/ ch > Len(Channels)
  /\ pc' = "report"
  /\ UNCHANGED <<disk, cfg, store, core, passVars, published, delivered,
                 budgets>>

\* What CoreSight is told of: the fields the validation asks for.
Reportable ==
  /\ cfg.coreSight
  /\ ~skip.coreSight
  /\ info # None
  /\ ~pod.legacy
  /\ pod.name = "real"
  /\ pod.full

SkipReport ==
  /\ pc = "report"
  /\ ~Reportable
  /\ NextCore
  /\ UNCHANGED <<disk, cfg, store, core, passVars, published, delivered,
                 budgets>>

\* The event is posted, with the size and the MD5 the parser found.
PostReport ==
  /\ pc = "report"
  /\ Reportable
  /\ Publish(info.digest, info.size)
  /\ pc' = "posting"
  /\ UNCHANGED <<disk, cfg, store, core, passVars, delivered, budgets>>

\* CoreSight answers, with whatever status, or the connection fails.
ReportReply ==
  /\ pc = "posting"
  /\ NextCore
  /\ UNCHANGED <<disk, cfg, store, core, passVars, published, delivered,
                 budgets>>

\* Mutant of ReportTimeout: a client without a timeout.
NoTimeout == FALSE

\* It does not within 30 seconds: the client gives up.
ReportTimeout ==
  /\ pc = "posting"
  /\ NextCore
  /\ UNCHANGED <<disk, cfg, store, core, passVars, published, delivered,
                 budgets>>

\* The process is killed and restarted: the pass is lost, and what the store
\* has of an upload under way stays.
Crash ==
  /\ crashes > 0
  /\ pc # "recv"
  /\ NextCore
  /\ FreshPass
  /\ store' \in IF pc = "copy" THEN Interrupted ELSE {store}
  /\ crashes' = crashes - 1
  /\ UNCHANGED <<disk, cfg, core, published, delivered, purges>>

-----------------------------------------------------------------------------
NodeStep == \E f \in Files : CoreBegin(f) \/ CoreWrite(f) \/ Purge(f)

UploadStep == OpenUpload \/ OpenFails \/ Uploaded \/ UploadFails

\* What the loop does by itself, or is kept waiting for only so long.
PassStep ==
  \/ StatCore \/ HashCore \/ UploadStep \/ CleanLocal \/ ResolvePod
  \/ Handle \/ NotifyChannel \/ NotifyDone
  \/ SkipReport \/ PostReport \/ ReportTimeout

Next ==
  \/ NodeStep \/ PassStep \/ ReportReply \/ Crash
  \/ \E f \in Files : Receive(f)

Spec == Init /\ [][Next]_vars

\* Commands, stores, channels and the handler return; CoreSight need not.
FairSpec == Spec /\ WF_vars(PassStep)

-----------------------------------------------------------------------------
\* Types, with what the place in the loop says of the variables of the pass:
\* coreInfo is complete or absent once the parser is done, and beyond the
\* upload there is a URL and an object behind it.
TypeOK ==
  /\ disk \in [Files -> CoreState]
  /\ cfg \in Configs
  /\ store \in [Keys -> Contents \cup {None}]
  /\ pc \in PCs
  /\ core \in Files \cup {None}
  /\ pc # "recv" => core \in Files /\ disk[core].gen > 0
  /\ IF pc = "hash" THEN info \in [size : 0..CoreSize, digest : {None}]
                    ELSE info \in Parsed \cup {None}
  /\ held \in Contents \cup {None}
  /\ pc = "copy" => held # None
  /\ url \in Keys \cup {None}
  /\ object \in Contents \cup {None}
  /\ pc \in {"clean", "resolve", "handle", "notify", "report", "posting"} =>
       url # None /\ object # None
  /\ pod \in Pods \cup {None}
  /\ pc \in {"handle", "notify", "report", "posting"} => pod # None
  /\ skip \in [notify : BOOLEAN, coreSight : BOOLEAN]
  /\ ch \in 1..(Len(Channels) + 1)
  /\ told \in SUBSET (1..Len(Channels))
  /\ published \in SUBSET [url : Keys, is : Contents, size : 0..CoreSize]
  /\ delivered \in [Files -> 0..MaxGen]
  /\ purges \in 0..MaxPurges
  /\ crashes \in 0..MaxCrashes

\* The agent truncates or removes a core only when the store holds, under the
\* URL it is about to give away, all the bytes of the dump the file has now:
\* whatever the upload's errors left behind, an operator removed meanwhile, or
\* a killed predecessor had begun (agent.go:123-145).  It takes dumps that
\* are complete when they arrive, and names that are not used again.
DeletesOnlyStored ==
  [][pc = "clean" /\ pc' = "resolve" /\ disk' # disk
       => url # None /\ store[url] = Snapshot(core)]_vars

\* Every URL given to the handler, a channel or CoreSight keeps designating
\* the bytes it was given for, and the size and MD5 given with it are theirs
\* (agent.go:117, 159-166, 185, 240-253): later passes, their failed uploads
\* and what crashes leave do not touch an object that was announced.
PublishedUrlsHold ==
  \A p \in published : store[p.url] = p.is /\ p.size = p.is.size

\* When a pass whose upload returned a URL ends by itself, every channel that
\* is known and matches the path had a message, or none had, and none only on
\* account of skipDefaultNotify with a core the parser could read: neither a
\* channel the code does not know, nor one whose path differs, nor what the
\* parser, the resolver and Execute returned keeps the message from the
\* others (agent.go:49-66, 152-187).  Without coreInfo the flag does not count,
\* as agent.go:116 and 184 say.  Such a silent pass may be one whose script
\* never started; an upload that is stored but not signed is told to nobody
\* and has no URL.
ToldUnlessSkipped ==
  [][pc # "recv" /\ pc' = "recv" /\ crashes' = crashes /\ url # None
       => \/ told = Recipients(core)
          \/ told = {} /\ cfg.handler /\ cfg.skipNotify /\ info # None]_vars

\* A pass ends, even when CoreSight never answers: "does not affect the
\* collection of core dumps" (CORESIGHT_INTEGRATION.md:268).
PassEnds == pc # "recv" ~> pc = "recv"
=============================================================================
