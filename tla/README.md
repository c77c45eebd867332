# CoreDog in TLA+

CoreDog collects the core dumps of the pods of a Kubernetes cluster. This
directory holds models of it, the TLC configurations that check them, and
theorems about them that the TLA+ proof system checks. `PROJECT.json` maps the
definitions to lines of the code and lists runs, mutants, hazards, findings and
theorems.

    tlc -config watcher.cfg MCWatcher.tla          # any run: <run>.cfg with its MC module
    tlapm WatcherProofs.tla                        # and the other *Proofs.tla

## The system

    API server --AdmissionReview--> webhook --JSON patch--> API server
         kubelet creates /data/coredog-system/dumps/<ns>/<pod>/<container> (hostPath)
         kernel dumps cores into it                        |
                                                inotify events
                                                           v
    operator: rm, mv, rmdir --> disk ----> watcher goroutine --unbuffered channel--> agent loop
                                  ^                                                    |
                                  +----------- truncate / remove ----------------------+
                                                                                       |
               S3/COS or CFS <-- upload ---+--- resolve ---> API server                |
               handler script, channels, CoreSight <-- in this order ------------------+

| Component | State it keeps | Operations | What makes it correct |
|---|---|---|---|
| watcher (`internal/watcher`) | inotify watches, the queue of events, `processedFiles`, the file it probes | start walk, new directory, core event, remove, rename, overflow, send | no reported directory or core forgotten, no dump sent twice, only complete dumps sent |
| agent loop (`internal/agent`) | the variables of one pass | receive, parse, upload, cleanup, resolve, handler, notify, report | nothing deleted that is not stored, announced URLs hold, channels are all told or all skipped on request, every pass ends |
| stores (`internal/store`) | the bucket, or the directory of the CFS mount | Upload | no partial or foreign object under an announced URL |
| parser (`internal/coreparser`) | MD5 semaphore | ParseCoreFile | size and MD5 are those of the object |
| resolver (`internal/podresolver`) | none; it asks the API server | Resolve | the core is given to the pod and container it is of |
| handler (`internal/handler`) | a script file, a process and what it starts, a context | Execute with timeout | it ends, its file is there, nothing runs on behind it |
| channels (`internal/notice`) | none | Notice | every matching channel gets a message |
| reporter (`internal/reporter`) | HTTP client with a timeout | ReportCoredumpUploaded | it ends, a core has one event, "reported" means accepted |
| webhook (`internal/webhook/mutate.go`) | where each request is | ServeHTTP, shouldInject, createPatch, sendAlert | the patch applies, injects once, leaves the rest alone; nobody is denied or held up |
| webhook server (`server.go`, `cmd/main.go`) | the HTTP server, set by one goroutine and used by another | Start, Shutdown, signal | it stops when told and cuts nobody off in time |
| configuration (`internal/config`) | one Config, read once | Get | nobody uses it half read |
| chart, certificates, CI | | | deployment, not modelled |

What is hard about it: the watcher handles reports against the tree of *now*,
not of the time of the report; it sleeps and blocks in the middle of its loop;
the agent's own cleanup raises events; every call of a pass can fail, and the
process can be killed between any two; the pod that is looked up may no longer
be the pod that crashed; the patch is written against a pod its own operations
change, in the random order of a Go map. The hazards, each at its line, are in
`PROJECT.json`.

## Modules

| Module | Models | |
|---|---|---|
| `CoreFS` | a core file on the node: absent, being dumped, dumped, emptied | shared |
| `Watcher` | `filewatch.go` with kernel, kubelet, operators, inotify, fsnotify v1.7.0 and a consumer | `MCWatcher`, `WatcherProofs`, `WatcherCoreProofs` |
| `Agent` | the loop of `agent.go`, with `parser.go`, `store.go`, `cfs.go`, `handler.go`, `notice.go`, `reporter.go` as far as it depends on them | `MCAgent`, `AgentProofs` |
| `Collection` | abstract: what CoreDog promises about a core | |
| `CoreDog` | composition of `Watcher` and `Agent`; refines `Collection` | `MCCoreDog`, `CoreDogProofs` |
| `Injection` | admission of one pod: `mutate.go` and the application of its patch | `MCInjection`, `InjectionProofs` |
| `Identity` | directory names (`mutate.go`), `resolver.go` and the validation of `agent.go`, with pods that come and go | `MCIdentity`, `IdentityProofs` |
| `Server` | the webhook process: `main.go`, `server.go`, `ServeHTTP` and `sendAlert` of `mutate.go`, `config.Get`, with API server, kubelet and time | `MCServer`, `ServerProofs` |
| `Delivery` | the end of a pass: `handler.go` with bash and its descendants, `notice.go`, `reporter.go` with CoreSight | `MCDelivery`, `DeliveryProofs` |

**Watcher.** A step ends wherever the code can be overtaken: a system call on
the tree, the sleep of `isFileWriteComplete`, the send. `pc` is `boot` during
the walk of `Watch`, `idle` at the select, `adding` between the stat of a new
directory and `watch.Add`, `walking` during its walk, `sleeping` and `sending`
for a core, `dead` after an error on `watch.Errors`. `WalkDir` and `WalkAdd`
split a visit of `filepath.Walk` where it matters: the entries are read before
`walkFn` adds the watch. `TakeDirCreate`, `TakeCore`, `TakeIdly`, `TakeRemove`,
`TakeRename`, `TakeStray` and `TakeOverflow` are the branches of `watchEvents`.
The queue has a limit; a report to a full queue becomes one overflow event, and
an event equal to the last unread one may be merged with it. fsnotify reads at
most one event ahead and names an event when it reads it: events of a directory
whose watch is removed lose the directory (`Strayed`). A move or removal of a
directory is reported by two watches, one after the other; the second does
nothing the first has not done and is left out (`ReportGone`). A removed watch
and its inode go together, so a directory that is created anew has none.
`heard` is a history variable: the paths the watcher was told of and that
exist. It is what the properties may promise about; what was never reported is
the subject of the violated properties.

**Agent.** `pc` is where the loop is. `StatCore` and `HashCore` are the two
reads of the parser, `OpenUpload` and `Uploaded` or `UploadFails` the third; an
upload that does not return leaves what `Leftovers` says: nothing or the whole
object with S3, any prefix with CFS. `CleanLocal` may fail, which is only
logged. `Handle` calls the custom handler when there is a coreInfo; the skip
flags count then, whether the script starts, and gets the URL, or `Execute`
returns before it (an empty script, a file that cannot be written, no bash). In
that case, with both flags set, a stored core passes in silence; so does one
whose URL could not be signed, which is a failed upload to the loop.
`NotifyChannel` is one iteration over `NoticeChannel`. `Reportable` is the list
of checks before the event. `published` remembers every URL that was given to
the handler, a channel or CoreSight, with the bytes and size it was given for;
an S3 URL is its key, and its expiry is not modelled. A crash loses the pass.
Alone, the module assumes what arrives by `StallPossible` and `Redelivered`:
complete dumps, each once.

**CoreDog** drops that assumption: it instantiates both modules over one disk,
joins send and receive in `HandOver`, turns the agent's cleanup into an event
of the watcher in `Pass`, and checks in `ArrivesOnceComplete` that the watcher
delivers what `Agent` alone assumes. `KeepsPromise` is the refinement of
`Collection`: `kept` is the set of cores the node has all bytes of, `stored`
of those the store has, `announced` of those a URL was given of. Every step
maps to one of Complete, Store, Announce, Dispose, Purge, Disturb or a stutter;
in particular a disposal needs the core to be stored, and `stored` never
shrinks, whatever later or killed uploads do. The two modules ask the same of
the constants as they do alone (`CoreDogAssumption`).

**Injection** is one admission after the other of one manifest. The iteration
over `targetContainers` takes any order (`AddVolume` with any name left), the
patch is applied operation by operation as the API server does, and an append
to a list that is not there refuses the pod. The loops over containers and init
containers go through their list by `index`, one mount at a time; `patch` is
what was written so far, against the pod as it was submitted.

**Identity** has pods whose directory is named in three ways: after the pod,
after the made-up name of a pod that has none at admission, and after the
admission UID, as an earlier release did and the resolver still reads. A fourth
kind is made from the manifest of another pod (`Copy`): its volumes are found
by their names and keep the other pod's directories; `owner` remembers whose.
Cores wait between dump and resolution while pods are deleted and created anew.

**Server** has the goroutine of `main` (`main`), that of `Start` (`serve`),
`s.server` between them, which both use without a lock, and one handler per
request (`phase`): `accepted` until the review is decoded, `config` and
`alerting` in `sendAlert`, `answering` when the response is there. `Response`
and `Verdict` say what the API server makes of it: a response without the UID of
the request counts for nothing, and with failurePolicy Ignore the pod is then
admitted as it is. A request may be junk, undecodable, empty (the handler's
panic is recovered by net/http), or one whose object is no pod, which alone
raises alerts. `once` and `reader` are the `sync.Once` of `config.Get`: the file
is read by the first handler that needs it, and `log.Fatal` of a missing file
ends the process. Ticks age what waits: a request up to the timeout of the API
server, the shutdown up to the end of its context. `exit` says how the process
ended: `stopped`, `fatal`, or `panic` for a signal that finds no server.

**Delivery** takes up where `Agent` has one step each. Which calls a pass makes
is any choice here; how long they take and what they leave behind is the
subject. `bash` opens its script some time after it was started; `children` are
processes that hold the pipe of its output; `Expire` kills bash and only bash;
`Reap` and `Return` are the two waits of `CombinedOutput`. An event is `sent`
until CoreSight has read it, also when nobody waits for the answer any more.
The files of the script are named by the nanosecond and taken to differ.

## Runs

All runs of Watcher, Agent and CoreDog bound disturbances and crashes; states
without successors are those where the budgets are used up and nothing is left
to handle, so deadlock is not checked. That nothing *waits* forever is the
subject of the liveness properties.

| Run | Shows | Bounds |
|---|---|---|
| `watcher` | `TypeOK`, `HeardDirCovered`, `AtMostOnceCaptured`, `HeardDirWatched`, `HeardCoreCaptured` | root and three nested directories, one core, queue of 4, refused watches, 2 disturbances of any kind, 1 crash |
| `watcher_cores` | `HeardCoreCovered` | one directory, one path dumped to twice in two writes, stalls, queue of 3, refused watches, 2 removals, 1 crash |
| `watcher_nested`, `watcher_missed` | violated: `SubdirsWatched`, `EveryCoreCollected` | no disturbance, no crash needed |
| `agent` | `TypeOK`, `PublishedUrlsHold`, `DeletesOnlyStored`, `ToldUnlessSkipped`, `PassEnds` | two cores with a key each, three channels, all configurations and resolver results, CoreSight silent at will, 1 purge, 1 crash |
| `agent_names` | violated: `PublishedUrlsHold` | two cores with one key |
| `coredog` | `TypeOK`, `ArrivesOnceComplete`, `KeepsPromise`, `HeardCoreServed` | two cores, two directories, queue of 3, CFS with truncation and S3 with removal, handler and CoreSight, 1 core removed by an operator, 1 crash |
| `injection` | `TypeOK`, `NeverRefused`, `MountedOnce`, `KeepsTheRest` | up to two containers and an init container, five target lists, a second submission |
| `identity` | `TypeOK`, `ReportsRightPod`, `DetailsBelong` | three pods, two names, two nodes, two versions of the image, one core, all roots |
| `identity_generated` | violated: `NamesThePod` | pods of a Deployment, CorefileDir /corefile |
| `server` | `TypeOK`, `CutsOffOnlyLate`, `NeverDenied`, `StopsWhenTold`, `OthersAnswered` | two admissions with alerts and one of each other kind, one channel, timeout and grace of 2 ticks |
| `delivery` | `TypeOK`, `ScriptThere`, `QuietReturn`, `KilledOnlyLate`, `ReportedIsKept`, `OneEventPerPass`, `PassReturns` | three passes, two processes that hold the pipe, timeouts of -1, 0 and 1 ticks with a default of 2, two channels, 1 crash |

Why these are enough: the races between a directory and its reports need one
directory, its parent and two changes (removal and return), and the walk needs
a third level; the order of events of one path needs a queue of three, and four
leave room for a full queue beside it; a second core is needed to keep the
agent busy, a third adds nothing; two writes, in `watcher_cores`, are the least
that make a dump visible while it grows. Three pods are the least for a pod, one
made from its manifest, and one that takes the name of the first. Two alerts
meet in `config.Get` and keep two handlers busy, and the third request is the
one they could hold up or that is cut off; with two ticks a request can be older
than, as old as, and younger than the shutdown. Two passes are enough for a
script that runs on beside the next one and three for a crash between them; two
ticks tell the default from a timeout that is set. In `coredog` the
disturbance is the one that takes a core away from under the agent; all of them,
and two in a row, are in `watcher`. Each property has a mutant in
`PROJECT.json`, a plausible mistake in one definition under which the same run
finds it violated.

### What the violated properties show

- `SubdirsWatched`: a directory that appears two levels below a new one while
  the watcher walks the new one can stay unwatched for ever.
- `EveryCoreCollected`: cores dumped before their directory is watched, or
  while the agent is down, are never sent.
- `PublishedUrlsHold` in `agent_names`: the key is a base name, so a later core
  can replace an announced one.
- `NamesThePod`: a pod of a Deployment is called by its made-up directory name.

What the models show without a run of its own: after an overflow the process
lives on without a watcher (`pc = "dead"`); with local files deleted the file
that `COREDUMP_FILE` names is gone when the handler runs; without a parsed core
the skip flags are ignored; paths of the old layout below /corefile are taken
for paths of the new one, so that IsLegacyPath stays false for them
(`FromNewPath`, against the comment at `resolver.go:125`); a copy of a pod under
another name reports its cores as that pod's; events of one second share an ID;
a redirection of CoreSight passes for its consent; the reported node is that of
the pod that has the name now, not of the one that crashed.

### Fairness

`Watcher!Fairness`: the goroutine is scheduled (weak fairness of the
disjunction of its steps, which are never disabled for good by another actor
but for the send, for which the consumer's return is fair), and the kernel goes
on with a dump it has begun. Nothing is assumed of operators, the kubelet or
the start of a process. `Agent!FairSpec`: the loop goes on, which takes for
granted that commands, stores, channels and the handler return; only CoreSight
need not answer, since the client's timeout of 30 seconds (`reporter.go:61`)
is a step of the loop. `ReportReply` is not fair. `CoreDog!FairSpec` takes both
together; handing over is fair because a receive is all the loop does between
passes. That channels and the handler return is not justified by the code
(`notice.go:30`, `handler.go:96`): see the hazards. `Delivery!FairSpec` says
exactly what is missing: the loop and time go on, and beyond that only that a
channel answers in the end (`WF_vars(ChannelAnswers)`) and that what a script
has left behind lets go of its output (`WF_vars(ChildLetsGo)`); bash itself may
hang and CoreSight be silent, for which the code has timeouts. Descendants that
start others for ever are excluded as well. `Server!FairSpec` assumes that
goroutines are scheduled, that reading a file ends and that time passes;
`PostAlert` is not fair, as a channel need never answer, and neither are the API
server and the kubelet.

## Proofs

The proof modules hold for every value of the constants that the named
assumptions allow (`CoreFSAssumption`, `WatcherAssumption`, `AgentAssumption`,
`CoreDogAssumption`, `InjectionAssumption`, `ServerAssumption` and
`GraceAssumption`, `DeliveryAssumption`, `IdentityAssumption`). Every safety
property of a passing run is the subject of a theorem.

`WatcherProofs`
- `TypeCorrect`: `Spec => []TypeOK`. The type invariant is inductive because it
  says of the event's path what the place of the process makes of it, and of
  the queue that it exceeds its limit only by an overflow.
- `DirCovered`: `Spec => []HeardDirCovered`. With `TypeOK` the property is
  inductive: a heard directory has either a create event that no later event
  about it follows (`PendingCreate`), or no event at all (`Silent`) and a
  watch. The lemmas on sequences say how reports, the head's removal and
  `Strayed` act on the two; every branch of `watchEvents` then either leaves
  the directory to its pending event or has just added its watch.
- `AtMostOnce`: `AtMostOnceCaptured`, assuming `MaxGen = 1` and
  `~StallPossible`. `OnceInv` says where a core is that was sent: with the agent,
  or marked, or gone or emptied with no event left that would have it sent again.

`WatcherCoreProofs`
- `CoreCovered`: `HeardCoreCovered`, assuming `Undisturbed`: cores are not moved,
  a path is not dumped to while it has a core, and directories are lost only
  directly below CorefileDir. A core is forgotten when the mark of its path
  outlives the core that set it. The mark goes with the event of that core's
  removal, and this event is lost when the directory's watch is taken away while
  the file is there. `CoreInv` therefore relates marks to the queue: a marked
  path has a core that is there and watched with nothing queued that ends the
  watch (`Calm`), or its removal is queued before anything that does (`Safe`,
  `Unmarking`); and what ends the watch is handled before any event of a core
  of a later directory of that name (`Ordered`, `Renewed`).
- Deeper in the tree the property is false: with `root/p/d`, a core in `d`, two
  dumps and up to four removals of directories TLC finds, after 36 steps, the late
  removal of a directory that is there again take its watch while a core in it is
  marked; that core's removal is not reported and the next core of the path is
  dropped. So the hypothesis cannot be left out, and `watcher_cores` has its one
  directory below CorefileDir.

`AgentProofs`
- `TypeCorrect`: `Spec => []TypeOK`.
- `StoredBeforeDeleted`: `DeletesOnlyStored`, assuming `MaxGen = 1` (names are
  used once, as with the documented core_pattern) and `~StallPossible`. The
  invariant `Faithful` says that the core of a pass is not being dumped, that
  what the upload has open is what the file still has, and that in `clean` the
  object is that snapshot. It needs no assumption on keys: nobody else uploads
  between a copy and its cleanup.
- `AllToldOrSkipped`: `ToldUnlessSkipped`, without further assumptions, from
  the invariant `Telling`: which channels have been told at each place of the
  pass, and why none when they are skipped. It promises no message: a handler
  that replaces the channels may fail (see Agent above).
- `AnnouncedUrls`: `PublishedUrlsHold`, assuming in addition that keys differ
  (`KeyOf` is injective) and that no dump arrives twice. `InfoHolds` relates
  the parser's reads to the file, `Announced` every published URL to a core
  that was delivered and whose pass has uploaded it. `agent_names` shows that
  the assumption on keys is needed.

`ServerProofs`
- `ServerTypes`: `Spec => []TypeOK`, inductive as it stands, as it says which
  places of the goroutines go together.
- `NobodyDenied`: `Spec => []NeverDenied`. `VerdictType` says of every response
  that it either lacks the UID or allows the pod.
- `NoCutOff`: `Spec => []CutsOffOnlyLate`, assuming that the grace is not
  shorter than the API server's timeout, as in `main.go:56` and the chart. The
  invariant `Aged` says that a request that is open during a shutdown is at
  least as old as the shutdown, since nothing is accepted any more; that one the
  API server has given up is as old as its timeout; and that none is open before
  there is a server, which covers the panic.

`DeliveryProofs`
- `DeliveryInvariant` and from it `DeliveryTypes`, `ScriptKept` (`ScriptThere`),
  `ScriptsApart` (`QuietReturn`), `NoEarlyKill` (`KilledOnlyLate`), `ReportsOnce`
  (`OneEventPerPass`) and `ReportsKept` (`ReportedIsKept`), without further
  assumptions.
  `Handled` says at each place of `Execute` what there is of the script, its
  process and its context, `Posted` that a pass on its way to its report has no
  event yet, which makes the one it posts the only one.

`IdentityProofs`
- `IdentityTypes` and `RightPod`: `Spec => []TypeOK` and `Spec =>
  []ReportsRightPod`. The invariant `IInv` keeps, for every pod and every core,
  whose directory it has: `OwnDirectory` says that the directory of a pod is its
  owner's name, or a made-up one, or a UID no pod has for a name. `ValidIsRight`
  then follows an answer of the resolver back to the path: what `agent.Run`
  accepts was taken from a pod, so the name in the path is one a pod can have,
  and not made up. The assumptions used are that UIDs are no names of pods and
  that `LooksMadeUp` contains the names the webhook makes up.
- `Details`: `DetailsBelong`. What comes with a pod's UID was read from one
  container of that pod, whichever `ImageOf` finds first.

`InjectionProofs`
- `InjectionInvariant` and from it `InjectionTypes`, `PatchApplies`
  (`NeverRefused`) and `RestKept` (`KeepsTheRest`), for manifests with lists of
  any length. The invariant follows the loops and the application of the patch:
  every list of the pod extends that of the manifest (`Kept`), every operation
  still in the patch finds its list when those before it are applied (`OpFits`),
  and every mount and volume that is due is there, in the patch, or ahead of the
  loops (`Complete`).
- `MountsOnce`: `MountedOnce`, for manifests that do not mount a volume twice
  themselves.

`CoreDogProofs`
- `TypeCorrect`: `TypeOK` of both parts in the process, whatever arrives.
- `WatcherInside`: the specification implies that of `Watcher`, with the pass of
  the agent as its consumer. Hence `DirsCovered`, and `CoresCovered` assuming
  `Undisturbed`: `HeardDirCovered` and `HeardCoreCovered` hold in the process.
- `ArrivalsAsAssumed`: `ArrivesOnceComplete`, assuming `MaxGen = 1` and
  `~StallPossible`. `Accounted` says that the agent has received what the watcher
  has sent; with `OnceInv` of the watcher a hand-over is a `Receive` of Agent
  with `StallPossible` and `Redelivered` false. So the invariants of
  `AgentProofs` hold in the process without its assumptions on arrivals:
  `DisposesOfStored` (`DeletesOnlyStored`) and, when keys differ, `UrlsHold`
  (`PublishedUrlsHold`). `AllToldOrSkipped` (`ToldUnlessSkipped`) holds whatever
  arrives.
- `KeepsThePromise`: the refinement of `Collection`, assuming in addition that
  keys differ (`Distinct`). `CollectInv` says that a dumped core has all its
  bytes, that only what was received is emptied or stored, that a core is not
  in the store before its upload, and from then on under the URL of the pass
  until its end. The steps of the node are Complete, Purge, Disturb or a
  stutter; uploads, failed and killed ones included, are Store of the core of
  the pass or a stutter; every publication is Announce, and the cleanup Dispose.

Only model-checked: the liveness properties (`HeardDirWatched`,
`HeardCoreCaptured`, `HeardCoreServed`, `PassEnds`, `StopsWhenTold`,
`OthersAnswered`, `PassReturns`), as fairness and ENABLED are out of the prover's
reach, and of course what the runs find violated. `HeardCoreCovered` has the
hypothesis above; that dumps do not stall and names are used once is needed
where it is assumed (`isFileWriteComplete` takes a stall for the end, and a key
is the name).

## Not modelled

What `file`, `readelf` and `strings` print; the text of messages; modes of
directories; the expiry of URLs; S3's multipart protocol; the handshake of TLS
and the decoding of HTTP and JSON; the chart. The constructors of the stores
(`store.go:67-107`, `cfs.go`) normalise the protocol and test a directory once,
before anything is stored; a wrong setting ends the process there. How the
documented keys relate to the tags of `config.go` is a comparison of two texts:
there is no behaviour to explore, and `Configs` of Agent covers what can come of
it. The IDs of events repeat within a second by their format
(`reporter.go:87`); what CoreSight makes of that is not in this repository.

## Plan

Done, in order of importance: Watcher, Agent, CoreDog over Collection,
Injection, Identity with resubmitted manifests, Server, Delivery (handler,
channels, reporter); proofs of every safety property of the passing runs, and
of the refinement of Collection.

Left, models: the steps of both uploads for the agents of several nodes with one
bucket; Delivery as a refinement of the handler, channel and report steps of
Agent.

Left, proofs:
1. `Watcher`: the weakest condition on the tree under which `HeardCoreCovered`
   holds; `Undisturbed` is sufficient.
2. `CoreDog`: a promise for dumps that stall and names that are used again,
   where `Collection` does not hold.
3. `Delivery` and `Server`: the invariants behind `PassReturns` and
   `StopsWhenTold`, that is who can be waiting for whom.
