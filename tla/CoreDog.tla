------------------------------ MODULE CoreDog -------------------------------
(***************************************************************************)
(* The process of cmd/main.go in agent mode: the goroutine of Watcher and  *)
(* the loop of Agent, over one disk and one unbuffered channel.  Every     *)
(* step is one of theirs, or one of each at once: a core is handed over    *)
(* (filewatch.go:139, agent.go:114), the agent's disposal of a core is an  *)
(* event for the watcher, and a crash takes both away.                     *)
(*                                                                         *)
(* The agent is taken without its assumptions on what arrives: which cores *)
(* arrive, when and how often is what the watcher makes of it.             *)
(***************************************************************************)
EXTENDS CoreFS, FiniteSets, Sequences

CONSTANTS
  Dirs, Root, Parent, NoPath, QueueLimit, AddMayFail, StallPossible,
  Disposal, Disturbances, MaxChurn, MaxCrashes,  \* of Watcher
  Keys, KeyOf, Channels, Configs, Resolved, None \* of Agent

VARIABLES
  disk, churn, crashes,                                \* of both
  dirs, watches, queue, pc, ev, todo, cur, seen,
  processed, refused, heard, captures,                 \* of Watcher
  cfg, store, stage, core, info, held, url, pod, skip,
  ch, object, told, published, delivered      \* of Agent

watcherVars == <<dirs, watches, queue, pc, ev, todo, cur, seen, processed,
                 refused, heard, captures>>
agentVars == <<cfg, store, stage, core, info, held, url, pod, skip, ch,
               object, told, published, delivered>>
vars == <<disk, churn, crashes, watcherVars, agentVars>>

\* What the watcher sees of the agent: whether it is back at its receive.
W == INSTANCE Watcher WITH
       busy <- IF stage = "recv" THEN NoPath ELSE core

A == INSTANCE Agent WITH
       pc <- stage, purges <- churn, MaxPurges <- MaxChurn,
       StallPossible <- TRUE, Redelivered <- TRUE

\* What both ask of the constants.
ASSUME CoreDogAssumption == W!WatcherAssumption /\ A!AgentAssumption

Init == A!Init /\ W!Init

NodeStep == UNCHANGED agentVars /\ W!NodeStep

Start == UNCHANGED agentVars /\ W!Start

\* Mutant of Watch: Send need not wait, as if the channel had a buffer and
\* the path in it were lost when the agent is busy.
WatchAndDrop ==
  /\ UNCHANGED agentVars
  /\ \/ W!WalkStep \/ W!AddNewDir \/ W!TakeStep \/ W!SecondStat
     \/ /\ pc = "sending"
        /\ stage # "recv"
        /\ pc' = "idle"
        /\ ev' = NoPath
        /\ UNCHANGED <<disk, churn, crashes, dirs, watches, queue, todo, cur,
                       seen, processed, refused, heard, captures>>

\* The goroutine of the watcher, but for the send.
Watch ==
  /\ UNCHANGED agentVars
  /\ W!WalkStep \/ W!AddNewDir \/ W!TakeStep \/ W!SecondStat

\* The send of the one is the receive of the other.
HandOver == pc = "sending" /\ A!Receive(ev) /\ W!Send

\* The loop of the agent; what it does to the core the watcher may notice.
Pass ==
  /\ A!PassStep
  /\ IF disk' # disk THEN W!Dispose(core) ELSE UNCHANGED watcherVars

\* CoreSight answers in time.
Reply == A!ReportReply /\ UNCHANGED watcherVars

Crash ==
  /\ IF stage = "recv" THEN UNCHANGED agentVars ELSE A!Crash
  /\ W!Crash

Next == NodeStep \/ Start \/ Watch \/ HandOver \/ Pass \/ Reply \/ Crash

Spec == Init /\ [][Next]_vars

\* Both goroutines are scheduled, what the agent calls returns (CoreSight
\* within its timeout), and the kernel goes on with a dump it has begun.
FairSpec ==
  /\ Spec
  /\ WF_vars(Watch)
  /\ WF_vars(HandOver)
  /\ WF_vars(Pass)
  /\ \A f \in Files : WF_vars(UNCHANGED agentVars /\ W!CoreWrite(f))

-----------------------------------------------------------------------------
TypeOK == W!TypeOK /\ A!TypeOK

\* Agent with the assumptions on arrivals that its invariants rest on.
Assumed == INSTANCE Agent WITH
             pc <- stage, purges <- churn, MaxPurges <- MaxChurn,
             StallPossible <- FALSE, Redelivered <- FALSE

\* As long as dumps do not stall and names are not used again, what the
\* watcher hands over is complete, and no dump comes twice, across restarts,
\* removals, moves and the write events its own disposal causes: the process
\* is an Agent under the assumptions its properties need (filewatch.go:126-139
\* against agent.go:117-145).
ArrivesOnceComplete ==
  [][HandOver => \E f \in Files : Assumed!Receive(f)]_vars

\* The same process as the abstract collection of cores.
Promise == INSTANCE Collection WITH
  Cores <- Files,
  MaxPurges <- MaxChurn,
  complete <- {f \in Files : disk[f].gen > 0 /\ disk[f].phase # "dumping"},
  kept <- {f \in Files : disk[f].phase = "dumped"},
  stored <- {f \in Files : store[KeyOf[f]] =
                             [core |-> f, gen |-> 1, size |-> CoreSize]},
  announced <- {f \in Files : \E p \in published : p.url = KeyOf[f]},
  purges <- churn

\* Watcher, agent, store and operators together keep what Collection
\* promises: the agent never gives up the only copy of a complete core, nor
\* overwrites a stored one, nor announces what the store does not have.
KeepsPromise == Promise!Spec

\* A complete core that was reported to the watcher has a whole pass of the
\* agent in the end, even when other cores keep the agent busy and the
\* watcher waits in its send meanwhile; unless it goes away, or the event loop
\* has returned, or the process was killed after the core was received.
HeardCoreServed ==
  \A f \in Files :
    (f \in heard /\ disk[f].phase = "dumped")
      ~> \/ f \notin heard
         \/ W!Deaf
         \/ delivered[f] = disk[f].gen /\ (stage = "recv" \/ core # f)
=============================================================================
