------------------------------ MODULE Delivery ------------------------------
(***************************************************************************)
(* The calls that end a pass of agent.Run, below the level of module       *)
(* Agent: the processes of the custom handler (Execute, handler.go), the   *)
(* requests to the channels (notice.go) and the event for CoreSight        *)
(* (ReportCoredumpUploaded, reporter.go), against scripts that leave       *)
(* processes behind or never end, and servers that do not answer.  Which   *)
(* of the calls a pass makes is the subject of Agent: here it is any.      *)
(*                                                                         *)
(* os/exec is external: CombinedOutput returns when bash has been waited   *)
(* for and nobody holds the pipe of its output any more; the end of the    *)
(* context kills bash, and only bash.                                      *)
(***************************************************************************)
EXTENDS Integers, FiniteSets

CONSTANTS
  Timeouts,       \* values of CustomHandler.Timeout to consider, in ticks
  DefaultTimeout, \* 300 seconds, in ticks
  Channels,       \* number of channels that get a message
  MaxPasses,      \* bound on the passes
  MaxChildren,    \* bound on the processes of a script that hold its pipe
  MaxCrashes,     \* bound on the crashes of the process
  None

ASSUME DeliveryAssumption ==
  /\ Timeouts \subseteq Int
  /\ DefaultTimeout \in Nat \ {0}
  /\ Channels \in Nat
  /\ MaxPasses \in Nat \ {0}
  /\ MaxChildren \in Nat
  /\ MaxCrashes \in Nat
  /\ None \notin {"ok", "failed", "timedOut"}

VARIABLES
  configured, \* CustomHandler.Timeout
  pass,       \* number of the pass, which is that of its core
  pc,         \* where the loop is
  script,     \* is the script's file there, and whole?
  bash,       \* the process of the script
  children,   \* its descendants that hold the pipe
  elapsed,    \* ticks of the handler's context, up to its timeout
  failed,     \* has cmd.Wait an error to return?
  result,     \* history: what Execute returned last
  ch,         \* index of the next channel
  events,     \* events that were posted, and what CoreSight made of them
  logged,     \* passes whose event the log calls reported
  crashes     \* crashes left

handlerVars == <<script, bash, children, elapsed, failed, result>>
reportVars == <<events, logged>>
vars == <<configured, pass, pc, script, bash, children, elapsed, failed,
          result, ch, events, logged, crashes>>

Executing == {"waiting", "draining"}
PCs == {"idle", "script", "start", "notify", "report", "posting"}
         \cup Executing

\* "starting": bash has not opened the script yet; "zero", "other": it has
\* exited, with that status; "killed": by the end of the context.
Alive == {"starting", "running"}
BashStates == Alive \cup {"none", "zero", "other", "killed"}

EventStates == {"sent", "accepted", "refused", "redirected"}

Init ==
  /\ configured \in Timeouts
  /\ pass = 0
  /\ pc = "idle"
  /\ script = FALSE /\ bash = "none" /\ children = 0
  /\ elapsed = 0 /\ failed = FALSE /\ result = None
  /\ ch = 1
  /\ events = {} /\ logged = {}
  /\ crashes = MaxCrashes

\* Mutant of Timeout: only a missing setting gets the default.
TimeoutUnlessSet == IF configured = 0 THEN DefaultTimeout
                    ELSE IF configured < 0 THEN 0 ELSE configured

\* Run replaces 0, NewCustomHandler what is not positive.
Timeout == IF configured <= 0 THEN DefaultTimeout ELSE configured

\* Where the loop may be after the handler: its flags skip what follows.
AfterHandler == {"notify", "report", "idle"}

\* The next core: with a handler or without, up to the end of the pass.
Begin ==
  /\ pc = "idle"
  /\ pass < MaxPasses
  /\ pass' = pass + 1
  /\ pc' \in {"script", "notify", "report"}
  /\ ch' = 1
  /\ result' = None
  /\ UNCHANGED <<configured, script, bash, children, elapsed, failed,
                 reportVars, crashes>>

-----------------------------------------------------------------------------
(* Execute                                                                 *)

\* Mutant of StartBash: the file is removed as soon as bash is started.
StartAndRemove ==
  /\ pc = "start"
  /\ bash' = "starting"
  /\ script' = FALSE
  /\ pc' = "waiting"
  /\ UNCHANGED <<configured, pass, children, elapsed, failed, result, ch,
                 reportVars, crashes>>

\* The script is written to a file of its own; the context begins.
WriteScript ==
  /\ pc = "script"
  /\ script' = TRUE
  /\ elapsed' = 0
  /\ pc' = "start"
  /\ UNCHANGED <<configured, pass, bash, children, failed, result, ch,
                 reportVars, crashes>>

StartBash ==
  /\ pc = "start"
  /\ bash' = "starting"
  /\ pc' = "waiting"
  /\ UNCHANGED <<configured, pass, script, children, elapsed, failed, result,
                 ch, reportVars, crashes>>

\* The script is empty, or its file cannot be written, and nobody removes what
\* there is of it; or bash cannot be started, and the deferred Remove takes the
\* file away.
ExecuteFails ==
  /\ pc \in {"script", "start"}
  /\ script' = FALSE
  /\ result' = "failed"
  /\ pc' \in AfterHandler
  /\ UNCHANGED <<configured, pass, bash, children, elapsed, failed, ch,
                 reportVars, crashes>>

\* Mutants of Expire: Execute returns as soon as the context ends; and the
\* command is made without the context.
ExpireAndReturn ==
  /\ pc \in Executing
  /\ elapsed = Timeout
  /\ result' = "timedOut"
  /\ script' = FALSE
  /\ pc' \in AfterHandler
  /\ UNCHANGED <<configured, pass, bash, children, elapsed, failed, ch,
                 reportVars, crashes>>

NoExpiry == FALSE

\* The context ends and bash is killed.  Its descendants are not.
Expire ==
  /\ pc = "waiting"
  /\ bash \in Alive
  /\ elapsed = Timeout
  /\ bash' = "killed"
  /\ UNCHANGED <<configured, pass, pc, script, children, elapsed, failed,
                 result, ch, reportVars, crashes>>

\* bash has ended.  When the context has as well, its error may be returned
\* though bash exited with 0.
Reap ==
  /\ pc = "waiting"
  /\ bash \notin Alive
  /\ failed' \in {bash # "zero", bash # "zero" \/ elapsed = Timeout}
  /\ pc' = "draining"
  /\ UNCHANGED <<configured, pass, script, bash, children, elapsed, result, ch,
                 reportVars, crashes>>

\* Nobody holds the pipe any more: Execute returns, and removes the file.
Return ==
  /\ pc = "draining"
  /\ children = 0
  /\ bash' = "none"
  /\ script' = FALSE
  /\ result' = IF ~failed THEN "ok"
               ELSE IF elapsed = Timeout THEN "timedOut" ELSE "failed"
  /\ pc' \in AfterHandler
  /\ UNCHANGED <<configured, pass, children, elapsed, failed, ch, reportVars,
                 crashes>>

-----------------------------------------------------------------------------
(* The script                                                              *)

scriptUnchanged == <<configured, pass, pc, script, elapsed, failed, result, ch,
                     reportVars, crashes>>

\* bash opens the file, or ends when there is none.
BashOpens ==
  /\ bash = "starting"
  /\ bash' = IF script THEN "running" ELSE "other"
  /\ UNCHANGED <<scriptUnchanged, children>>

\* It starts something that inherits its output.
BashForks ==
  /\ bash = "running"
  /\ children < MaxChildren
  /\ children' = children + 1
  /\ UNCHANGED <<scriptUnchanged, bash>>

BashExits ==
  /\ bash = "running"
  /\ bash' \in {"zero", "other"}
  /\ UNCHANGED <<scriptUnchanged, children>>

\* One of them exits, or closes its output.
ChildLetsGo ==
  /\ children > 0
  /\ children' = children - 1
  /\ UNCHANGED <<scriptUnchanged, bash>>

-----------------------------------------------------------------------------
(* The channels and CoreSight                                              *)

\* Mutant of AllNotified: the loop runs past the last channel.
NotifiedBeyond == ch > Channels + 1

AllNotified == ch > Channels

\* A channel answers or its connection fails; nothing bounds how long it may
\* take.
ChannelAnswers ==
  /\ pc = "notify"
  /\ ~AllNotified
  /\ ch' = ch + 1
  /\ UNCHANGED <<configured, pass, pc, handlerVars, reportVars, crashes>>

NotifyDone ==
  /\ pc = "notify"
  /\ AllNotified
  /\ pc' \in {"report", "idle"}
  /\ UNCHANGED <<configured, pass, handlerVars, ch, reportVars, crashes>>

\* The event is posted.  Its ID, made of the second and the process's PID, is
\* left out: what CoreSight makes of equal ones is not known.
PostEvent ==
  /\ pc = "report"
  /\ events' = events \cup
       {[pass |-> pass, number |-> Cardinality(events) + 1,
          state |-> "sent"]}
  /\ pc' = "posting"
  /\ UNCHANGED <<configured, pass, handlerVars, ch, logged, crashes>>

\* CoreSight takes the event, refuses it, or answers with a redirection that
\* makes the client ask again, by GET; perhaps when nobody waits any more.  Who
\* answers 307 or 308 has not taken the event, which the client posts again to
\* the place it is told: until that place reads it, it is still sent.
CoreSightReads(e) ==
  /\ e.state = "sent"
  /\ \E s \in {"accepted", "refused", "redirected"} :
       events' = (events \ {e}) \cup {[e EXCEPT !.state = s]}
  /\ UNCHANGED <<configured, pass, pc, handlerVars, ch, logged, crashes>>

\* Mutant of StatusOk: an answer is an answer.
AnyStatus(e) == {TRUE}

\* Is the status the client sees at last between 200 and 299?  After a
\* redirection it is the status of another page.
StatusOk(e) == CASE e.state = "accepted"   -> {TRUE}
                 [] e.state = "refused"    -> {FALSE}
                 [] e.state = "redirected" -> BOOLEAN

ReportReply(e) ==
  /\ pc = "posting"
  /\ e.pass = pass
  /\ e.state # "sent"
  /\ \E ok \in StatusOk(e) :
       logged' = IF ok THEN logged \cup {pass} ELSE logged
  /\ pc' = "idle"
  /\ UNCHANGED <<configured, pass, handlerVars, ch, events, crashes>>

\* Mutant of ReportFails: it is tried again.
ReportAgain ==
  /\ pc = "posting"
  /\ pc' = "report"
  /\ UNCHANGED <<configured, pass, handlerVars, ch, reportVars, crashes>>

\* The connection fails, or the client's 30 seconds are over: not tried again.
ReportFails ==
  /\ pc = "posting"
  /\ pc' = "idle"
  /\ UNCHANGED <<configured, pass, handlerVars, ch, reportVars, crashes>>

-----------------------------------------------------------------------------
\* Time passes for the context.
Tick ==
  /\ elapsed' = IF pc \in Executing /\ elapsed < Timeout THEN elapsed + 1
                                                        ELSE elapsed
  /\ UNCHANGED <<configured, pass, pc, script, bash, children, failed, result,
                 ch, reportVars, crashes>>

\* The process is killed, and its container with everything in it.
Crash ==
  /\ crashes > 0
  /\ pc # "idle"
  /\ crashes' = crashes - 1
  /\ pc' = "idle"
  /\ script' = FALSE /\ bash' = "none" /\ children' = 0
  /\ elapsed' = 0 /\ failed' = FALSE /\ result' = None
  /\ UNCHANGED <<configured, pass, ch, reportVars>>

\* What the loop does without waiting for anybody, or only so long.
LoopStep ==
  \/ WriteScript \/ StartBash \/ ExecuteFails \/ Expire \/ Reap \/ Return
  \/ NotifyDone \/ PostEvent \/ ReportFails

ScriptStep == BashOpens \/ BashForks \/ BashExits \/ ChildLetsGo

Next ==
  \/ Begin \/ LoopStep \/ ScriptStep \/ ChannelAnswers \/ Tick \/ Crash
  \/ \E e \in events : CoreSightReads(e) \/ ReportReply(e)

Spec == Init /\ [][Next]_vars

\* The loop is scheduled and time passes.  What a script leaves behind ends
\* or closes its output, and channels answer: the code does not see to it.
\* bash itself need never end, and CoreSight never answer.
FairSpec ==
  /\ Spec
  /\ WF_vars(LoopStep) /\ WF_vars(Tick)
  /\ WF_vars(ChildLetsGo) /\ WF_vars(ChannelAnswers)

-----------------------------------------------------------------------------
TypeOK ==
  /\ configured \in Timeouts
  /\ pass \in 0..MaxPasses
  /\ pc \in PCs
  /\ script \in BOOLEAN
  /\ bash \in BashStates
  /\ pc \in Executing => bash # "none"
  /\ children \in 0..MaxChildren
  /\ elapsed \in 0..Timeout
  /\ failed \in BOOLEAN
  /\ result \in {None, "ok", "failed", "timedOut"}
  /\ ch \in 1..(Channels + 1)
  /\ events \subseteq [pass : 1..pass, number : Nat, state : EventStates]
  /\ pc = "posting" => \E e \in events : e.pass = pass
  /\ logged \subseteq 1..pass
  /\ crashes \in 0..MaxCrashes

\* bash finds the file of its script, which it opens some time after it was
\* started and reads as it goes, whatever else the timeout and the return of
\* Execute do meanwhile (handler.go:62-65, 96).
ScriptThere == bash \in Alive => script

\* The loop does not go on while a script runs, or while anything it started
\* holds its output: scripts of two passes never run side by side on account
\* of a timeout (handler.go:68-69, 96-106).
QuietReturn == pc \notin Executing => bash = "none" /\ children = 0

\* A script is killed only after the time it was given, which is the default
\* when the setting is missing, zero or negative, and Execute calls nothing a
\* timeout before that time; what it killed it does not call a success
\* (agent.go:103-107, handler.go:42-50, 96-108).
KilledOnlyLate ==
  LET given == IF configured > 0 THEN configured ELSE DefaultTimeout
  IN /\ bash = "killed" \/ result = "timedOut" => elapsed >= given
     /\ bash = "killed" /\ pc = "draining" => failed

\* An event the log calls reported is one that CoreSight has accepted, also
\* when answers are late, lost or refusals, unless CoreSight redirects
\* (reporter.go:130-147).
ReportedIsKept ==
  \A p \in logged : \E e \in events :
    e.pass = p /\ e.state \in {"accepted", "redirected"}

\* CoreSight never gets two events for one pass, though it may have accepted
\* one whose answer the agent did not wait for (reporter.go:60-62, 130-134).
OneEventPerPass ==
  \A e, f \in events : e.pass = f.pass => e = f

\* The loop gets back to its channel although a script never ends and
\* CoreSight never answers, provided that what the script started lets go of
\* its output and that channels answer (handler.go:68-96, reporter.go:60-62).
PassReturns == pc # "idle" ~> pc = "idle"
=============================================================================
