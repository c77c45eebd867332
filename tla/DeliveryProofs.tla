--------------------------- MODULE DeliveryProofs ---------------------------
(***************************************************************************)
(* For all timeouts, any number of channels, passes, descendants of a      *)
(* script and crashes: the safety properties of Delivery.                  *)
(***************************************************************************)
EXTENDS Delivery, FiniteSetTheorems, TLAPS

\* How the handler's parts go together: what there is of a script, and what
\* its end and the timeout have to do with each other.
Handled ==
  /\ pc # "idle" => pass > 0
  /\ pc \notin Executing => bash = "none" /\ children = 0
  /\ pc \in {"start"} \cup Executing => script
  /\ pc \in {"script", "start"} \cup Executing => result = None
  /\ pc = "draining" => bash \notin Alive
  /\ bash = "killed" \/ result = "timedOut" => elapsed = Timeout
  /\ bash = "killed" /\ pc = "draining" => failed

\* What has been posted, and that the pass before its report has not.
Posted ==
  /\ IsFiniteSet(events)
  /\ pc \notin {"idle", "posting"} => \A e \in events : e.pass # pass
  /\ OneEventPerPass
  /\ ReportedIsKept

IInv == TypeOK /\ Handled /\ Posted

USE DeliveryAssumption

LEMMA TimeoutType ==
  ASSUME configured \in Timeouts
  PROVE  /\ Timeout \in Nat \ {0}
         /\ Timeout = IF configured > 0 THEN configured ELSE DefaultTimeout
  BY DEF Timeout

LEMMA InitIInv == Init => IInv
<1> SUFFICES ASSUME Init PROVE IInv
  OBVIOUS
<1>1. TypeOK
  <2>1. elapsed \in 0..Timeout
    BY TimeoutType DEF Init
  <2>2. pc \in PCs /\ pc \notin Executing /\ bash \in BashStates
    BY DEF Init, PCs, Executing, BashStates
  <2>3. /\ pass \in 0..MaxPasses /\ children \in 0..MaxChildren
        /\ ch \in 1..(Channels + 1) /\ crashes \in 0..MaxCrashes
    BY DEF Init
  <2>4. events = {} /\ logged = {} /\ pc = "idle"
    BY DEF Init
  <2>5. /\ configured \in Timeouts /\ script \in BOOLEAN /\ failed \in BOOLEAN
        /\ result \in {None, "ok", "failed", "timedOut"}
    BY DEF Init
  <2> QED  BY <2>1, <2>2, <2>3, <2>4, <2>5 DEF TypeOK
<1>2. Handled
  BY DEF Init, Handled, Executing, Alive
<1>3. Posted
  BY FS_EmptySet DEF Init, Posted, OneEventPerPass, ReportedIsKept
<1> QED  BY <1>1, <1>2, <1>3 DEF IInv

-----------------------------------------------------------------------------
(* The handler                                                             *)

\* The steps of Execute up to its return, of the script and of the clock.
HandlerStep ==
  \/ WriteScript \/ StartBash \/ ExecuteFails \/ Expire \/ Reap \/ Return
  \/ ScriptStep \/ Tick

LEMMA HandlerTypes ==
  ASSUME IInv, HandlerStep
  PROVE  TypeOK' /\ Handled'
<1> USE TimeoutType DEF IInv, TypeOK, Handled, PCs, Executing, AfterHandler,
          BashStates, Alive, EventStates, reportVars, scriptUnchanged
<1>1. Timeout' = Timeout
  BY DEF HandlerStep, WriteScript, StartBash, ExecuteFails, Expire, Reap,
         Return, ScriptStep, BashOpens, BashForks, BashExits, ChildLetsGo,
         Tick, Timeout
<1>2. CASE WriteScript
  BY <1>1, <1>2 DEF WriteScript
<1>3. CASE StartBash
  BY <1>1, <1>3 DEF StartBash
<1>4. CASE ExecuteFails
  BY <1>1, <1>4 DEF ExecuteFails
<1>5. CASE Expire
  BY <1>1, <1>5 DEF Expire
<1>6. CASE Reap
  BY <1>1, <1>6 DEF Reap
<1>7. CASE Return
  BY <1>1, <1>7 DEF Return
<1>8. CASE BashOpens \/ BashExits
  BY <1>1, <1>8 DEF BashOpens, BashExits
<1>9. CASE BashForks \/ ChildLetsGo
  <2>1. children' \in 0..MaxChildren
    BY <1>9 DEF BashForks, ChildLetsGo
  <2>2. pc \notin Executing => children' = 0
    BY <1>9 DEF BashForks, ChildLetsGo
  <2>3. CASE BashForks
    BY <1>1, <2>1, <2>2, <2>3 DEF BashForks
  <2>4. CASE ChildLetsGo
    BY <1>1, <2>1, <2>2, <2>4 DEF ChildLetsGo
  <2> QED  BY <1>9, <2>3, <2>4
<1>10. CASE Tick
  BY <1>1, <1>10 DEF Tick
<1> QED
  BY <1>2, <1>3, <1>4, <1>5, <1>6, <1>7, <1>8, <1>9, <1>10
  DEF HandlerStep, ScriptStep

\* They leave what has been posted alone, and lead nowhere behind it.
LEMMA HandlerPosted ==
  ASSUME IInv, HandlerStep
  PROVE  Posted'
<1>1. UNCHANGED <<pass, events, logged>>
  BY DEF HandlerStep, WriteScript, StartBash, ExecuteFails, Expire, Reap,
         Return, ScriptStep, BashOpens, BashForks, BashExits, ChildLetsGo,
         Tick, reportVars, scriptUnchanged
<1>2. pc \in {"idle", "posting"} => pc' = pc
  BY DEF HandlerStep, WriteScript, StartBash, ExecuteFails, Expire, Reap,
         Return, ScriptStep, BashOpens, BashForks, BashExits, ChildLetsGo,
         Tick, Executing, scriptUnchanged
<1> QED  BY <1>1, <1>2 DEF IInv, Posted, OneEventPerPass, ReportedIsKept

-----------------------------------------------------------------------------
(* The rest of a pass                                                      *)

\* The steps between the handler and CoreSight, and those that end a pass.
PassStep == Begin \/ ChannelAnswers \/ NotifyDone \/ ReportFails \/ Crash

LEMMA PassTypes ==
  ASSUME IInv, PassStep
  PROVE  TypeOK' /\ Handled'
<1> USE TimeoutType DEF IInv, TypeOK, Handled, PCs, Executing, BashStates,
          Alive, EventStates, handlerVars, reportVars
<1>1. Timeout' = Timeout
  BY DEF PassStep, Begin, ChannelAnswers, NotifyDone, ReportFails, Crash,
         Timeout
<1>2. CASE Begin
  BY <1>1, <1>2 DEF Begin
<1>3. CASE ChannelAnswers
  BY <1>1, <1>3 DEF ChannelAnswers, AllNotified
<1>4. CASE NotifyDone
  BY <1>1, <1>4 DEF NotifyDone
<1>5. CASE ReportFails
  BY <1>1, <1>5 DEF ReportFails
<1>6. CASE Crash
  <2>1. elapsed' \in 0..Timeout /\ crashes' \in 0..MaxCrashes
    BY <1>6 DEF Crash
  <2>2. children' \in 0..MaxChildren /\ bash' \in BashStates /\ pc' \in PCs
    BY <1>6 DEF Crash
  <2>3. TypeOK'
    BY <1>1, <1>6, <2>1, <2>2 DEF Crash
  <2>4. Handled'
    BY <1>1, <1>6 DEF Crash
  <2> QED  BY <2>3, <2>4
<1> QED  BY <1>2, <1>3, <1>4, <1>5, <1>6 DEF PassStep

LEMMA PassPosted ==
  ASSUME IInv, PassStep
  PROVE  Posted'
<1> USE DEF IInv, TypeOK, Posted, OneEventPerPass, ReportedIsKept, handlerVars,
            reportVars
<1>1. CASE Begin
  BY <1>1 DEF Begin
<1>2. CASE ChannelAnswers \/ NotifyDone
  BY <1>2 DEF ChannelAnswers, NotifyDone
<1>3. CASE ReportFails \/ Crash
  BY <1>3 DEF ReportFails, Crash
<1> QED  BY <1>1, <1>2, <1>3 DEF PassStep

-----------------------------------------------------------------------------
(* CoreSight                                                               *)

LEMMA PostEventIInv ==
  ASSUME IInv, PostEvent
  PROVE  IInv'
<1> DEFINE new == [pass |-> pass, number |-> Cardinality(events) + 1,
                   state |-> "sent"]
<1> USE DEF IInv, handlerVars
<1>1. Cardinality(events) \in Nat
  BY FS_CardinalityType DEF Posted
<1>2. events' = events \cup {new} /\ pc = "report" /\ pc' = "posting"
  BY DEF PostEvent
<1>3. pass \in 1..pass
  BY <1>2 DEF TypeOK, Handled
<1>4. TypeOK'
  <2>1. new \in [pass : 1..pass, number : Nat, state : EventStates]
    BY <1>1, <1>3 DEF EventStates
  <2>2. events' \subseteq [pass : 1..pass, number : Nat, state : EventStates]
    BY <1>2, <2>1 DEF TypeOK
  <2>3. new \in events' /\ new.pass = pass
    BY <1>2
  <2> HIDE DEF new
  <2> QED
    BY <1>2, <2>2, <2>3 DEF PostEvent, TypeOK, PCs, Executing, Timeout
<1>5. Handled'
  BY DEF PostEvent, Handled, Executing, Timeout
<1>6. Posted'
  <2>1. IsFiniteSet(events')
    BY <1>2, FS_AddElement DEF Posted
  <2>2. \A e \in events : e.pass # new.pass
    BY <1>2 DEF Posted
  <2>3. OneEventPerPass'
    BY <1>2, <2>2 DEF Posted, OneEventPerPass
  <2>4. ReportedIsKept'
    BY <1>2 DEF PostEvent, Posted, ReportedIsKept
  <2> QED  BY <1>2, <2>1, <2>3, <2>4 DEF Posted
<1> QED  BY <1>4, <1>5, <1>6

\* What CoreSight makes of an event changes only one it has not read yet.
LEMMA CoreSightReadsIInv ==
  ASSUME IInv, NEW e \in events, CoreSightReads(e)
  PROVE  IInv'
<1> USE DEF IInv, handlerVars
<1>1. PICK s \in {"accepted", "refused", "redirected"} :
        events' = (events \ {e}) \cup {[e EXCEPT !.state = s]}
  BY DEF CoreSightReads
<1> DEFINE read == [e EXCEPT !.state = s]
<1>2. /\ e \in [pass : 1..pass, number : Nat, state : EventStates]
      /\ e.state = "sent" /\ read.pass = e.pass
      /\ read \in [pass : 1..pass, number : Nat, state : EventStates]
  BY DEF CoreSightReads, TypeOK, EventStates
<1> HIDE DEF read
<1>3. TypeOK'
  BY <1>1, <1>2 DEF CoreSightReads, TypeOK, PCs, Executing, BashStates, Alive,
                    Timeout, read
<1>4. Handled'
  BY DEF CoreSightReads, Handled, Timeout
<1>5. Posted'
  <2>1. IsFiniteSet(events')
    BY <1>1, FS_AddElement, FS_RemoveElement DEF Posted
  <2>2. OneEventPerPass'
    BY <1>1, <1>2 DEF Posted, OneEventPerPass, read
  <2>3. ReportedIsKept'
    BY <1>1, <1>2 DEF CoreSightReads, Posted, ReportedIsKept
  <2>4. pc \notin {"idle", "posting"} => \A f \in events' : f.pass # pass
    BY <1>1, <1>2 DEF Posted, read
  <2> QED  BY <2>1, <2>2, <2>3, <2>4 DEF CoreSightReads, Posted
<1> QED  BY <1>3, <1>4, <1>5

\* The log calls a pass reported when its own event was accepted, or when a
\* redirection led somewhere.
LEMMA ReportReplyIInv ==
  ASSUME IInv, NEW e \in events, ReportReply(e)
  PROVE  IInv'
<1> USE DEF IInv, handlerVars
<1>1. e.pass = pass /\ e.state \in {"accepted", "refused", "redirected"}
  BY DEF ReportReply, TypeOK, EventStates
<1>2. \/ logged' = logged
      \/ logged' = logged \cup {pass} /\ e.state \in {"accepted", "redirected"}
  <2>1. CASE e.state = "refused"
    BY <2>1 DEF ReportReply, StatusOk
  <2>2. CASE e.state # "refused"
    BY <1>1, <2>2 DEF ReportReply
  <2> QED  BY <2>1, <2>2
<1>3. pass \in 1..pass
  BY DEF ReportReply, TypeOK, Handled
<1>4. TypeOK'
  BY <1>2, <1>3 DEF ReportReply, TypeOK, PCs, Executing, Timeout
<1>5. Handled'
  BY DEF ReportReply, Handled, Executing, Timeout
<1>6. Posted'
  <2>1. ReportedIsKept'
    BY <1>1, <1>2 DEF ReportReply, Posted, ReportedIsKept
  <2> QED  BY <2>1 DEF ReportReply, Posted, OneEventPerPass
<1> QED  BY <1>4, <1>5, <1>6

LEMMA NextIInv ==
  ASSUME IInv, [Next]_vars
  PROVE  IInv'
<1>1. CASE HandlerStep
  BY <1>1, HandlerTypes, HandlerPosted DEF IInv
<1>2. CASE PassStep
  BY <1>2, PassTypes, PassPosted DEF IInv
<1>3. CASE PostEvent \/ \E e \in events : CoreSightReads(e) \/ ReportReply(e)
  BY <1>3, PostEventIInv, CoreSightReadsIInv, ReportReplyIInv
<1>4. CASE UNCHANGED vars
  BY <1>4 DEF IInv, TypeOK, Handled, Posted, OneEventPerPass, ReportedIsKept,
              Timeout, vars
<1> QED
  BY <1>1, <1>2, <1>3, <1>4
  DEF Next, LoopStep, HandlerStep, PassStep

-----------------------------------------------------------------------------
\* The invariant from which the others follow: types, the parts of Execute,
\* and that a pass on its way to its report has not been reported.
THEOREM DeliveryInvariant == Spec => []IInv
<1>1. Init => IInv
  BY InitIInv
<1>2. IInv /\ [Next]_vars => IInv'
  BY NextIInv
<1> QED  BY <1>1, <1>2, PTL DEF Spec

\* The parts of a pass's end go together as TypeOK says (handler.go:53-108,
\* notice.go:22-57, reporter.go:81-150).
THEOREM DeliveryTypes == Spec => []TypeOK
<1>1. IInv => TypeOK
  BY DEF IInv
<1> QED  BY <1>1, DeliveryInvariant, PTL

\* A script that runs has its file, from bash's late opening of it to its end,
\* for every timeout and at whatever point Execute fails, expires or crashes
\* (handler.go:62-65, 96).
THEOREM ScriptKept == Spec => []ScriptThere
<1>1. IInv => ScriptThere
  BY DEF IInv, TypeOK, Handled, ScriptThere, Executing, Alive
<1> QED  BY <1>1, DeliveryInvariant, PTL

\* When the loop goes on there is neither bash nor anything that holds its
\* output, for every timeout and any number of descendants
\* (handler.go:68-69, 96-106).
THEOREM ScriptsApart == Spec => []QuietReturn
<1>1. IInv => QuietReturn
  BY DEF IInv, Handled, QuietReturn
<1> QED  BY <1>1, DeliveryInvariant, PTL

\* Whatever the setting, nothing is killed or called a timeout before the time
\* the script was given (agent.go:103-107, handler.go:42-50, 96-108).
THEOREM NoEarlyKill == Spec => []KilledOnlyLate
<1>1. IInv => KilledOnlyLate
  BY TimeoutType DEF IInv, TypeOK, Handled, KilledOnlyLate
<1> QED  BY <1>1, DeliveryInvariant, PTL

\* CoreSight gets at most one event for a pass, whenever it reads the events
\* of earlier ones (reporter.go:60-62, 130-134).
THEOREM ReportsOnce == Spec => []OneEventPerPass
<1>1. IInv => OneEventPerPass
  BY DEF IInv, Posted
<1> QED  BY <1>1, DeliveryInvariant, PTL

\* CoreSight has accepted what the log calls reported, unless it redirects,
\* also when it answers passes that nobody waits for (reporter.go:130-147).
THEOREM ReportsKept == Spec => []ReportedIsKept
<1>1. IInv => ReportedIsKept
  BY DEF IInv, Posted
<1> QED  BY <1>1, DeliveryInvariant, PTL
=============================================================================
