---------------------------- MODULE ServerProofs ----------------------------
(***************************************************************************)
(* For any requests, any number of channels, and every grace that is not   *)
(* shorter than the API server's timeout: the types of Server, and that a  *)
(* shutdown cuts off no admission the API server still waits for.          *)
(***************************************************************************)
EXTENDS Server, TLAPS

\* How old an open request is while the server is shut down, and after.
Aged ==
  /\ main = "waiting" => graceAge = 0
  /\ \A r \in Requests : phase[r] = "unsent" => outcome[r] = "pending"
  /\ \A r \in Requests : phase[r] \in Open =>
       /\ serve # "new"
       /\ outcome[r] # "pending" => age[r] = ApiTimeout
       /\ main = "draining" => age[r] >= graceAge \/ age[r] = ApiTimeout
       /\ exit \in {"stopped", "panic"} => age[r] = ApiTimeout

IInv == TypeOK /\ Aged

USE ServerAssumption, GraceAssumption

\* What the API server makes of a response admits the pod.
LEMMA VerdictType ==
  ASSUME NEW k \in RequestKinds, k # "empty"
  PROVE  Verdict(Response(k)) \in {"asIs", "patched"}
  BY DEF RequestKinds, Verdict, Response, AlertAnswer

LEMMA KindType ==
  ASSUME kind \in Mixes, NEW r \in Requests
  PROVE  kind[r] \in RequestKinds
  OBVIOUS

LEMMA InitTypeOK == Init => TypeOK
<1> SUFFICES ASSUME Init PROVE TypeOK
  OBVIOUS
<1>1. /\ phase \in [Requests -> Open \cup {"unsent", "refused", "answered",
                                          "aborted"}]
      /\ channel \in [Requests -> 1..(Channels + 1)]
      /\ age \in [Requests -> 0..ApiTimeout]
      /\ outcome \in [Requests -> {"pending", "asIs", "patched", "denied"}]
  BY DEF Init
<1>2. graceAge \in 0..Grace
  BY DEF Init
<1> QED  BY <1>1, <1>2 DEF Init, TypeOK

\* The steps of main, of Start and of the kubelet.
LEMMA ProcessTypeOK ==
  ASSUME TypeOK, MainStep \/ StartStep \/ Signal
  PROVE  TypeOK'
<1> USE DEF TypeOK, Running, processVars, configVars, requestVars
<1>1. CASE BeginShutdown
  BY <1>1 DEF BeginShutdown
<1>2. CASE Drained \/ GraceOver
  BY <1>2 DEF Drained, GraceOver
<1>3. CASE MakeServer
  BY <1>3 DEF MakeServer
<1>4. CASE Listen
  BY <1>4 DEF Listen
<1>5. CASE StartFails
  BY <1>5 DEF StartFails
<1>6. CASE Signal
  BY <1>6 DEF Signal
<1> QED  BY <1>1, <1>2, <1>3, <1>4, <1>5, <1>6 DEF MainStep, StartStep

LEMMA TickTypeOK ==
  ASSUME TypeOK, Tick
  PROVE  TypeOK'
<1> USE DEF TypeOK, Running, configVars
<1>1. age' \in [Requests -> 0..ApiTimeout]
  BY DEF Tick
<1>2. graceAge' \in 0..Grace
  BY DEF Tick
<1> QED  BY <1>1, <1>2 DEF Tick

\* The steps of the handler of a request, and of those who ask it.
LEMMA RequestTypeOK ==
  ASSUME TypeOK, NEW r \in Requests,
         HandlerStep(r) \/ PostAlert(r) \/ Ask(r) \/ GiveUp(r)
  PROVE  TypeOK'
<1> USE DEF TypeOK, Running, processVars, configVars, requestVars, Open
<1>1. CASE Decode(r)
  BY <1>1 DEF Decode
<1>2. CASE HandlerPanics(r)
  BY <1>2 DEF HandlerPanics
<1>3. CASE ReadConfig(r)
  BY <1>3 DEF ReadConfig
<1>4. CASE ConfigRead(r) \/ ConfigFails(r)
  BY <1>4 DEF ConfigRead, ConfigFails
<1>5. CASE GetConfig(r)
  BY <1>5 DEF GetConfig, ConfigReady
<1>6. CASE PostAlert(r)
  BY <1>6 DEF PostAlert, AllAlerted
<1>7. CASE Alerted(r)
  BY <1>7 DEF Alerted
<1>8. CASE Answer(r)
  <2>1. Verdict(Response(kind[r])) \in {"asIs", "patched", "denied"}
    BY <1>8, VerdictType, KindType DEF Answer
  <2>2. /\ outcome' \in [Requests -> {"pending", "asIs", "patched", "denied"}]
        /\ age' \in [Requests -> 0..ApiTimeout]
        /\ phase' \in [Requests -> Open \cup {"unsent", "refused", "answered",
                                             "aborted"}]
    BY <1>8, <2>1 DEF Answer
  <2>3. once = "reading" => reader # r
    BY <1>8 DEF Answer
  <2> QED  BY <1>8, <2>2, <2>3 DEF Answer
<1>9. CASE Ask(r)
  BY <1>9 DEF Ask
<1>10. CASE GiveUp(r)
  BY <1>10 DEF GiveUp
<1> QED
  BY <1>1, <1>2, <1>3, <1>4, <1>5, <1>6, <1>7, <1>8, <1>9, <1>10
  DEF HandlerStep

LEMMA StutterTypeOK ==
  ASSUME TypeOK, UNCHANGED vars
  PROVE  TypeOK'
  BY DEF TypeOK, vars

LEMMA NextTypeOK ==
  ASSUME TypeOK, [Next]_vars
  PROVE  TypeOK'
  BY ProcessTypeOK, TickTypeOK, RequestTypeOK, StutterTypeOK DEF Next

-----------------------------------------------------------------------------
(* The age of what is open                                                 *)

LEMMA ProcessAged ==
  ASSUME IInv, MainStep \/ StartStep \/ Signal
  PROVE  Aged'
<1> USE DEF IInv, TypeOK, Aged, Running, processVars, configVars, requestVars
<1>1. CASE BeginShutdown
  BY <1>1 DEF BeginShutdown
<1>2. CASE Drained
  BY <1>2 DEF Drained
<1>3. CASE GraceOver
  BY <1>3 DEF GraceOver
<1>4. CASE MakeServer
  BY <1>4 DEF MakeServer
<1>5. CASE Listen
  BY <1>5 DEF Listen
<1>6. CASE StartFails
  BY <1>6 DEF StartFails
<1>7. CASE Signal
  BY <1>7 DEF Signal
<1> QED  BY <1>1, <1>2, <1>3, <1>4, <1>5, <1>6, <1>7 DEF MainStep, StartStep

\* A tick makes a request and the shutdown older together.
LEMMA TickAged ==
  ASSUME IInv, Tick
  PROVE  Aged'
<1> USE DEF IInv, TypeOK, Aged, Running, configVars
<1>1. ASSUME NEW r \in Requests, phase'[r] \in Open
      PROVE  age'[r] = IF age[r] < ApiTimeout THEN age[r] + 1 ELSE age[r]
  BY <1>1 DEF Tick
<1> QED  BY <1>1 DEF Tick

\* A request that is not open any more has no age to speak of; one that is
\* accepted finds a server that is not shut down.
LEMMA RequestAged ==
  ASSUME IInv, NEW r \in Requests,
         HandlerStep(r) \/ PostAlert(r) \/ Ask(r) \/ GiveUp(r)
  PROVE  Aged'
<1> USE DEF IInv, TypeOK, Aged, Running, processVars, configVars, requestVars,
            Open
<1>1. CASE Decode(r)
  BY <1>1 DEF Decode
<1>2. CASE HandlerPanics(r)
  BY <1>2 DEF HandlerPanics
<1>3. CASE ReadConfig(r) \/ ConfigRead(r)
  BY <1>3 DEF ReadConfig, ConfigRead
<1>4. CASE ConfigFails(r)
  BY <1>4 DEF ConfigFails
<1>5. CASE GetConfig(r)
  BY <1>5 DEF GetConfig, ConfigReady
<1>6. CASE PostAlert(r)
  BY <1>6 DEF PostAlert, AllAlerted
<1>7. CASE Alerted(r)
  BY <1>7 DEF Alerted
<1>8. CASE Answer(r)
  BY <1>8 DEF Answer
<1>9. CASE Ask(r)
  <2>1. CASE exit = None /\ serve = "serving"
    <3>1. main = "waiting" /\ outcome[r] = "pending" /\ exit' = None
      BY <1>9, <2>1 DEF Ask
    <3> QED  BY <1>9, <2>1, <3>1 DEF Ask
  <2>2. CASE ~(exit = None /\ serve = "serving")
    BY <1>9, <2>2 DEF Ask
  <2> QED  BY <2>1, <2>2
<1>10. CASE GiveUp(r)
  BY <1>10 DEF GiveUp
<1> QED
  BY <1>1, <1>2, <1>3, <1>4, <1>5, <1>6, <1>7, <1>8, <1>9, <1>10
  DEF HandlerStep

LEMMA NextIInv ==
  ASSUME IInv, [Next]_vars
  PROVE  IInv'
<1>1. TypeOK'
  BY NextTypeOK DEF IInv
<1>2. CASE UNCHANGED vars
  BY <1>2 DEF IInv, TypeOK, Aged, vars
<1>3. CASE Next
  BY <1>1, <1>3, ProcessAged, TickAged, RequestAged DEF Next, IInv
<1> QED  BY <1>2, <1>3

-----------------------------------------------------------------------------
\* The parts of the webhook process go together as TypeOK says, for any mix
\* of requests (main.go:27-62, server.go, mutate.go:56-174, config.go:61-76).
THEOREM ServerTypes == Spec => []TypeOK
<1>1. Init => TypeOK
  BY InitTypeOK
<1>2. TypeOK /\ [Next]_vars => TypeOK'
  BY NextTypeOK
<1> QED  BY <1>1, <1>2, PTL DEF Spec

\* No pod is denied on account of the webhook, whatever is sent to it and in
\* whatever state it is (mutate.go:82-100, 129-132).
THEOREM NobodyDenied == Spec => []NeverDenied
<1>1. Init => TypeOK /\ NeverDenied
  BY InitTypeOK DEF Init, NeverDenied
<1>2. ASSUME TypeOK, NeverDenied, [Next]_vars
      PROVE  NeverDenied'
  <2>1. ASSUME NEW r \in Requests, Answer(r)
        PROVE  NeverDenied'
    <3>1. Verdict(Response(kind[r])) # "denied"
      BY <1>2, <2>1, VerdictType, KindType DEF TypeOK, Answer
    <3> QED  BY <1>2, <2>1, <3>1 DEF TypeOK, NeverDenied, Answer
  <2>2. ASSUME NEW r \in Requests, HandlerPanics(r) \/ Ask(r) \/ GiveUp(r)
        PROVE  NeverDenied'
    BY <1>2, <2>2 DEF TypeOK, NeverDenied, HandlerPanics, Ask, GiveUp
  <2>3. CASE UNCHANGED outcome
    BY <1>2, <2>3 DEF NeverDenied
  <2>4. \/ UNCHANGED outcome
        \/ \E r \in Requests :
             Answer(r) \/ HandlerPanics(r) \/ Ask(r) \/ GiveUp(r)
    BY <1>2 DEF Next, MainStep, BeginShutdown, Drained, GraceOver, StartStep,
           MakeServer, Listen, StartFails, Signal, Tick, HandlerStep, Decode,
           ReadConfig, ConfigRead, ConfigFails, GetConfig, Alerted, PostAlert,
           vars, requestVars
  <2> QED  BY <2>1, <2>2, <2>3, <2>4
<1>3. TypeOK /\ NeverDenied /\ [Next]_vars => TypeOK' /\ NeverDenied'
  BY <1>2, NextTypeOK
<1> QED  BY <1>1, <1>3, PTL DEF Spec

\* No admission that the API server still waits for is cut off by a shutdown,
\* at whatever time the signal comes, provided that the grace main gives is
\* not shorter than the API server's timeout (main.go:51-60, server.go:75-78).
THEOREM NoCutOff == Spec => []CutsOffOnlyLate
<1>1. Init => IInv
  BY InitTypeOK DEF Init, IInv, Aged, Open
<1>2. IInv /\ [Next]_vars => IInv'
  BY NextIInv
<1>3. IInv => CutsOffOnlyLate
  BY DEF IInv, Aged, CutsOffOnlyLate
<1> QED  BY <1>1, <1>2, <1>3, PTL DEF Spec
=============================================================================
