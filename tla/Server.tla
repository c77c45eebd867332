------------------------------- MODULE Server -------------------------------
(***************************************************************************)
(* The webhook process: the two goroutines of main.go, the HTTP server of  *)
(* server.go, and its handler of admission requests (ServeHTTP, mutatePods *)
(* and sendAlert of mutate.go) with the configuration that it reads at the *)
(* first alert (config.go).  What a patch consists of is module Injection. *)
(*                                                                         *)
(* The API server sends requests and gives up after its own timeout, when  *)
(* failurePolicy Ignore admits the pod as it is; others may send anything. *)
(* The kubelet sends SIGTERM.  Time passes in ticks that age what waits.   *)
(*                                                                         *)
(* main reads s.server without a lock while the other goroutine writes it: *)
(* the pointer is one word, so the read yields nil or the server, as if it *)
(* came just before the write or just after.                               *)
(***************************************************************************)
EXTENDS Naturals

CONSTANTS
  Requests,   \* requests that are ever sent
  Mixes,      \* which kinds of requests to consider, one for each
  Channels,   \* number of channels in NoticeChannel
  ApiTimeout, \* timeoutSeconds of the webhook configuration, in ticks
  Grace,      \* what main gives Shutdown, in ticks
  None

\* "junk": no body or another content type; "undecodable": no AdmissionReview;
\* "empty": one without a request; "badPod": its object is no pod; "skip" and
\* "inject": a pod that is to be left alone, or to be patched.
RequestKinds == {"junk", "undecodable", "empty", "badPod", "skip", "inject"}

ASSUME ServerAssumption ==
  /\ Mixes \subseteq [Requests -> RequestKinds]
  /\ Channels \in Nat
  /\ ApiTimeout \in Nat \ {0}
  /\ Grace \in Nat \ {0}
  /\ None \notin Requests /\ None \notin {"stopped", "panic", "fatal"}

\* 10 seconds in main.go; timeoutSeconds is 10 in the chart.
ASSUME GraceAssumption == Grace >= ApiTimeout

VARIABLES
  main,      \* the goroutine of main
  serve,     \* the goroutine that runs Start
  server,    \* has s.server been set?
  signalled, \* a signal is in the channel stop, or was
  graceAge,  \* ticks since Shutdown began
  exit,      \* None, or how the process has ended
  once,      \* progress of onceCfg
  reader,    \* the handler that runs its function
  kind,      \* what each request is
  phase,     \* where its handler is
  channel,   \* the channel an alert is sent to
  age,       \* ticks an open request has been open
  outcome    \* what the API server made of it

processVars == <<main, serve, server, signalled, graceAge>>
configVars == <<once, reader>>
requestVars == <<kind, phase, channel, age, outcome>>
vars == <<main, serve, server, signalled, graceAge, exit, once, reader, kind,
          phase, channel, age, outcome>>

\* Phases of a request that keeps its connection busy.
Open == {"accepted", "config", "alerting", "answering"}

Init ==
  /\ main = "waiting"
  /\ serve = "new"
  /\ server = FALSE
  /\ signalled = FALSE
  /\ graceAge = 0
  /\ exit = None
  /\ once = "unread"
  /\ reader = None
  /\ kind \in Mixes
  /\ phase = [r \in Requests |-> "unsent"]
  /\ channel = [r \in Requests |-> 1]
  /\ age = [r \in Requests |-> 0]
  /\ outcome = [r \in Requests |-> "pending"]

Running == exit = None

-----------------------------------------------------------------------------
(* The goroutine of Start                                                  *)

\* The routes are set up and s.server is assigned.
MakeServer ==
  /\ Running
  /\ serve = "new"
  /\ server' = TRUE
  /\ serve' = "made"
  /\ UNCHANGED <<main, signalled, graceAge, exit, configVars, requestVars>>

\* The certificate is loaded and the port is listened to, unless Shutdown was
\* called before.
Listen ==
  /\ Running
  /\ serve = "made"
  /\ serve' = IF main = "draining" THEN "returned" ELSE "serving"
  /\ UNCHANGED <<main, server, signalled, graceAge, exit, configVars,
                 requestVars>>

\* No certificate or no port: Start returns an error, Fatalf ends the process.
StartFails ==
  /\ Running
  /\ serve = "made"
  /\ exit' = "fatal"
  /\ UNCHANGED <<processVars, configVars, requestVars>>

-----------------------------------------------------------------------------
(* The goroutine of main                                                   *)

\* A signal arrived.  Shutdown of a server there is none of yet dereferences
\* nil; otherwise it closes the listener, with which Start returns.
BeginShutdown ==
  /\ Running
  /\ main = "waiting"
  /\ signalled
  /\ IF server
     THEN /\ main' = "draining"
          /\ serve' = IF serve = "serving" THEN "returned" ELSE serve
          /\ UNCHANGED exit
     ELSE exit' = "panic" /\ UNCHANGED <<main, serve>>
  /\ UNCHANGED <<server, signalled, graceAge, configVars, requestVars>>

\* Mutant of Drained: the server is closed instead of shut down.
Closed ==
  /\ Running
  /\ main = "draining"
  /\ exit' = "stopped"
  /\ UNCHANGED <<processVars, configVars, requestVars>>

\* Shutdown returns when no connection is busy.  One the API server has given
\* up may count or not, depending on the version of HTTP.
Drained ==
  /\ Running
  /\ main = "draining"
  /\ \A r \in Requests : phase[r] \in Open => outcome[r] # "pending"
  /\ exit' = "stopped"
  /\ UNCHANGED <<processVars, configVars, requestVars>>

\* Mutants of GraceOver: the context has no deadline, and the deadline counts
\* from before the signal.
NoDeadline == FALSE
DeadlineFromStart ==
  /\ Running
  /\ main = "draining"
  /\ exit' = "stopped"
  /\ UNCHANGED <<processVars, configVars, requestVars>>

\* Or when its context ends, whatever is still busy.
GraceOver ==
  /\ Running
  /\ main = "draining"
  /\ graceAge = Grace
  /\ exit' = "stopped"
  /\ UNCHANGED <<processVars, configVars, requestVars>>

-----------------------------------------------------------------------------
(* The handler of a request                                                *)

\* Mutant of AlertAnswer: a response whose Allowed is left at its zero value.
AlertAnswerBare == [allowed |-> FALSE, uid |-> TRUE, patch |-> FALSE]

\* What mutatePods returns after an alert.
AlertAnswer == [allowed |-> TRUE, uid |-> TRUE, patch |-> FALSE]

\* The response to a request of a kind: does it allow the pod, does it have
\* the UID of the request, without which the API server takes no notice of it.
\* An undecodable review is one in which no request was found to copy it from.
Response(k) ==
  CASE k = "junk"        -> [allowed |-> FALSE, uid |-> FALSE, patch |-> FALSE]
    [] k = "undecodable" -> [allowed |-> FALSE, uid |-> FALSE, patch |-> FALSE]
    [] k = "badPod"      -> AlertAnswer
    [] k = "skip"        -> [allowed |-> TRUE, uid |-> TRUE, patch |-> FALSE]
    [] k = "inject"      -> [allowed |-> TRUE, uid |-> TRUE, patch |-> TRUE]

\* What comes of the pod when the API server has the response.
Verdict(response) ==
  IF ~response.uid THEN "asIs"
  ELSE IF ~response.allowed THEN "denied"
  ELSE IF response.patch THEN "patched" ELSE "asIs"

\* Mutant of Decode: one admission is handled at a time.
DecodeAlone(r) ==
  /\ Running
  /\ phase[r] = "accepted"
  /\ kind[r] # "empty"
  /\ \A q \in Requests : phase[q] \notin {"config", "alerting"}
  /\ phase' = [phase EXCEPT ![r] =
       IF kind[r] = "badPod" THEN "config" ELSE "answering"]
  /\ UNCHANGED <<processVars, exit, configVars, kind, channel, age, outcome>>

\* ServeHTTP up to its response, or mutatePods up to its alert.
Decode(r) ==
  /\ Running
  /\ phase[r] = "accepted"
  /\ kind[r] # "empty"
  /\ phase' = [phase EXCEPT ![r] =
       IF kind[r] = "badPod" THEN "config" ELSE "answering"]
  /\ UNCHANGED <<processVars, exit, configVars, kind, channel, age, outcome>>

\* mutatePods dereferences the request there is none of; net/http recovers
\* the panic and closes the connection.
HandlerPanics(r) ==
  /\ Running
  /\ phase[r] = "accepted"
  /\ kind[r] = "empty"
  /\ phase' = [phase EXCEPT ![r] = "aborted"]
  /\ outcome' = [outcome EXCEPT ![r] = IF @ = "pending" THEN "asIs" ELSE @]
  /\ age' = [age EXCEPT ![r] = 0]
  /\ UNCHANGED <<processVars, exit, configVars, kind, channel>>

\* onceCfg.Do lets others go on when its function has returned.
ConfigReady == once = "read"

\* config.Get: the first caller reads the file.
ReadConfig(r) ==
  /\ Running
  /\ phase[r] = "config"
  /\ once = "unread"
  /\ once' = "reading"
  /\ reader' = r
  /\ UNCHANGED <<processVars, exit, requestVars>>

ConfigRead(r) ==
  /\ Running
  /\ reader = r
  /\ once = "reading"
  /\ once' = "read"
  /\ reader' = None
  /\ UNCHANGED <<processVars, exit, requestVars>>

\* The file is missing or malformed: log.Fatal ends the process.
ConfigFails(r) ==
  /\ Running
  /\ reader = r
  /\ once = "reading"
  /\ exit' = "fatal"
  /\ UNCHANGED <<processVars, configVars, requestVars>>

GetConfig(r) ==
  /\ Running
  /\ phase[r] = "config"
  /\ ConfigReady
  /\ phase' = [phase EXCEPT ![r] = "alerting"]
  /\ UNCHANGED <<processVars, exit, configVars, kind, channel, age, outcome>>

\* Mutant of AllAlerted: the loop runs past the last channel.
AlertedBeyond(r) == channel[r] > Channels + 1

AllAlerted(r) == channel[r] > Channels

\* sendAlert: a channel answers or the connection fails, which is logged.
PostAlert(r) ==
  /\ Running
  /\ phase[r] = "alerting"
  /\ ~AllAlerted(r)
  /\ channel' = [channel EXCEPT ![r] = @ + 1]
  /\ UNCHANGED <<processVars, exit, configVars, kind, phase, age, outcome>>

Alerted(r) ==
  /\ Running
  /\ phase[r] = "alerting"
  /\ AllAlerted(r)
  /\ phase' = [phase EXCEPT ![r] = "answering"]
  /\ UNCHANGED <<processVars, exit, configVars, kind, channel, age, outcome>>

\* The response is written.  A write after WriteTimeout fails, but that is as
\* long as the API server waits.
Answer(r) ==
  /\ Running
  /\ phase[r] = "answering"
  /\ phase' = [phase EXCEPT ![r] = "answered"]
  /\ outcome' = [outcome EXCEPT ![r] =
       IF @ = "pending" THEN Verdict(Response(kind[r])) ELSE @]
  /\ age' = [age EXCEPT ![r] = 0]
  /\ UNCHANGED <<processVars, exit, configVars, kind, channel>>

-----------------------------------------------------------------------------
(* The API server, the kubelet, and time                                   *)

\* A request is sent; where nobody listens it is refused.
Ask(r) ==
  /\ phase[r] = "unsent"
  /\ IF Running /\ serve = "serving"
     THEN /\ phase' = [phase EXCEPT ![r] = "accepted"]
          /\ UNCHANGED outcome
     ELSE /\ phase' = [phase EXCEPT ![r] = "refused"]
          /\ outcome' = [outcome EXCEPT ![r] = "asIs"]
  /\ UNCHANGED <<processVars, exit, configVars, kind, channel, age>>

\* The API server waits no longer: failurePolicy Ignore.
GiveUp(r) ==
  /\ phase[r] \in Open
  /\ outcome[r] = "pending"
  /\ age[r] = ApiTimeout
  /\ outcome' = [outcome EXCEPT ![r] = "asIs"]
  /\ UNCHANGED <<processVars, exit, configVars, kind, phase, channel, age>>

Signal ==
  /\ Running
  /\ ~signalled
  /\ signalled' = TRUE
  /\ UNCHANGED <<main, serve, server, graceAge, exit, configVars, requestVars>>

\* A tick: requests get older up to the timeout, Shutdown up to its deadline.
Tick ==
  /\ Running
  /\ age' = [r \in Requests |->
               IF phase[r] \in Open /\ age[r] < ApiTimeout THEN age[r] + 1
                                                           ELSE age[r]]
  /\ graceAge' = IF main = "draining" /\ graceAge < Grace THEN graceAge + 1
                                                          ELSE graceAge
  /\ UNCHANGED <<main, serve, server, signalled, exit, configVars, kind, phase,
                 channel, outcome>>

-----------------------------------------------------------------------------
MainStep == BeginShutdown \/ Drained \/ GraceOver

StartStep == MakeServer \/ Listen \/ StartFails

\* What the handler of a request does without waiting for a channel.
HandlerStep(r) ==
  \/ Decode(r) \/ HandlerPanics(r) \/ ReadConfig(r) \/ ConfigRead(r)
  \/ ConfigFails(r) \/ GetConfig(r) \/ Alerted(r) \/ Answer(r)

Next ==
  \/ MainStep \/ StartStep \/ Signal \/ Tick
  \/ \E r \in Requests : HandlerStep(r) \/ PostAlert(r) \/ Ask(r) \/ GiveUp(r)

Spec == Init /\ [][Next]_vars

\* Goroutines are scheduled and time passes; no channel need ever answer.
FairSpec ==
  /\ Spec
  /\ WF_vars(MainStep) /\ WF_vars(StartStep) /\ WF_vars(Tick)
  /\ \A r \in Requests : WF_vars(HandlerStep(r))

-----------------------------------------------------------------------------
\* Types, with how the parts go together: only a server that is made serves,
\* nothing is accepted any more while it drains, one handler reads the file,
\* and a review without a request gets nowhere.
TypeOK ==
  /\ main \in {"waiting", "draining"}
  /\ serve \in {"new", "made", "serving", "returned"}
  /\ server \in BOOLEAN
  /\ server <=> serve # "new"
  /\ main = "draining" => server /\ signalled /\ serve # "serving"
  /\ signalled \in BOOLEAN
  /\ graceAge \in 0..Grace
  /\ exit \in {None, "stopped", "panic", "fatal"}
  /\ once \in {"unread", "reading", "read"}
  /\ reader \in Requests \cup {None}
  /\ IF once = "reading" THEN reader \in Requests /\ phase[reader] = "config"
                         ELSE reader = None
  /\ kind \in Mixes
  /\ phase \in [Requests -> Open \cup {"unsent", "refused", "answered",
                                       "aborted"}]
  /\ \A r \in Requests : kind[r] = "empty" =>
       phase[r] \in {"unsent", "refused", "accepted", "aborted"}
  /\ channel \in [Requests -> 1..(Channels + 1)]
  /\ age \in [Requests -> 0..ApiTimeout]
  /\ outcome \in [Requests -> {"pending", "asIs", "patched", "denied"}]

\* A shutdown, also one that panics because there is no server yet, cuts no
\* admission off that the API server still waits for: what Shutdown leaves
\* behind at its deadline is older than the API server's patience
\* (main.go:51-60, server.go:75-78).
CutsOffOnlyLate ==
  \A r \in Requests :
    exit \in {"stopped", "panic"} /\ phase[r] \in Open => age[r] = ApiTimeout

\* No pod is refused on account of the webhook, whatever was sent to it and
\* however it fails: an answer the API server heeds allows the pod
\* (mutate.go:82-100, 129-132).
NeverDenied == \A r \in Requests : outcome[r] # "denied"

\* After a signal the process ends, at whatever time it comes and although an
\* alert may wait for its channel for ever (main.go:51-60).
StopsWhenTold == signalled ~> exit # None

\* Alerts, which may wait for their channels for ever, hold no other admission
\* up, nor does a panic: every other request is answered while the process
\* lives (mutate.go:56-116, 430-483).
OthersAnswered ==
  \A r \in Requests :
    phase[r] = "accepted" /\ kind[r] # "badPod" ~>
      phase[r] \in {"answered", "aborted"} \/ exit # None
=============================================================================
