------------------------------- MODULE MCAgent -------------------------------
(***************************************************************************)
(* Small instances of Agent: two cores, and three channels, one of which   *)
(* is of an unknown kind and one filters by keyword.                       *)
(***************************************************************************)
EXTENDS Agent

TwoCores == {"core1", "core2"}
OwnKeys == {"key1", "key2"}
OwnKeyOf == [f \in Files |-> IF f = "core1" THEN "key1" ELSE "key2"]

\* Two cores with one base name, in the directories of two containers.
OneKey == {"key"}
OneKeyOf == [f \in Files |-> "key"]

MCChannels == << [known |-> TRUE, matches |-> {"core2"}],
                 [known |-> FALSE, matches |-> TwoCores],
                 [known |-> TRUE, matches |-> TwoCores] >>

AllPods == Pods

\* Flags of a handler that is not enabled are not looked at.
AllConfigs == {c \in Config : ~c.handler => ~c.skipNotify /\ ~c.skipCoreSight}

\* S3, files removed, and the handler with its flags as in README.md:192-203.
HandlerConfigs ==
  {[protocol |-> "s3", disposal |-> "remove", handler |-> TRUE,
    skipNotify |-> TRUE, skipCoreSight |-> TRUE, coreSight |-> FALSE]}
=============================================================================
