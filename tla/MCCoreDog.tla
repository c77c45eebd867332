----------------------------- MODULE MCCoreDog ------------------------------
(***************************************************************************)
(* A small instance of CoreDog: two cores in one directory below           *)
(* CorefileDir, each with a key of its own, and one channel.               *)
(***************************************************************************)
EXTENDS CoreDog

TwoCores == {"core1", "core2"}
MCDirs == {"root", "ctr"}
MCParent == [p \in MCDirs \cup Files |->
               IF p = "root" THEN "none" ELSE
               IF p = "ctr" THEN "root" ELSE "ctr"]
MCKeys == {"key1", "key2"}
MCKeyOf == [f \in Files |-> IF f = "core1" THEN "key1" ELSE "key2"]
MCChannels == << [known |-> TRUE, matches |-> Files] >>

BothDisposals == {"remove", "truncate"}
RemovedCores == {"purge"}

\* The mounted store, files truncated, and the channel; and S3, files
\* removed, a handler that replaces the channels, and CoreSight.  All other
\* combinations are considered in Agent.
TwoConfigs ==
  {[protocol |-> "cfs", disposal |-> "truncate", handler |-> FALSE,
    skipNotify |-> FALSE, skipCoreSight |-> FALSE, coreSight |-> FALSE],
   [protocol |-> "s3", disposal |-> "remove", handler |-> TRUE,
    skipNotify |-> TRUE, skipCoreSight |-> FALSE, coreSight |-> TRUE]}

\* A pod whose node, image and names are known.
KnownPods == {[name |-> "real", legacy |-> FALSE, full |-> TRUE]}
=============================================================================
