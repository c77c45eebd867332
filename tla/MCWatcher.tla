------------------------------ MODULE MCWatcher ------------------------------
(***************************************************************************)
(* Small instances of Watcher: CorefileDir "root" with the directories     *)
(* <namespace>/<pod>/<container> that the kubelet creates below it, and    *)
(* one or two core files in the container's directory.                     *)
(***************************************************************************)
EXTENDS Watcher

MCDirs == {"root", "ns", "pod", "ctr"}
OneCore == {"core1"}
TwoCores == {"core1", "core2"}

ParentIn(p) == CASE p = "root" -> "none"
                 [] p = "ns" -> "root"
                 [] p = "pod" -> "ns"
                 [] p = "ctr" -> "pod"
                 [] OTHER -> "ctr"

MCParent == [p \in MCDirs \cup Files |-> ParentIn(p)]

\* A tree whose only directory below CorefileDir holds the cores.
FlatDirs == {"root", "ctr"}
FlatParent == [p \in FlatDirs \cup Files |->
                 IF p = "root" THEN "none" ELSE
                 IF p = "ctr" THEN "root" ELSE "ctr"]

BothDisposals == {"remove", "truncate"}
AllDisturbances == {"rmdir", "mvdir", "purge", "mvcore", "reuse"}
RemovalOnly == {"rmdir", "purge"}
=============================================================================
