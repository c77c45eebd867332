----------------------------- MODULE MCIdentity -----------------------------
(***************************************************************************)
(* Small instances of Identity: one namespace, a name of a StatefulSet's   *)
(* pod and one that looks made up, two nodes, and two versions of a pod    *)
(* with two containers and an init container.                              *)
(***************************************************************************)
EXTENDS Identity

MCNames == {"db-0", "pod-uid1"}
MCAdmissionUid == [u \in Uids |-> CASE u = 1 -> "uid1" [] u = 2 -> "uid2"
                                    [] OTHER -> "uid3"]
MCGeneratedName == [u \in Uids |-> CASE u = 1 -> "pod-uid1" [] u = 2 -> "pod-uid2"
                                     [] OTHER -> "pod-uid3"]
MCLooksMadeUp == {"pod-uid1", "pod-uid2", "pod-uid3"}
MCContainers == {"app", "side", "init"}
MCImages == {"app:1", "app:2", "side:1", "init:1"}

Version(image) ==
  [containers |-> <<[image |-> image, name |-> "app"],
                    [image |-> "side:1", name |-> "side"]>>,
   inits |-> <<[image |-> "init:1", name |-> "init"]>>]
MCSpecs == {Version("app:1"), Version("app:2")}
OneSpec == {Version("app:1")}

AllSources == {"named", "generated", "legacy", "copied"}
Generated == {"generated"}

OneNamespace == {"default"}
MCNodes == {"node1", "node2"}
ChartRoot == {"corefile"}
=============================================================================
