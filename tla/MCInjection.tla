---------------------------- MODULE MCInjection -----------------------------
(***************************************************************************)
(* A small instance of Injection: pods of one or two containers and at     *)
(* most one init container, with and without volumes and mounts of their   *)
(* own, with all target lists, of which "gone" is in no pod.               *)
(***************************************************************************)
EXTENDS Injection

MCNames == {"app", "side", "init", "gone"}
MCVolumes == {"data", "token", "coreapp", "coreside", "coreinit", "coregone"}
MCVolumeName == [n \in Names |-> CASE n = "app" -> "coreapp"
                                   [] n = "side" -> "coreside"
                                   [] n = "init" -> "coreinit"
                                   [] OTHER -> "coregone"]

Named(n, lists) == {[name |-> n, mounts |-> s] : s \in lists}
OwnLists == {<<>>, <<"data">>, <<"token", "data">>}

MCSubmitted ==
  [inject : {TRUE}, path : {"good"},
   targets : {None, {}, {"app"}, {"app", "side"}, {"init", "gone"}},
   volumes : OwnLists,
   containers : {<<c>> : c \in Named("app", OwnLists)}
     \cup {<<c, d>> : c \in Named("side", {<<>>, <<"data">>}),
                      d \in Named("app", {<<>>, <<"token">>})},
   initContainers : {<<>>} \cup {<<c>> : c \in Named("init", {<<>>, <<"data">>})}]
  \cup
  [inject : BOOLEAN, path : {"missing", "dangerous"}, targets : {None},
   volumes : {<<>>}, containers : {<<c>> : c \in Named("app", {<<>>})},
   initContainers : {<<>>}]
=============================================================================
