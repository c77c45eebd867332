------------------------------ MODULE Identity ------------------------------
(***************************************************************************)
(* Whose core is it?  The webhook writes the pod into the path of the dump *)
(* directory when the pod is admitted (createPatch, mutate.go); the agent  *)
(* reads it back from the path of a core and asks the API server for the   *)
(* rest (Resolve, resolver.go), at a time when the pod may have been       *)
(* deleted, or replaced by another one of its name; agent.Run decides with *)
(* the answer what CoreSight is told (agent.go).                           *)
(*                                                                         *)
(* The API server, the controllers and the kubelet are the environment.    *)
(* Pods that an earlier release of the webhook has injected are among      *)
(* them: the resolver still has code for their paths.                      *)
(***************************************************************************)
EXTENDS Naturals, Sequences, SequencesExt

CONSTANTS
  Namespaces, Names, Nodes, Images, Containers,
  Specs,         \* containers and init containers of the pods, with images
  Sources,       \* how pods come: "named", "generated", "legacy", "copied"
  AdmissionUid,  \* UID of the admission request of each pod
  GeneratedName, \* "pod-" and the first 8 characters of that UID
  LooksMadeUp,   \* names of 12 characters that begin with "pod-"
  Roots,         \* kinds of CorefileDir to consider
  MaxPods,       \* bound on the pods that are ever admitted
  MaxDumps       \* bound on the cores

Uids == 1..MaxPods

ContainerSpec == [name : Containers, image : Images]

\* "corefile": CorefileDir is /corefile, as in the chart; "dumps": a path with
\* /dumps/ in it; "nested": one that ends in /corefile; "other": none of them.
RootKinds == {"corefile", "dumps", "nested", "other"}

ASSUME IdentityAssumption ==
  /\ \A s \in Specs : /\ s.containers \in Seq(ContainerSpec)
                      /\ s.inits \in Seq(ContainerSpec)
                      /\ IsInjective([i \in 1..Len(s.containers \o s.inits) |->
                                        (s.containers \o s.inits)[i].name])
  /\ Sources \subseteq {"named", "generated", "legacy", "copied"}
  /\ Roots \subseteq RootKinds
  /\ \A u \in Uids : /\ AdmissionUid[u] \notin Names
                     /\ GeneratedName[u] \in LooksMadeUp
  /\ \A u, v \in Uids : AdmissionUid[u] = AdmissionUid[v] => u = v
  /\ MaxPods \in Nat \ {0}
  /\ MaxDumps \in Nat

VARIABLES
  root,     \* what kind of directory CorefileDir is
  lookup,   \* KUBE_LOOKUP
  next,     \* number of the next pod
  api,      \* pods the API server has
  cores,    \* cores the agent has not resolved yet, with whose they are
  dumps,    \* dumps left
  resolved, \* history: cores and what the resolver made of them
  reported  \* history: those that CoreSight was told of

vars == <<root, lookup, next, api, cores, dumps, resolved, reported>>

Init ==
  /\ root \in Roots
  /\ lookup \in BOOLEAN
  /\ next = 1
  /\ api = {}
  /\ cores = {}
  /\ dumps = MaxDumps
  /\ resolved = {}
  /\ reported = {}

-----------------------------------------------------------------------------
(* Pods                                                                    *)

\* Mutant of PodDirectory: pod.Name is used as it is, empty or not.
DirectoryOfName(source, name, uid) ==
  IF source = "named" THEN name ELSE
  IF source = "legacy" THEN AdmissionUid[uid] ELSE ""

\* The directory, below the one of the namespace, that is mounted into a pod
\* is named when the pod is admitted.  A pod of a Deployment has no name then.
PodDirectory(source, name, uid) ==
  CASE source = "named"     -> name
    [] source = "generated" -> GeneratedName[uid]
    [] source = "legacy"    -> AdmissionUid[uid]

FreeName(ns, name) == \A p \in api : p.ns = ns => p.name # name

ContainerNames(spec) ==
  {c.name : c \in ToSet(spec.containers \o spec.inits)}

\* A pod is admitted and stored under a name that is free.
Admit(ns, name, source, spec) ==
  /\ next <= MaxPods
  /\ source # "copied"
  /\ FreeName(ns, name)
  /\ api' = api \cup
       {[uid |-> next, ns |-> ns, name |-> name, source |-> source,
         directory |-> PodDirectory(source, name, next), owner |-> name,
         spec |-> spec, node |-> ""]}
  /\ next' = next + 1
  /\ UNCHANGED <<root, lookup, cores, dumps, resolved, reported>>

\* The manifest of a pod, with its volumes, is admitted again for another one:
\* the volumes are found by their names and keep the paths they have.
Copy(pod, name, spec) ==
  /\ next <= MaxPods
  /\ "copied" \in Sources
  /\ pod.source # "legacy"
  /\ FreeName(pod.ns, name)
  /\ ContainerNames(spec) = ContainerNames(pod.spec)
  /\ api' = api \cup
       {[pod EXCEPT !.uid = next, !.name = name, !.source = "copied",
                    !.spec = spec, !.node = ""]}
  /\ next' = next + 1
  /\ UNCHANGED <<root, lookup, cores, dumps, resolved, reported>>

\* The pod gets a node, and with it its status.hostIP.
Schedule(pod, node) ==
  /\ pod.node = ""
  /\ api' = (api \ {pod}) \cup {[pod EXCEPT !.node = node]}
  /\ UNCHANGED <<root, lookup, next, cores, dumps, resolved, reported>>

Delete(pod) ==
  /\ api' = api \ {pod}
  /\ UNCHANGED <<root, lookup, next, cores, dumps, resolved, reported>>

\* A container crashes.  The directory of the container is the one of the
\* pod in the layout of the earlier release.
Dump(pod, container) ==
  /\ dumps > 0
  /\ pod.node # ""
  /\ cores' = cores \cup
       {[path |-> IF pod.source = "legacy"
                    THEN <<pod.ns, pod.directory, "core">>
                    ELSE <<pod.ns, pod.directory, container, "core">>,
         pod |-> pod, container |-> container, number |-> dumps]}
  /\ dumps' = dumps - 1
  /\ UNCHANGED <<root, lookup, next, api, resolved, reported>>

-----------------------------------------------------------------------------
(* The resolver                                                            *)

Unknown == [name |-> "", ns |-> "", uid |-> 0, node |-> "", image |-> "",
            container |-> "", legacy |-> FALSE]

\* resolveFromNewPathStructure: the first three components of the path below
\* a directory it knows, the third of which may be the file.
IsNewPath(path) == root \in {"corefile", "dumps"} /\ Len(path) >= 3

FromNewPath(path) == [Unknown EXCEPT !.ns = path[1], !.name = path[2],
                                     !.container = path[3]]

\* Mutant of ImageOf: the container is not looked for.
FirstImage(pod, container) ==
  IF pod.spec.containers = <<>> THEN "" ELSE pod.spec.containers[1].image

\* The image of the container, an init container or else the first container;
\* the names of a pod's containers are all different.
ImageOf(pod, container) ==
  LET own == {c \in ToSet(pod.spec.containers \o pod.spec.inits) :
                c.name = container}
  IN IF own # {} THEN (CHOOSE c \in own : TRUE).image
     ELSE IF pod.spec.containers = <<>> THEN ""
     ELSE pod.spec.containers[1].image

\* enrichPodInfoFromKubernetes, when its Get finds pod.
Enriched(info, pod) ==
  [info EXCEPT !.uid = pod.uid, !.node = pod.node,
               !.image = ImageOf(pod, info.container)]

\* Pods lookupPodByAdmissionUID may find, by their annotation, and the image
\* it takes: heuristics on the executable's name choose that of a container.
FoundByAdmissionUid(ns, uid) ==
  {found \in api \X ContainerSpec :
     /\ found[1].ns = ns
     /\ found[1].source = "legacy"
     /\ found[1].directory = uid
     /\ found[2] \in ToSet(found[1].spec.containers)}

\* The pattern of resolveFromLegacyPath: a UID below a directory corefile.
IsLegacyPath(path) ==
  root \in {"corefile", "nested"} /\ \E u \in Uids : path[2] = AdmissionUid[u]

\* resolveFromLegacyPath: the pod that is looked up, or a name made up.
FromLegacyPath(path) ==
  LET u == CHOOSE v \in Uids : path[2] = AdmissionUid[v]
      info == [Unknown EXCEPT !.ns = path[1], !.legacy = TRUE]
  IN {[info EXCEPT !.name = GeneratedName[u]]} \cup
     {[info EXCEPT !.name = f[1].name, !.uid = f[1].uid, !.node = f[1].node,
                   !.image = f[2].image] :
        f \in IF lookup THEN FoundByAdmissionUid(path[1], path[2]) ELSE {}}

\* What Resolve may return.  A request to the API server may always fail.
Results(path) ==
  IF IsNewPath(path)
  THEN LET info == FromNewPath(path)
       IN {info} \cup {Enriched(info, p) : p \in
             {q \in api : lookup /\ q.ns = info.ns /\ q.name = info.name}}
  ELSE IF IsLegacyPath(path) THEN FromLegacyPath(path)
  ELSE {[Unknown EXCEPT !.legacy = TRUE]}

\* Mutant of Valid: made-up names are not told from others.
ValidUnlessEmpty(info) ==
  /\ ~info.legacy
  /\ info.name # "" /\ info.ns # "" /\ info.image # "" /\ info.node # ""

\* What agent.Run demands of the pod before it reports a core.
Valid(info) ==
  /\ ~info.legacy
  /\ info.name # "" /\ info.name \notin LooksMadeUp
  /\ info.ns # "" /\ info.image # "" /\ info.node # ""

Resolve(core) ==
  /\ \E info \in Results(core.path) :
       LET result == [core |-> core, info |-> info]
       IN /\ resolved' = resolved \cup {result}
          /\ reported' = reported \cup {r \in {result} : Valid(r.info)}
  /\ cores' = cores \ {core}
  /\ UNCHANGED <<root, lookup, next, api, dumps>>

Next ==
  \/ \E ns \in Namespaces, name \in Names, source \in Sources, spec \in Specs :
       Admit(ns, name, source, spec)
  \/ \E pod \in api :
       \/ Delete(pod)
       \/ \E node \in Nodes : Schedule(pod, node)
       \/ \E name \in Names, spec \in Specs : Copy(pod, name, spec)
       \/ \E c \in ToSet(pod.spec.containers \o pod.spec.inits) :
            Dump(pod, c.name)
  \/ \E core \in cores : Resolve(core)

Spec == Init /\ [][Next]_vars

-----------------------------------------------------------------------------
Directories == Names \cup {AdmissionUid[u] : u \in Uids}
                     \cup {GeneratedName[u] : u \in Uids}

PodTypeOK(pod) ==
  /\ pod.uid \in 1..(next - 1)
  /\ pod.ns \in Namespaces /\ pod.name \in Names /\ pod.source \in Sources
  /\ pod.spec \in Specs
  /\ pod.owner \in Names
  /\ pod.directory \in Directories
  /\ pod.node \in Nodes \cup {""}

\* Types; a pod the API server has is the only one of its name, and a core
\* lies in the directory of the container it is of.
TypeOK ==
  /\ root \in Roots /\ lookup \in BOOLEAN
  /\ next \in 1..(MaxPods + 1) /\ dumps \in 0..MaxDumps
  /\ \A p \in api : PodTypeOK(p)
  /\ \A p, q \in api : p.ns = q.ns /\ p.name = q.name => p = q
  /\ \A c \in cores \cup {r.core : r \in resolved} :
       /\ PodTypeOK(c.pod) /\ c.pod.node \in Nodes
       /\ c.container \in Containers
       /\ Len(c.path) = IF c.pod.source = "legacy" THEN 3 ELSE 4
  /\ reported \subseteq resolved

\* CoreSight is never told of a pod or container other than the one that
\* crashed, whichever pods came and went since then: not of one whose name is
\* the made-up name of another's directory, nor, for cores in the directories
\* of an earlier release, of a file for a container (agent.go:203-237).  Only
\* a pod that was made from another's manifest keeps that one's directories,
\* and is taken for it, but for no third pod (mutate.go:286-296).
ReportsRightPod ==
  \A r \in reported :
    /\ r.info.ns = r.core.pod.ns
    /\ r.info.name = r.core.pod.owner
    /\ r.core.pod.source # "copied" => r.info.name = r.core.pod.name
    /\ r.info.container = r.core.container

\* When the pod that was found is the one that crashed, so are the details
\* taken from it: the image is that of the container of the dump directory,
\* an init container's too, and the node is the one it crashed on.  When it is
\* a later pod of the name, the UID tells (resolver.go:187-219).
DetailsBelong ==
  \A r \in resolved :
    r.info.uid = r.core.pod.uid /\ ~r.info.legacy =>
      /\ r.info.node = r.core.pod.node
      /\ \E c \in ToSet(r.core.pod.spec.containers \o r.core.pod.spec.inits) :
           c.name = r.core.container /\ c.image = r.info.image

-----------------------------------------------------------------------------
(* What the documentation says and the code does not do.                   *)

\* "Parsed: namespace and pod name (100% accurate)" (SUMMARY.md:32).
NamesThePod ==
  \A r \in resolved :
    r.info.ns = r.core.pod.ns /\ r.info.name = r.core.pod.name
=============================================================================
