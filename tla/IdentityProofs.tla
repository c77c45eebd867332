--------------------------- MODULE IdentityProofs ---------------------------
(***************************************************************************)
(* Type correctness of Identity, and that CoreSight is told of the pod     *)
(* whose core it is, for any number of pods, names and cores.              *)
(***************************************************************************)
EXTENDS Identity, TLAPS

\* A pod as the webhook leaves it: its directory is that of its owner, or has
\* a made-up name, or, in the layout of the earlier release, is a UID.
Pods ==
  [uid : Uids, ns : Namespaces, name : Names, source : Sources,
   directory : Directories, owner : Names, spec : Specs,
   node : Nodes \cup {""}]

OwnDirectory(pod) ==
  /\ pod.source = "legacy" =>
       \E u \in Uids : pod.directory = AdmissionUid[u]
  /\ pod.source # "legacy" =>
       pod.directory = pod.owner \/ pod.directory \in LooksMadeUp
  /\ pod.source # "copied" => pod.owner = pod.name

\* A core lies where its pod and container say.
Path(pod, container) ==
  IF pod.source = "legacy"
  THEN <<pod.ns, pod.directory, "core">>
  ELSE <<pod.ns, pod.directory, container, "core">>

CoreOK(core) ==
  /\ core.pod \in Pods
  /\ core.pod.uid < next
  /\ core.pod.node \in Nodes
  /\ core.container \in Containers
  /\ OwnDirectory(core.pod)
  /\ core.path = Path(core.pod, core.container)

\* The inductive invariant: the types, with what ReportsRightPod rests on.
IInv ==
  /\ root \in Roots /\ lookup \in BOOLEAN
  /\ next \in 1..(MaxPods + 1) /\ dumps \in 0..MaxDumps
  /\ \A p \in api : p \in Pods /\ p.uid < next /\ OwnDirectory(p)
  /\ \A p, q \in api : p.ns = q.ns /\ p.name = q.name => p = q
  /\ \A c \in cores : CoreOK(c)
  /\ \A r \in resolved : CoreOK(r.core)
  /\ reported \subseteq resolved
  /\ ReportsRightPod

-----------------------------------------------------------------------------
(* What the assumptions on the constants are needed for                    *)

LEMMA Bounds == MaxPods \in Nat \ {0} /\ MaxDumps \in Nat
  BY IdentityAssumption

LEMMA Layouts == Sources \subseteq {"named", "generated", "legacy", "copied"}
  BY IdentityAssumption

LEMMA DirectoryNames ==
  \A u \in Uids : AdmissionUid[u] \notin Names /\ GeneratedName[u] \in LooksMadeUp
  BY IdentityAssumption

\* The containers a pod may dump are containers.
LEMMA DumpedIsContainer ==
  ASSUME NEW spec \in Specs,
         NEW c \in ToSet(spec.containers \o spec.inits)
  PROVE  c.name \in Containers
<1>1. spec.containers \in Seq(ContainerSpec) /\ spec.inits \in Seq(ContainerSpec)
  BY Zenon, IdentityAssumption
<1>2. spec.containers \o spec.inits \in Seq(ContainerSpec)
  BY <1>1
<1> DEFINE both == spec.containers \o spec.inits
<1>3. c \in ToSet(both) /\ both \in Seq(ContainerSpec)
  BY <1>2
<1> HIDE DEF both
<1>4. c \in ContainerSpec
  BY <1>3 DEF ToSet
<1> QED BY <1>4 DEF ContainerSpec

-----------------------------------------------------------------------------
(* What the resolver makes of a core                                       *)

\* The name in the path of a core is that of a pod only if it is the owner's,
\* or made up, and what Valid lets pass is taken from a pod.
LEMMA ValidIsRight ==
  ASSUME NEW core, CoreOK(core),
         \A p \in api : p \in Pods,
         NEW info \in Results(core.path), Valid(info)
  PROVE  /\ info.ns = core.pod.ns
         /\ info.name = core.pod.owner
         /\ core.pod.source # "copied" => info.name = core.pod.name
         /\ info.container = core.container
<1> DEFINE path == core.path
<1>1. path = Path(core.pod, core.container) /\ core.pod \in Pods
      /\ OwnDirectory(core.pod)
  BY DEF CoreOK
<1>2. path[1] = core.pod.ns /\ path[2] = core.pod.directory
      /\ (core.pod.source # "legacy" => path[3] = core.container)
  BY <1>1 DEF Path
<1>3. CASE IsNewPath(path)
  <2> DEFINE new == FromNewPath(path)
  <2>1. /\ new.ns = path[1] /\ new.name = path[2]
        /\ new.container = path[3] /\ new.image = ""
    BY DEF FromNewPath, Unknown
  <2>2. info # new
    BY <2>1 DEF Valid
  <2>3. PICK p \in api : /\ p.ns = new.ns /\ p.name = new.name
                         /\ info = Enriched(new, p)
    BY <1>3, <2>2 DEF Results
  <2>4. info.ns = path[1] /\ info.name = path[2] /\ info.container = path[3]
    <3> DEFINE image == ImageOf(p, new.container)
    <3>1. info = [new EXCEPT !.uid = p.uid, !.node = p.node, !.image = image]
      BY <2>3 DEF Enriched
    <3> HIDE DEF image
    <3> QED BY <3>1 DEF FromNewPath, Unknown
  <2>5. path[2] \in Names /\ path[2] \notin LooksMadeUp
    BY <2>1, <2>3, <2>4 DEF Valid, Pods
  <2>6. core.pod.source # "legacy"
    BY <1>1, <1>2, <2>5, DirectoryNames DEF OwnDirectory
  <2>7. core.pod.directory = core.pod.owner
    BY <1>1, <1>2, <2>5, <2>6 DEF OwnDirectory
  <2> QED BY <1>1, <1>2, <2>4, <2>6, <2>7 DEF OwnDirectory
<1>4. CASE ~IsNewPath(path)
  <2>1. info.legacy = TRUE
    <3>1. CASE IsLegacyPath(path)
      <4> DEFINE u == CHOOSE v \in Uids : path[2] = AdmissionUid[v]
                 old == [Unknown EXCEPT !.ns = path[1], !.legacy = TRUE]
      <4>1. info \in FromLegacyPath(path)
        BY <1>4, <3>1 DEF Results
      <4>2. \/ info = [old EXCEPT !.name = GeneratedName[u]]
            \/ \E f \in FoundByAdmissionUid(path[1], path[2]) :
                 info = [old EXCEPT !.name = f[1].name, !.uid = f[1].uid,
                                    !.node = f[1].node, !.image = f[2].image]
        BY <4>1 DEF FromLegacyPath
      <4> HIDE DEF u
      <4> QED BY <4>2 DEF Unknown
    <3>2. CASE ~IsLegacyPath(path)
      BY <1>4, <3>2 DEF Results, Unknown
    <3> QED BY <3>1, <3>2
  <2> QED BY <2>1 DEF Valid
<1> QED BY <1>3, <1>4

-----------------------------------------------------------------------------
(* The invariant is inductive                                              *)

\* A pod or core that is known stays so when the next pod has come.
LEMMA LaterUids ==
  ASSUME next' = next + 1, next \in 1..(MaxPods + 1),
         NEW p \in Pods, p.uid < next
  PROVE  p.uid < next'
<1>1. p.uid \in Uids
  BY DEF Pods
<1> DEFINE uid == p.uid
<1>2. uid \in Uids /\ uid < next
  BY <1>1
<1> HIDE DEF uid
<1>3. uid < next'
  BY <1>2, Bounds DEF Uids
<1> QED BY <1>3 DEF uid

LEMMA LaterCores ==
  ASSUME next' = next + 1, next \in 1..(MaxPods + 1),
         NEW core, CoreOK(core)
  PROVE  CoreOK(core)'
<1>1. core.pod.uid < next'
  BY LaterUids DEF CoreOK
<1> QED BY <1>1 DEF CoreOK, OwnDirectory

LEMMA InitInvariant == Init => IInv
<1> QED BY Bounds DEF Init, IInv, ReportsRightPod

LEMMA StepInvariant == IInv /\ [Next]_vars => IInv'
<1> SUFFICES ASSUME IInv, [Next]_vars PROVE IInv'
  OBVIOUS
<1>a. next \in 1..(MaxPods + 1) /\ dumps \in 0..MaxDumps
  BY DEF IInv
<1>b. /\ \A p \in api : p \in Pods /\ p.uid < next /\ OwnDirectory(p)
      /\ \A p, q \in api : p.ns = q.ns /\ p.name = q.name => p = q
  BY DEF IInv
<1>1. ASSUME NEW ns \in Namespaces, NEW name \in Names, NEW source \in Sources,
             NEW spec \in Specs, Admit(ns, name, source, spec)
      PROVE  IInv'
  <2> DEFINE pod ==
        [uid |-> next, ns |-> ns, name |-> name, source |-> source,
         directory |-> PodDirectory(source, name, next), owner |-> name,
         spec |-> spec, node |-> ""]
  <2>0. next <= MaxPods /\ next' = next + 1
    BY <1>1 DEF Admit
  <2>1. next \in Uids /\ next' \in 1..(MaxPods + 1)
    BY <1>a, <2>0, Bounds DEF Uids
  <2>a. /\ api' = api \cup {pod}
        /\ UNCHANGED <<root, lookup, cores, dumps, resolved, reported>>
    BY <1>1 DEF Admit
  <2>2. \/ source = "named" /\ PodDirectory(source, name, next) = name
        \/ /\ source = "generated"
           /\ PodDirectory(source, name, next) = GeneratedName[next]
        \/ /\ source = "legacy"
           /\ PodDirectory(source, name, next) = AdmissionUid[next]
    BY <1>1, Layouts DEF Admit, PodDirectory
  <2>3. pod \in Pods
    BY <1>1, <2>1, <2>2 DEF Pods, Directories
  <2>4. OwnDirectory(pod)
    BY <1>1, <2>1, <2>2, DirectoryNames DEF OwnDirectory, Admit
  <2>5. \A p \in api : p.ns = pod.ns => p.name # pod.name
    BY <1>1 DEF Admit, FreeName
  <2>6. \A p \in api' : p \in Pods /\ p.uid < next' /\ OwnDirectory(p)
    <3>1. pod.uid < next'
      BY <2>0, <2>1 DEF Uids
    <3> HIDE DEF pod
    <3> QED BY <1>a, <1>b, <2>0, <2>a, <2>3, <2>4, <3>1, LaterUids
  <2>7. \A p, q \in api' : p.ns = q.ns /\ p.name = q.name => p = q
    <3> HIDE DEF pod
    <3> QED BY <1>b, <2>a, <2>5
  <2>8. /\ \A c \in cores : CoreOK(c)'
        /\ \A r \in resolved : CoreOK(r.core)'
    BY <1>a, <2>0, LaterCores DEF IInv
  <2> QED BY <2>1, <2>a, <2>6, <2>7, <2>8 DEF IInv, ReportsRightPod
<1>2. ASSUME NEW pod \in api, NEW name \in Names, NEW spec \in Specs,
             Copy(pod, name, spec)
      PROVE  IInv'
  <2> DEFINE copy == [pod EXCEPT !.uid = next, !.name = name,
                                 !.source = "copied", !.spec = spec, !.node = ""]
  <2>0. next <= MaxPods /\ next' = next + 1
    BY <1>2 DEF Copy
  <2>1. next \in Uids /\ next' \in 1..(MaxPods + 1)
    BY <1>a, <2>0, Bounds DEF Uids
  <2>a. /\ api' = api \cup {copy}
        /\ UNCHANGED <<root, lookup, cores, dumps, resolved, reported>>
    BY <1>2 DEF Copy
  <2>2. pod \in Pods /\ OwnDirectory(pod) /\ pod.source # "legacy"
    BY <1>b, <1>2 DEF Copy
  <2>3. /\ copy \in Pods /\ copy.uid = next
        /\ copy.ns = pod.ns /\ copy.name = name /\ copy.source = "copied"
        /\ copy.directory = pod.directory /\ copy.owner = pod.owner
    BY <1>2, <2>1, <2>2 DEF Pods, Copy
  <2>4. OwnDirectory(copy)
    BY <2>2, <2>3 DEF OwnDirectory
  <2>5. \A p \in api : p.ns = copy.ns => p.name # copy.name
    BY <1>2, <2>3 DEF Copy, FreeName
  <2> HIDE DEF copy
  <2>6. \A p \in api' : p \in Pods /\ p.uid < next' /\ OwnDirectory(p)
    <3>1. copy.uid < next'
      BY <2>0, <2>1, <2>3 DEF Uids
    <3> QED BY <1>a, <1>b, <2>0, <2>a, <2>3, <2>4, <3>1, LaterUids
  <2>7. \A p, q \in api' : p.ns = q.ns /\ p.name = q.name => p = q
    BY <1>b, <2>a, <2>5
  <2>8. /\ \A c \in cores : CoreOK(c)'
        /\ \A r \in resolved : CoreOK(r.core)'
    BY <1>a, <2>0, LaterCores DEF IInv
  <2> QED BY <2>1, <2>a, <2>6, <2>7, <2>8 DEF IInv, ReportsRightPod
<1>3. ASSUME NEW pod \in api, NEW node \in Nodes, Schedule(pod, node)
      PROVE  IInv'
  <2> DEFINE placed == [pod EXCEPT !.node = node]
  <2>1. /\ api' = (api \ {pod}) \cup {placed}
        /\ UNCHANGED <<root, lookup, next, cores, dumps, resolved, reported>>
    BY <1>3 DEF Schedule
  <2>2. pod \in Pods /\ OwnDirectory(pod) /\ pod.uid < next
    BY <1>b
  <2>3. /\ placed \in Pods /\ placed.uid = pod.uid
        /\ placed.ns = pod.ns /\ placed.name = pod.name
        /\ placed.source = pod.source /\ placed.directory = pod.directory
        /\ placed.owner = pod.owner
    BY <2>2 DEF Pods
  <2>4. OwnDirectory(placed)
    BY <2>2, <2>3 DEF OwnDirectory
  <2> HIDE DEF placed
  <2>5. \A p \in api' : p \in Pods /\ p.uid < next' /\ OwnDirectory(p)
    BY <1>b, <2>1, <2>2, <2>3, <2>4
  <2>6. \A p, q \in api' : p.ns = q.ns /\ p.name = q.name => p = q
    BY <1>b, <2>1, <2>3
  <2> QED BY <2>1, <2>5, <2>6 DEF IInv, CoreOK, OwnDirectory, ReportsRightPod
<1>4. ASSUME NEW pod \in api, Delete(pod)
      PROVE  IInv'
  BY <1>4 DEF Delete, IInv, CoreOK, OwnDirectory, ReportsRightPod
<1>5. ASSUME NEW pod \in api,
             NEW c \in ToSet(pod.spec.containers \o pod.spec.inits),
             Dump(pod, c.name)
      PROVE  IInv'
  <2> DEFINE core == [path |-> Path(pod, c.name), pod |-> pod,
                      container |-> c.name, number |-> dumps]
  <2>0. dumps' = dumps - 1 /\ dumps > 0
    BY <1>5 DEF Dump
  <2>1. /\ pod.node # ""
        /\ cores' = cores \cup {core}
        /\ UNCHANGED <<root, lookup, next, api, resolved, reported>>
    BY <1>5 DEF Dump, Path
  <2>2. pod \in Pods /\ OwnDirectory(pod) /\ pod.uid < next
    BY <1>b
  <2>3. c.name \in Containers /\ pod.node \in Nodes
    BY <2>1, <2>2, DumpedIsContainer DEF Pods
  <2>4. CoreOK(core)
    BY <2>2, <2>3 DEF CoreOK
  <2>5. dumps' \in 0..MaxDumps
    BY <1>a, <2>0, Bounds
  <2> HIDE DEF core
  <2>6. \A d \in cores' : CoreOK(d)
    BY <2>1, <2>4 DEF IInv, CoreOK
  <2> QED BY <2>1, <2>5, <2>6 DEF IInv, CoreOK, OwnDirectory, ReportsRightPod
<1>6. ASSUME NEW core \in cores, Resolve(core)
      PROVE  IInv'
  <2>1. PICK info \in Results(core.path) :
          /\ resolved' = resolved \cup {[core |-> core, info |-> info]}
          /\ reported' = reported \cup
               {r \in {[core |-> core, info |-> info]} : Valid(r.info)}
    BY <1>6 DEF Resolve
  <2>2. /\ cores' = cores \ {core}
        /\ UNCHANGED <<root, lookup, next, api, dumps>>
    BY <1>6 DEF Resolve
  <2>3. CoreOK(core) /\ \A p \in api : p \in Pods
    BY <1>b DEF IInv
  <2>4. \A r \in resolved' : CoreOK(r.core)
    BY <2>1, <2>2, <2>3 DEF IInv, CoreOK
  <2>5. Valid(info) =>
          /\ info.ns = core.pod.ns
          /\ info.name = core.pod.owner
          /\ core.pod.source # "copied" => info.name = core.pod.name
          /\ info.container = core.container
    BY <2>3, ValidIsRight
  <2>6. ReportsRightPod'
    <3> DEFINE result == [core |-> core, info |-> info]
    <3>1. result.core = core /\ result.info = info
      OBVIOUS
    <3>2. reported' \subseteq reported \cup {r \in {result} : Valid(r.info)}
      BY <2>1
    <3> HIDE DEF result
    <3>3. ASSUME NEW r \in reported' PROVE r \in reported \/ (r = result /\ Valid(info))
      BY <3>1, <3>2
    <3>4. ASSUME NEW r \in reported'
          PROVE  /\ r.info.ns = r.core.pod.ns
                 /\ r.info.name = r.core.pod.owner
                 /\ r.core.pod.source # "copied" => r.info.name = r.core.pod.name
                 /\ r.info.container = r.core.container
      <4>1. CASE r \in reported
        BY <4>1 DEF IInv, ReportsRightPod
      <4>2. CASE r = result /\ Valid(info)
        <5>1. r.core = core /\ r.info = info /\ Valid(info)
          BY <3>1, <4>2
        <5> QED BY <2>5, <5>1
      <4> QED BY <3>3, <4>1, <4>2
    <3> QED BY <3>4 DEF ReportsRightPod
  <2> QED BY <2>1, <2>2, <2>4, <2>6 DEF IInv, CoreOK, OwnDirectory
<1>7. CASE UNCHANGED vars
  BY <1>7 DEF vars, IInv, CoreOK, OwnDirectory, ReportsRightPod
<1> QED BY <1>1, <1>2, <1>3, <1>4, <1>5, <1>6, <1>7 DEF Next

LEMMA Invariant == Spec => []IInv
<1> QED BY InitInvariant, StepInvariant, PTL DEF Spec

-----------------------------------------------------------------------------
(* The pod that dumped a core, as long as the API server has it            *)

\* A UID is that of one pod, which has not changed since it dumped a core of
\* one of its containers, on the node it ran on: the invariant that
\* DetailsBelong rests on, which is inductive with IInv.
Unchanged(core) ==
  /\ core.pod.node # ""
  /\ core.container \in ContainerNames(core.pod.spec)
  /\ \A p \in api : p.uid = core.pod.uid => p = core.pod

DInv ==
  /\ \A p, q \in api : p.uid = q.uid => p = q
  /\ \A c \in cores : Unchanged(c)
  /\ \A r \in resolved : Unchanged(r.core)
  /\ DetailsBelong

\* The image is that of the container, if the pod has it.
LEMMA ImageOfContainer ==
  ASSUME NEW pod, NEW container \in ContainerNames(pod.spec)
  PROVE  \E c \in ToSet(pod.spec.containers \o pod.spec.inits) :
           c.name = container /\ c.image = ImageOf(pod, container)
<1> DEFINE both == ToSet(pod.spec.containers \o pod.spec.inits)
           own == {c \in both : c.name = container}
           chosen == CHOOSE c \in own : TRUE
<1>1. own # {}
  BY DEF ContainerNames
<1>2. chosen \in own
  BY <1>1
<1>3. ImageOf(pod, container) = chosen.image
  BY <1>1 DEF ImageOf
<1> HIDE DEF chosen
<1> QED BY <1>2, <1>3

\* What the resolver takes from the pod that crashed is right.
LEMMA FoundIsRight ==
  ASSUME NEW core, CoreOK(core), Unchanged(core),
         \A p \in api : p \in Pods,
         NEW info \in Results(core.path),
         info.uid = core.pod.uid, ~info.legacy
  PROVE  /\ info.node = core.pod.node
         /\ \E c \in ToSet(core.pod.spec.containers \o core.pod.spec.inits) :
              c.name = core.container /\ c.image = info.image
<1> DEFINE path == core.path
           new == FromNewPath(path)
<1>1. path = Path(core.pod, core.container) /\ core.pod \in Pods
      /\ OwnDirectory(core.pod)
  BY DEF CoreOK
<1>2. path[1] = core.pod.ns /\ path[2] = core.pod.directory
      /\ (core.pod.source # "legacy" => path[3] = core.container)
  BY <1>1 DEF Path
<1>3. IsNewPath(path)
  <2> SUFFICES ASSUME ~IsNewPath(path) PROVE info.legacy = TRUE
    OBVIOUS
  <2>1. CASE IsLegacyPath(path)
    <3> DEFINE u == CHOOSE v \in Uids : path[2] = AdmissionUid[v]
               old == [Unknown EXCEPT !.ns = path[1], !.legacy = TRUE]
    <3>1. info \in FromLegacyPath(path)
      BY <2>1 DEF Results
    <3>2. \/ info = [old EXCEPT !.name = GeneratedName[u]]
          \/ \E f \in FoundByAdmissionUid(path[1], path[2]) :
               info = [old EXCEPT !.name = f[1].name, !.uid = f[1].uid,
                                  !.node = f[1].node, !.image = f[2].image]
      BY <3>1 DEF FromLegacyPath
    <3> HIDE DEF u
    <3> QED BY <3>2 DEF Unknown
  <2>2. CASE ~IsLegacyPath(path)
    BY <2>2 DEF Results, Unknown
  <2> QED BY <2>1, <2>2
<1>4. info # new
  <2>1. new.uid = 0
    BY DEF FromNewPath, Unknown
  <2>2. core.pod.uid \in Uids
    BY <1>1 DEF Pods
  <2>3. 0 \notin Uids
    BY DEF Uids
  <2> QED BY <2>1, <2>2, <2>3
<1>5. PICK p \in api : p.ns = new.ns /\ p.name = new.name /\ info = Enriched(new, p)
  BY <1>3, <1>4 DEF Results
<1> DEFINE image == ImageOf(p, new.container)
<1>6. /\ info.uid = p.uid /\ info.node = p.node /\ info.image = image
      /\ new.name = path[2] /\ new.container = path[3]
  <2>1. info = [new EXCEPT !.uid = p.uid, !.node = p.node, !.image = image]
    BY <1>5 DEF Enriched
  <2> HIDE DEF image
  <2> QED BY <2>1 DEF FromNewPath, Unknown
<1>7. p = core.pod
  BY <1>5, <1>6 DEF Unchanged
<1>8. path[2] \in Names
  BY <1>5, <1>6 DEF Pods
<1>9. core.pod.source # "legacy"
  BY <1>1, <1>2, <1>8, DirectoryNames DEF OwnDirectory
<1>10. info.image = ImageOf(core.pod, core.container)
  BY <1>2, <1>6, <1>7, <1>9
<1>11. core.container \in ContainerNames(core.pod.spec)
  BY DEF Unchanged
<1> QED BY <1>6, <1>7, <1>10, <1>11, ImageOfContainer

LEMMA InitDetails == Init => DInv
<1> QED BY DEF Init, DInv, DetailsBelong

\* The next pod has a UID that no pod and no core has.
LEMMA NewUid ==
  ASSUME IInv, DInv, NEW pod, pod.uid = next, api' = api \cup {pod},
         UNCHANGED <<cores, resolved>>
  PROVE  DInv'
<1>1. \A u \in Uids : u < next => u # next
  BY Bounds DEF IInv, Uids
<1>2. \A p \in api : p.uid \in Uids /\ p.uid < next
  BY DEF IInv, Pods
<1>3. /\ \A c \in cores : c.pod.uid \in Uids /\ c.pod.uid < next
      /\ \A r \in resolved : r.core.pod.uid \in Uids /\ r.core.pod.uid < next
  BY DEF IInv, CoreOK, Pods
<1>4. \A p, q \in api' : p.uid = q.uid => p = q
  BY <1>1, <1>2 DEF DInv
<1>5. ASSUME NEW core, Unchanged(core),
             core.pod.uid \in Uids, core.pod.uid < next
      PROVE  Unchanged(core)'
  BY <1>1, <1>5 DEF Unchanged
<1>6. \A c \in cores' : Unchanged(c)'
  BY <1>3, <1>5 DEF DInv
<1>7. \A r \in resolved' : Unchanged(r.core)'
  BY <1>3, <1>5 DEF DInv
<1> QED BY <1>4, <1>6, <1>7 DEF DInv, DetailsBelong

LEMMA StepDetails == IInv /\ DInv /\ [Next]_vars => DInv'
<1> SUFFICES ASSUME IInv, DInv, [Next]_vars PROVE DInv'
  OBVIOUS
<1>a. \A p \in api : p \in Pods
  BY DEF IInv
<1>1. ASSUME NEW ns \in Namespaces, NEW name \in Names, NEW source \in Sources,
             NEW spec \in Specs, Admit(ns, name, source, spec)
      PROVE  DInv'
  <2> DEFINE pod ==
        [uid |-> next, ns |-> ns, name |-> name, source |-> source,
         directory |-> PodDirectory(source, name, next), owner |-> name,
         spec |-> spec, node |-> ""]
  <2>1. api' = api \cup {pod} /\ UNCHANGED <<cores, resolved>>
    BY <1>1 DEF Admit
  <2>2. pod.uid = next
    OBVIOUS
  <2> HIDE DEF pod
  <2> QED BY <2>1, <2>2, NewUid
<1>2. ASSUME NEW pod \in api, NEW name \in Names, NEW spec \in Specs,
             Copy(pod, name, spec)
      PROVE  DInv'
  <2> DEFINE copy == [pod EXCEPT !.uid = next, !.name = name,
                                 !.source = "copied", !.spec = spec, !.node = ""]
  <2>1. api' = api \cup {copy} /\ UNCHANGED <<cores, resolved>>
    BY <1>2 DEF Copy
  <2>2. copy.uid = next
    BY <1>a DEF Pods
  <2> HIDE DEF copy
  <2> QED BY <2>1, <2>2, NewUid
<1>3. ASSUME NEW pod \in api, NEW node \in Nodes, Schedule(pod, node)
      PROVE  DInv'
  <2> DEFINE placed == [pod EXCEPT !.node = node]
  <2>1. /\ pod.node = ""
        /\ api' = (api \ {pod}) \cup {placed} /\ UNCHANGED <<cores, resolved>>
    BY <1>3 DEF Schedule
  <2>2. placed.uid = pod.uid
    BY <1>a DEF Pods
  <2> HIDE DEF placed
  <2>3. \A p, q \in api' : p.uid = q.uid => p = q
    BY <2>1, <2>2 DEF DInv
  <2>4. ASSUME NEW core, Unchanged(core)
        PROVE  Unchanged(core)'
    <3>1. pod.uid # core.pod.uid
      BY <2>1, <2>4 DEF Unchanged
    <3> QED BY <2>1, <2>2, <2>4, <3>1 DEF Unchanged
  <2> QED BY <2>1, <2>3, <2>4 DEF DInv, DetailsBelong
<1>4. ASSUME NEW pod \in api, Delete(pod)
      PROVE  DInv'
  <2>1. api' = api \ {pod} /\ UNCHANGED <<cores, resolved>>
    BY <1>4 DEF Delete
  <2> QED BY <2>1 DEF DInv, DetailsBelong, Unchanged
<1>5. ASSUME NEW pod \in api,
             NEW c \in ToSet(pod.spec.containers \o pod.spec.inits),
             Dump(pod, c.name)
      PROVE  DInv'
  <2> DEFINE core == [path |-> Path(pod, c.name), pod |-> pod,
                      container |-> c.name, number |-> dumps]
  <2>1. /\ pod.node # ""
        /\ cores' = cores \cup {core} /\ UNCHANGED <<api, resolved>>
    BY <1>5 DEF Dump, Path
  <2>2. core.pod = pod /\ core.container = c.name
    OBVIOUS
  <2> HIDE DEF core
  <2>3. Unchanged(core)
    <3>1. c.name \in ContainerNames(pod.spec)
      BY DEF ContainerNames
    <3>2. \A p \in api : p.uid = pod.uid => p = pod
      BY DEF DInv
    <3> QED BY <2>1, <2>2, <3>1, <3>2 DEF Unchanged
  <2> QED BY <2>1, <2>3 DEF DInv, DetailsBelong, Unchanged
<1>6. ASSUME NEW core \in cores, Resolve(core)
      PROVE  DInv'
  <2>1. PICK info \in Results(core.path) :
          resolved' = resolved \cup {[core |-> core, info |-> info]}
    BY <1>6 DEF Resolve
  <2>2. cores' = cores \ {core} /\ UNCHANGED api
    BY <1>6 DEF Resolve
  <2>3. CoreOK(core) /\ Unchanged(core)
    BY DEF IInv, DInv
  <2> DEFINE result == [core |-> core, info |-> info]
  <2>4. result.core = core /\ result.info = info
        /\ resolved' = resolved \cup {result}
    BY <2>1
  <2> HIDE DEF result
  <2>5. \A r \in resolved' : Unchanged(r.core)'
    BY <2>2, <2>3, <2>4 DEF DInv, Unchanged
  <2>6. DetailsBelong'
    <3> SUFFICES ASSUME NEW r \in resolved', r.info.uid = r.core.pod.uid,
                        ~r.info.legacy
                 PROVE  /\ r.info.node = r.core.pod.node
                        /\ \E c \in ToSet(r.core.pod.spec.containers
                                            \o r.core.pod.spec.inits) :
                             c.name = r.core.container /\ c.image = r.info.image
      BY DEF DetailsBelong
    <3>1. CASE r \in resolved
      BY <3>1 DEF DInv, DetailsBelong
    <3>2. CASE r = result
      BY <1>a, <2>3, <2>4, <3>2, FoundIsRight
    <3> QED BY <2>4, <3>1, <3>2
  <2> QED BY <2>2, <2>5, <2>6 DEF DInv, Unchanged
<1>7. CASE UNCHANGED vars
  BY <1>7 DEF vars, DInv, Unchanged, DetailsBelong
<1> QED BY <1>1, <1>2, <1>3, <1>4, <1>5, <1>6, <1>7 DEF Next

-----------------------------------------------------------------------------
(* The theorems                                                            *)

\* Every pod and core has its type, a pod that the API server has is the only
\* one of its name, and a core lies as deep as the layout of its pod says,
\* whatever pods and cores there are (mutate.go:240-300).
THEOREM IdentityTypes == Spec => []TypeOK
<1>1. IInv => TypeOK
  <2> SUFFICES ASSUME IInv PROVE TypeOK
    OBVIOUS
  <2>1. ASSUME NEW p \in Pods, p.uid < next
        PROVE  PodTypeOK(p)
    <3>1. p.uid \in Uids
      BY DEF Pods
    <3>2. p.uid \in 1..(next - 1)
      <4> DEFINE uid == p.uid
      <4>1. uid \in Uids /\ uid < next /\ next \in 1..(MaxPods + 1)
        BY <2>1, <3>1 DEF IInv
      <4> HIDE DEF uid
      <4>2. uid \in 1..(next - 1)
        BY <4>1, Bounds DEF Uids
      <4> QED BY <4>2 DEF uid
    <3> QED BY <3>2 DEF Pods, PodTypeOK
  <2>2. ASSUME NEW c, CoreOK(c)
        PROVE  /\ PodTypeOK(c.pod) /\ c.pod.node \in Nodes
               /\ c.container \in Containers
               /\ Len(c.path) = IF c.pod.source = "legacy" THEN 3 ELSE 4
    BY <2>1, <2>2 DEF CoreOK, Path
  <2> QED BY <2>1, <2>2 DEF IInv, TypeOK
<1> QED BY <1>1, Invariant, PTL

\* Whichever pods are deleted, copied and created under the same names while a
\* core waits, CoreSight is told of the pod and container that crashed, or of
\* the pod its manifest was taken from (agent.go:203-237, resolver.go:90-180).
THEOREM RightPod == Spec => []ReportsRightPod
<1>1. IInv => ReportsRightPod
  BY DEF IInv
<1> QED BY <1>1, Invariant, PTL

\* Whatever becomes of the pods while a core waits, what the resolver takes
\* from the API server under the UID of the pod that crashed is true of it:
\* the node, and the image of the container (resolver.go:187-219).
THEOREM Details == Spec => []DetailsBelong
<1>1. Spec => [](IInv /\ DInv)
  BY InitInvariant, InitDetails, StepInvariant, StepDetails, PTL DEF Spec
<1>2. DInv => DetailsBelong
  BY DEF DInv
<1> QED BY <1>1, <1>2, PTL
=============================================================================
