----------------------------- MODULE Injection ------------------------------
(***************************************************************************)
(* The admission of one pod (src/internal/webhook/mutate.go): the webhook  *)
(* writes a JSON patch, the API server applies it operation by operation.  *)
(* The patch is written against the pod as submitted, without applying it, *)
(* and the loop over the target containers takes them in any order, as the *)
(* iteration over a Go map does.                                           *)
(*                                                                         *)
(* A manifest read back from the cluster can be submitted again, so a pod  *)
(* may come with what an earlier admission has put into it.  The two       *)
(* annotations the patch adds as well are left out: nothing reads them.    *)
(***************************************************************************)
EXTENDS Naturals, Sequences, FiniteSets, SequencesExt

CONSTANTS
  Names,      \* names of containers
  Volumes,    \* names of volumes
  VolumeName, \* name of the volume for a container: "coredog-corefile-" and it
  None,
  Submitted,  \* pods that are submitted
  MaxRounds   \* bound on the submissions of one manifest

Container == [name : Names, mounts : Seq(Volumes)]

\* targets is the annotation coredog.io/container: None when there is none or
\* an empty one, the names it lists otherwise.  path is the kind of
\* coredog.io/path.
Pod == [inject : BOOLEAN, path : {"missing", "dangerous", "good"},
        targets : {None} \cup SUBSET Names,
        volumes : Seq(Volumes),
        containers : Seq(Container), initContainers : Seq(Container)]

ASSUME InjectionAssumption ==
  /\ IsFiniteSet(Names)
  /\ VolumeName \in [Names -> Volumes]
  /\ \A c, d \in Names : VolumeName[c] = VolumeName[d] => c = d
  /\ \A pod \in Submitted : pod \in Pod
  /\ MaxRounds \in Nat

VARIABLES
  pod,         \* the pod as the API server has it
  submitted,   \* history: the pod as it was submitted
  pc,          \* where the admission is
  patch,       \* operations, first those still to be written, then to apply
  left,        \* target containers the first loop has not visited
  volumeIndex, \* how many it has
  index,       \* where the loop over a list of containers is
  rounds       \* submissions left

vars == <<pod, submitted, pc, patch, left, volumeIndex, index, rounds>>

\* The two lists of containers, as the patch's paths name them.
Lists == {"containers", "initContainers"}
Places == (Lists \X (Nat \ {0})) \cup {<<"volumes", 0>>}

\* "add" at the path of a list (new) replaces the list, at "/-" it appends.
Op(new, place, volume) == [new |-> new, place |-> place, volume |-> volume]

Init ==
  /\ pod \in Submitted
  /\ submitted = pod
  /\ pc = "asked"
  /\ patch = <<>>
  /\ left = {}
  /\ volumeIndex = 0
  /\ index = 1
  /\ rounds = MaxRounds

\* shouldInject.
ShouldInject(p) == p.inject /\ p.path = "good"

\* getTargetContainers: the containers listed, whether they exist or not, or
\* all of them.
TargetContainers(p) ==
  IF p.targets # None THEN p.targets
  ELSE {c.name : c \in ToSet(p.containers) \cup ToSet(p.initContainers)}

\* The pod is admitted as it is.
Skip ==
  /\ pc = "asked"
  /\ ~ShouldInject(pod)
  /\ pc' = "admitted"
  /\ UNCHANGED <<pod, submitted, patch, left, volumeIndex, index,
                 rounds>>

\* Mutant of Inject: the count is the handler's and not the request's.
InjectCounting ==
  /\ pc = "asked"
  /\ ShouldInject(pod)
  /\ left' = TargetContainers(pod)
  /\ pc' = "volumes"
  /\ UNCHANGED <<pod, submitted, patch, volumeIndex, index, rounds>>

\* createPatch begins: which containers are targets, none visited.
Inject ==
  /\ pc = "asked"
  /\ ShouldInject(pod)
  /\ left' = TargetContainers(pod)
  /\ volumeIndex' = 0
  /\ pc' = "volumes"
  /\ UNCHANGED <<pod, submitted, patch, index, rounds>>

\* Mutants of NewVolumes: only the volumes of the pod count, only those
\* written before do, and the list is taken to exist.
NewWhenEmpty == pod.volumes = <<>>
NewWhenFirst == volumeIndex = 0
NewNever == FALSE

\* Is the list of volumes to be created, rather than appended to?
NewVolumes == pod.volumes = <<>> /\ volumeIndex = 0

\* One iteration of the loop over targetContainers.
AddVolume(c) ==
  /\ pc = "volumes"
  /\ c \in left
  /\ patch' = IF VolumeName[c] \in ToSet(pod.volumes) THEN patch
              ELSE Append(patch, Op(NewVolumes, <<"volumes", 0>>, VolumeName[c]))
  /\ left' = left \ {c}
  /\ volumeIndex' = volumeIndex + 1
  /\ UNCHANGED <<pod, submitted, pc, index, rounds>>

\* A target container that does not mount its volume.
NeedsMount(container) ==
  /\ container.name \in TargetContainers(pod)
  /\ VolumeName[container.name] \notin ToSet(container.mounts)

VolumesDone ==
  /\ pc = "volumes"
  /\ left = {}
  /\ pc' = "containers"
  /\ index' = 1
  /\ UNCHANGED <<pod, submitted, patch, left, volumeIndex, rounds>>

\* One iteration of the loop over the containers of a list.
AddMount(list) ==
  /\ pc = list
  /\ index <= Len(pod[list])
  /\ LET container == pod[list][index]
     IN patch' = IF NeedsMount(container)
                 THEN Append(patch, Op(container.mounts = <<>>, <<list, index>>,
                                       VolumeName[container.name]))
                 ELSE patch
  /\ index' = index + 1
  /\ UNCHANGED <<pod, submitted, pc, left, volumeIndex, rounds>>

\* On to the next list, or to the response.
MountsDone(list) ==
  /\ pc = list
  /\ index > Len(pod[list])
  /\ pc' = IF list = "containers" THEN "initContainers" ELSE "applying"
  /\ index' = 1
  /\ UNCHANGED <<pod, submitted, patch, left, volumeIndex, rounds>>

\* The list of the pod an operation is about.
ListAt(place) ==
  IF place[1] = "volumes" THEN pod.volumes ELSE pod[place[1]][place[2]].mounts

\* The API server applies the next operation.  An empty list is left out of
\* the JSON of a pod, so there is none to append to: the pod is refused.
Apply ==
  /\ pc = "applying"
  /\ patch # <<>>
  /\ LET op == Head(patch)
         list == IF op.new THEN <<op.volume>>
                 ELSE Append(ListAt(op.place), op.volume)
     IN IF ~op.new /\ ListAt(op.place) = <<>>
        THEN pc' = "refused" /\ UNCHANGED pod
        ELSE /\ pod' = IF op.place[1] = "volumes"
                       THEN [pod EXCEPT !.volumes = list]
                       ELSE [pod EXCEPT ![op.place[1]][op.place[2]].mounts =
                               list]
             /\ UNCHANGED pc
  /\ patch' = Tail(patch)
  /\ UNCHANGED <<submitted, left, volumeIndex, index, rounds>>

Applied ==
  /\ pc = "applying"
  /\ patch = <<>>
  /\ pc' = "admitted"
  /\ UNCHANGED <<pod, submitted, patch, left, volumeIndex, index,
                 rounds>>

\* Its manifest is read back and submitted again, perhaps with other targets.
Resubmit ==
  /\ pc = "admitted"
  /\ rounds > 0
  /\ rounds' = rounds - 1
  /\ \E targets \in {pod.targets} \cup {None} :
       pod' = [pod EXCEPT !.targets = targets]
  /\ submitted' = pod'
  /\ pc' = "asked"
  /\ UNCHANGED <<patch, left, volumeIndex, index>>

Next ==
  \/ Skip \/ Inject \/ VolumesDone \/ Apply \/ Applied \/ Resubmit
  \/ \E c \in Names : AddVolume(c)
  \/ \E l \in Lists : AddMount(l) \/ MountsDone(l)

Spec == Init /\ [][Next]_vars

-----------------------------------------------------------------------------
TypeOK ==
  /\ pod \in Pod
  /\ submitted \in Pod
  /\ pc \in Lists \cup {"asked", "volumes", "applying", "admitted", "refused"}
  /\ patch \in Seq([new : BOOLEAN, place : Places, volume : Volumes])
  /\ left \in SUBSET Names
  /\ volumeIndex \in 0..Cardinality(Names)
  /\ volumeIndex + Cardinality(left) <= Cardinality(Names)
  /\ index \in Nat \ {0}
  /\ pc \in Lists => index <= Len(pod[pc]) + 1
  /\ rounds \in 0..MaxRounds

\* How often v is in the list s.
Times(v, s) == Cardinality({i \in 1..Len(s) : s[i] = v})

\* A patch written against the pod as submitted still applies after its own
\* first operations have changed the pod, whichever order the map of targets
\* was iterated in: no operation appends to a list that is not there
\* (mutate.go:297-334, 360-380).
NeverRefused == pc # "refused"

\* An admitted pod that asked for it has, for every target, one volume, and
\* in every target container of either list one mount of it: none lost to an
\* operation that creates the list anew, none doubled when the manifest had
\* some of them before (mutate.go:286-338, 351-381).
MountedOnce ==
  pc = "admitted" /\ ShouldInject(pod) =>
    \A c \in TargetContainers(submitted) :
      /\ Times(VolumeName[c], pod.volumes) = 1
      /\ \A l \in Lists : \A i \in 1..Len(pod[l]) :
           pod[l][i].name = c => Times(VolumeName[c], pod[l][i].mounts) = 1

\* The list t is s with volumes for cores behind it.
Extends(s, t) ==
  /\ Len(s) <= Len(t)
  /\ \A i \in 1..Len(t) : IF i <= Len(s) THEN t[i] = s[i]
                           ELSE \E c \in Names : t[i] = VolumeName[c]

\* What the pod's author wrote is left as it was: the volumes and mounts keep
\* their places, what is behind them is for cores, and a container that is no
\* target is not touched (mutate.go:297-334, 360-380).
KeepsTheRest ==
  pc = "admitted" =>
    /\ Extends(submitted.volumes, pod.volumes)
    /\ \A l \in Lists :
         /\ Len(pod[l]) = Len(submitted[l])
         /\ \A i \in 1..Len(pod[l]) :
              /\ pod[l][i].name = submitted[l][i].name
              /\ Extends(submitted[l][i].mounts, pod[l][i].mounts)
              /\ pod[l][i].name \notin TargetContainers(submitted) =>
                   pod[l][i].mounts = submitted[l][i].mounts
=============================================================================
