--------------------------- MODULE InjectionProofs ---------------------------
(***************************************************************************)
(* For all pods, with any number of containers, volumes and mounts, and    *)
(* any number of submissions: the types of Injection, that no patch is     *)
(* refused, that what it adds is there once, and that the rest is kept.    *)
(***************************************************************************)
EXTENDS Injection, FiniteSetTheorems, TLAPS

-----------------------------------------------------------------------------
(* The inductive invariant                                                 *)

\* The list of the pod p at a place, and the places p has.
ListOf(p, place) ==
  IF place[1] = "volumes" THEN p.volumes ELSE p[place[1]][place[2]].mounts

PlacesOf(p) ==
  {place \in Places :
     place[1] # "volumes" => place[2] \in 1..Len(p[place[1]])}

\* The volume of c is due at a place: among the volumes, for every target;
\* in the containers of its name.
Due(place, c) ==
  /\ c \in TargetContainers(submitted)
  /\ place[1] # "volumes" => submitted[place[1]][place[2]].name = c

Pending(place, v) ==
  \E n \in 1..Len(patch) : patch[n].place = place /\ patch[n].volume = v

\* The loops of createPatch have yet to come to c, at a place.
Ahead(place, c) ==
  IF place[1] = "volumes" THEN pc = "volumes" /\ c \in left
  ELSE \/ pc = "volumes"
       \/ pc = "containers" /\ place[1] = "initContainers"
       \/ pc = place[1] /\ place[2] >= index

\* The pod's lists are those submitted, with volumes for cores behind them at
\* the places where they are due.
Kept ==
  /\ pod.inject = submitted.inject /\ pod.path = submitted.path
  /\ pod.targets = submitted.targets
  /\ \A l \in Lists :
       /\ Len(pod[l]) = Len(submitted[l])
       /\ \A i \in 1..Len(pod[l]) : pod[l][i].name = submitted[l][i].name
  /\ \A place \in PlacesOf(pod) :
       /\ Extends(ListOf(submitted, place), ListOf(pod, place))
       /\ (\A c \in Names : ~Due(place, c)) =>
            ListOf(pod, place) = ListOf(submitted, place)

\* An operation still to be applied is for a list of the pod that lacks its
\* volume, of which no earlier operation is; it creates the list exactly when
\* the list is empty and it is the first that is for it.
OpFits(n) ==
  LET op == patch[n]
      list == ListOf(pod, op.place)
  IN /\ op.place \in PlacesOf(pod)
     /\ \E c \in Names : /\ op.volume = VolumeName[c]
                         /\ Due(op.place, c)
                         /\ ~Ahead(op.place, c)
     /\ op.volume \notin ToSet(list)
     /\ \A m \in 1..(n - 1) :
          patch[m].place = op.place => patch[m].volume # op.volume
     /\ op.new <=> /\ list = <<>>
                   /\ \A m \in 1..(n - 1) : patch[m].place # op.place

\* What is due is there, or will be: by an operation that is written, or one
\* that the loops have yet to write.
Complete ==
  \A place \in PlacesOf(pod), c \in Names :
    Due(place, c) => \/ Ahead(place, c)
                     \/ VolumeName[c] \in ToSet(ListOf(pod, place))
                     \/ Pending(place, VolumeName[c])

\* How far the admission is.
Stage ==
  /\ pc # "refused"
  /\ pc \notin {"applying", "admitted"} => pod = submitted
  /\ pc \in Lists \cup {"volumes", "applying"} => ShouldInject(submitted)
  /\ pc \in {"asked", "admitted"} => patch = <<>>
  /\ pc = "volumes" => /\ left \subseteq TargetContainers(submitted)
                       /\ pod.volumes = <<>> =>
                            (volumeIndex = 0 <=> patch = <<>>)
                       /\ \A n \in 1..Len(patch) :
                            patch[n].place[1] = "volumes"

IInv ==
  /\ TypeOK
  /\ Kept
  /\ \A n \in 1..Len(patch) : OpFits(n)
  /\ pc # "asked" /\ ShouldInject(submitted) => Complete
  /\ Stage

\* No list of the pod p has the volume of a container twice.
Unrepeated(p) ==
  \A place \in PlacesOf(p), c \in Names :
    \A i, j \in 1..Len(ListOf(p, place)) :
      /\ ListOf(p, place)[i] = VolumeName[c]
      /\ ListOf(p, place)[j] = VolumeName[c]
      => i = j

-----------------------------------------------------------------------------
(* Lists, pods and places                                                  *)

USE InjectionAssumption

LEMMA AppendToSet ==
  ASSUME NEW S, NEW s \in Seq(S), NEW v \in S
  PROVE  /\ Append(s, v) \in Seq(S)
         /\ ToSet(Append(s, v)) = ToSet(s) \cup {v}
<1>1. /\ Append(s, v) \in Seq(S) /\ Len(Append(s, v)) = Len(s) + 1
      /\ \A i \in 1..Len(s) : Append(s, v)[i] = s[i]
      /\ Append(s, v)[Len(s) + 1] = v
  OBVIOUS
<1> QED  BY <1>1 DEF ToSet

\* The parts of a pod.
LEMMA PodParts ==
  ASSUME NEW p \in Pod
  PROVE  /\ p.volumes \in Seq(Volumes)
         /\ p.targets \in {None} \cup SUBSET Names
         /\ \A l \in Lists : p[l] \in Seq(Container)
         /\ \A l \in Lists, i \in Nat : i \in 1..Len(p[l]) =>
              p[l][i].name \in Names /\ p[l][i].mounts \in Seq(Volumes)
<1>1. /\ p.volumes \in Seq(Volumes)
      /\ p.targets \in {None} \cup SUBSET Names
      /\ p.containers \in Seq(Container)
      /\ p.initContainers \in Seq(Container)
  BY DEF Pod
<1>2. \A l \in Lists : p[l] \in Seq(Container)
  BY <1>1 DEF Lists
<1>3. \A c \in Container : c.name \in Names /\ c.mounts \in Seq(Volumes)
  BY DEF Container
<1>4. ASSUME NEW l \in Lists, NEW i \in 1..Len(p[l])
      PROVE  p[l][i].name \in Names /\ p[l][i].mounts \in Seq(Volumes)
  <2>1. p[l] \in Seq(Container)
    BY <1>2
  <2>2. p[l][i] \in Container
    BY <2>1
  <2> QED  BY <1>3, <2>2
<1> QED  BY <1>1, <1>2, <1>4

\* Targets have names, which are not those of volumes.
LEMMA TargetsAreNames ==
  ASSUME NEW p \in Pod
  PROVE  TargetContainers(p) \subseteq Names
<1>1. ASSUME NEW c \in ToSet(p.containers) \cup ToSet(p.initContainers)
      PROVE  c.name \in Names
  <2>1. /\ p.containers = p["containers"]
        /\ p.initContainers = p["initContainers"]
        /\ "containers" \in Lists /\ "initContainers" \in Lists
    BY DEF Lists
  <2>2. PICK l \in Lists : c \in ToSet(p[l])
    BY <1>1, <2>1
  <2>3. PICK i \in 1..Len(p[l]) : c = p[l][i]
    BY <2>2 DEF ToSet
  <2> QED  BY <2>3, PodParts, SMTT(30)
<1>2. p.targets \in {None} \cup SUBSET Names
  BY PodParts
<1> QED  BY <1>1, <1>2 DEF TargetContainers

\* A place is that of the volumes or that of a container in a list.
LEMMA PlaceForms ==
  ASSUME NEW p \in Pod, NEW place \in PlacesOf(p)
  PROVE  /\ place \in Places
         /\ ListOf(p, place) \in Seq(Volumes)
         /\ \/ place = <<"volumes", 0>> /\ ListOf(p, place) = p.volumes
            \/ /\ place[1] \in Lists /\ place[1] # "volumes"
               /\ place[2] \in 1..Len(p[place[1]])
               /\ place = <<place[1], place[2]>>
               /\ ListOf(p, place) = p[place[1]][place[2]].mounts
<1>1. place \in Places
  BY DEF PlacesOf
<1>2. CASE place = <<"volumes", 0>>
  <2>1. place[1] = "volumes"
    BY <1>2
  <2> QED  BY <1>1, <1>2, <2>1, PodParts DEF ListOf
<1>3. CASE place \in Lists \X (Nat \ {0})
  <2>1. /\ place[1] \in Lists /\ place[2] \in Nat
        /\ place = <<place[1], place[2]>>
    BY <1>3
  <2>2. place[1] # "volumes"
    BY <2>1 DEF Lists
  <2>3. place[2] \in 1..Len(p[place[1]])
    BY <2>2 DEF PlacesOf
  <2>4. p[place[1]][place[2]].mounts \in Seq(Volumes)
    BY <2>1, <2>3, PodParts
  <2> QED  BY <1>1, <2>1, <2>2, <2>3, <2>4 DEF ListOf
<1> QED  BY <1>1, <1>2, <1>3 DEF Places

\* The places there are.
LEMMA ThePlaces ==
  ASSUME NEW p \in Pod
  PROVE  /\ <<"volumes", 0>> \in PlacesOf(p)
         /\ ListOf(p, <<"volumes", 0>>) = p.volumes
         /\ \A l \in Lists : \A i \in 1..Len(p[l]) :
              /\ <<l, i>> \in PlacesOf(p)
              /\ ListOf(p, <<l, i>>) = p[l][i].mounts
<1>1. /\ <<"volumes", 0>> \in PlacesOf(p)
      /\ ListOf(p, <<"volumes", 0>>) = p.volumes
  BY DEF PlacesOf, Places, ListOf
<1>2. ASSUME NEW l \in Lists, NEW i \in 1..Len(p[l])
      PROVE  /\ <<l, i>> \in PlacesOf(p)
             /\ ListOf(p, <<l, i>>) = p[l][i].mounts
  <2>1. l # "volumes"
    BY DEF Lists
  <2>2. p[l] \in Seq(Container)
    BY PodParts
  <2>3. i \in Nat \ {0}
    BY <2>2
  <2>4. <<l, i>> \in Places
    BY <2>3 DEF Places
  <2> QED  BY <2>1, <2>4 DEF PlacesOf, ListOf
<1> QED  BY <1>1, <1>2

-----------------------------------------------------------------------------
(* What a step leaves alone, and what one operation does                   *)

Operation == [new : BOOLEAN, place : Places, volume : Volumes]

LEMMA OpType ==
  ASSUME NEW new \in BOOLEAN, NEW place \in Places, NEW v \in Volumes
  PROVE  /\ Op(new, place, v) \in Operation
         /\ Op(new, place, v).new = new
         /\ Op(new, place, v).place = place
         /\ Op(new, place, v).volume = v
  BY DEF Op, Operation

LEMMA PatchType ==
  ASSUME TypeOK
  PROVE  /\ patch \in Seq(Operation)
         /\ Len(patch) \in Nat
         /\ \A n \in 1..Len(patch) : patch[n] \in Operation
<1>1. patch \in Seq(Operation)
  BY DEF TypeOK, Operation
<1> QED  BY <1>1

\* The API server appends to the list of an operation that fits, whether it
\* is said to create it or not, and to no other list.
LEMMA ApplyEffect ==
  ASSUME TypeOK, Apply, NEW op, op = Head(patch),
         op.place \in PlacesOf(pod),
         op.volume \in Volumes,
         op.new <=> ListOf(pod, op.place) = <<>>
  PROVE  /\ pc' = pc
         /\ pod' \in Pod
         /\ pod'.inject = pod.inject /\ pod'.path = pod.path
         /\ pod'.targets = pod.targets
         /\ \A l \in Lists : /\ Len(pod'[l]) = Len(pod[l])
                             /\ \A i \in 1..Len(pod[l]) :
                                  pod'[l][i].name = pod[l][i].name
         /\ PlacesOf(pod') = PlacesOf(pod)
         /\ \A q \in PlacesOf(pod) :
              ListOf(pod', q) = IF q = op.place
                                THEN Append(ListOf(pod, q), op.volume)
                                ELSE ListOf(pod, q)
<1> DEFINE list == Append(ListOf(pod, op.place), op.volume)
<1>1. pod \in Pod /\ ListOf(pod, op.place) \in Seq(Volumes)
  BY PlaceForms DEF TypeOK
<1>2. list \in Seq(Volumes)
  BY <1>1
<1>3. ListAt(op.place) = ListOf(pod, op.place)
  BY DEF ListAt, ListOf
<1>4. ListAt(op.place) = <<>> => <<op.volume>> = list
  BY <1>3
<1> HIDE DEF list
<1>5. /\ pc' = pc
      /\ pod' = IF op.place[1] = "volumes"
                THEN [pod EXCEPT !.volumes = list]
                ELSE [pod EXCEPT ![op.place[1]][op.place[2]].mounts = list]
  BY <1>3, <1>4 DEF Apply, list
<1>6. CASE op.place = <<"volumes", 0>>
  <2>a. op.place[1] = "volumes"
    BY <1>6
  <2>1. pod' = [pod EXCEPT !.volumes = list]
    BY <1>5, <2>a, Zenon
  <2>2. /\ pod' \in Pod
        /\ pod'.inject = pod.inject /\ pod'.path = pod.path
        /\ pod'.targets = pod.targets
        /\ pod'.containers = pod.containers
        /\ pod'.initContainers = pod.initContainers
        /\ pod'.volumes = list
    BY <1>1, <1>2, <2>1 DEF Pod
  <2>3. \A l \in Lists : pod'[l] = pod[l]
    BY <2>2 DEF Lists
  <2>4. PlacesOf(pod') = PlacesOf(pod)
    BY <2>3 DEF PlacesOf, Places
  <2>5. ASSUME NEW q \in PlacesOf(pod)
        PROVE  ListOf(pod', q) = IF q = op.place THEN list ELSE ListOf(pod, q)
    <3>1. CASE q = <<"volumes", 0>>
      BY <1>6, <2>2, <3>1 DEF ListOf
    <3>2. CASE q # <<"volumes", 0>>
      <4>1. q[1] \in Lists /\ q[1] # "volumes"
        BY <1>1, <3>2, PlaceForms
      <4> QED  BY <1>6, <2>3, <3>2, <4>1 DEF ListOf
    <3> QED  BY <3>1, <3>2
  <2> QED  BY <1>5, <2>2, <2>3, <2>4, <2>5 DEF list
<1>7. ASSUME NEW l \in Lists, NEW i \in 1..Len(pod[l]), op.place = <<l, i>>,
             l # "volumes"
      PROVE  /\ pod' \in Pod
             /\ pod'.volumes = pod.volumes
             /\ pod'.inject = pod.inject /\ pod'.path = pod.path
             /\ pod'.targets = pod.targets
             /\ \A k \in Lists :
                  /\ Len(pod'[k]) = Len(pod[k])
                  /\ \A j \in 1..Len(pod[k]) :
                       /\ pod'[k][j].name = pod[k][j].name
                       /\ pod'[k][j].mounts = IF k = l /\ j = i THEN list
                                              ELSE pod[k][j].mounts
  <2>a. op.place[1] = l /\ op.place[2] = i
    BY <1>7
  <2>1. pod' = [pod EXCEPT ![l][i].mounts = list]
    BY <1>5, <1>7, <2>a, Zenon
  <2> DEFINE c == [pod[l][i] EXCEPT !.mounts = list]
             cs == [pod[l] EXCEPT ![i] = c]
  <2>2. pod' = [pod EXCEPT ![l] = cs]
    BY <2>1
  <2>3. pod[l] \in Seq(Container)
    BY <1>1, PodParts
  <2>4. pod[l][i] \in Container
    BY <2>3
  <2>5. c \in Container /\ c.name = pod[l][i].name /\ c.mounts = list
    BY <1>2, <2>4 DEF Container
  <2> HIDE DEF c
  <2>6. /\ cs \in Seq(Container) /\ Len(cs) = Len(pod[l])
        /\ \A j \in 1..Len(pod[l]) : cs[j] = IF j = i THEN c ELSE pod[l][j]
    BY <2>3, <2>5
  <2> HIDE DEF cs
  <2>7. /\ pod' \in Pod
        /\ pod'.volumes = pod.volumes
        /\ pod'.inject = pod.inject /\ pod'.path = pod.path
        /\ pod'.targets = pod.targets
    BY <1>1, <2>2, <2>6 DEF Pod, Lists
  <2>8. \A k \in Lists : pod'[k] = IF k = l THEN cs ELSE pod[k]
    BY <1>1, <2>2 DEF Pod, Lists
  <2> QED  BY <2>5, <2>6, <2>7, <2>8
<1>8. ASSUME op.place # <<"volumes", 0>>
      PROVE  /\ pc' = pc
             /\ pod' \in Pod
             /\ pod'.inject = pod.inject /\ pod'.path = pod.path
             /\ pod'.targets = pod.targets
             /\ \A l \in Lists : /\ Len(pod'[l]) = Len(pod[l])
                                 /\ \A i \in 1..Len(pod[l]) :
                                      pod'[l][i].name = pod[l][i].name
             /\ PlacesOf(pod') = PlacesOf(pod)
             /\ \A q \in PlacesOf(pod) :
                  ListOf(pod', q) = IF q = op.place THEN list
                                    ELSE ListOf(pod, q)
  <2>a. PICK l \in Lists : \E i \in 1..Len(pod[l]) :
               op.place = <<l, i>> /\ l # "volumes"
    BY <1>1, <1>8, PlaceForms
  <2>1. PICK i \in 1..Len(pod[l]) : op.place = <<l, i>> /\ l # "volumes"
    BY <2>a
  <2>2. /\ pod' \in Pod
        /\ pod'.volumes = pod.volumes
        /\ pod'.inject = pod.inject /\ pod'.path = pod.path
        /\ pod'.targets = pod.targets
        /\ \A k \in Lists :
             /\ Len(pod'[k]) = Len(pod[k])
             /\ \A j \in 1..Len(pod[k]) :
                  /\ pod'[k][j].name = pod[k][j].name
                  /\ pod'[k][j].mounts = IF k = l /\ j = i THEN list
                                         ELSE pod[k][j].mounts
    BY <1>7, <2>1
  <2>3. PlacesOf(pod') = PlacesOf(pod)
    BY <2>2 DEF PlacesOf, Places
  <2>4. ASSUME NEW q \in PlacesOf(pod)
        PROVE  ListOf(pod', q) = IF q = op.place THEN list ELSE ListOf(pod, q)
    <3>1. CASE q = <<"volumes", 0>>
      BY <1>8, <2>2, <3>1 DEF ListOf
    <3>2. CASE q # <<"volumes", 0>>
      <4>1. /\ q[1] \in Lists /\ q[1] # "volumes"
            /\ q[2] \in 1..Len(pod[q[1]]) /\ q = <<q[1], q[2]>>
        BY <1>1, <3>2, PlaceForms
      <4>2. q = op.place <=> q[1] = l /\ q[2] = i
        BY <2>1, <4>1
      <4> QED  BY <2>2, <4>1, <4>2 DEF ListOf
    <3> QED  BY <3>1, <3>2
  <2> QED  BY <1>5, <2>2, <2>3, <2>4
<1> QED  BY <1>6, <1>8 DEF list

-----------------------------------------------------------------------------
(* Types                                                                   *)

LEMMA InitIInv == Init => IInv
<1> SUFFICES ASSUME Init PROVE IInv
  OBVIOUS
<1>1. pod \in Pod /\ submitted = pod /\ pc = "asked" /\ patch = <<>>
  BY DEF Init
<1>2. TypeOK
  <2>1. Cardinality({}) = 0 /\ Cardinality(Names) \in Nat
    BY FS_EmptySet, FS_CardinalityType
  <2> QED  BY <1>1, <2>1 DEF Init, TypeOK, Lists
<1>3. Kept
  <2>1. ASSUME NEW place \in PlacesOf(pod)
        PROVE  Extends(ListOf(pod, place), ListOf(pod, place))
    <3>1. ListOf(pod, place) \in Seq(Volumes)
      BY <1>1, PlaceForms
    <3> QED  BY <3>1 DEF Extends
  <2> QED  BY <1>1, <2>1 DEF Kept
<1> QED  BY <1>1, <1>2, <1>3 DEF IInv, Stage, Lists

\* The loops count what they have visited.
LEMMA LoopTypes ==
  ASSUME IInv, \/ Skip \/ Inject \/ VolumesDone \/ Applied \/ Resubmit
               \/ \E c \in Names : AddVolume(c)
               \/ \E l \in Lists : AddMount(l) \/ MountsDone(l)
  PROVE  TypeOK'
<1> USE DEF IInv
<1>1. /\ pod \in Pod /\ submitted \in Pod /\ TypeOK
      /\ Cardinality(Names) \in Nat
      /\ left \subseteq Names /\ volumeIndex \in Nat /\ index \in Nat \ {0}
      /\ volumeIndex + Cardinality(left) <= Cardinality(Names)
  BY FS_CardinalityType DEF TypeOK
<1>2. ASSUME NEW place \in Places, NEW new \in BOOLEAN, NEW c \in Names,
             patch' = Append(patch, Op(new, place, VolumeName[c]))
      PROVE  patch' \in Seq([new : BOOLEAN, place : Places, volume : Volumes])
  <2>1. Op(new, place, VolumeName[c]) \in Operation
    BY OpType
  <2>2. patch \in Seq(Operation)
    BY <1>1, PatchType
  <2>3. patch' \in Seq(Operation)
    BY <1>2, <2>1, <2>2
  <2> QED  BY <2>3 DEF Operation
<1>3. CASE Skip \/ Applied
  BY <1>1, <1>3 DEF Skip, Applied, TypeOK, Lists
<1>4. CASE Inject
  <2>1. TargetContainers(pod) \subseteq Names
    BY <1>1, TargetsAreNames
  <2>2. Cardinality(TargetContainers(pod)) <= Cardinality(Names)
    BY <2>1, FS_Subset
  <2>3. IsFiniteSet(TargetContainers(pod))
    BY <2>1, FS_Subset
  <2>4. Cardinality(TargetContainers(pod)) \in Nat
    BY <2>3, FS_CardinalityType
  <2>5. /\ volumeIndex' = 0 /\ left' = TargetContainers(pod)
        /\ pc' = "volumes"
        /\ UNCHANGED <<pod, submitted, patch, index, rounds>>
    BY <1>4 DEF Inject
  <2> QED  BY <1>1, <2>1, <2>2, <2>4, <2>5 DEF TypeOK, Lists
<1>5. ASSUME NEW c \in Names, AddVolume(c) PROVE TypeOK'
  <2>1. IsFiniteSet(left)
    BY <1>1, FS_Subset
  <2>2. c \in left
    BY <1>5 DEF AddVolume
  <2>3. /\ Cardinality(left \ {c}) = Cardinality(left) - 1
        /\ Cardinality(left) \in Nat /\ Cardinality(left \ {c}) \in Nat
    BY <2>1, <2>2, FS_RemoveElement, FS_CardinalityType
  <2>4. patch' \in Seq([new : BOOLEAN, place : Places, volume : Volumes])
    <3>1. NewVolumes \in BOOLEAN /\ <<"volumes", 0>> \in Places
      BY DEF NewVolumes, Places
    <3> QED  BY <1>2, <1>5, <3>1 DEF AddVolume, TypeOK
  <2>5. /\ volumeIndex' = volumeIndex + 1 /\ left' = left \ {c}
        /\ pc' = pc /\ pc = "volumes"
        /\ UNCHANGED <<pod, submitted, index, rounds>>
    BY <1>5 DEF AddVolume
  <2>6. /\ volumeIndex' \in 0..Cardinality(Names)
        /\ volumeIndex' + Cardinality(left') <= Cardinality(Names)
    BY <1>1, <2>3, <2>5
  <2> QED  BY <1>1, <2>4, <2>5, <2>6 DEF TypeOK, Lists
<1>6. CASE VolumesDone
  <2>1. Len(pod.containers) \in Nat /\ pod.containers = pod["containers"]
    BY <1>1 DEF Pod
  <2> QED  BY <1>1, <1>6, <2>1 DEF VolumesDone, TypeOK, Lists
<1>7. ASSUME NEW l \in Lists, AddMount(l) PROVE TypeOK'
  <2>1. pod[l] \in Seq(Container)
    BY <1>1, PodParts
  <2>2. index \in 1..Len(pod[l]) /\ index' = index + 1
    BY <1>1, <1>7, <2>1 DEF AddMount
  <2>3. patch' \in Seq([new : BOOLEAN, place : Places, volume : Volumes])
    <3>1. <<l, index>> \in Places /\ pod[l][index].name \in Names
      BY <1>1, <2>2, PodParts DEF Places
    <3>2. (pod[l][index].mounts = <<>>) \in BOOLEAN
      OBVIOUS
    <3> QED  BY <1>2, <1>7, <3>1, <3>2 DEF AddMount, TypeOK
  <2>4. pc' = l /\ pc = l /\ UNCHANGED <<pod, submitted, left, volumeIndex, rounds>>
    BY <1>7 DEF AddMount
  <2>5. index' \in Nat \ {0} /\ index' <= Len(pod[l]) + 1
    BY <1>1, <2>1, <2>2
  <2> QED  BY <1>1, <2>3, <2>4, <2>5 DEF TypeOK
<1>8. ASSUME NEW l \in Lists, MountsDone(l) PROVE TypeOK'
  <2>1. pod["initContainers"] \in Seq(Container)
    BY <1>1, PodParts DEF Lists
  <2>2. index' = 1 /\ index' <= Len(pod["initContainers"]) + 1
    BY <1>8, <2>1 DEF MountsDone
  <2> QED  BY <1>1, <1>8, <2>2 DEF MountsDone, TypeOK, Lists
<1>9. CASE Resubmit
  <2>1. pod' \in Pod /\ submitted' \in Pod
    BY <1>1, <1>9 DEF Resubmit, Pod
  <2>2. rounds' \in 0..MaxRounds
    BY <1>1, <1>9 DEF Resubmit, TypeOK
  <2> QED  BY <1>1, <1>9, <2>1, <2>2 DEF Resubmit, TypeOK, Lists
<1> QED  BY <1>3, <1>4, <1>5, <1>6, <1>7, <1>8, <1>9

-----------------------------------------------------------------------------
(* createPatch                                                             *)

\* No two containers share a volume, and the types a place leads to.
LEMMA OpsTyped ==
  ASSUME TypeOK
  PROVE  /\ \A c \in Names : VolumeName[c] \in Volumes
         /\ \A c, d \in Names : VolumeName[c] = VolumeName[d] => c = d
         /\ TargetContainers(submitted) \subseteq Names
         /\ \A n \in 1..Len(patch) : patch[n].place \in Places
                                    /\ patch[n].volume \in Volumes
<1>1. \A n \in 1..Len(patch) : patch[n] \in Operation
  BY PatchType
<1>2. TargetContainers(submitted) \subseteq Names
  BY TargetsAreNames DEF TypeOK
<1> QED  BY <1>1, <1>2 DEF Operation

\* Loops that come no nearer to a container leave all operations and all that
\* is due as they were.
LEMMA NothingWritten ==
  ASSUME IInv, UNCHANGED <<pod, submitted, patch>>,
         \A q \in PlacesOf(pod), c \in Names :
           Due(q, c) => (Ahead(q, c)' <=> Ahead(q, c))
  PROVE  /\ \A n \in 1..Len(patch') : OpFits(n)'
         /\ Complete => Complete'
         /\ Kept'
<1>1. ASSUME NEW n \in 1..Len(patch) PROVE OpFits(n)'
  <2>1. OpFits(n)
    BY DEF IInv
  <2> QED  BY <2>1 DEF OpFits, Due
<1>2. Complete => Complete'
  BY DEF Complete, Due, Pending
<1>3. Kept'
  BY DEF IInv, Kept, Due
<1> QED  BY <1>1, <1>2, <1>3

\* An iteration that comes to the container c at a place writes an operation
\* for it that fits, unless its volume is there.
LEMMA OneWritten ==
  ASSUME IInv, UNCHANGED <<pod, submitted>>,
         NEW place \in PlacesOf(pod), NEW c \in Names,
         Due(place, c), Ahead(place, c), ~Ahead(place, c)',
         \A q \in PlacesOf(pod), d \in Names :
           Due(q, d) /\ (q # place \/ d # c) => (Ahead(q, d)' <=> Ahead(q, d)),
         NEW new \in BOOLEAN,
         new <=> /\ ListOf(pod, place) = <<>>
                 /\ \A m \in 1..Len(patch) : patch[m].place # place,
         patch' = IF VolumeName[c] \in ToSet(ListOf(pod, place)) THEN patch
                  ELSE Append(patch, Op(new, place, VolumeName[c]))
  PROVE  /\ \A n \in 1..Len(patch') : OpFits(n)'
         /\ Complete => Complete'
         /\ Kept'
<1> DEFINE op == Op(new, place, VolumeName[c])
<1>1. TypeOK /\ place \in Places /\ patch \in Seq(Operation)
  BY PatchType DEF IInv, PlacesOf
<1>2. /\ op \in Operation /\ op.new = new /\ op.place = place
      /\ op.volume = VolumeName[c]
  BY <1>1, OpType, OpsTyped
<1> HIDE DEF op
<1>3. \/ patch' = patch
      \/ /\ VolumeName[c] \notin ToSet(ListOf(pod, place))
         /\ patch' = Append(patch, op)
  BY DEF op
<1>4. ASSUME NEW n \in 1..Len(patch) PROVE patch'[n] = patch[n]
  BY <1>1, <1>2, <1>3
<1>5. /\ Len(patch) \in Nat
      /\ \/ Len(patch') = Len(patch)
         \/ /\ Len(patch') = Len(patch) + 1
            /\ patch'[Len(patch) + 1] = op
            /\ VolumeName[c] \notin ToSet(ListOf(pod, place))
  BY <1>1, <1>2, <1>3
<1>6. ASSUME NEW n \in 1..Len(patch) PROVE OpFits(n)'
  <2>1. OpFits(n)
    BY DEF IInv
  <2>2. PICK q \in PlacesOf(pod) : q = patch[n].place
    BY <2>1 DEF OpFits
  <2>3. PICK d \in Names : /\ patch[n].volume = VolumeName[d]
                           /\ Due(q, d) /\ ~Ahead(q, d)
    BY <2>1, <2>2 DEF OpFits
  <2>4. ~Ahead(q, d)' /\ Due(q, d)'
    BY <2>3 DEF Due
  <2>5. /\ patch'[n] = patch[n]
        /\ \A m \in 1..(n - 1) : patch'[m] = patch[m]
    BY <1>4, <1>5
  <2>6. \E e \in Names : (/\ patch[n].volume = VolumeName[e]
                          /\ Due(patch[n].place, e)
                          /\ ~Ahead(patch[n].place, e))'
    BY <2>2, <2>3, <2>4, <2>5 DEF Due, Ahead
  <2> QED  BY <2>1, <2>5, <2>6 DEF OpFits
<1>7. ASSUME Len(patch') = Len(patch) + 1 PROVE OpFits(Len(patch))'
  <2> DEFINE n == Len(patch) + 1
  <2>1. /\ patch'[n] = op /\ n = Len(patch')
        /\ VolumeName[c] \notin ToSet(ListOf(pod, place))
    BY <1>5, <1>7
  <2>2. \A m \in 1..(n - 1) : m \in 1..Len(patch) /\ patch'[m] = patch[m]
    BY <1>4, <1>5
  <2>3. ASSUME NEW m \in 1..Len(patch), patch[m].place = place
        PROVE  patch[m].volume # VolumeName[c]
    <3>1. OpFits(m)
      BY DEF IInv
    <3>2. PICK d \in Names : /\ patch[m].volume = VolumeName[d]
                             /\ ~Ahead(patch[m].place, d)
      BY <3>1 DEF OpFits
    <3>3. d # c
      BY <2>3, <3>2
    <3> QED  BY <1>1, <3>2, <3>3, OpsTyped
  <2>4. Due(place, c)'
    BY DEF Due
  <2>5. \E e \in Names : (/\ patch[Len(patch)].volume = VolumeName[e]
                          /\ Due(patch[Len(patch)].place, e)
                          /\ ~Ahead(patch[Len(patch)].place, e))'
    BY <1>2, <2>1, <2>4 DEF Due, Ahead
  <2> QED
    BY <1>2, <2>1, <2>2, <2>3, <2>5 DEF OpFits
<1>8. \A n \in 1..Len(patch') : OpFits(n)'
  <2>1. ASSUME NEW n \in 1..Len(patch') PROVE OpFits(n)'
    <3>1. CASE n \in 1..Len(patch)
      BY <1>6, <3>1
    <3>2. CASE n = Len(patch') /\ Len(patch') = Len(patch) + 1
      BY <1>7, <3>2
    <3> QED  BY <1>5, <3>1, <3>2
  <2> QED  BY <2>1
<1>9. ASSUME Complete, NEW q \in PlacesOf(pod), NEW d \in Names, Due(q, d)
      PROVE  \/ Ahead(q, d)'
             \/ VolumeName[d] \in ToSet(ListOf(pod, q))
             \/ Pending(q, VolumeName[d])'
  <2>1. CASE Pending(q, VolumeName[d])
    <3>1. PICK n \in 1..Len(patch) : patch[n].place = q
                                    /\ patch[n].volume = VolumeName[d]
      BY <2>1 DEF Pending
    <3>2. n \in 1..Len(patch') /\ patch'[n] = patch[n]
      BY <1>4, <1>5
    <3> QED  BY <3>1, <3>2 DEF Pending
  <2>2. CASE q = place /\ d = c
    <3>1. CASE VolumeName[c] \in ToSet(ListOf(pod, place))
      BY <2>2, <3>1
    <3>2. CASE VolumeName[c] \notin ToSet(ListOf(pod, place))
      <4>1. /\ Len(patch') \in 1..Len(patch')
            /\ patch'[Len(patch')] = op
        BY <1>1, <1>2, <3>2 DEF op
      <4> QED  BY <1>2, <2>2, <4>1 DEF Pending
    <3> QED  BY <3>1, <3>2
  <2>3. CASE q # place \/ d # c
    BY <1>9, <2>1, <2>3 DEF Complete
  <2> QED  BY <2>2, <2>3
<1>10. Complete => Complete'
  BY <1>9 DEF Complete, Due
<1>11. Kept'
  BY DEF IInv, Kept, Due
<1> QED  BY <1>8, <1>10, <1>11

\* What the loops are for: targets, while the pod is as it was submitted.
LEMMA Looping ==
  ASSUME IInv, pc \in Lists \cup {"volumes"}
  PROVE  /\ pod = submitted /\ pod \in Pod /\ ShouldInject(submitted)
         /\ Complete
         /\ TargetContainers(pod) = TargetContainers(submitted)
  BY DEF IInv, TypeOK, Stage, Lists

LEMMA AddVolumeIInv ==
  ASSUME IInv, NEW c \in Names, AddVolume(c)
  PROVE  IInv'
<1> DEFINE place == <<"volumes", 0>>
<1>1. /\ pc = "volumes" /\ pc' = "volumes" /\ c \in left
      /\ UNCHANGED <<pod, submitted>>
      /\ left' = left \ {c} /\ volumeIndex' = volumeIndex + 1
  BY DEF AddVolume
<1>2. /\ place \in PlacesOf(pod) /\ ListOf(pod, place) = pod.volumes
      /\ place[1] = "volumes"
  BY <1>1, Looping, ThePlaces
<1>3. Due(place, c) /\ Ahead(place, c) /\ ~Ahead(place, c)'
  BY <1>1, <1>2 DEF IInv, Stage, Due, Ahead
<1>4. ASSUME NEW q \in PlacesOf(pod), NEW d \in Names,
             Due(q, d) /\ (q # place \/ d # c)
      PROVE  Ahead(q, d)' <=> Ahead(q, d)
  <2>1. q[1] = "volumes" => q = place
    BY <1>1, Looping, PlaceForms
  <2> QED  BY <1>1, <1>4, <2>1 DEF Ahead
<1>5. /\ NewVolumes \in BOOLEAN
      /\ NewVolumes <=> /\ ListOf(pod, place) = <<>>
                        /\ \A m \in 1..Len(patch) : patch[m].place # place
  <2>1. ASSUME NEW m \in 1..Len(patch) PROVE patch[m].place = place
    <3>1. OpFits(m) /\ patch[m].place[1] = "volumes"
      BY <1>1 DEF IInv, Stage
    <3> QED  BY <1>1, <3>1, Looping, PlaceForms DEF OpFits
  <2>2. patch = <<>> <=> Len(patch) = 0
    BY PatchType DEF IInv
  <2>3. Len(patch) = 0 <=> \A m \in 1..Len(patch) : patch[m].place # place
    BY <2>1, PatchType DEF IInv
  <2>4. pod.volumes = <<>> => (volumeIndex = 0 <=> patch = <<>>)
    BY <1>1 DEF IInv, Stage
  <2> QED  BY <1>2, <2>2, <2>3, <2>4 DEF NewVolumes
<1>6. patch' = IF VolumeName[c] \in ToSet(ListOf(pod, place)) THEN patch
               ELSE Append(patch, Op(NewVolumes, place, VolumeName[c]))
  BY <1>2 DEF AddVolume
<1>7. /\ \A n \in 1..Len(patch') : OpFits(n)'
      /\ Complete => Complete'
      /\ Kept'
  <2> HIDE DEF place
  <2> QED  BY <1>1, <1>2, <1>3, <1>4, <1>5, <1>6, OneWritten
<1>8. Stage'
  <2>1. /\ patch \in Seq(Operation)
        /\ \A n \in 1..Len(patch) : patch[n].place[1] = "volumes"
    BY <1>1, PatchType DEF IInv, Stage
  <2>2. Op(NewVolumes, place, VolumeName[c]).place[1] = "volumes"
    BY <1>2 DEF Op
  <2>3. \A n \in 1..Len(patch') : patch'[n].place[1] = "volumes"
    BY <1>6, <2>1, <2>2
  <2>4. pod.volumes = <<>> => patch' # <<>>
    <3>1. pod.volumes = <<>> => VolumeName[c] \notin ToSet(pod.volumes)
      BY DEF ToSet
    <3> QED  BY <1>2, <1>6, <2>1, <3>1
  <2>5. volumeIndex' # 0
    BY <1>1 DEF IInv, TypeOK
  <2> QED
    BY <1>1, <2>3, <2>4, <2>5, Looping DEF IInv, Stage, Lists
<1> QED  BY <1>1, <1>7, <1>8, Looping, LoopTypes DEF IInv

LEMMA AddMountIInv ==
  ASSUME IInv, NEW l \in Lists, AddMount(l)
  PROVE  IInv'
<1>a. PICK i \in Nat : \E c : i = index /\ c = pod[l][index].name
  BY DEF IInv, TypeOK
<1>0. PICK c : i = index /\ c = pod[l][index].name
  BY <1>a
<1> DEFINE place == <<l, i>>
<1>1. /\ pc = l /\ pc' = l /\ index' = index + 1 /\ index <= Len(pod[l])
      /\ UNCHANGED <<pod, submitted, left>>
  BY DEF AddMount
<1>2. /\ pod \in Pod /\ pod = submitted /\ Complete
      /\ TargetContainers(pod) = TargetContainers(submitted)
      /\ l # "volumes"
  BY <1>1, Looping DEF Lists
<1>3. i \in 1..Len(pod[l]) /\ i = index
  <2>1. pod[l] \in Seq(Container)
    BY <1>2, PodParts
  <2> QED  BY <1>0, <1>1, <2>1 DEF IInv, TypeOK
<1>4. /\ place \in PlacesOf(pod) /\ ListOf(pod, place) = pod[l][i].mounts
      /\ place[1] = l /\ place[2] = i
  BY <1>2, <1>3, ThePlaces
<1>5. c \in Names /\ c = pod[l][i].name
  BY <1>0, <1>2, <1>3, PodParts
<1>6. ASSUME NEW q \in PlacesOf(pod), NEW d \in Names, Due(q, d), q # place
      PROVE  Ahead(q, d)' <=> Ahead(q, d)
  <2>1. q[1] # "volumes" => q[1] \in Lists /\ q[2] \in Nat /\ q = <<q[1], q[2]>>
    <3>1. q[1] # "volumes" => q[2] \in 1..Len(pod[q[1]]) /\ q[1] \in Lists
                              /\ q = <<q[1], q[2]>>
      BY <1>2, PlaceForms
    <3> QED  BY <3>1
  <2>2. index = i /\ index' = i + 1 /\ i \in Nat
    BY <1>0, <1>1
  <2>3. q[1] = l => q[2] # i
    BY <1>2, <1>6, <2>1
  <2> QED  BY <1>1, <1>2, <2>1, <2>2, <2>3 DEF Ahead, Lists
<1>7. ASSUME NEW d \in Names, Due(place, d)
      PROVE  d = c /\ Ahead(place, d) /\ ~Ahead(place, d)'
  <2>1. d = c
    BY <1>2, <1>4, <1>5, <1>7 DEF Due
  <2>2. index = i /\ index' = i + 1 /\ i \in Nat
    BY <1>0, <1>1
  <2> QED  BY <1>1, <1>2, <1>4, <2>1, <2>2 DEF Ahead, Lists
<1>8. /\ \A n \in 1..Len(patch') : OpFits(n)'
      /\ Complete => Complete'
      /\ Kept'
  <2>1. CASE c \notin TargetContainers(pod)
    <3>1. patch' = patch
      BY <1>0, <2>1 DEF AddMount, NeedsMount
    <3>2. \A d \in Names : ~Due(place, d)
      BY <1>2, <1>7, <2>1 DEF Due
    <3>3. \A q \in PlacesOf(pod), d \in Names :
            Due(q, d) => (Ahead(q, d)' <=> Ahead(q, d))
      BY <1>6, <3>2
    <3> QED  BY <1>1, <3>1, <3>3, NothingWritten
  <2>2. CASE c \in TargetContainers(pod)
    <3>1. Due(place, c)
      BY <1>2, <1>4, <1>5, <2>2 DEF Due
    <3> DEFINE new == pod[l][i].mounts = <<>>
    <3>2. /\ new \in BOOLEAN
          /\ new <=> /\ ListOf(pod, place) = <<>>
                     /\ \A m \in 1..Len(patch) : patch[m].place # place
      <4>1. ASSUME NEW m \in 1..Len(patch) PROVE patch[m].place # place
        <5>1. OpFits(m)
          BY DEF IInv
        <5>2. PICK d \in Names : Due(patch[m].place, d) /\ ~Ahead(patch[m].place, d)
          BY <5>1 DEF OpFits
        <5> QED  BY <1>7, <5>2
      <4> QED  BY <1>4, <4>1
    <3>3. patch' = IF VolumeName[c] \in ToSet(ListOf(pod, place)) THEN patch
                   ELSE Append(patch, Op(new, place, VolumeName[c]))
      BY <1>0, <1>4, <2>2 DEF AddMount, NeedsMount
    <3>4. \A q \in PlacesOf(pod), d \in Names :
            Due(q, d) /\ (q # place \/ d # c) => (Ahead(q, d)' <=> Ahead(q, d))
      BY <1>6, <1>7
    <3>5. Ahead(place, c) /\ ~Ahead(place, c)'
      BY <1>5, <1>7, <3>1
    <3> HIDE DEF place, new
    <3> QED
      BY <1>1, <1>4, <1>5, <3>1, <3>2, <3>3, <3>4, <3>5, OneWritten
  <2> QED  BY <2>1, <2>2
<1>9. Stage'
  BY <1>1, <1>2 DEF IInv, Stage, Lists
<1> QED  BY <1>2, <1>8, <1>9, LoopTypes DEF IInv

\* The steps between the loops, and around them.
LEMMA InjectIInv ==
  ASSUME IInv, Inject
  PROVE  IInv'
<1>1. /\ pc = "asked" /\ pc' = "volumes" /\ volumeIndex' = 0 /\ patch = <<>>
      /\ UNCHANGED <<pod, submitted, patch, index>>
      /\ pod = submitted /\ ShouldInject(pod)
      /\ left' = TargetContainers(pod)
  BY DEF Inject, IInv, Stage, Lists
<1>2. Kept'
  BY <1>1 DEF IInv, Kept, Due
<1>3. Complete'
  <2>1. ASSUME NEW q \in PlacesOf(pod), NEW c \in Names, Due(q, c)
        PROVE  Ahead(q, c)'
    BY <1>1, <2>1 DEF Ahead, Due
  <2> QED  BY <1>1, <2>1 DEF Complete, Due
<1>4. Stage'
  BY <1>1 DEF Stage, Lists
<1> QED  BY <1>1, <1>2, <1>3, <1>4, LoopTypes DEF IInv

LEMMA BetweenIInv ==
  ASSUME IInv, VolumesDone \/ \E l \in Lists : MountsDone(l)
  PROVE  IInv'
<1>1. /\ UNCHANGED <<pod, submitted, patch, left>>
      /\ index' = 1 /\ pc \in Lists \cup {"volumes"}
  BY DEF VolumesDone, MountsDone
<1>2. /\ pod = submitted /\ pod \in Pod /\ ShouldInject(submitted) /\ Complete
  BY <1>1, Looping
<1>3. ASSUME NEW q \in PlacesOf(pod), NEW c \in Names, Due(q, c)
      PROVE  Ahead(q, c)' <=> Ahead(q, c)
  <2>1. \/ q[1] = "volumes"
        \/ /\ q[1] \in Lists /\ q[1] # "volumes"
           /\ q[2] \in 1..Len(pod[q[1]])
    BY <1>2, PlaceForms
  <2>2. q[1] \in Lists => Len(pod[q[1]]) \in Nat
    <3>1. q[1] \in Lists => pod[q[1]] \in Seq(Container)
      BY <1>2, PodParts
    <3> QED  BY <3>1
  <2>3. CASE VolumesDone
    BY <2>1, <2>2, <2>3 DEF VolumesDone, Ahead, Lists
  <2>4. ASSUME NEW l \in Lists, MountsDone(l)
        PROVE  Ahead(q, c)' <=> Ahead(q, c)
    <3>1. index \in Nat /\ index > Len(pod[l]) /\ pc = l /\ index' = 1
          /\ pc' = IF l = "containers" THEN "initContainers" ELSE "applying"
      BY <2>4 DEF MountsDone, IInv, TypeOK
    <3>2. q[1] = l => ~(q[2] >= index)
      BY <2>1, <2>2, <3>1 DEF Lists
    <3> QED  BY <1>1, <2>1, <2>2, <3>1, <3>2 DEF Ahead, Lists
  <2> QED  BY <2>3, <2>4
<1>4. /\ \A n \in 1..Len(patch') : OpFits(n)'
      /\ Complete'
      /\ Kept'
  BY <1>1, <1>2, <1>3, NothingWritten
<1>5. Stage'
  BY <1>1, <1>2 DEF VolumesDone, MountsDone, Stage, Lists
<1> QED  BY <1>1, <1>2, <1>4, <1>5, LoopTypes DEF IInv

\* What is submitted a second time has the places it had.
LEMMA ResubmitIInv ==
  ASSUME IInv, Resubmit
  PROVE  IInv'
<1>1. /\ pc = "admitted" /\ pc' = "asked" /\ patch = <<>> /\ patch' = <<>>
      /\ pod' = submitted' /\ TypeOK'
  BY LoopTypes DEF Resubmit, IInv, Stage
<1>2. Kept'
  <2>1. pod' \in Pod
    BY <1>1 DEF TypeOK
  <2>2. ASSUME NEW place \in PlacesOf(pod')
        PROVE  Extends(ListOf(pod', place), ListOf(pod', place))
    <3>1. ListOf(pod', place) \in Seq(Volumes)
      BY <2>1, PlaceForms
    <3> QED  BY <3>1 DEF Extends
  <2> QED  BY <1>1, <2>2 DEF Kept
<1> QED  BY <1>1, <1>2 DEF IInv, Stage, Lists

LEMMA AdmittedIInv ==
  ASSUME IInv, Skip \/ Applied
  PROVE  IInv'
<1>1. /\ UNCHANGED <<pod, submitted, patch, left, index>> /\ patch = <<>>
      /\ pc' = "admitted" /\ pc \in {"asked", "applying"}
  BY DEF Skip, Applied, IInv, Stage
<1>2. \A q \in PlacesOf(pod), c \in Names : Ahead(q, c)' <=> Ahead(q, c)
  <2>1. \A q \in PlacesOf(pod) : q[1] = "volumes" \/ q[1] \in Lists
    BY PlaceForms DEF IInv, TypeOK
  <2> QED  BY <1>1, <2>1 DEF Ahead, Lists
<1>3. /\ \A n \in 1..Len(patch') : OpFits(n)'
      /\ Complete => Complete'
      /\ Kept'
  BY <1>1, <1>2, NothingWritten
<1>4. ShouldInject(submitted) => Complete'
  <2>1. CASE Skip
    <3>1. pod = submitted /\ ~ShouldInject(pod)
      BY <2>1 DEF Skip, IInv, Stage
    <3> QED  BY <3>1
  <2>2. CASE Applied
    <3>1. pc # "asked"
      BY <2>2 DEF Applied
    <3> QED  BY <1>3, <3>1 DEF IInv
  <2> QED  BY <2>1, <2>2
<1> QED
  BY <1>1, <1>3, <1>4, LoopTypes DEF IInv, Stage, Lists, Skip, Applied

-----------------------------------------------------------------------------
(* The API server                                                          *)

\* The next operation, which fits, is carried out, and those behind it fit
\* what it has made of the pod.
LEMMA ApplyIInv ==
  ASSUME IInv, Apply
  PROVE  IInv'
<1>1. /\ pc = "applying" /\ patch # <<>> /\ patch' = Tail(patch)
      /\ UNCHANGED <<submitted, left, volumeIndex, index, rounds>>
      /\ ShouldInject(submitted) /\ Complete
      /\ TypeOK /\ pod \in Pod /\ submitted \in Pod
  BY DEF Apply, IInv, TypeOK, Stage, Lists
<1>2. /\ patch \in Seq(Operation) /\ 1 \in 1..Len(patch)
      /\ Head(patch) = patch[1] /\ Len(patch) \in Nat
      /\ Len(patch') = Len(patch) - 1 /\ patch' \in Seq(Operation)
      /\ \A n \in 1..Len(patch') : patch'[n] = patch[n + 1]
  <2>1. patch \in Seq(Operation)
    BY <1>1, PatchType
  <2> QED  BY <1>1, <2>1
<1> DEFINE op == patch[1]
<1>3. OpFits(1) /\ op \in Operation /\ op.volume \in Volumes
  <2>1. OpFits(1)
    BY <1>2 DEF IInv
  <2>2. op \in Operation
    BY <1>2
  <2> QED  BY <2>1, <2>2 DEF Operation
<1>4. /\ op.place \in PlacesOf(pod)
      /\ op.new <=> ListOf(pod, op.place) = <<>>
      /\ op.volume \notin ToSet(ListOf(pod, op.place))
      /\ \E c \in Names : op.volume = VolumeName[c] /\ Due(op.place, c)
  BY <1>3 DEF OpFits
<1> HIDE DEF op
<1>5. /\ pc' = pc /\ pod' \in Pod
      /\ pod'.inject = pod.inject /\ pod'.path = pod.path
      /\ pod'.targets = pod.targets
      /\ \A l \in Lists : /\ Len(pod'[l]) = Len(pod[l])
                          /\ \A i \in 1..Len(pod[l]) :
                               pod'[l][i].name = pod[l][i].name
      /\ PlacesOf(pod') = PlacesOf(pod)
      /\ \A q \in PlacesOf(pod) :
           ListOf(pod', q) = IF q = op.place
                             THEN Append(ListOf(pod, q), op.volume)
                             ELSE ListOf(pod, q)
  <2>1. op = Head(patch)
    BY <1>2 DEF op
  <2> QED  BY <1>1, <1>3, <1>4, <2>1, ApplyEffect
<1>6. ASSUME NEW q \in PlacesOf(pod)
      PROVE  /\ ListOf(pod, q) \in Seq(Volumes)
             /\ ListOf(pod', q) \in Seq(Volumes)
             /\ ToSet(ListOf(pod', q)) =
                  ToSet(ListOf(pod, q))
                    \cup (IF q = op.place THEN {op.volume} ELSE {})
             /\ ListOf(pod', q) = <<>> <=> ListOf(pod, q) = <<>> /\ q # op.place
  <2>1. ListOf(pod, q) \in Seq(Volumes)
    BY <1>1, PlaceForms
  <2>2. CASE q = op.place
    <3>1. ListOf(pod', q) = Append(ListOf(pod, q), op.volume)
      BY <1>5, <2>2
    <3>2. ListOf(pod', q) # <<>>
      BY <2>1, <3>1
    <3> QED  BY <1>3, <2>1, <2>2, <3>1, <3>2, AppendToSet
  <2>3. CASE q # op.place
    BY <1>5, <2>1, <2>3
  <2> QED  BY <2>2, <2>3
<1>7. Kept'
  <2>1. ASSUME NEW q \in PlacesOf(pod)
        PROVE  /\ Extends(ListOf(submitted, q), ListOf(pod', q))
               /\ (\A c \in Names : ~Due(q, c)) =>
                    ListOf(pod', q) = ListOf(submitted, q)
    <3>1. /\ Extends(ListOf(submitted, q), ListOf(pod, q))
          /\ (\A c \in Names : ~Due(q, c)) =>
               ListOf(pod, q) = ListOf(submitted, q)
      BY DEF IInv, Kept
    <3>2. CASE q # op.place
      BY <1>5, <3>1, <3>2
    <3>3. CASE q = op.place
      <4> DEFINE s == ListOf(submitted, q)
                 t == ListOf(pod, q)
                 u == ListOf(pod', q)
      <4>1. /\ t \in Seq(Volumes) /\ u = Append(t, op.volume)
            /\ \E c \in Names : op.volume = VolumeName[c]
        BY <1>4, <1>5, <1>6, <3>3
      <4>2. PlacesOf(submitted) = PlacesOf(pod)
        BY DEF IInv, Kept, PlacesOf, Places
      <4>3. Len(s) \in Nat
        <5>1. s \in Seq(Volumes)
          BY <1>1, <4>2, PlaceForms
        <5> QED  BY <5>1
      <4> HIDE DEF s, t, u
      <4>4. Extends(s, t)
        BY <3>1 DEF s, t
      <4>5. /\ Len(t) \in Nat /\ Len(u) = Len(t) + 1
            /\ u[Len(t) + 1] = op.volume
            /\ \A i \in 1..Len(t) : u[i] = t[i]
        BY <4>1
      <4>6. Extends(s, u)
        BY <4>1, <4>3, <4>4, <4>5 DEF Extends
      <4> QED  BY <1>4, <3>3, <4>6 DEF s, u
    <3> QED  BY <3>2, <3>3
  <2>2. \A q \in PlacesOf(pod), c \in Names : Due(q, c)' <=> Due(q, c)
    BY <1>1 DEF Due
  <2>3. /\ pod'.inject = submitted'.inject /\ pod'.path = submitted'.path
        /\ pod'.targets = submitted'.targets
        /\ \A l \in Lists :
             /\ Len(pod'[l]) = Len(submitted'[l])
             /\ \A i \in 1..Len(pod'[l]) :
                  pod'[l][i].name = submitted'[l][i].name
    BY <1>1, <1>5 DEF IInv, Kept
  <2> QED  BY <1>1, <1>5, <2>1, <2>2, <2>3 DEF Kept
<1>8. \A n \in 1..Len(patch') : OpFits(n)'
  <2>1. ASSUME NEW n \in 1..Len(patch') PROVE OpFits(n)'
    <3>1. n + 1 \in 1..Len(patch) /\ patch'[n] = patch[n + 1] /\ n \in Nat
      BY <1>2
    <3>2. PICK next \in Operation : next = patch[n + 1] /\ next = patch'[n]
      BY <1>2, <3>1
    <3>3. OpFits(n + 1)
      BY <3>1 DEF IInv
    <3>4. /\ next.place \in PlacesOf(pod)
          /\ \E c \in Names : /\ next.volume = VolumeName[c]
                              /\ Due(next.place, c)
          /\ next.volume \notin ToSet(ListOf(pod, next.place))
          /\ \A m \in 1..n :
               patch[m].place = next.place => patch[m].volume # next.volume
          /\ next.new <=> /\ ListOf(pod, next.place) = <<>>
                          /\ \A m \in 1..n : patch[m].place # next.place
      <4>1. (n + 1) - 1 = n
        BY <3>1
      <4> QED  BY <3>2, <3>3, <4>1 DEF OpFits
    <3>5. op.place = next.place => op.volume # next.volume
      BY <3>1, <3>4 DEF op
    <3>6. next.volume \notin ToSet(ListOf(pod', next.place))
      BY <1>6, <3>4, <3>5
    <3>7. \A m \in 1..(n - 1) : m + 1 \in 1..n /\ patch'[m] = patch[m + 1]
      BY <1>2, <3>1
    <3>8. \A m \in 1..(n - 1) :
            patch'[m].place = next.place => patch'[m].volume # next.volume
      BY <3>4, <3>7
    <3>9. (\A m \in 1..n : patch[m].place # next.place)
            <=> /\ op.place # next.place
                /\ \A m \in 1..(n - 1) : patch'[m].place # next.place
      <4>1. ASSUME op.place # next.place,
                   \A m \in 1..(n - 1) : patch'[m].place # next.place,
                   NEW m \in 1..n
            PROVE  patch[m].place # next.place
        <5>1. CASE m = 1
          BY <4>1, <5>1 DEF op
        <5>2. CASE m # 1
          <6>1. m - 1 \in 1..(n - 1) /\ (m - 1) + 1 = m
            BY <3>1, <5>2
          <6> QED  BY <3>7, <4>1, <6>1
        <5> QED  BY <5>1, <5>2
      <4>2. 1 \in 1..n
        BY <3>1
      <4> QED  BY <3>7, <4>1, <4>2 DEF op
    <3>10. next.new <=> /\ ListOf(pod', next.place) = <<>>
                        /\ \A m \in 1..(n - 1) : patch'[m].place # next.place
      BY <1>6, <3>4, <3>9
    <3>11. \E c \in Names : /\ next.volume = VolumeName[c]
                            /\ Due(next.place, c)'
                            /\ ~Ahead(next.place, c)'
      <4>1. next.place[1] = "volumes" \/ next.place[1] \in Lists
        BY <1>1, <3>4, PlaceForms
      <4> QED  BY <1>1, <1>5, <3>4, <4>1 DEF Ahead, Due, Lists
    <3> QED  BY <1>5, <3>2, <3>4, <3>6, <3>8, <3>10, <3>11,
              SMTT(30) DEF OpFits, Due, Ahead
  <2> QED  BY <2>1
<1>9. Complete'
  <2>1. ASSUME NEW q \in PlacesOf(pod), NEW c \in Names, Due(q, c)'
        PROVE  \/ VolumeName[c] \in ToSet(ListOf(pod', q))
               \/ Pending(q, VolumeName[c])'
    <3>1. Due(q, c)
      BY <1>1, <2>1 DEF Due
    <3>2. ~Ahead(q, c)
      <4>1. q[1] = "volumes" \/ q[1] \in Lists
        BY <1>1, PlaceForms
      <4> QED  BY <1>1, <4>1 DEF Ahead, Lists
    <3>3. CASE VolumeName[c] \in ToSet(ListOf(pod, q))
      BY <1>6, <3>3
    <3>4. CASE Pending(q, VolumeName[c])
      <4>1. PICK n \in 1..Len(patch) : /\ patch[n].place = q
                                       /\ patch[n].volume = VolumeName[c]
        BY <3>4 DEF Pending
      <4>2. CASE n = 1
        BY <1>6, <4>1, <4>2 DEF op
      <4>3. CASE n # 1
        <5>1. n - 1 \in 1..Len(patch') /\ patch'[n - 1] = patch[n]
          BY <1>2, <4>3
        <5> QED  BY <4>1, <5>1 DEF Pending
      <4> QED  BY <4>2, <4>3
    <3> QED  BY <1>1, <3>1, <3>2, <3>3, <3>4 DEF Complete
  <2> QED  BY <1>5, <2>1 DEF Complete
<1>10. TypeOK'
  <2>1. patch' \in Seq([new : BOOLEAN, place : Places, volume : Volumes])
    BY <1>2 DEF Operation
  <2> QED  BY <1>1, <1>5, <2>1 DEF TypeOK, Lists
<1>11. Stage'
  BY <1>1, <1>5 DEF Stage, Lists
<1> QED  BY <1>7, <1>8, <1>9, <1>10, <1>11 DEF IInv

LEMMA NextIInv ==
  ASSUME IInv, [Next]_vars
  PROVE  IInv'
<1>1. CASE UNCHANGED vars
  <2>1. /\ \A n \in 1..Len(patch') : OpFits(n)'
        /\ Complete => Complete'
        /\ Kept'
    BY <1>1, NothingWritten DEF vars, Ahead
  <2> QED  BY <1>1, <2>1 DEF vars, IInv, TypeOK, Stage
<1> QED
  BY <1>1, AddVolumeIInv, AddMountIInv, InjectIInv, BetweenIInv, ResubmitIInv,
     AdmittedIInv, ApplyIInv
  DEF Next

-----------------------------------------------------------------------------
\* The invariant from which the others follow.
THEOREM InjectionInvariant == Spec => []IInv
<1>1. Init => IInv
  BY InitIInv
<1>2. IInv /\ [Next]_vars => IInv'
  BY NextIInv
<1> QED  BY <1>1, <1>2, PTL DEF Spec

\* The types hold for all pods and any number of submissions: the loops count
\* no further than there are names and containers (mutate.go:281-428).
THEOREM InjectionTypes == Spec => []TypeOK
<1>1. IInv => TypeOK
  BY DEF IInv
<1> QED  BY <1>1, InjectionInvariant, PTL

\* No patch is refused: whatever lists a pod comes with and whichever order
\* the map of targets is iterated in, each list is there when an operation
\* appends to it (mutate.go:297-334, 360-380).
THEOREM PatchApplies == Spec => []NeverRefused
<1>1. IInv => NeverRefused
  BY DEF IInv, Stage, NeverRefused
<1> QED  BY <1>1, InjectionInvariant, PTL

\* What the author of the pod wrote is left as it was (mutate.go:286-428).
THEOREM RestKept == Spec => []KeepsTheRest
<1>1. IInv => KeepsTheRest
  <2> SUFFICES ASSUME IInv PROVE KeepsTheRest
    OBVIOUS
  <2>1. /\ pod \in Pod /\ submitted \in Pod /\ Kept
        /\ PlacesOf(submitted) = PlacesOf(pod)
    BY DEF IInv, TypeOK, Kept, PlacesOf, Places
  <2>2. Extends(submitted.volumes, pod.volumes)
    <3>1. /\ <<"volumes", 0>> \in PlacesOf(pod)
          /\ ListOf(pod, <<"volumes", 0>>) = pod.volumes
          /\ ListOf(submitted, <<"volumes", 0>>) = submitted.volumes
      BY <2>1, ThePlaces
    <3> QED  BY <2>1, <3>1 DEF Kept
  <2>3. ASSUME NEW l \in Lists, NEW i \in 1..Len(pod[l])
        PROVE  /\ Extends(submitted[l][i].mounts, pod[l][i].mounts)
               /\ pod[l][i].name \notin TargetContainers(submitted) =>
                    pod[l][i].mounts = submitted[l][i].mounts
    <3> DEFINE place == <<l, i>>
    <3>1. Len(pod[l]) = Len(submitted[l]) /\ pod[l][i].name = submitted[l][i].name
      BY <2>1 DEF Kept
    <3>2. /\ place \in PlacesOf(pod) /\ place[1] # "volumes"
          /\ ListOf(pod, place) = pod[l][i].mounts
          /\ ListOf(submitted, place) = submitted[l][i].mounts
      BY <2>1, <3>1, ThePlaces DEF Lists
    <3>3. ASSUME NEW c \in Names, Due(place, c)
          PROVE  pod[l][i].name \in TargetContainers(submitted)
      BY <3>1, <3>2, <3>3 DEF Due
    <3> HIDE DEF place
    <3> QED  BY <2>1, <3>2, <3>3 DEF Kept
  <2> QED  BY <2>1, <2>2, <2>3 DEF KeepsTheRest, Kept
<1> QED  BY <1>1, InjectionInvariant, PTL

-----------------------------------------------------------------------------
(* Once                                                                    *)

\* An operation that fits repeats nothing.
LEMMA UnrepeatedStep ==
  ASSUME IInv, Unrepeated(pod), [Next]_vars
  PROVE  Unrepeated(pod)'
<1>1. CASE UNCHANGED pod
  BY <1>1 DEF Unrepeated
<1>2. CASE Resubmit
  <2>1. /\ pod \in Pod
        /\ pod'.volumes = pod.volumes
        /\ \A l \in Lists : pod'[l] = pod[l]
    BY <1>2 DEF Resubmit, IInv, TypeOK, Pod, Lists
  <2>2. PlacesOf(pod') = PlacesOf(pod)
    BY <2>1 DEF PlacesOf, Places
  <2>3. \A place \in PlacesOf(pod) : ListOf(pod', place) = ListOf(pod, place)
    <3>1. \A place \in PlacesOf(pod) :
            place[1] = "volumes" \/ place[1] \in Lists
      BY <2>1, PlaceForms
    <3> QED  BY <2>1, <3>1 DEF ListOf
  <2> QED  BY <2>2, <2>3 DEF Unrepeated
<1>3. CASE Apply
  <2>1. /\ patch \in Seq(Operation) /\ 1 \in 1..Len(patch)
        /\ Head(patch) = patch[1] /\ TypeOK
    <3>1. patch \in Seq(Operation) /\ patch # <<>> /\ TypeOK
      BY <1>3, PatchType DEF Apply, IInv
    <3> QED  BY <3>1
  <2>2. PICK op \in Operation : op = Head(patch)
    BY <2>1
  <2>3. /\ op.place \in PlacesOf(pod) /\ op.volume \in Volumes
        /\ op.new <=> ListOf(pod, op.place) = <<>>
        /\ op.volume \notin ToSet(ListOf(pod, op.place))
    <3>1. OpFits(1)
      BY <2>1 DEF IInv
    <3> QED  BY <2>1, <2>2, <3>1 DEF OpFits, Operation
  <2>4. /\ PlacesOf(pod') = PlacesOf(pod)
        /\ \A q \in PlacesOf(pod) :
             ListOf(pod', q) = IF q = op.place
                               THEN Append(ListOf(pod, q), op.volume)
                               ELSE ListOf(pod, q)
    BY <1>3, <2>1, <2>2, <2>3, ApplyEffect
  <2>5. ASSUME NEW q \in PlacesOf(pod), NEW c \in Names,
               NEW i \in 1..Len(ListOf(pod', q)),
               NEW j \in 1..Len(ListOf(pod', q)),
               ListOf(pod', q)[i] = VolumeName[c],
               ListOf(pod', q)[j] = VolumeName[c]
        PROVE  i = j
    <3> DEFINE s == ListOf(pod, q)
    <3>1. s \in Seq(Volumes)
      BY <2>1, PlaceForms DEF TypeOK
    <3>2. CASE q # op.place
      BY <2>4, <2>5, <3>2 DEF Unrepeated
    <3>3. CASE q = op.place
      <4>1. ListOf(pod', q) = Append(s, op.volume)
        BY <2>4, <3>3
      <4>2. \A k \in 1..Len(s) : s[k] # op.volume
        BY <2>3, <3>3 DEF ToSet
      <4>3. \A k \in 1..Len(Append(s, op.volume)) :
              IF k \in 1..Len(s) THEN Append(s, op.volume)[k] = s[k]
              ELSE Append(s, op.volume)[k] = op.volume /\ k = Len(s) + 1
        BY <3>1
      <4>4. \A k, m \in 1..Len(s) :
              s[k] = VolumeName[c] /\ s[m] = VolumeName[c] => k = m
        BY DEF Unrepeated
      <4> HIDE DEF s
      <4> QED  BY <2>5, <4>1, <4>2, <4>3, <4>4
    <3> QED  BY <3>2, <3>3
  <2> QED  BY <2>4, <2>5 DEF Unrepeated
<1> QED
  BY <1>1, <1>2, <1>3
  DEF Next, Skip, Inject, AddVolume, VolumesDone, AddMount, MountsDone,
      Applied, vars

\* A volume that is in a list that does not repeat it is in it once.
LEMMA TimesOne ==
  ASSUME NEW s, Len(s) \in Nat, NEW v, v \in ToSet(s),
         \A i, j \in 1..Len(s) : s[i] = v /\ s[j] = v => i = j
  PROVE  Times(v, s) = 1
<1>1. PICK k \in 1..Len(s) : s[k] = v
  BY DEF ToSet
<1>2. {i \in 1..Len(s) : s[i] = v} = {k}
  BY <1>1
<1> QED  BY <1>2, FS_Singleton DEF Times

\* When no manifest mentions the volume of a container twice to begin with,
\* an admitted pod has, in every list where it is due, every volume and mount
\* once, after any number of submissions (mutate.go:286-338, 351-381).
THEOREM MountsOnce ==
  ASSUME \A p \in Submitted : Unrepeated(p)
  PROVE  Spec => []MountedOnce
<1>1. Init => Unrepeated(pod)
  BY DEF Init
<1>2. IInv /\ Unrepeated(pod) /\ [Next]_vars => Unrepeated(pod)'
  BY UnrepeatedStep
<1>3. IInv /\ Unrepeated(pod) => MountedOnce
  <2> SUFFICES ASSUME IInv, Unrepeated(pod), pc = "admitted",
                      ShouldInject(pod), NEW c \in TargetContainers(submitted)
               PROVE  /\ Times(VolumeName[c], pod.volumes) = 1
                      /\ \A l \in Lists : \A i \in 1..Len(pod[l]) :
                           pod[l][i].name = c =>
                             Times(VolumeName[c], pod[l][i].mounts) = 1
    BY DEF MountedOnce
  <2>1. /\ pod \in Pod /\ TypeOK /\ patch = <<>> /\ Complete /\ c \in Names
    BY OpsTyped DEF IInv, TypeOK, Stage, Kept, ShouldInject
  <2>2. ASSUME NEW q \in PlacesOf(pod), Due(q, c)
        PROVE  Times(VolumeName[c], ListOf(pod, q)) = 1
    <3>1. ~Ahead(q, c)
      <4>1. q[1] = "volumes" \/ q[1] \in Lists
        BY <2>1, PlaceForms
      <4> QED  BY <4>1 DEF Ahead, Lists
    <3>2. ~Pending(q, VolumeName[c])
      BY <2>1 DEF Pending
    <3>3. VolumeName[c] \in ToSet(ListOf(pod, q))
      BY <2>1, <2>2, <3>1, <3>2 DEF Complete
    <3>4. Len(ListOf(pod, q)) \in Nat
      <4>1. ListOf(pod, q) \in Seq(Volumes)
        BY <2>1, PlaceForms
      <4> QED  BY <4>1
    <3> QED  BY <2>1, <3>3, <3>4, TimesOne DEF Unrepeated
  <2>3. Times(VolumeName[c], pod.volumes) = 1
    <3>1. /\ <<"volumes", 0>> \in PlacesOf(pod)
          /\ ListOf(pod, <<"volumes", 0>>) = pod.volumes
          /\ Due(<<"volumes", 0>>, c)
      BY <2>1, ThePlaces DEF Due
    <3> QED  BY <2>2, <3>1
  <2>4. ASSUME NEW l \in Lists, NEW i \in 1..Len(pod[l]), pod[l][i].name = c
        PROVE  Times(VolumeName[c], pod[l][i].mounts) = 1
    <3> DEFINE q == <<l, i>>
    <3>1. q \in PlacesOf(pod) /\ ListOf(pod, q) = pod[l][i].mounts
      BY <2>1, ThePlaces
    <3>2. submitted[l][i].name = c
      BY <2>4 DEF IInv, Kept
    <3>3. Due(q, c)
      BY <3>2 DEF Due
    <3> HIDE DEF q
    <3> QED  BY <2>2, <3>1, <3>3
  <2> QED  BY <2>3, <2>4
<1> QED  BY <1>1, <1>2, <1>3, InjectionInvariant, PTL DEF Spec
=============================================================================
