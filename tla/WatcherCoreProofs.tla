-------------------------- MODULE WatcherCoreProofs --------------------------
(***************************************************************************)
(* For every set of cores, queue limit and number of removals and crashes: *)
(* a core the watcher was told of is sent or on its way, even when its     *)
(* path was captured and removed before.                                   *)
(*                                                                         *)
(* What has to be shown is that the mark of a path goes in time.  It goes  *)
(* with the event of the removal, and that event is lost when the watch of *)
(* the directory is taken away while the marked file is there.  A watch is *)
(* taken away by the late event of a removal of a directory that is there  *)
(* again.  The invariant says that such an event is handled before the     *)
(* events of any core that was dumped since.                               *)
(***************************************************************************)
EXTENDS WatcherProofs

-----------------------------------------------------------------------------
(* The obligations an event queue has towards a core                       *)

\* Handling the event e takes away the watch of d, or its mark.
Undoes(e, d) == e.path = d /\ e.op \in {"remove", "rename"}

\* Handling the event e captures the core f, unless it is marked.
Feeds(e, f) == e \in {Event("create", f), Event("write", f)}

\* Nothing behind position i of q takes away the watch of d.
Calm(q, i, d) == \A k \in (i + 1)..Len(q) : ~Undoes(q[k], d)

\* Behind position i the mark of f goes before the watch of its directory.
Unmarking(q, i, f) ==
  \E j \in (i + 1)..Len(q) :
    /\ q[j] = Event("remove", f)
    /\ \A k \in (i + 1)..(j - 1) : ~Undoes(q[k], Parent[f])

\* A mark set when the events up to i are handled will not outlive its file.
Safe(q, i, f, live) == (live /\ Calm(q, i, Parent[f])) \/ Unmarking(q, i, f)

\* The directory d is created again between positions i and j.
Renewed(q, i, j, d) == \E k \in (i + 1)..(j - 1) : q[k] = Event("create", d)

\* Between the end of the directory of f and the first event of f in the next
\* directory of that name is the creation of that one.
Ordered(q, f, there) ==
  /\ \A i, j \in 1..Len(q) :
       i < j /\ Undoes(q[i], Parent[f]) /\ q[j].path = f
         => Renewed(q, i, j, Parent[f])
  /\ there => \A i \in 1..Len(q) :
                Undoes(q[i], Parent[f]) => Renewed(q, i, Len(q) + 1, Parent[f])

\* An event will have f captured, and before it the mark of f goes.
Waiting(q, f, marked) ==
  \E i \in 1..Len(q) :
    /\ Feeds(q[i], f)
    /\ marked => \E j \in 1..(i - 1) : q[j] = Event("remove", f)

\* The file is there and its removal would be reported.
Live(f) == Exists(f) /\ Parent[f] \in watches

\* The dump that is there now was sent, or is being sent.
Sent(f) == captures[f][disk[f].gen] > 0 \/ (pc = "sending" /\ ev = f)

-----------------------------------------------------------------------------
(* The invariant                                                           *)

DirsLost == Disturbances \cap {"rmdir", "mvdir"} # {}

\* What the proof asks of operators and of the core_pattern: cores are not
\* moved away, a path is not dumped to while there is a core, and if
\* directories are removed or moved, they are entries of CorefileDir.
Undisturbed ==
  /\ Disturbances \cap {"mvcore", "reuse"} = {}
  /\ DirsLost => \A f \in Files : Parent[f] = Root \/ Parent[Parent[f]] = Root

\* CorefileDir is the first to be watched and stays so: nothing is reported
\* otherwise, and CorefileDir is not removed.
RootInv ==
  /\ watches # {} \/ queue # <<>> \/ pc \in {"adding", "walking"}
       => Root \in watches
  /\ pc \in {"down", "boot"} => ev = NoPath
  /\ pc = "down" => cur = NoPath
  /\ pc = "boot" => \/ Root \in watches
                    \/ cur = Root
                    \/ cur = NoPath /\ todo \subseteq {Root}
  /\ \A i \in 1..Len(queue), x \in Dirs :
       Undoes(queue[i], x) => x # Root /\ DirsLost

\* The mark is safe wherever it is set: by an event that waits, by the probe
\* that sleeps, and once it is there.
FeedsSafe(f) ==
  \A i \in 1..Len(queue) :
    Feeds(queue[i], f) => Safe(queue, i, f, Live(f))

ProbeSafe(f) ==
  pc = "sleeping" /\ ev = f => Safe(queue, 0, f, Live(f))

MarkSafe(f) ==
  f \in processed => Safe(queue, 0, f, Live(f) /\ Sent(f))

InOrder(f) == Ordered(queue, f, Parent[f] \in dirs)

OnItsWay(f) ==
  \/ disk[f].phase \in {"absent", "emptied"}
  \/ captures[f][disk[f].gen] > 0
  \/ pc \in {"sleeping", "sending"} /\ ev = f
  \/ Waiting(queue, f, f \in processed)

CoreOK(f) ==
  /\ FeedsSafe(f) /\ ProbeSafe(f) /\ MarkSafe(f) /\ InOrder(f)
  /\ f \in heard => OnItsWay(f)

CoreInv == RootInv /\ (~Deaf => \A f \in Files : CoreOK(f))

-----------------------------------------------------------------------------
(* Queues                                                                  *)

LEMMA EventFacts ==
  ASSUME NEW f \in Files
  PROVE  /\ Parent[f] \in Dirs /\ Parent[f] # f /\ f \notin Dirs /\ f \in Paths
         /\ \A e : Feeds(e, f) => /\ e.path = f /\ e # Event("remove", f)
                                  /\ ~Undoes(e, Parent[f])
         /\ \A op : /\ Event(op, f).path = f /\ Event(op, f).op = op
                    /\ ~Undoes(Event(op, f), Parent[f])
         /\ \A e : Undoes(e, Parent[f]) =>
              /\ e.path = Parent[f] /\ e # Event("remove", f)
              /\ e # Event("create", Parent[f]) /\ ~Feeds(e, f)
         /\ Stray.path # f /\ Stray.path # Parent[f]
         /\ \A x \in Dirs : ~Undoes(Stray, x) /\ ~Undoes(Overflow, x)
<1>1. Parent[f] \in Dirs /\ f \notin Dirs /\ f \in Paths
  BY WatcherAssumption DEF Paths
<1>2. NoPath \notin Paths /\ Dirs \subseteq Paths
  BY WatcherAssumption DEF Paths
<1> QED  BY <1>1, <1>2, EventsAboutNothing DEF Feeds, Undoes, Event

\* What is appended to a queue.
LEMMA AppendFacts ==
  ASSUME NEW q \in Seq(AllEvents), NEW e \in AllEvents
  PROVE  /\ Len(q) \in Nat
         /\ Append(q, e) \in Seq(AllEvents)
         /\ Len(Append(q, e)) = Len(q) + 1
         /\ Append(q, e)[Len(q) + 1] = e
         /\ \A i \in 1..Len(q) : Append(q, e)[i] = q[i]
  OBVIOUS

LEMMA TailFacts ==
  ASSUME NEW q \in Seq(AllEvents), q # <<>>
  PROVE  /\ Len(q) \in Nat \ {0}
         /\ Tail(q) \in Seq(AllEvents)
         /\ Len(Tail(q)) = Len(q) - 1
         /\ \A i \in 1..Len(Tail(q)) : Tail(q)[i] = q[i + 1]
         /\ Head(q) = q[1] /\ Head(q) \in AllEvents
  OBVIOUS

\* A report keeps what is safe safe, when the file stays and the report does
\* not undo the watch, or when it is the removal of the file.
LEMMA SafeReported ==
  ASSUME NEW q \in Seq(AllEvents), NEW e \in AllEvents,
         NEW r \in {q, Append(q, e)}, NEW f \in Files, NEW i \in 0..Len(q),
         NEW live, NEW later, Safe(q, i, f, live),
         live => \/ later /\ (Undoes(e, Parent[f]) => r = q)
                 \/ i < Len(r) /\ r[Len(r)] = Event("remove", f)
  PROVE  Safe(r, i, f, later)
<1>1. /\ r \in Seq(AllEvents) /\ Len(r) \in Nat /\ Len(q) \in Nat
      /\ Len(q) <= Len(r) /\ Len(r) <= Len(q) + 1
      /\ \A k \in 1..Len(q) : r[k] = q[k]
      /\ r # q => Len(r) = Len(q) + 1 /\ r[Len(q) + 1] = e
  BY AppendFacts
<1>2. CASE Unmarking(q, i, f)
  <2>1. PICK j \in (i + 1)..Len(q) :
          /\ q[j] = Event("remove", f)
          /\ \A k \in (i + 1)..(j - 1) : ~Undoes(q[k], Parent[f])
    BY <1>2 DEF Unmarking
  <2>2. j \in (i + 1)..Len(r) /\ r[j] = Event("remove", f)
    BY <1>1, <2>1
  <2>3. \A k \in (i + 1)..(j - 1) : ~Undoes(r[k], Parent[f])
    BY <1>1, <2>1
  <2> QED  BY <2>2, <2>3 DEF Safe, Unmarking
<1>3. CASE live /\ Calm(q, i, Parent[f])
  <2>1. \A k \in (i + 1)..Len(q) : ~Undoes(r[k], Parent[f])
    BY <1>1, <1>3 DEF Calm
  <2>2. CASE later /\ (Undoes(e, Parent[f]) => r = q)
    <3>1. \A k \in (i + 1)..Len(r) : ~Undoes(r[k], Parent[f])
      BY <1>1, <2>1, <2>2
    <3> QED  BY <2>2, <3>1 DEF Safe, Calm
  <2>3. CASE i < Len(r) /\ r[Len(r)] = Event("remove", f)
    <3>1. Len(r) \in (i + 1)..Len(r)
      BY <1>1, <2>3
    <3>2. \A k \in (i + 1)..(Len(r) - 1) : ~Undoes(r[k], Parent[f])
      BY <1>1, <2>1
    <3> QED  BY <2>3, <3>1, <3>2 DEF Safe, Unmarking
  <2> QED  BY <1>3, <2>2, <2>3
<1> QED  BY <1>2, <1>3 DEF Safe

\* So does the handling of an event that is not the removal of the file.
LEMMA SafeTail ==
  ASSUME NEW q \in Seq(AllEvents), q # <<>>, NEW f \in Files, NEW live,
         NEW i \in 0..Len(q), Safe(q, i, f, live),
         i = 0 => Head(q) # Event("remove", f)
  PROVE  Safe(Tail(q), IF i = 0 THEN 0 ELSE i - 1, f, live)
<1> DEFINE h == IF i = 0 THEN 0 ELSE i - 1
           r == Tail(q)
<1>1. /\ Len(q) \in Nat \ {0} /\ Len(r) = Len(q) - 1
      /\ \A k \in 1..Len(r) : r[k] = q[k + 1]
      /\ Head(q) = q[1]
  BY TailFacts
<1>2. h \in Nat /\ h + 1 >= i /\ i \in Nat
  OBVIOUS
<1> HIDE DEF h, r
<1>3. CASE live /\ Calm(q, i, Parent[f])
  <2>1. ASSUME NEW k \in (h + 1)..Len(r) PROVE ~Undoes(r[k], Parent[f])
    <3>1. k + 1 \in (i + 1)..Len(q) /\ k \in 1..Len(r)
      BY <1>1, <1>2
    <3> QED  BY <1>1, <1>3, <3>1 DEF Calm
  <2> QED  BY <1>3, <2>1 DEF Safe, Calm, h, r
<1>4. CASE Unmarking(q, i, f)
  <2>1. PICK j \in (i + 1)..Len(q) :
          /\ q[j] = Event("remove", f)
          /\ \A k \in (i + 1)..(j - 1) : ~Undoes(q[k], Parent[f])
    BY <1>4 DEF Unmarking
  <2>2. j # 1
    BY <1>1, <2>1
  <2>3. j - 1 \in (h + 1)..Len(r) /\ r[j - 1] = Event("remove", f)
    <3>1. j - 1 >= h + 1
      BY <2>1, <2>2 DEF h
    <3>2. j - 1 \in 1..Len(r) /\ (j - 1) + 1 = j
      BY <1>1, <2>1, <2>2
    <3>3. r[j - 1] = q[(j - 1) + 1]
      BY <1>1, <3>2
    <3> QED  BY <1>2, <2>1, <3>1, <3>2, <3>3
  <2>4. ASSUME NEW k \in (h + 1)..((j - 1) - 1) PROVE ~Undoes(r[k], Parent[f])
    <3>1. k + 1 \in (i + 1)..(j - 1) /\ k \in 1..Len(r)
      BY <1>1, <1>2, <2>1
    <3> QED  BY <1>1, <2>1, <3>1
  <2> QED  BY <2>3, <2>4 DEF Safe, Unmarking, h, r
<1> QED  BY <1>3, <1>4 DEF Safe

\* The order of events is kept by reports, when cores are reported from
\* directories that are there, and a directory that is there again is reported.
LEMMA OrderedReported ==
  ASSUME NEW q \in Seq(AllEvents), NEW e \in AllEvents,
         NEW r \in {q, Append(q, e)}, NEW f \in Files,
         NEW there, NEW later, Ordered(q, f, there),
         r # q /\ e.path = f => there,
         r # q /\ Undoes(e, Parent[f]) => ~later,
         later /\ ~there =>
           \/ \A i \in 1..Len(q) : ~Undoes(q[i], Parent[f])
           \/ r # <<>> /\ r[Len(r)] = Event("create", Parent[f])
  PROVE  Ordered(r, f, later)
<1> DEFINE d == Parent[f]
<1>1. /\ r \in Seq(AllEvents) /\ Len(r) \in Nat /\ Len(q) \in Nat
      /\ Len(q) <= Len(r) /\ Len(r) <= Len(q) + 1
      /\ \A k \in 1..Len(q) : r[k] = q[k]
      /\ Len(r) # Len(q) => /\ r # q /\ Len(r) = Len(q) + 1
                            /\ r[Len(q) + 1] = e
  BY AppendFacts
<1>2. ASSUME NEW i \in 1..Len(q), NEW j \in 1..(Len(q) + 1), Renewed(q, i, j, d)
      PROVE  Renewed(r, i, j, d)
  BY <1>1, <1>2 DEF Renewed
<1>3. ASSUME NEW i \in 1..Len(r), NEW j \in 1..Len(r), i < j,
             Undoes(r[i], d), r[j].path = f
      PROVE  Renewed(r, i, j, d)
  <2>1. i \in 1..Len(q) /\ Undoes(q[i], d) /\ j \in 1..(Len(q) + 1)
    BY <1>1, <1>3
  <2>2. CASE j \in 1..Len(q)
    <3>1. q[j].path = f
      BY <1>1, <1>3, <2>2
    <3> QED  BY <1>2, <1>3, <2>1, <2>2, <3>1 DEF Ordered
  <2>3. CASE j = Len(q) + 1
    <3>1. Len(r) # Len(q)
      BY <1>1, <1>3, <2>3
    <3>2. there
      BY <1>1, <1>3, <2>3, <3>1
    <3> QED  BY <1>2, <2>1, <2>3, <3>2 DEF Ordered
  <2> QED  BY <1>1, <2>1, <2>2, <2>3
<1>4. ASSUME later, NEW i \in 1..Len(r), Undoes(r[i], d)
      PROVE  Renewed(r, i, Len(r) + 1, d)
  <2>1. i \in 1..Len(q) /\ Undoes(q[i], d)
    BY <1>1, <1>4
  <2>2. CASE there
    <3>1. Renewed(r, i, Len(q) + 1, d)
      BY <1>1, <1>2, <2>1, <2>2 DEF Ordered
    <3>2. \A k \in (i + 1)..((Len(q) + 1) - 1) : k \in (i + 1)..((Len(r) + 1) - 1)
      BY <1>1
    <3> QED  BY <3>1, <3>2 DEF Renewed
  <2>3. CASE ~there
    <3>1. r # <<>> /\ r[Len(r)] = Event("create", d)
      BY <1>4, <2>1, <2>3
    <3>2. i # Len(r)
      BY <1>4, <3>1, EventFacts
    <3>3. Len(r) \in (i + 1)..((Len(r) + 1) - 1)
      BY <1>1, <1>4, <3>2
    <3> QED  BY <3>1, <3>3 DEF Renewed
  <2> QED  BY <2>2, <2>3
<1> QED  BY <1>3, <1>4 DEF Ordered

LEMMA OrderedTail ==
  ASSUME NEW q \in Seq(AllEvents), q # <<>>, NEW f \in Files, NEW there,
         Ordered(q, f, there)
  PROVE  Ordered(Tail(q), f, there)
<1> DEFINE d == Parent[f]
           r == Tail(q)
<1>1. /\ Len(q) \in Nat \ {0} /\ Len(r) = Len(q) - 1
      /\ \A k \in 1..Len(r) : r[k] = q[k + 1]
  BY TailFacts
<1> HIDE DEF r
<1>2. ASSUME NEW i \in 1..Len(r), NEW j \in 1..(Len(r) + 1),
             Renewed(q, i + 1, j + 1, d)
      PROVE  Renewed(r, i, j, d)
  <2>1. PICK k \in ((i + 1) + 1)..((j + 1) - 1) : q[k] = Event("create", d)
    BY <1>2 DEF Renewed
  <2>2. k - 1 \in (i + 1)..(j - 1) /\ k - 1 \in 1..Len(r) /\ (k - 1) + 1 = k
    BY <1>1, <2>1
  <2>3. r[k - 1] = q[(k - 1) + 1]
    BY <1>1, <2>2
  <2> QED  BY <2>1, <2>2, <2>3 DEF Renewed
<1>3. ASSUME NEW i \in 1..Len(r), NEW j \in 1..Len(r), i < j,
             Undoes(r[i], d), r[j].path = f
      PROVE  Renewed(r, i, j, d)
  <2>1. i + 1 \in 1..Len(q) /\ j + 1 \in 1..Len(q) /\ i + 1 < j + 1
    BY <1>1, <1>3
  <2>2. Undoes(q[i + 1], d) /\ q[j + 1].path = f
    BY <1>1, <1>3
  <2>3. Renewed(q, i + 1, j + 1, d)
    BY <2>1, <2>2 DEF Ordered
  <2> QED  BY <1>1, <1>2, <2>3
<1>4. ASSUME there, NEW i \in 1..Len(r), Undoes(r[i], d)
      PROVE  Renewed(r, i, Len(r) + 1, d)
  <2>1. i + 1 \in 1..Len(q) /\ Undoes(q[i + 1], d)
    BY <1>1, <1>4
  <2>2. Renewed(q, i + 1, Len(q) + 1, d) /\ (Len(r) + 1) + 1 = Len(q) + 1
    BY <1>1, <1>4, <2>1 DEF Ordered
  <2> QED  BY <1>1, <1>2, <2>2
<1> QED  BY <1>3, <1>4 DEF Ordered, r

\* A core that waits to be captured goes on waiting.
LEMMA WaitingReported ==
  ASSUME NEW q \in Seq(AllEvents), NEW e \in AllEvents,
         NEW r \in {q, Append(q, e)}, NEW f \in Files,
         NEW marked, NEW later, Waiting(q, f, marked), later => marked
  PROVE  Waiting(r, f, later)
<1>1. /\ Len(r) \in Nat /\ Len(q) \in Nat /\ Len(q) <= Len(r)
      /\ \A k \in 1..Len(q) : r[k] = q[k]
  BY AppendFacts
<1>2. PICK i \in 1..Len(q) :
        /\ Feeds(q[i], f)
        /\ marked => \E j \in 1..(i - 1) : q[j] = Event("remove", f)
  BY DEF Waiting
<1>3. i \in 1..Len(r) /\ r[i] = q[i] /\ \A j \in 1..(i - 1) : r[j] = q[j]
  BY <1>1, <1>2
<1> QED  BY <1>2, <1>3 DEF Waiting

LEMMA WaitingTail ==
  ASSUME NEW q \in Seq(AllEvents), q # <<>>, NEW f \in Files,
         NEW marked, NEW later, Waiting(q, f, marked), later => marked,
         Head(q) = Event("remove", f) => ~later,
         Feeds(Head(q), f) => marked
  PROVE  Waiting(Tail(q), f, later)
<1> DEFINE r == Tail(q)
<1>1. /\ Len(q) \in Nat \ {0} /\ Len(r) = Len(q) - 1
      /\ \A k \in 1..Len(r) : r[k] = q[k + 1]
      /\ Head(q) = q[1]
  BY TailFacts
<1> HIDE DEF r
<1>2. PICK i \in 1..Len(q) :
        /\ Feeds(q[i], f)
        /\ marked => \E j \in 1..(i - 1) : q[j] = Event("remove", f)
  BY DEF Waiting
<1>3. i # 1
  BY <1>1, <1>2
<1>4. i - 1 \in 1..Len(r) /\ (i - 1) + 1 = i
  BY <1>1, <1>2, <1>3
<1>5. r[i - 1] = q[i]
  BY <1>1, <1>4
<1>6. ASSUME later PROVE \E j \in 1..((i - 1) - 1) : r[j] = Event("remove", f)
  <2>1. PICK j \in 1..(i - 1) : q[j] = Event("remove", f)
    BY <1>2, <1>6
  <2>2. j # 1
    BY <1>1, <1>6, <2>1
  <2>3. j - 1 \in 1..((i - 1) - 1) /\ j - 1 \in 1..Len(r) /\ (j - 1) + 1 = j
    BY <1>1, <1>2, <2>1, <2>2
  <2> QED  BY <1>1, <2>1, <2>3
<1> QED  BY <1>2, <1>4, <1>5, <1>6 DEF Waiting, r

\* A report of a core that is last in the queue waits, if no mark stays.
LEMMA WaitingLast ==
  ASSUME NEW r \in Seq(AllEvents), r # <<>>, NEW f \in Files, NEW marked,
         Feeds(r[Len(r)], f), marked => Has(r, Event("remove", f))
  PROVE  Waiting(r, f, marked)
<1>1. Len(r) \in 1..Len(r) /\ Len(r) \in Nat
  OBVIOUS
<1>2. ASSUME marked PROVE \E j \in 1..(Len(r) - 1) : r[j] = Event("remove", f)
  <2>1. PICK j \in 1..Len(r) : r[j] = Event("remove", f)
    BY <1>2 DEF Has
  <2>2. j # Len(r)
    BY <2>1, EventFacts
  <2> QED  BY <1>1, <2>1, <2>2
<1> QED  BY <1>1, <1>2 DEF Waiting

\* Forgetting the names below p spares what concerns a core elsewhere.
LEMMA StrayedElsewhere ==
  ASSUME NEW q \in Seq(AllEvents), NEW p \in Paths, NEW read \in {0, 1},
         NEW f \in Files, Parent[f] # p, Parent[Parent[f]] # p
  PROVE  LET r == Strayed(q, p, read)
         IN  /\ \A i \in 1..Len(r) : Feeds(r[i], f) => i \in 1..Len(q) /\ Feeds(q[i], f)
             /\ \A live : \A i \in 0..Len(r) :
                  Safe(q, i, f, live) => Safe(r, i, f, live)
             /\ \A there : Ordered(q, f, there) => Ordered(r, f, there)
             /\ \A marked : Waiting(q, f, marked) => Waiting(r, f, marked)
<1> DEFINE r == Strayed(q, p, read)
           d == Parent[f]
<1>1. Len(r) = Len(q) /\ Len(q) \in Nat
  BY StrayedKeeps
<1>2. \A i \in 1..Len(q) :
        \/ r[i] = q[i]
        \/ r[i] = Stray /\ q[i].path # f /\ q[i].path # d
  BY DEF Strayed
<1> HIDE DEF r
<1>3. \A i \in 1..Len(q) :
        /\ Feeds(r[i], f) <=> Feeds(q[i], f)
        /\ Undoes(r[i], d) <=> Undoes(q[i], d)
        /\ r[i].path = f <=> q[i].path = f
        /\ r[i] = Event("remove", f) <=> q[i] = Event("remove", f)
        /\ q[i] = Event("create", d) => r[i] = q[i]
  <2>1. Event("create", d).path = d
    BY EventsAboutNothing
  <2>2. Stray # Event("remove", f)
    BY EventFacts
  <2> QED  BY <1>2, <2>1, <2>2, EventFacts
<1>4. \A live : \A i \in 0..Len(r) : Safe(q, i, f, live) => Safe(r, i, f, live)
  <2> SUFFICES ASSUME NEW i \in 0..Len(q), NEW live, Safe(q, i, f, live)
               PROVE  Safe(r, i, f, live)
    BY <1>1
  <2>1. \A k \in (i + 1)..Len(q) : k \in 1..Len(q)
    BY <1>1
  <2>2. CASE live /\ Calm(q, i, d)
    BY <1>1, <1>3, <2>1, <2>2 DEF Safe, Calm
  <2>3. CASE Unmarking(q, i, f)
    <3>1. PICK j \in (i + 1)..Len(q) :
            /\ q[j] = Event("remove", f)
            /\ \A k \in (i + 1)..(j - 1) : ~Undoes(q[k], d)
      BY <2>3 DEF Unmarking
    <3>2. \A k \in (i + 1)..(j - 1) : k \in 1..Len(q)
      BY <1>1, <3>1
    <3> QED  BY <1>1, <1>3, <2>1, <3>1, <3>2 DEF Safe, Unmarking
  <2> QED  BY <2>2, <2>3 DEF Safe
<1>5. ASSUME NEW there, Ordered(q, f, there) PROVE Ordered(r, f, there)
  <2>1. ASSUME NEW i \in 1..Len(q), NEW j \in 1..(Len(q) + 1), Renewed(q, i, j, d)
        PROVE  Renewed(r, i, j, d)
    <3>1. PICK k \in (i + 1)..(j - 1) : q[k] = Event("create", d)
      BY <2>1 DEF Renewed
    <3>2. k \in 1..Len(q)
      BY <1>1, <3>1
    <3> QED  BY <1>3, <3>1, <3>2 DEF Renewed
  <2>2. Len(q) + 1 \in 1..(Len(q) + 1) /\ \A j \in 1..Len(q) : j \in 1..(Len(q) + 1)
    BY <1>1
  <2> QED  BY <1>1, <1>3, <1>5, <2>1, <2>2 DEF Ordered
<1>6. ASSUME NEW marked, Waiting(q, f, marked) PROVE Waiting(r, f, marked)
  <2>1. PICK i \in 1..Len(q) :
          /\ Feeds(q[i], f)
          /\ marked => \E j \in 1..(i - 1) : q[j] = Event("remove", f)
    BY <1>6 DEF Waiting
  <2>2. \A j \in 1..(i - 1) : j \in 1..Len(q)
    BY <1>1, <2>1
  <2> QED  BY <1>1, <1>3, <2>1, <2>2 DEF Waiting
<1> QED  BY <1>1, <1>3, <1>4, <1>5, <1>6 DEF r

-----------------------------------------------------------------------------
(* CorefileDir is watched as soon as anything is                           *)

\* No event of the queue undoes what it must not.
EndsOK(q) ==
  \A i \in 1..Len(q), x \in Dirs : Undoes(q[i], x) => x # Root /\ DirsLost

LEMMA EndsTail ==
  ASSUME QueueOK, queue # <<>>, EndsOK(queue)
  PROVE  EndsOK(Tail(queue))
<1>1. \A i \in 1..Len(Tail(queue)) :
        i + 1 \in 1..Len(queue) /\ Tail(queue)[i] = queue[i + 1]
  BY TailFacts DEF QueueOK
<1> QED  BY <1>1 DEF EndsOK

LEMMA EndsStrayed ==
  ASSUME NEW q \in Seq(AllEvents), EndsOK(q), NEW p \in Paths, NEW read \in {0, 1}
  PROVE  EndsOK(Strayed(q, p, read))
<1>1. Len(Strayed(q, p, read)) = Len(q)
  BY StrayedKeeps
<1>2. \A i \in 1..Len(q) : \/ Strayed(q, p, read)[i] = q[i]
                           \/ Strayed(q, p, read)[i] = Stray
  BY DEF Strayed
<1>3. \A x \in Dirs : ~Undoes(Stray, x)
  BY EventsAboutNothing, WatcherAssumption DEF Undoes, Paths
<1> QED  BY <1>1, <1>2, <1>3 DEF EndsOK

LEMMA EndsReported ==
  ASSUME TypeOK, EndsOK(queue), NEW op \in Ops, NEW p \in Paths,
         Report(op, p) \/ ReportGone(op, p),
         p \in Dirs /\ op \in {"remove", "rename"} => p # Root /\ DirsLost
  PROVE  EndsOK(queue')
<1> DEFINE e == Event(op, p)
<1>1. queue \in Seq(AllEvents) /\ e \in AllEvents /\ Overflow \in AllEvents
  BY EventsAboutNothing DEF TypeOK, QueueOK
<1>2. e.path = p /\ e.op = op
  BY EventsAboutNothing
<1>3. \A x \in Dirs : /\ Undoes(e, x) => x # Root /\ DirsLost
                      /\ ~Undoes(Overflow, x)
  BY <1>2, EventsAboutNothing, WatcherAssumption DEF Undoes, Paths
<1> HIDE DEF e
<1>4. ASSUME NEW x \in {e, Overflow}, queue' = Append(queue, x)
      PROVE  EndsOK(queue')
  <2>1. /\ Len(queue') = Len(queue) + 1 /\ queue'[Len(queue) + 1] = x
        /\ Len(queue) \in Nat
        /\ \A i \in 1..Len(queue) : queue'[i] = queue[i]
    BY <1>1, <1>4, AppendFacts
  <2> QED  BY <1>3, <1>4, <2>1 DEF EndsOK
<1> QED  BY <1>4 DEF Report, ReportGone, Delivered, e

\* Something is reported only below a watched directory.
LEMMA ReportWatched ==
  ASSUME NEW op, NEW p, Report(op, p) \/ ReportGone(op, p),
         watches # {} \/ queue # <<>> => Root \in watches
  PROVE  queue' # <<>> => Root \in watches
  BY DEF Report, ReportGone

LEMMA RootNode == TypeOK /\ RootInv /\ NodeStep => RootInv'
<1> SUFFICES ASSUME TypeOK, RootInv, NodeStep PROVE RootInv'
  OBVIOUS
<1>1. EndsOK(queue) /\ (watches # {} \/ queue # <<>> => Root \in watches)
  BY DEF RootInv, EndsOK
<1>2. ASSUME EndsOK(queue'), queue' # <<>> => Root \in watches,
             watches' \subseteq watches, Root \in watches => Root \in watches',
             UNCHANGED <<pc, ev, walkVars>>
      PROVE  RootInv'
  BY <1>2 DEF RootInv, EndsOK, walkVars
<1>3. Dirs \subseteq Paths /\ Files \subseteq Paths /\ Dirs \cap Files = {}
  BY WatcherAssumption DEF Paths
<1>4. ASSUME NEW d \in Dirs, MkDir(d) PROVE RootInv'
  <2>1. Report("create", d) /\ "create" \in Ops
    BY <1>4 DEF MkDir, Ops
  <2> QED  BY <1>1, <1>2, <1>3, <1>4, <2>1, EndsReported, ReportWatched
           DEF MkDir
<1>5. ASSUME NEW d \in Dirs, RmDir(d) \/ MvDir(d) PROVE RootInv'
  <2>1. PICK op \in {"remove", "rename"} : LoseDir(op, d) /\ DirsLost
    BY <1>5 DEF RmDir, MvDir, DirsLost
  <2>2. ReportGone(op, d) /\ op \in Ops /\ d # Root
    BY <2>1 DEF LoseDir, Ops
  <2> QED  BY <1>1, <1>2, <1>3, <2>1, <2>2, EndsReported, ReportWatched
           DEF LoseDir
<1>6. ASSUME NEW f \in Files, CoreBegin(f) PROVE RootInv'
  <2>1. PICK op \in Ops : Report(op, f)
    BY <1>6 DEF CoreBegin, Ops
  <2> QED  BY <1>1, <1>2, <1>3, <1>6, <2>1, EndsReported, ReportWatched
           DEF CoreBegin
<1>7. ASSUME NEW f \in Files, CoreWrite(f) PROVE RootInv'
  <2>1. Report("write", f) /\ "write" \in Ops
    BY <1>7 DEF CoreWrite, Ops
  <2> QED  BY <1>1, <1>2, <1>3, <1>7, <2>1, EndsReported, ReportWatched
           DEF CoreWrite
<1>8. ASSUME NEW f \in Files, NEW op \in {"remove", "rename"}, LoseCore(op, f)
      PROVE  RootInv'
  <2>1. Report(op, f) /\ op \in Ops
    BY <1>8 DEF LoseCore, Ops
  <2> QED  BY <1>1, <1>2, <1>3, <1>8, <2>1, EndsReported, ReportWatched
           DEF LoseCore
<1> QED  BY <1>4, <1>5, <1>6, <1>7, <1>8 DEF NodeStep, Purge, MvCore

LEMMA RootProcess ==
  TypeOK /\ RootInv /\ (Start \/ Crash \/ WalkStep \/ AddNewDir) => RootInv'
<1> SUFFICES ASSUME TypeOK, RootInv, Start \/ Crash \/ WalkStep \/ AddNewDir
             PROVE  RootInv'
  OBVIOUS
<1> USE WatcherAssumption DEF nodeVars, walkVars, fileVars
<1>1. ProcessLost => RootInv'
  BY DEF ProcessLost, RootInv
<1>2. CASE Start
  BY <1>2 DEF Start, RootInv
<1>3. CASE Crash
  BY <1>1, <1>3 DEF Crash
<1>4. ASSUME NEW p \in Paths, WalkDir(p) PROVE RootInv'
  <2>1. /\ UNCHANGED <<watches, queue, pc, ev>> /\ p \in todo /\ cur' = p
        /\ pc \in {"walking", "boot"} /\ cur = NoPath /\ NoPath # Root
    BY <1>4 DEF WalkDir, Paths
  <2> QED  BY <2>1 DEF RootInv
<1>5. ASSUME NEW p \in Paths, WalkFile(p) PROVE RootInv'
  <2>1. /\ UNCHANGED <<watches, queue, pc, ev, cur>> /\ todo' \subseteq todo
        /\ pc \in {"walking", "boot"} /\ cur = NoPath
    BY <1>5 DEF WalkFile
  <2> QED  BY <2>1 DEF RootInv
<1>6. ASSUME NEW p \in Paths, WalkGone(p) PROVE RootInv'
  <2>1. CASE ProcessLost
    BY <1>1, <2>1
  <2>2. CASE ~ProcessLost
    <3>1. /\ UNCHANGED <<watches, queue, pc, ev, cur>>
          /\ pc \in {"walking", "boot"}
          /\ pc = "boot" => cur = NoPath /\ todo' = {}
      BY <1>6, <2>2 DEF WalkGone
    <3> QED  BY <3>1 DEF RootInv
  <2> QED  BY <2>1, <2>2
<1>7. CASE WalkAdd
  BY <1>7 DEF WalkAdd, AddWatch, AddFails, RootInv
<1>8. CASE WalkDone
  BY <1>8 DEF WalkDone, RootInv
<1>9. CASE AddNewDir
  BY <1>9 DEF AddNewDir, AddWatch, AddFails, RootInv
<1> QED  BY <1>2, <1>3, <1>4, <1>5, <1>6, <1>7, <1>8, <1>9 DEF WalkStep

LEMMA RootTake == TypeOK /\ RootInv /\ TakeStep => RootInv'
<1> SUFFICES ASSUME TypeOK, RootInv, TakeStep PROVE RootInv'
  OBVIOUS
<1> USE DEF nodeVars, walkVars, fileVars
<1>1. QueueOK /\ queue # <<>> /\ pc = "idle" /\ EndsOK(queue)
  BY DEF TypeOK, RootInv, EndsOK, TakeStep, TakeDirCreate, TakeCore, TakeIdly,
         TakeRemove, TakeRename, TakeStray, TakeOverflow, Receives
<1>2. Root \in watches
  BY <1>1 DEF RootInv
<1>3. ASSUME EndsOK(queue'), Root \in watches', pc' \notin {"down", "boot"}
      PROVE  RootInv'
  BY <1>3 DEF RootInv, EndsOK
<1>4. ASSUME queue' = Tail(queue), UNCHANGED watches, pc' \notin {"down", "boot"}
      PROVE  RootInv'
  BY <1>1, <1>2, <1>3, <1>4, EndsTail
<1>5. ASSUME NEW p \in Paths, NEW op \in {"remove", "rename"},
             Receives(Event(op, p)), RemoveWatch(p, Tail(queue)), UNCHANGED pc
      PROVE  RootInv'
  <2>1. queue[1] = Event(op, p) /\ 1 \in 1..Len(queue)
    BY <1>1, <1>5 DEF Receives, QueueOK
  <2>2. p # Root
    <3>1. Undoes(queue[1], p)
      BY <2>1, EventsAboutNothing DEF Undoes
    <3>2. Root \in Dirs
      BY WatcherAssumption
    <3>3. ~Undoes(queue[1], Root)
      BY <1>1, <2>1, <3>2 DEF EndsOK
    <3> QED  BY <3>1, <3>3
  <2>3. EndsOK(queue')
    <3>1. EndsOK(Tail(queue)) /\ Tail(queue) \in Seq(AllEvents)
      BY <1>1, EndsTail DEF QueueOK
    <3> QED  BY <1>5, <3>1, EndsStrayed DEF RemoveWatch
  <2> QED  BY <1>1, <1>2, <1>3, <1>5, <2>2, <2>3 DEF RemoveWatch
<1>6. ASSUME NEW d \in Dirs, TakeDirCreate(d) PROVE RootInv'
  BY <1>4, <1>6 DEF TakeDirCreate
<1>7. ASSUME NEW f \in Files, TakeCore(f) PROVE RootInv'
  BY <1>4, <1>7 DEF TakeCore
<1>8. ASSUME NEW p \in Paths, TakeIdly(p) PROVE RootInv'
  BY <1>1, <1>4, <1>8 DEF TakeIdly
<1>9. ASSUME NEW p \in Paths, TakeRemove(p) PROVE RootInv'
  BY <1>1, <1>4, <1>5, <1>9 DEF TakeRemove
<1>10. ASSUME NEW p \in Paths, TakeRename(p) PROVE RootInv'
  BY <1>5, <1>10 DEF TakeRename
<1>11. CASE TakeStray \/ TakeOverflow
  BY <1>1, <1>4, <1>11 DEF TakeStray, TakeOverflow
<1> QED  BY <1>6, <1>7, <1>8, <1>9, <1>10, <1>11 DEF TakeStep

LEMMA RootCapture == TypeOK /\ RootInv /\ (FileStep \/ ConsumerStep) => RootInv'
<1> SUFFICES ASSUME TypeOK, RootInv, FileStep \/ ConsumerStep PROVE RootInv'
  OBVIOUS
<1> USE DEF nodeVars, walkVars, fileVars
<1>1. CASE SecondStat \/ Send \/ Finish
  BY <1>1 DEF SecondStat, Send, Finish, RootInv
<1>2. ASSUME NEW f \in Files, Dispose(f) PROVE RootInv'
  <2>1. PICK op \in {"remove", "write"} : Report(op, f)
    BY <1>2 DEF Dispose
  <2>2. f \in Paths /\ f \notin Dirs /\ op \in Ops /\ EndsOK(queue)
    BY WatcherAssumption DEF Paths, Ops, RootInv, EndsOK
  <2>3. EndsOK(queue')
    BY <2>1, <2>2, EndsReported
  <2>4. queue' # <<>> => Root \in watches
    BY <2>1, ReportWatched DEF RootInv
  <2> QED  BY <1>2, <2>3, <2>4 DEF Dispose, RootInv, EndsOK
<1> QED  BY <1>1, <1>2 DEF FileStep, ConsumerStep

LEMMA RootStep == TypeOK /\ RootInv /\ [Next]_vars => RootInv'
<1> SUFFICES ASSUME TypeOK, RootInv, [Next]_vars PROVE RootInv'
  OBVIOUS
<1>1. CASE UNCHANGED vars
  BY <1>1 DEF vars, RootInv
<1> QED  BY <1>1, RootNode, RootProcess, RootTake, RootCapture DEF Next, WatcherStep

-----------------------------------------------------------------------------
(* Steps that report, or leave the queue as it is                          *)

LEMMA LiveIs ==
  ASSUME NEW f \in Files
  PROVE  /\ TypeOK => (Live(f) <=> OnDisk(disk[f]) /\ Parent[f] \in watches)
         /\ TypeOK' => (Live(f)' <=> OnDisk(disk'[f]) /\ Parent[f] \in watches')
  BY WatcherAssumption DEF Live, Exists, TypeOK

\* The parts of CoreOK, after a step.
LEMMA CoreLater ==
  ASSUME NEW f \in Files, NEW r, r = queue',
         \A i \in 1..Len(r) : Feeds(r[i], f) => Safe(r, i, f, Live(f)'),
         pc' = "sleeping" /\ ev' = f => Safe(r, 0, f, Live(f)'),
         f \in processed' => Safe(r, 0, f, Live(f)' /\ Sent(f)'),
         Ordered(r, f, Parent[f] \in dirs'),
         f \in heard' => OnItsWay(f)'
  PROVE  CoreOK(f)'
<1>1. FeedsSafe(f)'
  BY DEF FeedsSafe, Feeds, Event, Safe, Calm, Unmarking, Undoes
<1>2. ProbeSafe(f)'
  BY DEF ProbeSafe, Event, Safe, Calm, Unmarking, Undoes
<1>3. MarkSafe(f)'
  BY DEF MarkSafe, Event, Safe, Calm, Unmarking, Undoes
<1>4. InOrder(f)'
  BY DEF InOrder, Ordered, Renewed, Event, Undoes
<1> QED  BY <1>1, <1>2, <1>3, <1>4 DEF CoreOK

\* The order of events, after a step that appends at most the event e.
LEMMA OrderReported ==
  ASSUME TypeOK, NEW f \in Files, InOrder(f),
         NEW e \in AllEvents, queue' \in {queue, Append(queue, e)},
         queue' # queue /\ e.path = f => Parent[f] \in dirs,
         queue' # queue /\ Undoes(e, Parent[f]) => Parent[f] \notin dirs',
         Parent[f] \in dirs' /\ Parent[f] \notin dirs =>
           \/ \A i \in 1..Len(queue) : ~Undoes(queue[i], Parent[f])
           \/ /\ queue' # <<>>
              /\ queue'[Len(queue')] = Event("create", Parent[f])
  PROVE  Ordered(queue', f, Parent[f] \in dirs')
<1> DEFINE q == queue
           r == queue'
           there == Parent[f] \in dirs
           after == Parent[f] \in dirs'
<1>1. q \in Seq(AllEvents) /\ r \in {q, Append(q, e)}
  BY DEF TypeOK, QueueOK
<1>2. Ordered(q, f, there)
  BY DEF InOrder
<1>3. /\ r # q /\ e.path = f => there
      /\ r # q /\ Undoes(e, Parent[f]) => ~after
      /\ after /\ ~there =>
           \/ \A i \in 1..Len(q) : ~Undoes(q[i], Parent[f])
           \/ r # <<>> /\ r[Len(r)] = Event("create", Parent[f])
  OBVIOUS
<1> HIDE DEF q, r, there, after
<1>4. Ordered(r, f, after)
  BY <1>1, <1>2, <1>3, OrderedReported
<1> QED  BY <1>4 DEF r, after

\* A step that appends at most the event e.
LEMMA CoreReported ==
  ASSUME TypeOK, NEW f \in Files, CoreOK(f),
         NEW e \in AllEvents, queue' \in {queue, Append(queue, e)},
         Live(f) => \/ Live(f)' /\ (Undoes(e, Parent[f]) => queue' = queue)
                    \/ queue' # <<>> /\ queue'[Len(queue')] = Event("remove", f),
         queue' # queue /\ Feeds(e, f) => Live(f)',
         queue' # queue /\ e.path = f => Parent[f] \in dirs,
         queue' # queue /\ Undoes(e, Parent[f]) => Parent[f] \notin dirs',
         Parent[f] \in dirs' /\ Parent[f] \notin dirs =>
           \/ \A i \in 1..Len(queue) : ~Undoes(queue[i], Parent[f])
           \/ /\ queue' # <<>>
              /\ queue'[Len(queue')] = Event("create", Parent[f]),
         pc' = "sleeping" /\ ev' = f => pc = "sleeping" /\ ev = f,
         f \in processed' =>
           \/ f \in processed /\ (Live(f) /\ Sent(f) /\ Live(f)' => Sent(f)')
           \/ pc = "sleeping" /\ ev = f /\ Sent(f)',
         f \in heard' => OnItsWay(f)'
  PROVE  CoreOK(f)'
<1> DEFINE q == queue
           r == queue'
           live == Live(f)
           later == Live(f)'
<1>1. q \in Seq(AllEvents) /\ r \in {q, Append(q, e)}
  BY DEF TypeOK, QueueOK
<1>2. /\ r \in Seq(AllEvents) /\ Len(r) \in Nat /\ Len(q) \in Nat
      /\ Len(q) <= Len(r) /\ \A k \in 1..Len(q) : r[k] = q[k]
      /\ Len(r) # Len(q) => /\ r # q /\ Len(r) = Len(q) + 1
                            /\ r[Len(q) + 1] = e
      /\ r # <<>> => Len(r) > 0
  BY <1>1, AppendFacts
<1>3. Ordered(r, f, Parent[f] \in dirs')
  BY OrderReported DEF CoreOK
<1>4. ASSUME NEW i \in 0..Len(q), NEW before, NEW after,
             Safe(q, i, f, before), before => live,
             i > 0 => Feeds(q[i], f), before /\ later => after
      PROVE  Safe(r, i, f, after)
  <2>1. r # <<>> /\ r[Len(r)] = Event("remove", f) => i < Len(r)
    <3>1. i = Len(r) /\ i > 0 => Feeds(r[Len(r)], f)
      BY <1>2, <1>4
    <3> QED  BY <1>2, <3>1, EventFacts
  <2>2. before => \/ after /\ (Undoes(e, Parent[f]) => r = q)
                  \/ i < Len(r) /\ r[Len(r)] = Event("remove", f)
    BY <1>4, <2>1
  <2> QED  BY <1>1, <1>4, <2>2, SafeReported
<1>5. ASSUME NEW i \in 1..Len(r), Feeds(r[i], f)
      PROVE  Safe(r, i, f, later)
  <2>1. CASE i \in 1..Len(q)
    <3>1. Feeds(q[i], f) /\ Safe(q, i, f, live)
      BY <1>2, <1>5, <2>1 DEF CoreOK, FeedsSafe
    <3> QED  BY <1>2, <1>4, <2>1, <3>1
  <2>2. CASE i \notin 1..Len(q)
    <3>1. i = Len(r) /\ r # q /\ r[i] = e
      BY <1>2, <2>2
    <3>2. later
      BY <1>5, <3>1
    <3> QED  BY <1>2, <3>1, <3>2 DEF Safe, Calm
  <2> QED  BY <2>1, <2>2
<1>6. 0 \in 0..Len(q) /\ ~(0 > 0)
  BY <1>2
<1>7. pc' = "sleeping" /\ ev' = f => Safe(r, 0, f, later)
  BY <1>4, <1>6 DEF CoreOK, ProbeSafe
<1>8. f \in processed' => Safe(r, 0, f, later /\ Sent(f)')
  <2>1. CASE f \in processed /\ (Live(f) /\ Sent(f) /\ Live(f)' => Sent(f)')
    <3> DEFINE before == live /\ Sent(f)
               after == later /\ Sent(f)'
    <3>1. Safe(q, 0, f, before)
      BY <2>1 DEF CoreOK, MarkSafe
    <3>2. (before => live) /\ (before /\ later => after)
      BY <2>1
    <3> HIDE DEF before, after, q, r, live, later
    <3>3. Safe(r, 0, f, after)
      BY <1>4, <1>6, <3>1, <3>2
    <3> QED  BY <3>3 DEF after
  <2>2. CASE pc = "sleeping" /\ ev = f /\ Sent(f)'
    <3> DEFINE after == later /\ Sent(f)'
    <3>1. Safe(q, 0, f, live) /\ (live /\ later => after)
      BY <2>2 DEF CoreOK, ProbeSafe
    <3> HIDE DEF after, q, r, live, later
    <3>2. Safe(r, 0, f, after)
      BY <1>4, <1>6, <3>1
    <3> QED  BY <3>2 DEF after
  <2> QED  BY <2>1, <2>2
<1> QED  BY <1>3, <1>5, <1>7, <1>8, CoreLater

\* What a report leaves when the queue does not overflow.
LEMMA ReportedFacts ==
  ASSUME QueueOK, NEW op \in Ops, NEW p \in Paths,
         Report(op, p) \/ ReportGone(op, p), ~HasOverflow(queue')
  PROVE  /\ Event(op, p) \in AllEvents
         /\ queue' \in {queue, Append(queue, Event(op, p))}
         /\ ~HasOverflow(queue)
         /\ Parent[p] \in watches => /\ queue' # <<>>
                                     /\ queue'[Len(queue')] = Event(op, p)
<1> DEFINE e == Event(op, p)
<1>1. e \in AllEvents /\ Overflow \in AllEvents
  BY EventsAboutNothing
<1> HIDE DEF e
<1>2. queue \in Seq(AllEvents)
  BY DEF QueueOK
<1>3. CASE UNCHANGED queue /\ Parent[p] \notin watches
  BY <1>1, <1>3 DEF e
<1>4. ASSUME NEW x \in AllEvents, queue' = Append(queue, x)
      PROVE  /\ Len(queue') = Len(queue) + 1 /\ queue'[Len(queue')] = x
             /\ queue' # <<>> /\ Len(queue) \in Nat
             /\ \A i \in 1..Len(queue) : queue'[i] = queue[i]
             /\ Len(queue') \in 1..Len(queue')
  BY <1>2, <1>4
<1>5. CASE queue' \in Delivered(queue, e)
  <2>1. queue' # Append(queue, Overflow)
    BY <1>1, <1>4 DEF HasOverflow
  <2>2. CASE queue' = Append(queue, e)
    <3>1. ~HasOverflow(queue)
      BY <1>1, <1>4, <2>2 DEF HasOverflow
    <3> QED  BY <1>1, <1>4, <2>2, <3>1 DEF e
  <2>3. CASE queue' = queue /\ queue # <<>> /\ queue[Len(queue)] = e
    BY <1>1, <2>3 DEF e
  <2> QED  BY <1>5, <2>1, <2>2, <2>3 DEF Delivered
<1> QED  BY <1>3, <1>5 DEF Report, ReportGone, e

\* A core is on its way as long as nothing happens to it.
LEMMA WayKept ==
  ASSUME QueueOK, NEW f \in Files, OnItsWay(f),
         NEW e \in AllEvents, queue' \in {queue, Append(queue, e)},
         disk'[f].gen = disk[f].gen,
         disk[f].phase \in {"absent", "emptied"} => disk'[f].phase = disk[f].phase,
         captures[f][disk[f].gen] > 0 => captures'[f][disk[f].gen] > 0,
         pc \in {"sleeping", "sending"} /\ ev = f => pc' = pc /\ ev' = ev,
         f \in processed' => f \in processed
  PROVE  OnItsWay(f)'
<1>1. ASSUME Waiting(queue, f, f \in processed)
      PROVE  Waiting(queue, f, f \in processed)'
  <2>1. Waiting(queue', f, f \in processed')
    BY <1>1, WaitingReported DEF QueueOK
  <2> QED  BY <2>1 DEF Waiting, Feeds, Event
<1> QED  BY <1>1 DEF OnItsWay

\* Reports about something else than f, its directory gone or created again.
LEMMA CoreElsewhere ==
  ASSUME Undisturbed, TypeOK, TypeOK', RootInv, NEW f \in Files, CoreOK(f),
         NEW op \in Ops, NEW p \in Paths, p # f,
         Report(op, p) \/ ReportGone(op, p), ~HasOverflow(queue'),
         disk'[f] = disk[f], f \in heard' => f \in heard,
         UNCHANGED <<processed, pc, ev, captures>>,
         \/ UNCHANGED <<dirs, watches>> /\ p \in Files
         \/ /\ p \in Dirs /\ op = "create" /\ UNCHANGED watches
            /\ dirs' = dirs \cup {p}
         \/ /\ p \in Dirs /\ op \in {"remove", "rename"}
            /\ dirs' = dirs \ {p} /\ watches' = watches \ {p} /\ Entries(p) = {}
  PROVE  CoreOK(f)'
<1> DEFINE e == Event(op, p)
           d == Parent[f]
<1>1. /\ e \in AllEvents /\ queue' \in {queue, Append(queue, e)}
      /\ Parent[p] \in watches => queue' # <<>> /\ queue'[Len(queue')] = e
  BY ReportedFacts DEF TypeOK
<1>2. /\ e.path = p /\ e.op = op /\ e.path # f /\ ~Feeds(e, f)
      /\ Undoes(e, d) => p = d /\ op \in {"remove", "rename"}
  BY EventsAboutNothing, EventFacts DEF Undoes, Feeds
<1>3. d \in Dirs /\ d \notin Files
  BY EventFacts, WatcherAssumption DEF Paths
<1>4. Live(f) => Live(f)' /\ ~Undoes(e, d)
  <2> SUFFICES ASSUME Live(f) PROVE Live(f)' /\ ~Undoes(e, d)
    OBVIOUS
  <2>1. Exists(f) /\ d \in watches /\ OnDisk(disk[f])
    BY LiveIs DEF Live
  <2>2. CASE UNCHANGED watches /\ (op = "create" \/ p \in Files)
    BY <1>2, <1>3, <2>1, <2>2, LiveIs
  <2>3. CASE /\ op \in {"remove", "rename"} /\ Entries(p) = {}
             /\ watches' = watches \ {p}
    <3>1. p # d
      BY <2>1, <2>3, EventFacts DEF Entries
    <3> QED  BY <1>2, <2>1, <2>3, <3>1, LiveIs
  <2> QED  BY <2>1, <2>2, <2>3, LiveIs
<1>5. Undoes(e, d) => d \notin dirs'
  BY <1>2, <1>3
<1>6. d \in dirs' /\ d \notin dirs =>
        \/ \A i \in 1..Len(queue) : ~Undoes(queue[i], d)
        \/ queue' # <<>> /\ queue'[Len(queue')] = Event("create", d)
  <2> SUFFICES ASSUME d \in dirs', d \notin dirs,
                      NEW i \in 1..Len(queue), Undoes(queue[i], d)
               PROVE  queue' # <<>> /\ queue'[Len(queue')] = Event("create", d)
    OBVIOUS
  <2>1. p = d /\ op = "create"
    OBVIOUS
  <2>2. d # Root /\ DirsLost
    BY <1>3 DEF RootInv
  <2>3. Parent[d] = Root
    BY <2>2 DEF Undisturbed
  <2>4. Root \in watches
    BY DEF RootInv
  <2> QED  BY <1>1, <2>1, <2>3, <2>4
<1>7. Sent(f) => Sent(f)'
  BY DEF Sent
<1>8. f \in heard' => OnItsWay(f)'
  BY <1>1, WayKept DEF CoreOK, TypeOK
<1> HIDE DEF e
<1> QED  BY <1>1, <1>2, <1>4, <1>5, <1>6, <1>7, <1>8, CoreReported

LEMMA CoreNode ==
  ASSUME Undisturbed, TypeOK, TypeOK', RootInv, ~HasOverflow(queue'),
         NodeStep, NEW f \in Files, CoreOK(f)
  PROVE  CoreOK(f)'
<1> DEFINE d == Parent[f]
<1>0. /\ disk \in [Files -> CoreState] /\ f \in Paths /\ QueueOK
      /\ Dirs \subseteq Paths /\ Files \subseteq Paths /\ f \notin Dirs
  BY WatcherAssumption DEF TypeOK, Paths
<1>1. ASSUME NEW x \in Dirs, MkDir(x) PROVE CoreOK(f)'
  <2>1. x # f /\ x \in Paths /\ "create" \in Ops
    BY <1>0 DEF Ops
  <2> QED  BY <1>1, <2>1, CoreElsewhere DEF MkDir, fileVars
<1>2. ASSUME NEW x \in Dirs, NEW op \in {"remove", "rename"}, LoseDir(op, x)
      PROVE  CoreOK(f)'
  <2>1. x # f /\ x \in Paths /\ op \in Ops
    BY <1>0 DEF Ops
  <2> QED  BY <1>2, <2>1, CoreElsewhere DEF LoseDir, fileVars
<1>3. ASSUME NEW x \in Files, x # f, NEW op \in Ops, Report(op, x),
             \E core : disk' = [disk EXCEPT ![x] = core],
             f \in heard' => f \in heard,
             UNCHANGED <<dirs, watches, processed, pc, ev, captures>>
      PROVE  CoreOK(f)'
  <2>1. disk'[f] = disk[f] /\ x \in Paths
    BY <1>0, <1>3
  <2> QED  BY <1>3, <2>1, CoreElsewhere
<1>4. ASSUME NEW x \in Files, CoreBegin(x) PROVE CoreOK(f)'
  <2>1. PICK op \in {"create", "write"} :
          /\ Report(op, x)
          /\ heard' = IF Told(op, x) THEN heard \cup {x} ELSE heard \ {x}
    BY <1>4 DEF CoreBegin
  <2>2. op \in Ops /\ x \in Paths
    BY <1>0 DEF Ops
  <2>3. CASE x # f
    BY <1>3, <1>4, <2>1, <2>2, <2>3 DEF CoreBegin, fileVars
  <2>4. CASE x = f
    <3> DEFINE e == Event(op, f)
    <3>1. /\ e \in AllEvents /\ queue' \in {queue, Append(queue, e)}
          /\ d \in watches => queue' # <<>> /\ queue'[Len(queue')] = e
      BY <2>1, <2>2, <2>4, <1>0, ReportedFacts
    <3>2. /\ UNCHANGED <<dirs, watches, processed, pc, ev, captures>>
          /\ d \in dirs /\ disk[f].phase = "absent"
          /\ disk' = [disk EXCEPT ![f] = BeginDump(@)]
      BY <1>4, <2>4 DEF CoreBegin, Undisturbed, fileVars
    <3>3. ~Live(f)
      BY <3>2, LiveIs DEF OnDisk
    <3>4. d \in watches => Live(f)'
      BY <1>0, <3>2, LiveIs DEF OnDisk, BeginDump
    <3>5. queue' # queue => d \in watches
      BY <2>1, <2>4 DEF Report
    <3>6. Feeds(e, f) /\ e.path = f /\ ~Undoes(e, d)
      BY EventFacts DEF Feeds
    <3>7. f \in heard' => OnItsWay(f)'
      <4> SUFFICES ASSUME f \in heard' PROVE OnItsWay(f)'
        OBVIOUS
      <4>1. queue' # <<>> /\ queue'[Len(queue')] = e
        BY <2>1, <2>4 DEF Told
      <4>2. f \in processed => Has(queue, Event("remove", f))
        <5>1. f \in processed => Unmarking(queue, 0, f)
          BY <3>3 DEF CoreOK, MarkSafe, Safe
        <5> QED  BY <5>1 DEF Unmarking, Has
      <4>3. queue' \in Seq(AllEvents) /\ queue \in Seq(AllEvents)
        BY <1>0, <3>1 DEF QueueOK
      <4>4. Has(queue, Event("remove", f)) => Has(queue', Event("remove", f))
        <5>1. /\ Len(queue) \in Nat /\ Len(queue') \in Nat
              /\ Len(queue) <= Len(queue')
              /\ \A i \in 1..Len(queue) : queue'[i] = queue[i]
          BY <3>1, <4>3, AppendFacts
        <5> QED  BY <5>1 DEF Has
      <4>5. Waiting(queue', f, f \in processed')
        BY <3>2, <3>6, <4>1, <4>2, <4>3, <4>4, WaitingLast
      <4> QED  BY <4>5 DEF OnItsWay, Waiting, Feeds, Event
    <3> HIDE DEF e
    <3> QED  BY <3>1, <3>2, <3>3, <3>4, <3>5, <3>6, <3>7, CoreReported
  <2> QED  BY <2>3, <2>4
<1>5. ASSUME NEW x \in Files, CoreWrite(x) PROVE CoreOK(f)'
  <2>1. /\ Report("write", x) /\ "write" \in Ops /\ x \in Paths
        /\ heard' = IF Told("write", x) THEN heard \cup {x} ELSE heard
    BY <1>0, <1>5 DEF CoreWrite, Ops
  <2>2. CASE x # f
    BY <1>3, <1>5, <2>1, <2>2 DEF CoreWrite, fileVars
  <2>3. CASE x = f
    <3> DEFINE e == Event("write", f)
    <3>1. /\ e \in AllEvents /\ queue' \in {queue, Append(queue, e)}
          /\ d \in watches => queue' # <<>> /\ queue'[Len(queue')] = e
      BY <2>1, <2>3, <1>0, ReportedFacts
    <3>2. /\ UNCHANGED <<dirs, watches, processed, pc, ev, captures>>
          /\ disk[f].phase = "dumping"
          /\ disk' = [disk EXCEPT ![f] = WriteDump(@)]
      BY <1>5, <2>3 DEF CoreWrite, fileVars
    <3>3. /\ disk'[f].gen = disk[f].gen /\ OnDisk(disk[f]) /\ OnDisk(disk'[f])
      BY <1>0, <3>2 DEF WriteDump, OnDisk
    <3>4. (d \in watches => Live(f)) /\ (d \in watches => Live(f)')
          /\ (Live(f) => d \in watches)
      BY <3>2, <3>3, LiveIs
    <3>5. queue' # queue => d \in watches
      BY <2>1, <2>3 DEF Report
    <3>6. Feeds(e, f) /\ e.path = f /\ ~Undoes(e, d)
      BY EventFacts DEF Feeds
    <3>7. Sent(f) => Sent(f)'
      BY <3>2, <3>3 DEF Sent
    <3>8. f \in heard' => OnItsWay(f)'
      <4>1. CASE f \in heard
        <5>1. OnItsWay(f)
          BY <4>1 DEF CoreOK
        <5> QED  BY <1>0, <3>1, <3>2, <3>3, <5>1, WayKept
      <4>2. CASE f \in heard' /\ f \notin heard
        <5>1. queue' # <<>> /\ queue'[Len(queue')] = e
          BY <2>1, <2>3, <4>2 DEF Told
        <5>2. CASE Sent(f)
          BY <3>7, <5>2 DEF Sent, OnItsWay
        <5>3. CASE ~Sent(f)
          <6>1. f \in processed => Has(queue, Event("remove", f))
            <7>1. f \in processed => Unmarking(queue, 0, f)
              BY <5>3 DEF CoreOK, MarkSafe, Safe
            <7> QED  BY <7>1 DEF Unmarking, Has
          <6>2. queue' \in Seq(AllEvents) /\ queue \in Seq(AllEvents)
            BY <1>0, <3>1 DEF QueueOK
          <6>3. Has(queue, Event("remove", f)) => Has(queue', Event("remove", f))
            <7>1. /\ Len(queue) \in Nat /\ Len(queue') \in Nat
                  /\ Len(queue) <= Len(queue')
                  /\ \A i \in 1..Len(queue) : queue'[i] = queue[i]
              BY <3>1, <6>2, AppendFacts
            <7> QED  BY <7>1 DEF Has
          <6>4. Waiting(queue', f, f \in processed')
            BY <3>2, <3>6, <5>1, <6>1, <6>2, <6>3, WaitingLast
          <6> QED  BY <6>4 DEF OnItsWay, Waiting, Feeds, Event
        <5> QED  BY <5>2, <5>3
      <4> QED  BY <4>1, <4>2
    <3>9. Parent[f] \in watches => Parent[f] \in dirs
      BY DEF TypeOK
    <3> HIDE DEF e
    <3> QED  BY <3>1, <3>2, <3>4, <3>5, <3>6, <3>7, <3>8, <3>9, CoreReported
  <2> QED  BY <2>2, <2>3
<1>6. ASSUME NEW x \in Files, LoseCore("remove", x) PROVE CoreOK(f)'
  <2>1. Report("remove", x) /\ "remove" \in Ops /\ heard' = heard \ {x}
    BY <1>6 DEF LoseCore, Ops
  <2>2. CASE x # f
    BY <1>3, <1>6, <2>1, <2>2 DEF LoseCore, fileVars
  <2>3. CASE x = f
    <3> DEFINE e == Event("remove", f)
    <3>1. /\ e \in AllEvents /\ queue' \in {queue, Append(queue, e)}
          /\ d \in watches => queue' # <<>> /\ queue'[Len(queue')] = e
      BY <2>1, <2>3, <1>0, ReportedFacts
    <3>2. UNCHANGED <<dirs, watches, processed, pc, ev, captures>>
      BY <1>6 DEF LoseCore, fileVars
    <3>3. queue' # queue => d \in watches
      BY <2>1, <2>3 DEF Report
    <3>4. ~Feeds(e, f) /\ ~Undoes(e, d)
      BY EventFacts
    <3>5. /\ f \in processed /\ Live(f) /\ Sent(f) /\ Live(f)' => Sent(f)'
          /\ Live(f) => d \in watches
      <4>1. ~OnDisk(disk'[f])
        BY <1>0, <1>6, <2>3 DEF LoseCore, Unlink, OnDisk
      <4> QED  BY <4>1, LiveIs
    <3>6. d \in watches => d \in dirs
      BY DEF TypeOK
    <3> HIDE DEF e
    <3> QED  BY <2>1, <2>3, <3>1, <3>2, <3>3, <3>4, <3>5, <3>6, CoreReported
             DEF e
  <2> QED  BY <2>2, <2>3
<1> QED  BY <1>1, <1>2, <1>4, <1>5, <1>6
         DEF NodeStep, RmDir, MvDir, Purge, MvCore, Undisturbed

\* Steps that leave the queue as it is.
LEMMA CoreQuietly ==
  ASSUME TypeOK, NEW f \in Files, CoreOK(f),
         UNCHANGED <<queue, dirs>>,
         Live(f) => Live(f)',
         pc' = "sleeping" /\ ev' = f => pc = "sleeping" /\ ev = f,
         f \in processed' =>
           \/ f \in processed /\ (Live(f) /\ Sent(f) /\ Live(f)' => Sent(f)')
           \/ pc = "sleeping" /\ ev = f /\ Sent(f)',
         f \in heard' => OnItsWay(f)'
  PROVE  CoreOK(f)'
<1>1. Overflow \in AllEvents
  BY EventsAboutNothing
<1> QED  BY <1>1, CoreReported

\* A process that was lost knows nothing and owes nothing.
LEMMA CoreLost ==
  ASSUME NEW f \in Files, ProcessLost
  PROVE  CoreOK(f)'
<1>1. /\ queue' = <<>> /\ processed' = {} /\ heard' = {} /\ pc' = "down"
      /\ Len(<<>>) = 0
  BY DEF ProcessLost
<1>2. FeedsSafe(f)' /\ ProbeSafe(f)' /\ MarkSafe(f)'
  BY <1>1 DEF FeedsSafe, ProbeSafe, MarkSafe
<1>3. InOrder(f)'
  BY <1>1 DEF InOrder, Ordered
<1> QED  BY <1>1, <1>2, <1>3 DEF CoreOK

LEMMA CoreProcess ==
  ASSUME TypeOK, TypeOK', Start \/ Crash \/ WalkStep \/ AddNewDir,
         NEW f \in Files, CoreOK(f)
  PROVE  CoreOK(f)'
<1> USE DEF nodeVars, walkVars, fileVars
<1>1. ASSUME UNCHANGED <<queue, dirs, disk, processed, heard, captures>>,
             watches \subseteq watches', pc \notin {"sleeping", "sending"},
             pc' \notin {"sleeping", "sending"}
      PROVE  CoreOK(f)'
  <2>1. Live(f) => Live(f)'
    BY <1>1, LiveIs
  <2>2. Sent(f) => Sent(f)'
    BY <1>1 DEF Sent
  <2>3. f \in heard' => OnItsWay(f)'
    <3>1. Overflow \in AllEvents
      BY EventsAboutNothing
    <3> QED  BY <1>1, <3>1, WayKept DEF CoreOK, TypeOK
  <2> QED  BY <1>1, <2>1, <2>2, <2>3, CoreQuietly
<1>2. CASE Start
  BY <1>1, <1>2 DEF Start
<1>3. CASE Crash
  BY <1>3, CoreLost DEF Crash
<1>4. ASSUME NEW p \in Paths, WalkDir(p) \/ WalkFile(p) PROVE CoreOK(f)'
  BY <1>1, <1>4 DEF WalkDir, WalkFile
<1>5. ASSUME NEW p \in Paths, WalkGone(p) PROVE CoreOK(f)'
  <2>1. CASE ProcessLost
    BY <2>1, CoreLost
  <2>2. CASE ~ProcessLost
    BY <1>1, <1>5, <2>2 DEF WalkGone
  <2> QED  BY <2>1, <2>2
<1>6. CASE WalkAdd
  BY <1>1, <1>6 DEF WalkAdd, AddWatch, AddFails
<1>7. CASE WalkDone
  BY <1>1, <1>7 DEF WalkDone
<1>8. CASE AddNewDir
  BY <1>1, <1>8 DEF AddNewDir, AddWatch, AddFails
<1> QED  BY <1>2, <1>3, <1>4, <1>5, <1>6, <1>7, <1>8 DEF WalkStep

LEMMA CoreCapture ==
  ASSUME Undisturbed, TypeOK, TypeOK', RootInv, ~HasOverflow(queue'),
         FileStep \/ ConsumerStep, NEW f \in Files, CoreOK(f)
  PROVE  CoreOK(f)'
<1> USE DEF nodeVars, walkVars, fileVars
<1>0. /\ disk \in [Files -> CoreState] /\ f \in Paths /\ QueueOK
      /\ Overflow \in AllEvents
  BY EventsAboutNothing DEF TypeOK, Paths
<1>1. CASE SecondStat
  <2>1. /\ UNCHANGED <<queue, dirs, disk, watches, heard, captures>>
        /\ pc = "sleeping"
    BY <1>1 DEF SecondStat
  <2>2. \/ ~Exists(ev) /\ pc' = "idle" /\ UNCHANGED processed
        \/ pc' = "sending" /\ ev' = ev /\ processed' = processed \cup {ev}
        \/ UNCHANGED <<pc, ev, processed>>
    BY <1>1 DEF SecondStat, Marked
  <2>3. Live(f) => Live(f)'
    BY <2>1, LiveIs
  <2>4. Sent(f) => Sent(f)'
    BY <2>1 DEF Sent
  <2>5. f \in processed' => \/ f \in processed
                            \/ pc = "sleeping" /\ ev = f /\ Sent(f)'
    BY <2>1, <2>2 DEF Sent
  <2>6. f \in heard' => OnItsWay(f)'
    <3> SUFFICES ASSUME f \in heard' PROVE OnItsWay(f)'
      OBVIOUS
    <3>1. OnItsWay(f)
      BY <2>1 DEF CoreOK
    <3>2. CASE ev = f
      <4>1. ~Exists(f) => disk[f].phase = "absent"
        BY <1>0 DEF Exists, OnDisk
      <4> QED  BY <2>1, <2>2, <3>2, <4>1 DEF OnItsWay
    <3>3. CASE ev # f
      BY <1>0, <2>1, <2>2, <3>1, <3>3, WayKept
    <3> QED  BY <3>2, <3>3
  <2> QED  BY <2>1, <2>2, <2>3, <2>4, <2>5, <2>6, CoreQuietly
<1>2. CASE Send
  <2>1. /\ UNCHANGED <<queue, dirs, disk, watches, heard, processed>>
        /\ pc = "sending" /\ pc' = "idle" /\ ev \in Files
    BY <1>2 DEF Send, TypeOK
  <2>2. ev = f => captures'[f][disk[f].gen] > 0
    <3> SUFFICES ASSUME ev = f PROVE captures'[f][disk[f].gen] > 0
      OBVIOUS
    <3>1. disk[f].gen \in 1..MaxGen
      BY <1>0, <2>1, CoreFSAssumption DEF TypeOK, CoreState
    <3>2. PICK g \in 1..MaxGen : g = disk[f].gen
      BY <3>1
    <3>3. captures[f] \in [1..MaxGen -> 0..2] /\ captures[f][g] \in 0..2
      BY <3>2 DEF TypeOK
    <3> DEFINE c == captures[f][g]
               row == [captures[f] EXCEPT ![g] = IF c < 2 THEN c + 1 ELSE c]
    <3>4. captures' = [captures EXCEPT ![f] = row]
      BY <1>2, <3>2 DEF Send
    <3>5. (IF c < 2 THEN c + 1 ELSE c) > 0
      BY <3>3
    <3>6. row[g] > 0
      BY <3>3, <3>5
    <3> HIDE DEF row
    <3> QED  BY <3>2, <3>4, <3>6 DEF TypeOK
  <2>3. ev # f => captures'[f] = captures[f]
    BY <1>2 DEF Send, TypeOK
  <2>4. Live(f) => Live(f)'
    BY <2>1, LiveIs
  <2>5. Sent(f) => Sent(f)'
    BY <2>1, <2>2, <2>3 DEF Sent
  <2>6. f \in heard' => OnItsWay(f)'
    <3>1. CASE ev = f
      BY <2>1, <2>2, <3>1 DEF OnItsWay
    <3>2. CASE ev # f
      BY <1>0, <2>1, <2>3, <3>2, WayKept DEF CoreOK
    <3> QED  BY <3>1, <3>2
  <2> QED  BY <2>1, <2>4, <2>5, <2>6, CoreQuietly
<1>3. CASE Finish
  <2>1. /\ UNCHANGED <<queue, dirs, disk, watches, heard, processed, captures,
                       pc, ev>>
    BY <1>3 DEF Finish
  <2>2. (Live(f) => Live(f)') /\ (Sent(f) => Sent(f)')
    BY <2>1, LiveIs DEF Sent
  <2>3. f \in heard' => OnItsWay(f)'
    BY <1>0, <2>1, WayKept DEF CoreOK
  <2> QED  BY <2>1, <2>2, <2>3, CoreQuietly
<1>4. ASSUME NEW x \in Files, Dispose(x) PROVE CoreOK(f)'
  <2>1. UNCHANGED <<dirs, watches, processed, pc, ev, captures>> /\ x \in Paths
    BY <1>4 DEF Dispose, Paths
  <2>2. CASE /\ disk' = [disk EXCEPT ![x] = Unlink(@)]
             /\ Report("remove", x) /\ heard' = heard \ {x}
    <3>1. "remove" \in Ops
      BY DEF Ops
    <3>2. CASE x # f
      <4>1. disk'[f] = disk[f]
        BY <1>0, <2>2, <3>2
      <4> QED  BY <2>1, <2>2, <3>1, <3>2, <4>1, CoreElsewhere
    <3>3. CASE x = f
      <4> DEFINE e == Event("remove", f)
      <4>1. /\ e \in AllEvents /\ queue' \in {queue, Append(queue, e)}
            /\ Parent[f] \in watches => queue' # <<>> /\ queue'[Len(queue')] = e
        BY <1>0, <2>2, <3>1, <3>3, ReportedFacts
      <4>2. queue' # queue => Parent[f] \in watches
        BY <2>2, <3>3 DEF Report
      <4>3. ~Feeds(e, f) /\ ~Undoes(e, Parent[f])
        BY EventFacts
      <4>4. /\ f \in processed /\ Live(f) /\ Sent(f) /\ Live(f)' => Sent(f)'
            /\ Live(f) => Parent[f] \in watches
        <5>1. ~OnDisk(disk'[f])
          BY <1>0, <2>2, <3>3 DEF Unlink, OnDisk
        <5> QED  BY <5>1, LiveIs
      <4>5. Parent[f] \in watches => Parent[f] \in dirs
        BY DEF TypeOK
      <4> HIDE DEF e
      <4> QED  BY <2>1, <2>2, <3>3, <4>1, <4>2, <4>3, <4>4, <4>5, CoreReported
               DEF e
    <3> QED  BY <3>2, <3>3
  <2>3. CASE /\ disk' = [disk EXCEPT ![x] = Empty(@)] /\ OnDisk(disk[x])
             /\ Report("write", x) /\ UNCHANGED heard
    <3>1. "write" \in Ops
      BY DEF Ops
    <3>2. CASE x # f
      <4>1. disk'[f] = disk[f]
        BY <1>0, <2>3, <3>2
      <4> QED  BY <2>1, <2>3, <3>1, <3>2, <4>1, CoreElsewhere
    <3>3. CASE x = f
      <4> DEFINE e == Event("write", f)
      <4>1. /\ e \in AllEvents /\ queue' \in {queue, Append(queue, e)}
            /\ Parent[f] \in watches => queue' # <<>> /\ queue'[Len(queue')] = e
        BY <1>0, <2>3, <3>1, <3>3, ReportedFacts
      <4>2. /\ disk'[f].gen = disk[f].gen /\ disk'[f].phase = "emptied"
            /\ OnDisk(disk'[f]) /\ OnDisk(disk[f])
        BY <1>0, <2>3, <3>3 DEF Empty, OnDisk
      <4>3. queue' # queue => Parent[f] \in watches
        BY <2>3, <3>3 DEF Report
      <4>4. Feeds(e, f) /\ e.path = f /\ ~Undoes(e, Parent[f])
        BY EventFacts DEF Feeds
      <4>5. (Live(f) => Live(f)') /\ (Parent[f] \in watches => Live(f)')
        BY <2>1, <4>2, LiveIs
      <4>6. Sent(f) => Sent(f)'
        BY <2>1, <4>2 DEF Sent
      <4>7. OnItsWay(f)'
        BY <4>2 DEF OnItsWay
      <4>8. Parent[f] \in watches => Parent[f] \in dirs
        BY DEF TypeOK
      <4> HIDE DEF e
      <4> QED  BY <2>1, <4>1, <4>3, <4>4, <4>5, <4>6, <4>7, <4>8, CoreReported
    <3> QED  BY <3>2, <3>3
  <2> QED  BY <1>4, <2>2, <2>3 DEF Dispose
<1> QED  BY <1>1, <1>2, <1>3, <1>4 DEF FileStep, ConsumerStep

-----------------------------------------------------------------------------
(* Steps that handle an event                                              *)

\* The obligations of the queue without its first event.
LEMMA TailOwes ==
  ASSUME TypeOK, NEW f \in Files, CoreOK(f), queue # <<>>,
         NEW t, t = Tail(queue)
  PROVE  /\ t \in Seq(AllEvents)
         /\ \A i \in 1..Len(t) : Feeds(t[i], f) => Safe(t, i, f, Live(f))
         /\ Feeds(Head(queue), f) => Safe(t, 0, f, Live(f))
         /\ f \in processed /\ Head(queue) # Event("remove", f)
              => Safe(t, 0, f, Live(f) /\ Sent(f))
         /\ Ordered(t, f, Parent[f] \in dirs)
<1> DEFINE q == queue
           live == Live(f)
           sent == Live(f) /\ Sent(f)
           there == Parent[f] \in dirs
<1>1. q \in Seq(AllEvents) /\ q # <<>>
  BY DEF TypeOK, QueueOK
<1>2. /\ Len(q) \in Nat \ {0} /\ t \in Seq(AllEvents) /\ Len(t) = Len(q) - 1
      /\ \A i \in 1..Len(t) : t[i] = q[i + 1]
      /\ Head(q) = q[1]
  BY <1>1, TailFacts
<1>3. /\ \A i \in 1..Len(q) : Feeds(q[i], f) => Safe(q, i, f, live)
      /\ f \in processed => Safe(q, 0, f, sent)
      /\ Ordered(q, f, there)
  BY DEF CoreOK, FeedsSafe, MarkSafe, InOrder
<1> HIDE DEF q, live, sent, there
<1>4. ASSUME NEW i \in 0..Len(t), Feeds(q[i + 1], f)
      PROVE  Safe(t, i, f, live)
  <2>1. i + 1 \in 1..Len(q) /\ i + 1 \in 0..Len(q) /\ i + 1 # 0
    BY <1>2
  <2>2. Safe(q, i + 1, f, live)
    BY <1>3, <1>4, <2>1
  <2>3. Safe(Tail(q), IF i + 1 = 0 THEN 0 ELSE (i + 1) - 1, f, live)
    BY <1>1, <2>1, <2>2, SafeTail
  <2>4. (IF i + 1 = 0 THEN 0 ELSE (i + 1) - 1) = i
    BY <2>1
  <2> QED  BY <2>3, <2>4 DEF q
<1>5. \A i \in 1..Len(t) : Feeds(t[i], f) => Safe(t, i, f, live)
  BY <1>2, <1>4
<1>6. Feeds(Head(q), f) => Safe(t, 0, f, live)
  BY <1>2, <1>4
<1>7. ASSUME f \in processed, Head(q) # Event("remove", f)
      PROVE  Safe(t, 0, f, sent)
  <2>1. 0 \in 0..Len(q) /\ Safe(q, 0, f, sent)
    BY <1>2, <1>3, <1>7
  <2>2. Safe(Tail(q), IF 0 = 0 THEN 0 ELSE 0 - 1, f, sent)
    BY <1>1, <1>7, <2>1, SafeTail
  <2> QED  BY <2>2 DEF q
<1>8. Ordered(t, f, there)
  <2>1. Ordered(Tail(q), f, there)
    BY <1>1, <1>3, OrderedTail
  <2> QED  BY <2>1 DEF q
<1> QED  BY <1>2, <1>5, <1>6, <1>7, <1>8 DEF q, live, sent, there

\* An event whose handling leaves the watches alone.
LEMMA CoreHandled ==
  ASSUME TypeOK, NEW f \in Files, CoreOK(f), queue # <<>>,
         queue' = Tail(queue), pc = "idle",
         UNCHANGED <<disk, dirs, watches, heard, captures>>,
         f \in processed' =>
           f \in processed /\ Head(queue) # Event("remove", f),
         pc' = "sleeping" /\ ev' = f => Feeds(Head(queue), f),
         Feeds(Head(queue), f) => \/ f \in processed
                                  \/ pc' = "sleeping" /\ ev' = f
                                  \/ disk[f].phase = "absent"
  PROVE  CoreOK(f)'
<1> DEFINE t == Tail(queue)
<1>1. /\ t \in Seq(AllEvents)
      /\ \A i \in 1..Len(t) : Feeds(t[i], f) => Safe(t, i, f, Live(f))
      /\ Feeds(Head(queue), f) => Safe(t, 0, f, Live(f))
      /\ f \in processed /\ Head(queue) # Event("remove", f)
           => Safe(t, 0, f, Live(f) /\ Sent(f))
      /\ Ordered(t, f, Parent[f] \in dirs)
  BY TailOwes
<1>2. t = queue'
  OBVIOUS
<1>3. f \in heard' => OnItsWay(f)'
  <2> SUFFICES ASSUME f \in heard' PROVE OnItsWay(f)'
    OBVIOUS
  <2>1. OnItsWay(f)
    BY DEF CoreOK
  <2>2. CASE pc' = "sleeping" /\ ev' = f
    BY <2>2 DEF OnItsWay
  <2>3. CASE Waiting(queue, f, f \in processed) /\ ~(pc' = "sleeping" /\ ev' = f)
    <3>1. CASE disk[f].phase = "absent"
      BY <3>1 DEF OnItsWay
    <3>2. CASE disk[f].phase # "absent"
      <4> DEFINE q == queue
                 marked == f \in processed
                 later == f \in processed'
      <4>1. /\ q \in Seq(AllEvents) /\ q # <<>> /\ Waiting(q, f, marked)
            /\ later => marked
            /\ Head(q) = Event("remove", f) => ~later
            /\ Feeds(Head(q), f) => marked
        BY <2>3, <3>2 DEF TypeOK, QueueOK
      <4> HIDE DEF q, marked, later
      <4>2. Waiting(Tail(q), f, later)
        BY <4>1, WaitingTail
      <4>3. Waiting(queue', f, f \in processed')
        BY <4>2 DEF q, later
      <4> QED  BY <4>3 DEF OnItsWay, Waiting, Feeds, Event
    <3> QED  BY <3>1, <3>2
  <2>4. CASE \/ disk[f].phase \in {"absent", "emptied"}
             \/ captures[f][disk[f].gen] > 0
    BY <2>4 DEF OnItsWay
  <2> QED  BY <2>1, <2>2, <2>3, <2>4 DEF OnItsWay
<1>4. (Live(f)' <=> Live(f)) /\ (Sent(f) => Sent(f)')
  BY DEF Live, Exists, Sent
<1>5. \A i \in 1..Len(t) : Feeds(t[i], f) => Safe(t, i, f, Live(f)')
  BY <1>1, <1>4 DEF Safe
<1>6. pc' = "sleeping" /\ ev' = f => Safe(t, 0, f, Live(f)')
  BY <1>1, <1>4 DEF Safe
<1>7. f \in processed' => Safe(t, 0, f, Live(f)' /\ Sent(f)')
  BY <1>1, <1>4 DEF Safe
<1>8. Ordered(t, f, Parent[f] \in dirs')
  BY <1>1
<1> HIDE DEF t
<1> QED  BY <1>2, <1>3, <1>5, <1>6, <1>7, <1>8, CoreLater

\* The watch of the directory of f goes with a late event of its removal: all
\* of f was before that event, which is why no mark is left behind.
LEMMA CoreUnwatched ==
  ASSUME Undisturbed, TypeOK, RootInv, NEW f \in Files, CoreOK(f),
         NEW op \in {"remove", "rename"}, Receives(Event(op, Parent[f])),
         Parent[f] \in watches, RemoveWatch(Parent[f], Tail(queue)),
         UNCHANGED <<dirs, processed, pc>>
  PROVE  CoreOK(f)'
<1> DEFINE d == Parent[f]
           q == queue
           t == Tail(queue)
<1>1. /\ q \in Seq(AllEvents) /\ q # <<>> /\ pc = "idle"
      /\ Head(q) = Event(op, d)
  BY DEF TypeOK, QueueOK, Receives
<1>2. /\ Len(q) \in Nat \ {0} /\ t \in Seq(AllEvents) /\ Len(t) = Len(q) - 1
      /\ \A i \in 1..Len(t) : t[i] = q[i + 1]
      /\ Head(q) = q[1]
  BY <1>1, TailFacts
<1>3. d \in Dirs /\ d \in Paths /\ f \in Paths /\ Stray.path # f /\ Stray.path # d
  BY EventFacts, WatcherAssumption DEF Paths
<1>4. Undoes(q[1], d) /\ 1 \in 1..Len(q)
  BY <1>1, <1>2, <1>3, EventsAboutNothing DEF Undoes
<1>5. d # Root /\ Parent[d] = Root
  BY <1>3, <1>4 DEF RootInv, Undisturbed
<1>6. PICK read \in {0, 1} : queue' = Strayed(t, d, read)
  BY DEF RemoveWatch
<1>7. f \notin heard'
  BY DEF RemoveWatch
<1> DEFINE r == Strayed(t, d, read)
<1>8. Len(r) = Len(t)
  BY <1>2, <1>3, StrayedKeeps
<1>9. \A i \in 1..Len(t) :
        r[i] = IF i > read /\ t[i].path \in Paths /\ Parent[t[i].path] = d
               THEN Stray ELSE t[i]
  BY DEF Strayed
<1>10. Ordered(q, f, d \in dirs) /\ Ordered(t, f, d \in dirs)
  BY <1>1, TailOwes DEF CoreOK, InOrder
<1>11. f \in processed => Safe(q, 0, f, Live(f) /\ Sent(f))
  BY DEF CoreOK, MarkSafe
<1> HIDE DEF q, t, r, d
<1>12. ASSUME NEW i \in 1..Len(r), r[i].path = f PROVE FALSE
  <2>1. i \in 1..Len(t) /\ r[i] # Stray
    BY <1>3, <1>8, <1>12
  <2>2. t[i] = r[i] /\ i <= read
    BY <1>3, <1>9, <1>12, <2>1 DEF d
  <2>3. i = 1 /\ 2 \in 1..Len(q) /\ q[2].path = f
    BY <1>2, <1>12, <2>1, <2>2
  <2>4. Renewed(q, 1, 2, d)
    BY <1>4, <1>10, <2>3 DEF Ordered, d
  <2> QED  BY <2>4 DEF Renewed
<1>13. f \notin processed
  <2> SUFFICES ASSUME f \in processed PROVE FALSE
    OBVIOUS
  <2>1. ~Calm(q, 0, d)
    BY <1>4 DEF Calm
  <2>2. Unmarking(q, 0, f)
    BY <1>11, <2>1 DEF Safe, d
  <2>3. PICK j \in 1..Len(q) :
          /\ q[j] = Event("remove", f)
          /\ \A k \in 1..(j - 1) : ~Undoes(q[k], d)
    BY <2>2 DEF Unmarking, d
  <2>4. j = 1
    BY <1>2, <1>4, <2>3
  <2> QED  BY <1>4, <2>3, <2>4, EventFacts DEF d
<1>14. ASSUME d \in dirs, NEW i \in 1..Len(r), Undoes(r[i], d)
       PROVE  Renewed(r, i, Len(r) + 1, d)
  <2>1. i \in 1..Len(t) /\ t[i] = r[i]
    BY <1>3, <1>8, <1>9, <1>14 DEF Undoes
  <2>2. Renewed(t, i, Len(t) + 1, d)
    BY <1>10, <1>14, <2>1 DEF Ordered, d
  <2>3. PICK k \in (i + 1)..((Len(t) + 1) - 1) : t[k] = Event("create", d)
    BY <2>2 DEF Renewed
  <2>4. k \in 1..Len(t) /\ t[k].path = d /\ d # Root
    BY <1>2, <1>3, <1>5, <2>3, EventsAboutNothing
  <2>5. r[k] = t[k]
    BY <1>5, <1>9, <2>4
  <2> QED  BY <1>8, <2>3, <2>5 DEF Renewed
<1>15. Ordered(r, f, d \in dirs')
  BY <1>12, <1>14 DEF Ordered, d
<1>16. \A i \in 1..Len(r) : ~Feeds(r[i], f)
  BY <1>12, EventFacts
<1>17. r = queue'
  BY <1>6 DEF r
<1> QED  BY <1>1, <1>7, <1>13, <1>15, <1>16, <1>17, CoreLater DEF d

\* An event that has the watch of its path removed.
LEMMA CoreRemoved ==
  ASSUME Undisturbed, TypeOK, RootInv, NEW f \in Files, CoreOK(f),
         NEW p \in Paths, NEW op \in {"remove", "rename"},
         Receives(Event(op, p)), op = "remove" => p # f,
         RemoveWatch(p, Tail(queue)),
         UNCHANGED <<disk, dirs, processed, pc, ev, captures>>
  PROVE  CoreOK(f)'
<1> DEFINE q == queue
           t == Tail(queue)
<1>1. /\ q \in Seq(AllEvents) /\ q # <<>> /\ pc = "idle"
      /\ Head(q) = Event(op, p)
  BY DEF TypeOK, QueueOK, Receives
<1>2. ~Feeds(Head(q), f) /\ Head(q) # Event("remove", f)
  BY <1>1, EventsAboutNothing DEF Feeds, Event
<1>3. CASE p \notin watches
  BY <1>1, <1>2, <1>3, CoreHandled DEF RemoveWatch
<1>4. CASE p \in watches /\ p = Parent[f]
  BY <1>4, CoreUnwatched
<1>5. CASE p \in watches /\ p # Parent[f]
  <2>1. /\ t \in Seq(AllEvents)
        /\ \A i \in 1..Len(t) : Feeds(t[i], f) => Safe(t, i, f, Live(f))
        /\ f \in processed => Safe(t, 0, f, Live(f) /\ Sent(f))
        /\ Ordered(t, f, Parent[f] \in dirs)
    BY <1>1, <1>2, TailOwes
  <2>2. p \in Dirs
    BY <1>5 DEF TypeOK
  <2>3. p # Root /\ DirsLost
    <3>1. Undoes(q[1], p) /\ 1 \in 1..Len(q)
      BY <1>1, EventsAboutNothing DEF Undoes
    <3> QED  BY <2>2, <3>1 DEF RootInv
  <2>4. Parent[Parent[f]] # p
    BY <2>2, <2>3, WatcherAssumption DEF Undisturbed, Paths
  <2>5. PICK read \in {0, 1} : queue' = Strayed(t, p, read)
    BY <1>5 DEF RemoveWatch
  <2> DEFINE r == Strayed(t, p, read)
             marked == f \in processed
             there == Parent[f] \in dirs
             live == Live(f)
             sent == Live(f) /\ Sent(f)
  <2>6. (Live(f)' <=> live) /\ (Live(f)' /\ Sent(f)' <=> sent)
    BY <1>5 DEF RemoveWatch, Live, Exists, Sent
  <2>7. marked => Safe(t, 0, f, sent)
    BY <2>1
  <2> HIDE DEF q, t, r, marked, there, live, sent
  <2>8. /\ Len(r) = Len(t) /\ Len(t) \in Nat
        /\ \A i \in 1..Len(r) : Feeds(r[i], f) => i \in 1..Len(t) /\ Feeds(t[i], f)
        /\ \A l : \A i \in 0..Len(r) : Safe(t, i, f, l) => Safe(r, i, f, l)
        /\ \A h : Ordered(t, f, h) => Ordered(r, f, h)
        /\ \A m : Waiting(t, f, m) => Waiting(r, f, m)
    <3>1. Len(r) = Len(t) /\ Len(t) \in Nat
      BY <2>1, StrayedKeeps DEF r
    <3> QED  BY <1>5, <2>1, <2>4, <3>1, StrayedElsewhere DEF r
  <2>9. \A i \in 1..Len(r) : Feeds(r[i], f) => Safe(r, i, f, Live(f)')
    <3> SUFFICES ASSUME NEW i \in 1..Len(r), Feeds(r[i], f)
                 PROVE  Safe(r, i, f, Live(f)')
      OBVIOUS
    <3>1. Safe(t, i, f, live) /\ i \in 0..Len(r)
      BY <2>1, <2>8 DEF live
    <3>2. Safe(r, i, f, live)
      BY <2>8, <3>1
    <3> QED  BY <2>6, <3>2 DEF Safe
  <2>10. f \in processed' => Safe(r, 0, f, Live(f)' /\ Sent(f)')
    <3> SUFFICES ASSUME marked PROVE Safe(r, 0, f, Live(f)' /\ Sent(f)')
      BY DEF marked
    <3>1. Safe(t, 0, f, sent) /\ 0 \in 0..Len(r)
      BY <2>7, <2>8
    <3>2. Safe(r, 0, f, sent)
      BY <2>8, <3>1
    <3> QED  BY <2>6, <3>2 DEF Safe
  <2>11. Ordered(r, f, Parent[f] \in dirs')
    <3>1. Ordered(t, f, there)
      BY <2>1 DEF there
    <3>2. Ordered(r, f, there)
      BY <2>8, <3>1
    <3> QED  BY <3>2 DEF there
  <2>12. r = queue'
    BY <2>5 DEF r
  <2>13. f \in heard' => OnItsWay(f)'
    <3> SUFFICES ASSUME f \in heard' PROVE OnItsWay(f)'
      OBVIOUS
    <3>1. OnItsWay(f)
      BY <1>5 DEF RemoveWatch, CoreOK
    <3>2. CASE Waiting(queue, f, f \in processed)
      <4>1. Waiting(q, f, marked)
        BY <3>2 DEF q, marked
      <4>2. Waiting(Tail(q), f, marked)
        BY <1>1, <1>2, <4>1, WaitingTail
      <4>3. Waiting(r, f, marked)
        BY <2>8, <4>2 DEF t, q
      <4>4. Waiting(queue', f, f \in processed')
        BY <2>12, <4>3 DEF marked
      <4> QED  BY <4>4 DEF OnItsWay, Waiting, Feeds, Event
    <3> QED  BY <1>1, <3>1, <3>2 DEF OnItsWay
  <2> QED  BY <1>1, <2>9, <2>10, <2>11, <2>12, <2>13, CoreLater
<1> QED  BY <1>3, <1>4, <1>5

LEMMA CoreTake ==
  ASSUME Undisturbed, TypeOK, TypeOK', RootInv, ~Deaf', TakeStep,
         NEW f \in Files, CoreOK(f)
  PROVE  CoreOK(f)'
<1> USE DEF nodeVars, walkVars, fileVars
<1>1. queue # <<>> /\ pc = "idle" /\ f \in Paths /\ f \notin Dirs
  BY EventFacts
     DEF TakeStep, TakeDirCreate, TakeCore, TakeIdly, TakeRemove, TakeRename,
         TakeStray, TakeOverflow, Receives
<1>2. /\ \A op, p : /\ Event(op, p).path = p
                    /\ Event(op, p) = Event("remove", f) => op = "remove" /\ p = f
                    /\ Feeds(Event(op, p), f) => p = f /\ op \in {"create", "write"}
      /\ \A op \in {"create", "write"} : Feeds(Event(op, f), f)
      /\ ~Feeds(Stray, f) /\ Stray # Event("remove", f)
  BY EventFacts DEF Feeds, Event
<1>3. ASSUME NEW d \in Dirs, TakeDirCreate(d) PROVE CoreOK(f)'
  <2>1. Head(queue) = Event("create", d) /\ d # f /\ pc' = "adding"
    BY <1>1, <1>3 DEF TakeDirCreate, Receives
  <2> QED  BY <1>1, <1>2, <1>3, <2>1, CoreHandled DEF TakeDirCreate
<1>4. ASSUME NEW x \in Files, TakeCore(x) PROVE CoreOK(f)'
  <2>1. PICK op \in {"create", "write"} : Head(queue) = Event(op, x)
    BY <1>4 DEF TakeCore, Receives
  <2>2. x = f => Feeds(Head(queue), f)
    BY <1>2, <2>1
  <2>3. x # f => ~Feeds(Head(queue), f)
    BY <1>2, <2>1
  <2>4. Head(queue) # Event("remove", f)
    BY <1>2, <2>1
  <2> QED  BY <1>1, <1>4, <2>2, <2>3, <2>4, CoreHandled DEF TakeCore
<1>5. ASSUME NEW p \in Paths, TakeIdly(p) PROVE CoreOK(f)'
  <2>1. PICK op \in {"create", "write"} : Head(queue) = Event(op, p)
    BY <1>5 DEF TakeIdly, Receives
  <2>2. Head(queue) # Event("remove", f) /\ (Feeds(Head(queue), f) => p = f)
    BY <1>2, <2>1
  <2>3. ~Exists(f) => disk[f].phase = "absent"
    BY DEF Exists, OnDisk
  <2> QED  BY <1>1, <1>5, <2>2, <2>3, CoreHandled DEF TakeIdly
<1>6. ASSUME NEW p \in Paths, TakeRemove(p) PROVE CoreOK(f)'
  <2>1. Head(queue) = Event("remove", p) /\ Receives(Event("remove", p))
    BY <1>6 DEF TakeRemove, Receives
  <2>2. CASE p \in dirs
    <3>1. p # f
      BY <1>1, <2>2 DEF TypeOK
    <3> QED  BY <1>6, <2>1, <2>2, <3>1, CoreRemoved DEF TakeRemove
  <2>3. CASE p \notin dirs
    <3>1. ~Feeds(Head(queue), f)
      BY <1>2, <2>1
    <3>2. Head(queue) = Event("remove", f) => p = f
      BY <1>2, <2>1
    <3> QED  BY <1>1, <1>6, <2>3, <3>1, <3>2, CoreHandled
             DEF TakeRemove, Unmarked
  <2> QED  BY <2>2, <2>3
<1>7. ASSUME NEW p \in Paths, TakeRename(p) PROVE CoreOK(f)'
  BY <1>7, CoreRemoved DEF TakeRename
<1>8. CASE TakeStray
  <2>1. Head(queue) = Stray
    BY <1>8 DEF TakeStray, Receives
  <2> QED  BY <1>1, <1>2, <1>8, <2>1, CoreHandled DEF TakeStray
<1>9. ~TakeOverflow
  BY DEF TakeOverflow, Deaf
<1> QED  BY <1>3, <1>4, <1>5, <1>6, <1>7, <1>8, <1>9 DEF TakeStep

-----------------------------------------------------------------------------
(* Every core the watcher was told of is sent or on its way                *)

\* A process that missed events stays so until it ends.
LEMMA DeafStays ==
  ASSUME TypeOK, Deaf, [Next]_vars
  PROVE  Deaf' \/ ProcessLost
<1> USE DEF nodeVars, walkVars, fileVars
<1> SUFFICES ASSUME ~ProcessLost PROVE Deaf'
  OBVIOUS
<1>1. QueueOK
  BY DEF TypeOK
<1>2. ASSUME NEW q \in Seq(AllEvents), HasOverflow(q), NEW p \in Paths,
             NEW read \in {0, 1}
      PROVE  HasOverflow(Strayed(q, p, read))
  <2>1. Overflow.path \notin Paths
    BY EventsAboutNothing, WatcherAssumption
  <2>2. Len(Strayed(q, p, read)) = Len(q)
    BY StrayedKeeps, <1>2
  <2> QED  BY <1>2, <2>1, <2>2 DEF HasOverflow, Strayed
<1>3. CASE UNCHANGED <<queue, pc>>
  BY <1>3 DEF Deaf, HasOverflow
<1>4. ASSUME NEW op \in Ops, NEW p \in Paths, Report(op, p) \/ ReportGone(op, p),
             UNCHANGED pc
      PROVE  Deaf'
  <2>1. ~HasOverflow(queue') => ~HasOverflow(queue)
    BY <1>1, <1>4, ReportedFacts
  <2> QED  BY <1>4, <2>1 DEF Deaf, HasOverflow
<1>5. Ops = {"create", "write", "remove", "rename"}
      /\ Files \subseteq Paths /\ Dirs \subseteq Paths
  BY DEF Ops, Paths
<1>6. CASE NodeStep
  BY <1>4, <1>5, <1>6
     DEF NodeStep, MkDir, RmDir, MvDir, LoseDir, CoreBegin, CoreWrite, Purge,
         MvCore, LoseCore
<1>7. CASE ConsumerStep
  <2>1. CASE Finish
    BY <1>3, <2>1 DEF Finish
  <2>2. ASSUME NEW f \in Files, Dispose(f) PROVE Deaf'
    BY <1>4, <1>5, <2>2 DEF Dispose
  <2> QED  BY <1>7, <2>1, <2>2 DEF ConsumerStep
<1>8. CASE Start \/ Crash \/ WalkStep \/ AddNewDir
  <2>1. UNCHANGED queue /\ pc # "dead"
    BY <1>8 DEF Start, Crash, WalkStep, WalkAdd, WalkDone, WalkDir, WalkFile,
                WalkGone, AddNewDir
  <2> QED  BY <2>1 DEF Deaf, HasOverflow
<1>9. CASE FileStep
  <2>1. UNCHANGED queue /\ pc # "dead"
    BY <1>9 DEF FileStep, SecondStat, Send
  <2> QED  BY <2>1 DEF Deaf, HasOverflow
<1>10. CASE TakeStep
  <2> SUFFICES ASSUME pc' # "dead" PROVE Deaf'
    BY DEF Deaf
  <2>1. queue # <<>> /\ queue \in Seq(AllEvents) /\ pc = "idle"
    BY <1>1, <1>10
       DEF QueueOK, TakeStep, TakeDirCreate, TakeCore, TakeIdly, TakeRemove,
           TakeRename, TakeStray, TakeOverflow, Receives
  <2>2. HasOverflow(queue)
    BY <2>1 DEF Deaf
  <2>3. Head(queue) # Overflow
    <3>1. /\ \A op, p : Event(op, p) = Overflow => op = "overflow"
          /\ Stray # Overflow
      BY DEF Event, Overflow, Stray
    <3> QED  BY <1>10, <3>1
             DEF TakeStep, TakeDirCreate, TakeCore, TakeIdly, TakeRemove,
                 TakeRename, TakeStray, TakeOverflow, Receives
  <2>4. HasOverflow(Tail(queue)) /\ Tail(queue) \in Seq(AllEvents)
    <3>1. /\ Len(queue) \in Nat /\ Tail(queue) \in Seq(AllEvents)
          /\ Len(Tail(queue)) = Len(queue) - 1 /\ Head(queue) = queue[1]
          /\ \A i \in 1..Len(Tail(queue)) : Tail(queue)[i] = queue[i + 1]
      BY <2>1, TailFacts
    <3>2. PICK i \in 1..Len(queue) : queue[i] = Overflow
      BY <2>2 DEF HasOverflow
    <3>3. i # 1
      BY <2>3, <3>1, <3>2
    <3>4. i - 1 \in 1..Len(Tail(queue)) /\ (i - 1) + 1 = i
      BY <3>1, <3>2, <3>3
    <3>5. Tail(queue)[i - 1] = Overflow
      BY <3>1, <3>2, <3>4
    <3> QED  BY <3>1, <3>4, <3>5 DEF HasOverflow
  <2>5. \/ queue' = Tail(queue)
        \/ \E p \in Paths, read \in {0, 1} : queue' = Strayed(Tail(queue), p, read)
    BY <1>5, <1>10
       DEF TakeStep, TakeDirCreate, TakeCore, TakeIdly, TakeRemove, TakeRename,
           TakeStray, TakeOverflow, RemoveWatch
  <2>6. HasOverflow(queue')
    BY <1>2, <2>4, <2>5
  <2> QED  BY <2>6 DEF Deaf, HasOverflow
<1>11. CASE UNCHANGED vars
  BY <1>3, <1>11 DEF vars
<1> QED  BY <1>6, <1>7, <1>8, <1>9, <1>10, <1>11 DEF Next, WatcherStep

LEMMA CoreInit == Init => CoreInv
<1> SUFFICES ASSUME Init PROVE CoreInv
  OBVIOUS
<1>1. /\ queue = <<>> /\ Len(queue) = 0 /\ pc = "down" /\ watches = {}
      /\ processed = {} /\ heard = {} /\ ev = NoPath /\ cur = NoPath
  BY DEF Init
<1>2. RootInv
  BY <1>1 DEF RootInv
<1>3. ASSUME NEW f \in Files PROVE CoreOK(f)
  <2>1. InOrder(f)
    BY <1>1 DEF InOrder, Ordered
  <2> QED  BY <1>1, <2>1 DEF CoreOK, FeedsSafe, ProbeSafe, MarkSafe
<1> QED  BY <1>2, <1>3 DEF CoreInv

LEMMA CoreStep ==
  ASSUME Undisturbed
  PROVE  TypeOK /\ TypeOK' /\ CoreInv /\ [Next]_vars => CoreInv'
<1> SUFFICES ASSUME TypeOK, TypeOK', CoreInv, [Next]_vars PROVE CoreInv'
  OBVIOUS
<1>1. RootInv'
  BY RootStep DEF CoreInv
<1>2. ASSUME ~Deaf', NEW f \in Files PROVE CoreOK(f)'
  <2>1. CASE ProcessLost
    BY <2>1, CoreLost
  <2>2. CASE ~ProcessLost
    <3>1. CoreOK(f) /\ RootInv /\ ~HasOverflow(queue')
      BY <1>2, <2>2, DeafStays DEF CoreInv, Deaf, HasOverflow
    <3>2. CASE NodeStep
      BY <3>1, <3>2, CoreNode
    <3>3. CASE Start \/ Crash \/ WalkStep \/ AddNewDir
      BY <3>1, <3>3, CoreProcess
    <3>4. CASE TakeStep
      BY <1>2, <3>1, <3>4, CoreTake
    <3>5. CASE FileStep \/ ConsumerStep
      BY <3>1, <3>5, CoreCapture
    <3>6. CASE UNCHANGED vars
      <4>1. UNCHANGED <<disk, dirs, watches, queue, pc, ev, processed, heard,
                        captures>>
        BY <3>6 DEF vars
      <4>2. (Live(f) => Live(f)') /\ (Sent(f) => Sent(f)')
        BY <4>1, LiveIs DEF Sent
      <4>3. OnItsWay(f) => OnItsWay(f)'
        BY <4>1 DEF OnItsWay, Waiting, Feeds, Event
      <4> QED  BY <3>1, <4>1, <4>2, <4>3, CoreQuietly DEF CoreOK
    <3> QED  BY <3>2, <3>3, <3>4, <3>5, <3>6 DEF Next, WatcherStep
  <2> QED  BY <2>1, <2>2
<1>3. ~Deaf' => \A f \in Files : CoreOK(f)'
  BY <1>2
<1> QED  BY <1>1, <1>3 DEF CoreInv

\* A core the watcher was told of and has not sent is still on its way, for
\* every set of cores and every queue limit, and through the handling of every
\* event, late ones of directories that are there again included
\* (filewatch.go:127, 137, 154).  Operators remove cores and, directly below
\* CorefileDir, directories; deeper in the tree the statement is false.
THEOREM CoreCovered ==
  ASSUME Undisturbed
  PROVE  Spec => []HeardCoreCovered
<1>1. Init => CoreInv
  BY CoreInit
<1>2. TypeOK /\ TypeOK' /\ CoreInv /\ [Next]_vars => CoreInv'
  BY CoreStep
<1>3. CoreInv => HeardCoreCovered
  <2> SUFFICES ASSUME CoreInv, ~Deaf, NEW f \in heard \cap Files
               PROVE  \/ disk[f].phase \in {"absent", "emptied"}
                      \/ captures[f][disk[f].gen] > 0
                      \/ pc \in {"sleeping", "sending"} /\ ev = f
                      \/ \E i \in 1..Len(queue) :
                           /\ queue[i] \in {Event("create", f), Event("write", f)}
                           /\ f \in processed =>
                                \E j \in 1..(i - 1) :
                                  queue[j] = Event("remove", f)
    BY DEF HeardCoreCovered
  <2>1. OnItsWay(f)
    BY DEF CoreInv, CoreOK
  <2> QED  BY <2>1 DEF OnItsWay, Waiting, Feeds
<1> QED  BY <1>1, <1>2, <1>3, TypeCorrect, PTL DEF Spec
=============================================================================
