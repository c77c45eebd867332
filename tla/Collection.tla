----------------------------- MODULE Collection -----------------------------
(***************************************************************************)
(* What CoreDog promises, whichever way watcher, agent, store and crashes  *)
(* interleave: the node's only copy of a complete core is given up by      *)
(* CoreDog when the store has it, the store does not lose it again, and    *)
(* nobody is told of an object that is not there.  It does not promise     *)
(* that a core is stored.                                                  *)
(***************************************************************************)
EXTENDS Naturals

CONSTANTS Cores, MaxPurges

VARIABLES
  complete,  \* cores whose dump has ended
  kept,      \* cores of which the node has all the bytes
  stored,    \* cores of which the store has all the bytes
  announced, \* cores somebody was given a URL of
  purges     \* files operators may still take away

vars == <<complete, kept, stored, announced, purges>>

Init ==
  /\ complete = {} /\ kept = {} /\ stored = {} /\ announced = {}
  /\ purges = MaxPurges

Complete(c) ==
  /\ c \notin complete
  /\ complete' = complete \cup {c}
  /\ kept' = kept \cup {c}
  /\ UNCHANGED <<stored, announced, purges>>

\* Possible even after a purge: the file may have been opened before it.
Store(c) ==
  /\ c \in complete
  /\ stored' = stored \cup {c}
  /\ UNCHANGED <<complete, kept, announced, purges>>

Announce(c) ==
  /\ c \in stored
  /\ announced' = announced \cup {c}
  /\ UNCHANGED <<complete, kept, stored, purges>>

Dispose(c) ==
  /\ c \in stored
  /\ kept' = kept \ {c}
  /\ UNCHANGED <<complete, stored, announced, purges>>

Purge(c) ==
  /\ purges > 0
  /\ kept' = kept \ {c}
  /\ purges' = purges - 1
  /\ UNCHANGED <<complete, stored, announced>>

\* An operator spends a disturbance on something else.
Disturb ==
  /\ purges > 0
  /\ purges' = purges - 1
  /\ UNCHANGED <<complete, kept, stored, announced>>

Next ==
  \/ Disturb
  \/ \E c \in Cores :
       Complete(c) \/ Store(c) \/ Announce(c) \/ Dispose(c) \/ Purge(c)

Spec == Init /\ [][Next]_vars
=============================================================================
