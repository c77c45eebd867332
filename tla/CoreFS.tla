------------------------------- MODULE CoreFS -------------------------------
(***************************************************************************)
(* The dump directory of one node as the programs of this repository see   *)
(* it.  The kernel, the kubelet and operators own it, none of their code   *)
(* is in src/: the module says what a core file can be when the watcher    *)
(* stats it (filewatch.go:92, 176, 189), when a store opens it             *)
(* (store.go:35, cfs.go:23) and after the agent has truncated or removed   *)
(* it (agent.go:133, 139).                                                 *)
(*                                                                         *)
(* A core file is a path that successive processes may dump to: its gen    *)
(* counts the dumps.  With the documented core_pattern core.%e.%p.%h.%t    *)
(* (README.md:39) a name is used once, which is MaxGen = 1; a pattern      *)
(* without %t and %p uses it again.  Bytes are abstracted to a size that   *)
(* grows by one with every write until the dump has CoreSize of them.      *)
(***************************************************************************)
EXTENDS Naturals

CONSTANTS Files,     \* paths of core files
          CoreSize,  \* size of a complete core
          MaxGen     \* bound on the dumps to one path

ASSUME CoreFSAssumption ==
  /\ CoreSize \in Nat \ {0}
  /\ MaxGen \in Nat \ {0}

Phases == {"absent", "dumping", "dumped", "emptied"}

CoreState ==
  {core \in [gen : 0..MaxGen, phase : Phases, size : 0..CoreSize] :
     /\ core.phase # "absent" => core.gen > 0
     /\ core.phase = "absent" => core.size = 0
     /\ core.phase = "dumping" => core.size < CoreSize}

NoCore == [gen |-> 0, phase |-> "absent", size |-> 0]

OnDisk(core) == core.phase # "absent"

\* The kernel opens the file of a new dump: it creates it, or truncates the
\* file a former dump left under the same name.
BeginDump(core) == [gen |-> core.gen + 1, phase |-> "dumping", size |-> 0]

\* One write of the dump; the last one completes it.
WriteDump(core) ==
  [gen |-> core.gen,
   phase |-> IF core.size + 1 = CoreSize THEN "dumped" ELSE "dumping",
   size |-> core.size + 1]

\* unlink(2): os.Remove in the agent, rm by an operator.
Unlink(core) == [gen |-> core.gen, phase |-> "absent", size |-> 0]

\* truncate(2) to zero: os.Truncate in the agent.  A process that is still
\* dumping goes on at its own offset, into a file with a hole.
Empty(core) == [gen |-> core.gen, phase |-> "emptied", size |-> 0]
=============================================================================
