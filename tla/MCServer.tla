------------------------------ MODULE MCServer ------------------------------
(***************************************************************************)
(* A small instance of Server: two requests whose pods raise alerts, and a *)
(* third of any other kind.                                                *)
(***************************************************************************)
EXTENDS Server

ThreeRequests == {"r1", "r2", "r3"}
AlertsAndOneMore ==
  {[r \in Requests |-> IF r = "r3" THEN k ELSE "badPod"] :
     k \in RequestKinds \ {"badPod"}}
=============================================================================
