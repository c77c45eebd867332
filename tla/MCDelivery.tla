----------------------------- MODULE MCDelivery -----------------------------
(***************************************************************************)
(* A small instance of Delivery: a timeout below the default, none, and a  *)
(* negative one.                                                           *)
(***************************************************************************)
EXTENDS Delivery

SomeTimeouts == {-1, 0, 1}
=============================================================================
