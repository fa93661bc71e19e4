------------------------------ MODULE MCPairing ------------------------------
(***************************************************************************)
(* Two devices that share their uniqueid and address, or one of the two.   *)
(***************************************************************************)
EXTENDS Pairing

MCHomes ==
  {[phone |-> k, tv |-> [id |-> "u1", ip |-> "lan"]] :
     k \in {[id |-> "u1", ip |-> "lan"], [id |-> "u2", ip |-> "lan"], [id |-> "u1", ip |-> "wan"]}}
=============================================================================
