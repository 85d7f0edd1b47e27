---------------------------- MODULE MCRelayStore ----------------------------
(* One mutation and one read-only job whose requests hash alike, so that    *)
(* the hash alone cannot tell them apart.                                   *)
EXTENDS RelayStore

SameHash == [j \in Jobs |-> "h1"]
=============================================================================
