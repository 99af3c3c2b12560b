-------------------------- MODULE MCConfigDispatch --------------------------
(* Instances of ConfigDispatch for TLC. *)
EXTENDS ConfigDispatch, TLC

CONSTANTS t1, t2, addr, icmp, dns

\* As the gateway seeds them: one target whose address is still to be filled in,
\* and one that is complete.
SeedTwo == t1 :> [enabled |-> TRUE, address |-> NoAddress, types |-> {icmp}] @@
           t2 :> [enabled |-> TRUE, address |-> addr, types |-> {icmp}]
SeedBlank == t1 :> [enabled |-> TRUE, address |-> NoAddress, types |-> {icmp}]
SeedOne == t1 :> [enabled |-> TRUE, address |-> addr, types |-> {icmp, dns}]
=============================================================================
