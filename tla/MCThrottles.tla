---------------------------- MODULE MCThrottles -----------------------------
(* Instances of Throttles for TLC. *)
EXTENDS Throttles, TLC

\* Clients write one or two entries, and one or two proxies add theirs.
headers == {<<>>} \cup {<<x>> : x \in Addr \cup {Junk}}
                 \cup {<<x, y>> : x \in Addr \cup {Junk}, y \in Addr \cup {Junk}}
routes  == {<<>>} \cup {<<p>> : p \in Proxy} \cup {<<p, q>> : p \in Proxy, q \in Proxy}

Symmetry == Permutations(Addr \ Proxy) \cup Permutations(Req)
=============================================================================
