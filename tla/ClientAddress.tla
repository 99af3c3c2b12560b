--------------------------- MODULE ClientAddress ----------------------------
(***************************************************************************)
(* The address a request is attributed to, internal/clientip/clientip.go.  *)
(*                                                                         *)
(* A request goes from its origin through proxies that TRUSTED_PROXIES     *)
(* names, or through none.  Each appends to X-Forwarded-For the address it *)
(* was called from, behind whatever the client had written there.  How an  *)
(* address is spelt, with a port or in brackets, is left out: an entry is  *)
(* an address, or Junk that does not parse.                                *)
(***************************************************************************)
EXTENDS Integers, Sequences

CONSTANTS
    Addr,    \* addresses
    Proxy,   \* those in TRUSTED_PROXIES
    Junk,    \* an empty or malformed entry
    Forged,  \* the headers that clients send
    Route    \* the chains of proxies that requests take

ASSUME ProxyAssumption  == Proxy \subseteq Addr /\ Junk \notin Addr
ASSUME HeaderAssumption == Forged \subseteq Seq(Addr \cup {Junk})
ASSUME RouteAssumption  == Route \subseteq Seq(Proxy)

-----------------------------------------------------------------------------
(* The walk *)

Parsed(header)    == {i \in DOMAIN header : header[i] # Junk}
Strangers(header) == {i \in Parsed(header) : header[i] \notin Proxy}

Rightmost(S) == CHOOSE i \in S : \A j \in S : j <= i
Leftmost(S)  == CHOOSE i \in S : \A j \in S : i <= j

\* Mutant: the first entry is the client.
FromLeftmost(peer, header) ==
    IF peer \in Proxy /\ Parsed(header) # {} THEN header[Leftmost(Parsed(header))] ELSE peer

\* The header of a peer that is not trusted is not read.  Otherwise the client is the
\* last entry that is not trusted itself; failing that the first one; failing that
\* the peer.
From(peer, header) ==
    IF peer \notin Proxy THEN peer
    ELSE IF Strangers(header) # {} THEN header[Rightmost(Strangers(header))]
    ELSE IF Parsed(header) # {} THEN header[Leftmost(Parsed(header))]
    ELSE peer

-----------------------------------------------------------------------------
(* Requests *)

\* What each proxy of the path was called from.
Callers(origin, path) == [i \in 1 .. Len(path) |-> IF i = 1 THEN origin ELSE path[i - 1]]

Peer(origin, path) == IF path = <<>> THEN origin ELSE path[Len(path)]

\* A trusted machine does not write into the header what it has not seen.
Sent(origin) == IF origin \in Proxy THEN {<<>>} ELSE Forged

Arrival(origin, sent, path) ==
    [origin |-> origin, addr |-> From(Peer(origin, path), sent \o Callers(origin, path))]

\* The requests as the limiters see them, with where they come from.
Arrivals == UNION {{Arrival(o, h, p) : h \in Sent(o), p \in Route} : o \in Addr}
=============================================================================
