-------------------------- MODULE ThrottlesProofs ---------------------------
(***************************************************************************)
(* Proofs about Throttles: that a request is charged to its origin, how    *)
(* far the lookups of a blocked address can go on, and that each limiter   *)
(* keeps the account that Allowance describes.                             *)
(***************************************************************************)
EXTENDS Throttles, FiniteSetTheorems, TLAPS

(* Client addresses *)

\* Whatever a client sends, and whichever trusted proxies its request takes, the walk
\* ends at the address the request came from.
LEMMA WalkFindsOrigin ==
    ASSUME NEW o \in Addr, NEW sent \in Sent(o), NEW path \in Route
    PROVE  From(Peer(o, path), sent \o Callers(o, path)) = o
<1> DEFINE n == Len(path)
           k == Len(sent)
           h == sent \o Callers(o, path)
<1> SUFFICES From(Peer(o, path), h) = o
  OBVIOUS
<1>1. path \in Seq(Proxy) /\ n \in Nat /\ sent \in Seq(Addr \cup {Junk}) /\ k \in Nat
  <2>1. sent \in Forged \/ sent = <<>>
    BY DEF Sent
  <2>2. sent \in Seq(Addr \cup {Junk})
    <3>1. CASE sent \in Forged
      BY <3>1, HeaderAssumption
    <3>2. CASE sent = <<>>
      BY <3>2
    <3> QED  BY <2>1, <3>1, <3>2
  <2> QED  BY <2>2, RouteAssumption
<1>2. Callers(o, path) \in Seq(Addr) /\ Len(Callers(o, path)) = n
  BY <1>1, ProxyAssumption DEF Callers
<1>3. /\ h \in Seq(Addr \cup {Junk}) /\ Len(h) = k + n
      /\ \A i \in k + 1 .. k + n : h[i] = IF i = k + 1 THEN o ELSE path[i - k - 1]
  BY <1>1, <1>2 DEF Callers
<1>4. \A i \in k + 2 .. k + n : h[i] \in Proxy
  <2> SUFFICES ASSUME NEW i \in k + 2 .. k + n  PROVE h[i] \in Proxy
    OBVIOUS
  <2>1. /\ i \in k + 1 .. k + n /\ i # k + 1
        /\ i - k - 1 \in 1 .. n
    BY <1>1
  <2>2. h[i] = path[i - k - 1]
    BY <1>3, <2>1
  <2>3. path[i - k - 1] \in Proxy
    BY <1>1, <2>1
  <2> QED  BY <2>2, <2>3
<1>5. CASE o \notin Proxy /\ n > 0
  <2>1. k + 1 \in Strangers(h) /\ h[k + 1] = o
    <3>1. k + 1 \in k + 1 .. k + n /\ k + 1 \in 1 .. k + n
      BY <1>1, <1>5
    <3>2. DOMAIN h = 1 .. k + n
      BY <1>3
    <3>3. h[k + 1] = o
      BY <1>3, <3>1
    <3>4. o # Junk
      BY ProxyAssumption
    <3> HIDE DEF h, k, n
    <3> QED  BY <1>5, <3>1, <3>2, <3>3, <3>4, Zenon DEF Strangers, Parsed
  <2>2. \A i \in Strangers(h) : i \in Int /\ i <= k + 1
    BY <1>1, <1>3, <1>4 DEF Strangers, Parsed
  <2>3. Rightmost(Strangers(h)) = k + 1
    <3> DEFINE S == Strangers(h)
               top == k + 1
    <3>1. top \in S /\ top \in Int /\ \A i \in S : i \in Int /\ i <= top
      BY <1>1, <2>1, <2>2
    <3> HIDE DEF S, top
    <3>2. \E i \in S : \A j \in S : j <= i
      BY <3>1
    <3>3. Rightmost(S) \in S /\ \A j \in S : j <= Rightmost(S)
      BY <3>2 DEF Rightmost
    <3>4. Rightmost(S) \in Int /\ Rightmost(S) <= top /\ top <= Rightmost(S)
      BY <3>1, <3>3
    <3>5. Rightmost(S) = top
      BY <3>1, <3>4
    <3> QED  BY <3>5 DEF S, top
  <2>4. Peer(o, path) \in Proxy
    BY <1>1, <1>5 DEF Peer
  <2> QED  BY <2>1, <2>3, <2>4 DEF From
<1>6. CASE o \in Proxy /\ n > 0
  <2>1. k = 0
    BY <1>6 DEF Sent
  <2>2. DOMAIN h = 1 .. n /\ \A i \in 1 .. n : h[i] \in Proxy /\ h[i] # Junk
    BY <1>1, <1>3, <1>4, <1>6, <2>1, ProxyAssumption
  <2>3. Strangers(h) = {} /\ Parsed(h) = 1 .. n
    BY <2>2 DEF Strangers, Parsed
  <2>4. Leftmost(1 .. n) = 1
    BY <1>1, <1>6 DEF Leftmost
  <2>5. h[1] = o /\ Parsed(h) # {}
    BY <1>1, <1>3, <1>6, <2>1, <2>3
  <2>6. Peer(o, path) \in Proxy
    BY <1>1, <1>6 DEF Peer
  <2> QED
    <3> HIDE DEF h
    <3> QED  BY <2>3, <2>4, <2>5, <2>6 DEF From
<1>7. CASE n = 0
  <2>1. path = <<>> /\ Peer(o, path) = o
    BY <1>1, <1>7 DEF Peer
  <2>2. CASE o \notin Proxy
    BY <2>1, <2>2 DEF From
  <2>3. CASE o \in Proxy
    <3>1. k = 0
      BY <2>3 DEF Sent
    <3>2. DOMAIN h = {}
      BY <1>3, <1>7, <3>1
    <3>3. Parsed(h) = {} /\ Strangers(h) = {}
      BY <3>2 DEF Parsed, Strangers
    <3> QED
      <4> HIDE DEF h
      <4> QED  BY <2>1, <3>3 DEF From
  <2> QED  BY <2>2, <2>3
<1> QED
  BY <1>1, <1>5, <1>6, <1>7

LEMMA ArrivalsTrue == \A s \in Arrivals : s.addr \in Addr /\ s.origin = s.addr
BY WalkFindsOrigin DEF Arrivals, Arrival

-----------------------------------------------------------------------------
(* The maps *)

\* A map of either limiter, within its bound.
Sound(map, burst) == map \in Map(burst) /\ Cardinality(Tracked(map)) <= MaxTracked

LEMMA TrackedFinite ==
    ASSUME NEW map
    PROVE  IsFiniteSet(Tracked(map)) /\ Cardinality(Tracked(map)) \in Nat
<1>1. Tracked(map) \subseteq Addr
  BY DEF Tracked
<1> QED
  BY <1>1, AddrAssumption, FS_Subset, FS_CardinalityType

\* Whoever is forgotten, there is a bucket for a afterwards, and room.
LEMMA RoomSound ==
    ASSUME NEW burst \in Nat \ {0}, NEW map, Sound(map, burst), NEW a \in Addr,
           NEW victims \in SUBSET Tracked(map), NEW new \in Room(map, a, burst, victims)
    PROVE  Sound(new, burst) /\ a \in Tracked(new)
<1> DEFINE T == Tracked(map)
<1>0. /\ IsFiniteSet(T) /\ Cardinality(T) \in Nat /\ Cardinality(T) <= MaxTracked
      /\ T \subseteq Addr /\ map \in [Addr -> (0 .. burst) \cup {Absent}]
      /\ MaxTracked \in Nat \ {0}
  BY TrackedFinite, BoundAssumption DEF Sound, Map, Tracked
<1>1. CASE a \in T
  BY <1>1 DEF Room
<1>2. CASE a \notin T /\ Cardinality(T) < MaxTracked
  <2>1. new = [map EXCEPT ![a] = burst]
    BY <1>2 DEF Room
  <2>2. new \in Map(burst) /\ Tracked(new) = T \cup {a}
    BY <1>0, <2>1 DEF Map, Tracked, Absent
  <2>3. Cardinality(T \cup {a}) = Cardinality(T) + 1
    BY <1>0, <1>2, FS_AddElement
  <2> QED  BY <1>0, <1>2, <2>2, <2>3 DEF Sound
<1>3. CASE a \notin T /\ ~(Cardinality(T) < MaxTracked)
  <2>1. PICK b \in victims : new = [map EXCEPT ![b] = Absent, ![a] = burst]
    BY <1>3 DEF Room
  <2>2. new \in Map(burst) /\ Tracked(new) = (T \ {b}) \cup {a}
    BY <1>0, <1>3, <2>1 DEF Map, Tracked, Absent
  <2>3. Cardinality((T \ {b}) \cup {a}) = Cardinality(T)
    <3>1. b \in T /\ IsFiniteSet(T)
      BY <1>0
    <3>2. IsFiniteSet(T \ {b}) /\ Cardinality(T \ {b}) = Cardinality(T) - 1
      <4> HIDE DEF T
      <4> QED  BY <3>1, FS_RemoveElement
    <3>3. a \notin T \ {b}
      BY <1>3
    <3>4. Cardinality((T \ {b}) \cup {a}) = Cardinality(T \ {b}) + 1
      <4> DEFINE S == T \ {b}
      <4>1. IsFiniteSet(S) /\ a \notin S
        BY <3>2, <3>3
      <4> HIDE DEF S
      <4>2. Cardinality(S \cup {a}) = Cardinality(S) + 1
        BY <4>1, FS_AddElement
      <4> QED  BY <4>2 DEF S
    <3>5. Cardinality(T) \in Nat
      BY <1>0
    <3> HIDE DEF T
    <3> QED  BY <3>2, <3>4, <3>5
  <2> QED  BY <1>0, <2>2, <2>3 DEF Sound
<1> QED
  BY <1>1, <1>2, <1>3

\* What Room does to the entry of a and to the others.
LEMMA RoomEntries ==
    ASSUME NEW burst \in Nat \ {0}, NEW map, Sound(map, burst), NEW a \in Addr,
           NEW victims \in SUBSET Tracked(map), NEW new \in Room(map, a, burst, victims)
    PROVE  /\ new[a] = IF a \in Tracked(map) THEN map[a] ELSE burst
           /\ \A c \in Addr \ {a} : new[c] \in {map[c], Absent}
<1>1. map \in [Addr -> (0 .. burst) \cup {Absent}]
  BY DEF Sound, Map
<1>2. CASE a \in Tracked(map)
  BY <1>2 DEF Room
<1>3. CASE a \notin Tracked(map) /\ Cardinality(Tracked(map)) < MaxTracked
  <2>1. new = [map EXCEPT ![a] = burst]
    BY <1>3 DEF Room
  <2> QED  BY <1>1, <1>3, <2>1
<1>4. CASE a \notin Tracked(map) /\ ~(Cardinality(Tracked(map)) < MaxTracked)
  <2>1. PICK b \in victims : new = [map EXCEPT ![b] = Absent, ![a] = burst]
    BY <1>4 DEF Room
  <2> QED  BY <1>1, <1>4, <2>1
<1> QED
  BY <1>2, <1>3, <1>4

\* Taking a token keeps everybody where they are.
LEMMA TakeSound ==
    ASSUME NEW burst \in Nat, NEW map, Sound(map, burst), NEW a \in Tracked(map)
    PROVE  /\ Sound(Take(map, a), burst)
           /\ Take(map, a) = [map EXCEPT ![a] = IF map[a] > 0 THEN map[a] - 1 ELSE map[a]]
<1>1. map \in [Addr -> (0 .. burst) \cup {Absent}] /\ a \in Addr /\ map[a] \in 0 .. burst
  BY DEF Sound, Map, Tracked
<1>2. Take(map, a) = [map EXCEPT ![a] = IF map[a] > 0 THEN map[a] - 1 ELSE map[a]]
  BY <1>1 DEF Take
<1>3. Take(map, a) \in Map(burst) /\ Tracked(Take(map, a)) = Tracked(map)
  BY <1>1, <1>2 DEF Map, Tracked, Absent
<1> QED
  BY <1>2, <1>3 DEF Sound

LEMMA StampType ==
    ASSUME NEW s \in [Addr -> SUBSET Addr], NEW a \in Addr
    PROVE  Stamp(s, a) \in [Addr -> SUBSET Addr]
BY DEF Stamp

LEMMA OldestTracked == \A map, s : Oldest(map, s) \in SUBSET Tracked(map)
BY DEF Oldest

LEMMA EvictIdleTracked == EvictIdle \in SUBSET Tracked(buckets)
BY DEF EvictIdle, Oldest

-----------------------------------------------------------------------------
(* Types and the bound on the maps *)

LEMMA TypeInit == Init => TypeOK
<1> SUFFICES ASSUME Init  PROVE TypeOK
  OBVIOUS
<1>1. Tracked(failures) = {} /\ Tracked(buckets) = {}
  BY DEF Init, Tracked
<1>2. Cardinality({}) = 0
  BY FS_EmptySet
<1> QED
  BY <1>1, <1>2, BoundAssumption DEF Init, TypeOK, Map

LEMMA TypeStep == TypeOK /\ [Next]_vars => TypeOK'
<1> SUFFICES ASSUME TypeOK, [Next]_vars  PROVE TypeOK'
  OBVIOUS
<1> DEFINE Request == [pc : {"lookup", "charge"}, addr : Addr, origin : Addr]
<1>0. Sound(failures, AuthFailureBurst) /\ Sound(buckets, RegisterBurst)
  BY DEF TypeOK, Sound
<1>1. ASSUME NEW r \in Req, NEW s \in Arrivals, Peek(r, s)  PROVE TypeOK'
  <2>0. s.addr \in Addr /\ s.origin \in Addr
    BY ArrivalsTrue
  <2>1. Begun(s) \in Request
    BY <2>0 DEF Begun
  <2>2. req' \in [Req -> Request \cup {IdleReq}]
    BY <1>1, <2>1 DEF Peek, TypeOK
  <2>3. used' \in [Addr -> SUBSET Addr] /\ seen' \in [Addr -> SUBSET Addr]
    BY <1>1, <2>0, StampType DEF Peek, TypeOK
  <2> QED  BY <1>1, <2>2, <2>3 DEF Peek, TypeOK, portal
<1>2. ASSUME NEW r \in Req, Lookup(r)  PROVE TypeOK'
  <2> DEFINE a == req[r].addr
  <2>1. req[r] \in Request /\ a \in Addr
    BY <1>2 DEF Lookup, TypeOK, IdleReq
  <2>2. [req[r] EXCEPT !.pc = "charge"] \in Request
    BY <2>1
  <2>3. req' \in [Req -> Request \cup {IdleReq}]
    BY <1>2, <2>2 DEF Lookup, TypeOK
  <2>4. over' \in [Addr -> Nat]
    BY <1>2, <2>1 DEF Lookup, TypeOK
  <2> QED  BY <1>2, <2>3, <2>4 DEF Lookup, TypeOK, portal
<1>3. ASSUME NEW r \in Req, Charge(r)  PROVE TypeOK'
  <2> DEFINE a == req[r].addr
  <2>1. a \in Addr
    BY <1>3 DEF Charge, TypeOK, IdleReq
  <2>2. PICK map \in Room(failures, a, AuthFailureBurst, Oldest(failures, used)) :
           failures' = Take(map, a)
    BY <1>3 DEF Charge
  <2>3. Sound(map, AuthFailureBurst) /\ a \in Tracked(map)
    BY <1>0, <2>1, <2>2, RoomSound, OldestTracked, BoundAssumption
  <2>4. Sound(failures', AuthFailureBurst)
    BY <2>2, <2>3, TakeSound, BoundAssumption
  <2>5. used' \in [Addr -> SUBSET Addr] /\ seen' \in [Addr -> SUBSET Addr]
    BY <1>3, <2>1, StampType DEF Charge, TypeOK
  <2>6. over' \in [Addr -> Nat] /\ req' \in [Req -> Request \cup {IdleReq}]
    BY <1>3, <2>1 DEF Charge, TypeOK
  <2>7. UNCHANGED <<buckets, usedReg>>
    BY <1>3 DEF Charge, portal
  <2> QED  BY <2>4, <2>5, <2>6, <2>7 DEF TypeOK, Sound, Tracked
<1>4. ASSUME NEW a \in Addr, RefillFailures(a)  PROVE TypeOK'
  <2>1. failures' \in Map(AuthFailureBurst) /\ Tracked(failures') = Tracked(failures)
    BY <1>0, <1>4, BoundAssumption DEF RefillFailures, Sound, Map, Tracked, Absent
  <2>2. over' \in [Addr -> Nat]
    BY <1>4 DEF RefillFailures, TypeOK
  <2>3. Cardinality(Tracked(failures')) <= MaxTracked
    BY <1>0, <2>1 DEF Sound
  <2> QED  BY <1>4, <2>1, <2>2, <2>3 DEF RefillFailures, TypeOK, portal, Tracked
<1>5. ASSUME NEW s \in Arrivals, Register(s)  PROVE TypeOK'
  <2> DEFINE a == s.addr
  <2>0. a \in Addr
    BY ArrivalsTrue
  <2>1. PICK map \in Room(buckets, a, RegisterBurst, EvictIdle) : buckets' = Take(map, a)
    BY <1>5 DEF Register
  <2>2. Sound(map, RegisterBurst) /\ a \in Tracked(map)
    BY <1>0, <2>0, <2>1, RoomSound, EvictIdleTracked, BoundAssumption
  <2>3. Sound(buckets', RegisterBurst)
    BY <2>1, <2>2, TakeSound, BoundAssumption
  <2>4. usedReg' \in [Addr -> SUBSET Addr]
    BY <1>5, <2>0, StampType DEF Register, TypeOK
  <2>5. UNCHANGED <<failures, used, req, seen, over>>
    BY <1>5 DEF Register, api
  <2> QED  BY <2>3, <2>4, <2>5 DEF TypeOK, Sound, Tracked
<1>6. ASSUME NEW a \in Addr, RefillBuckets(a)  PROVE TypeOK'
  <2>1. buckets' \in Map(RegisterBurst) /\ Tracked(buckets') = Tracked(buckets)
    BY <1>0, <1>6, BoundAssumption DEF RefillBuckets, Sound, Map, Tracked, Absent
  <2>2. Cardinality(Tracked(buckets')) <= MaxTracked
    BY <1>0, <2>1 DEF Sound
  <2> QED  BY <1>6, <2>1, <2>2 DEF RefillBuckets, TypeOK, api, Tracked
<1>7. CASE UNCHANGED vars
  BY <1>7 DEF vars, api, portal, TypeOK, Tracked
<1> QED
  BY <1>1, <1>2, <1>3, <1>4, <1>5, <1>6, <1>7 DEF Next

\* Every variable keeps its type, and neither map outgrows its bound.
THEOREM TypeCorrect == Spec => []TypeOK
  BY TypeInit, TypeStep, PTL DEF Spec

\* A push is looked up and charged under the address it came from, whatever it says of
\* itself and whichever proxies it took.
THEOREM OriginCharged == Spec => []OriginIsCharged
<1>1. Init => OriginIsCharged
  BY DEF Init, OriginIsCharged, IdleReq
<1>2. ASSUME TypeOK, OriginIsCharged, [Next]_vars  PROVE OriginIsCharged'
  <2>1. ASSUME NEW r \in Req, NEW s \in Arrivals, Peek(r, s)  PROVE OriginIsCharged'
    BY <1>2, <2>1, ArrivalsTrue DEF Peek, Begun, OriginIsCharged, TypeOK
  <2>2. ASSUME NEW r \in Req, Lookup(r) \/ Charge(r)  PROVE OriginIsCharged'
    BY <1>2, <2>2 DEF Lookup, Charge, OriginIsCharged, IdleReq, TypeOK
  <2>3. CASE UNCHANGED req
    BY <1>2, <2>3 DEF OriginIsCharged
  <2>4. ASSUME \/ \E s \in Arrivals : Register(s)
               \/ \E a \in Addr : RefillFailures(a) \/ RefillBuckets(a)
        PROVE  UNCHANGED req
    BY <2>4 DEF Register, RefillFailures, RefillBuckets, api
  <2>5. UNCHANGED vars => UNCHANGED req
    BY DEF vars
  <2> QED  BY <1>2, <2>1, <2>2, <2>3, <2>4, <2>5 DEF Next
<1> QED
  BY <1>1, <1>2, TypeCorrect, PTL DEF Spec

-----------------------------------------------------------------------------
(* The flood *)

\* The pushes of address a that are between the peek and the answer to the lookup.
Passed(a) == {r \in Req : req[r].pc = "lookup" /\ req[r].addr = a}

\* What has passed the peek is all that can still be looked up for an address
\* without tokens, and one slot at least has been charged for the last token.
FloodInv ==
    \A a \in Addr :
        /\ Blocked(a) => over[a] + Cardinality(Passed(a)) < Cardinality(Req)
        /\ ~Blocked(a) => over[a] = 0 \/ a \notin Tracked(failures)

LEMMA PassedFinite ==
    ASSUME NEW a
    PROVE  IsFiniteSet(Passed(a)) /\ Cardinality(Passed(a)) \in Nat
<1>1. Passed(a) \in SUBSET Req
  BY DEF Passed
<1> QED
  BY <1>1, ReqAssumption, FS_Subset, FS_CardinalityType

LEMMA FloodStep ==
    ASSUME TypeOK, FloodInv, [Next]_vars
    PROVE  FloodInv'
<1> DEFINE Holds(a) ==
             /\ Blocked(a) => over[a] + Cardinality(Passed(a)) < Cardinality(Req)
             /\ ~Blocked(a) => over[a] = 0 \/ a \notin Tracked(failures)
<1>0. /\ \A a \in Addr : Holds(a) /\ over[a] \in Nat /\ Cardinality(Passed(a)) \in Nat
      /\ Cardinality(Req) \in Nat
  BY ReqAssumption, FS_CardinalityType, PassedFinite DEF FloodInv, TypeOK
<1>1. SUFFICES ASSUME NEW b \in Addr  PROVE Holds(b)'
  BY DEF FloodInv
<1>2. CASE /\ failures'[b] = failures[b] \/ failures'[b] = Absent
           /\ over'[b] = over[b]
           /\ Passed(b)' = Passed(b)
  <2>1. Holds(b)
    BY <1>0
  <2> QED  BY <1>2, <2>1 DEF Blocked, Tracked, Absent
<1>3. ASSUME NEW r \in Req, NEW s \in Arrivals, Peek(r, s)  PROVE Holds(b)'
  <2> DEFINE a == s.addr
  <2>1. req' = [req EXCEPT ![r] = Begun(s)] \/ req' = req
    BY <1>3 DEF Peek
  <2>2. CASE Blocked(b) \/ b # a
    <3>1. Passed(b)' = Passed(b)
      BY <1>3, <2>2 DEF Peek, Begun, Passed, TypeOK
    <3> QED  BY <1>2, <1>3, <3>1 DEF Peek
  <2>3. CASE ~Blocked(b)
    BY <1>0, <1>3, <2>3 DEF Peek, Blocked, Tracked
  <2> QED  BY <2>2, <2>3
<1>4. ASSUME NEW r \in Req, Lookup(r)  PROVE Holds(b)'
  <2> DEFINE a == req[r].addr
  <2>1. a \in Addr /\ UNCHANGED failures
    BY <1>4 DEF Lookup, TypeOK, IdleReq
  <2>2. CASE b = a
    <3>1. r \in Passed(b) /\ Passed(b)' = Passed(b) \ {r}
      BY <1>4, <2>2 DEF Lookup, Passed, TypeOK, IdleReq
    <3>2. Cardinality(Passed(b) \ {r}) = Cardinality(Passed(b)) - 1
      BY <3>1, PassedFinite, FS_RemoveElement
    <3>3. over'[b] = IF Blocked(b) THEN over[b] + 1 ELSE over[b]
      BY <1>4, <2>1, <2>2 DEF Lookup, TypeOK
    <3>4. Cardinality(Passed(b))' = Cardinality(Passed(b)) - 1
      BY <3>1, <3>2
    <3> QED  BY <1>0, <2>1, <3>3, <3>4 DEF Blocked, Tracked
  <2>3. CASE b # a
    <3>1. Passed(b)' = Passed(b) /\ over'[b] = over[b]
      BY <1>4, <2>1, <2>3 DEF Lookup, Passed, TypeOK, IdleReq
    <3> QED  BY <1>2, <2>1, <3>1
  <2> QED  BY <2>2, <2>3
<1>5. ASSUME NEW r \in Req, Charge(r)  PROVE Holds(b)'
  <2> DEFINE a == req[r].addr
  <2>1. a \in Addr /\ Sound(failures, AuthFailureBurst)
    BY <1>5 DEF Charge, TypeOK, IdleReq, Sound
  <2>2. PICK map \in Room(failures, a, AuthFailureBurst, Oldest(failures, used)) :
           failures' = Take(map, a)
    BY <1>5 DEF Charge
  <2>3. /\ Sound(map, AuthFailureBurst) /\ a \in Tracked(map)
        /\ map[a] = IF a \in Tracked(failures) THEN failures[a] ELSE AuthFailureBurst
        /\ \A c \in Addr \ {a} : map[c] \in {failures[c], Absent}
    BY <2>1, <2>2, RoomSound, RoomEntries, OldestTracked, BoundAssumption
  <2>4. failures' = [map EXCEPT ![a] = IF map[a] > 0 THEN map[a] - 1 ELSE map[a]]
    BY <2>2, <2>3, TakeSound, BoundAssumption
  <2>5. map \in [Addr -> (0 .. AuthFailureBurst) \cup {Absent}] /\ map[a] \in Nat
    BY <2>3 DEF Sound, Map, Tracked
  <2>6. Passed(b)' = Passed(b) /\ r \notin Passed(b)
    BY <1>5, <2>1 DEF Charge, Passed, TypeOK, IdleReq
  <2>7. CASE b # a
    <3>1. failures'[b] = failures[b] \/ failures'[b] = Absent
      BY <2>3, <2>4, <2>5, <2>7
    <3>2. over'[b] = over[b]
      BY <1>5, <2>1, <2>7 DEF Charge, TypeOK
    <3> QED  BY <1>2, <2>6, <3>1, <3>2
  <2>8. CASE b = a /\ Blocked(b)
    <3>1. b \in Tracked(failures)
      BY <2>8 DEF Blocked, Tracked, Absent
    <3>2. failures'[b] = failures[b]
      BY <2>3, <2>4, <2>5, <2>8, <3>1 DEF Blocked
    <3>3. over'[b] = over[b]
      BY <1>5, <2>8, <3>1 DEF Charge
    <3> QED  BY <1>2, <2>6, <3>2, <3>3
  <2>9. CASE b = a /\ ~Blocked(b)
    <3>1. over'[b] = 0
      <4>1. CASE b \in Tracked(failures)
        BY <1>0, <1>5, <2>9, <4>1 DEF Charge
      <4>2. CASE b \notin Tracked(failures)
        BY <1>5, <2>1, <2>9, <4>2 DEF Charge, TypeOK
      <4> QED  BY <4>1, <4>2
    <3>2. Cardinality(Passed(b)) < Cardinality(Req)
      <4> DEFINE S == Passed(b)
      <4>1. S \in SUBSET Req /\ S # Req
        BY <2>6 DEF Passed
      <4> HIDE DEF S
      <4>2. Cardinality(S) <= Cardinality(Req) /\ Cardinality(S) # Cardinality(Req)
        BY <4>1, ReqAssumption, FS_Subset
      <4>3. Cardinality(S) \in Nat
        BY PassedFinite DEF S
      <4> QED  BY <1>0, <4>2, <4>3 DEF S
    <3> QED  BY <1>0, <2>6, <3>1, <3>2
  <2> QED  BY <2>7, <2>8, <2>9
<1>6. ASSUME NEW a \in Addr, RefillFailures(a)  PROVE Holds(b)'
  <2>1. Passed(b)' = Passed(b)
    BY <1>6 DEF RefillFailures, Passed
  <2>2. CASE b # a
    BY <1>2, <1>6, <2>1, <2>2 DEF RefillFailures, TypeOK, Map
  <2>3. CASE b = a
    BY <1>6, <2>3, BoundAssumption DEF RefillFailures, TypeOK, Map, Blocked, Tracked
  <2> QED  BY <2>2, <2>3
<1>7. CASE UNCHANGED api
  <2>1. Passed(b)' = Passed(b)
    BY <1>7 DEF api, Passed
  <2> QED  BY <1>2, <1>7, <2>1 DEF api
<1>8. ASSUME (\E s \in Arrivals : Register(s)) \/ (\E a \in Addr : RefillBuckets(a))
      PROVE  UNCHANGED api
  BY <1>8 DEF Register, RefillBuckets
<1>9. vars' = vars => UNCHANGED api
  BY DEF vars, api
<1> HIDE DEF Holds
<1> QED
  BY <1>3, <1>4, <1>5, <1>6, <1>7, <1>8, <1>9 DEF Next

\* However long an address goes on guessing once its tokens have run out, it
\* costs less than one lookup per slot until a token comes back.
THEOREM FloodBounded == Spec => []FloodCostsNoLookups
<1>1. Init => FloodInv
  <2> SUFFICES ASSUME Init, NEW a \in Addr  PROVE ~Blocked(a) /\ over[a] = 0
    BY DEF FloodInv
  <2>1. failures[a] = -1 /\ over[a] = 0
    BY DEF Init, Absent
  <2> QED  BY <2>1 DEF Blocked
<1>2. TypeOK /\ FloodInv /\ [Next]_vars => TypeOK' /\ FloodInv'
  BY TypeStep, FloodStep
<1>3. TypeOK /\ FloodInv => FloodCostsNoLookups
  <2> SUFFICES ASSUME TypeOK, FloodInv, NEW a \in Addr, Blocked(a)
               PROVE  over[a] < Cardinality(Req)
    BY DEF FloodCostsNoLookups
  <2>1. over[a] \in Nat /\ Cardinality(Passed(a)) \in Nat /\ Cardinality(Req) \in Nat
    BY PassedFinite, ReqAssumption, FS_CardinalityType DEF TypeOK
  <2> QED  BY <2>1 DEF FloodInv
<1> QED
  BY <1>1, <1>2, <1>3, TypeInit, PTL DEF Spec

-----------------------------------------------------------------------------
(* The accounts *)

\* What a debt becomes in the abstract charge of address a.
Charged(debt, a, burst, forgotten) ==
    [b \in Addr |-> IF b \in forgotten THEN 0
                    ELSE IF b = a /\ debt[a] < burst THEN debt[a] + 1
                    ELSE debt[b]]

\* A victim that has a debt was last stamped before all the others in the map and
\* before a, which are as many as the map can hold.
LEMMA VictimWasIdle ==
    ASSUME NEW map, Cardinality(Tracked(map)) >= MaxTracked,
           NEW s \in [Addr -> SUBSET Addr], NEW a \in Addr \ Tracked(map),
           NEW b \in Tracked(map), Tracked(map) \ {b} \subseteq s[b]
    PROVE  Cardinality(Stamp(s, a)[b]) >= MaxTracked
<1> DEFINE T == Tracked(map)
           W == T \ {b}
           U == Stamp(s, a)[b]
<1>1. IsFiniteSet(T) /\ Cardinality(T) \in Nat /\ b \in T /\ T \subseteq Addr
  BY TrackedFinite DEF Tracked
<1>2. a # b /\ a \notin W /\ W \cup {a} \subseteq U /\ U \subseteq Addr
  BY <1>1 DEF Stamp
<1>3. IsFiniteSet(W) /\ Cardinality(W) = Cardinality(T) - 1
  <2> HIDE DEF T
  <2> QED  BY <1>1, FS_RemoveElement
<1>4. Cardinality(T) >= MaxTracked
  OBVIOUS
<1> HIDE DEF T, W, U
<1>5. Cardinality(W \cup {a}) = Cardinality(W) + 1
  BY <1>2, <1>3, FS_AddElement
<1>6. IsFiniteSet(U) /\ Cardinality(W \cup {a}) <= Cardinality(U)
  BY <1>2, AddrAssumption, FS_Subset
<1>7. Cardinality(U) \in Nat
  BY <1>6, FS_CardinalityType
<1>8. Cardinality(U) >= MaxTracked
  BY <1>1, <1>3, <1>4, <1>5, <1>6, <1>7, BoundAssumption
<1> QED
  BY <1>8 DEF U

\* Making room and taking a token is the abstract charge: the bucket that is
\* thrown away was full, or the abstract account may be written off.
LEMMA ChargeRefines ==
    ASSUME NEW burst \in Nat \ {0}, NEW map, Sound(map, burst),
           NEW s \in [Addr -> SUBSET Addr], NEW a \in Addr,
           NEW victims \in SUBSET Tracked(map),
           \A b \in victims : map[b] = burst \/ Tracked(map) \ {b} \subseteq s[b],
           NEW new \in Room(map, a, burst, victims)
    PROVE  \E forgotten \in SUBSET {b \in Addr \ {a} :
                                      Cardinality(Stamp(s, a)[b]) >= MaxTracked} :
              Debt(Take(new, a), burst) = Charged(Debt(map, burst), a, burst, forgotten)
<1> DEFINE Idle == {b \in Addr \ {a} : Cardinality(Stamp(s, a)[b]) >= MaxTracked}
<1>1. map \in [Addr -> (0 .. burst) \cup {Absent}]
  BY DEF Sound, Map
<1>2. CASE a \in Tracked(map)
  <2>1. new = map
    BY <1>2 DEF Room
  <2>2. Debt(Take(new, a), burst) = Charged(Debt(map, burst), a, burst, {})
    BY <1>1, <1>2, <2>1 DEF Debt, Take, Charged, Tracked, Absent
  <2> QED  BY <2>2
<1>3. CASE a \notin Tracked(map) /\ Cardinality(Tracked(map)) < MaxTracked
  <2>1. new = [map EXCEPT ![a] = burst]
    BY <1>3 DEF Room
  <2>2. Debt(Take(new, a), burst) = Charged(Debt(map, burst), a, burst, {})
    BY <1>1, <1>3, <2>1 DEF Debt, Take, Charged, Tracked, Absent
  <2> QED  BY <2>2
<1>4. CASE a \notin Tracked(map) /\ ~(Cardinality(Tracked(map)) < MaxTracked)
  <2>1. PICK b \in victims : new = [map EXCEPT ![b] = Absent, ![a] = burst]
    BY <1>4 DEF Room
  <2>2. b \in Addr \ {a} /\ b \in Tracked(map)
    BY <1>4 DEF Tracked
  <2>3. Take(new, a) = [map EXCEPT ![b] = Absent, ![a] = burst - 1]
    BY <1>1, <2>1, <2>2 DEF Take
  <2>4. CASE map[b] = burst
    <3>1. Debt(Take(new, a), burst) = Charged(Debt(map, burst), a, burst, {})
      BY <1>1, <1>4, <2>2, <2>3, <2>4 DEF Debt, Charged, Tracked, Absent
    <3> QED  BY <3>1
  <2>5. CASE Tracked(map) \ {b} \subseteq s[b]
    <3>1. Cardinality(Tracked(map)) >= MaxTracked
      BY <1>4, TrackedFinite, BoundAssumption
    <3>2. b \in Idle
      BY <1>4, <2>2, <2>5, <3>1, VictimWasIdle
    <3>3. Debt(Take(new, a), burst) = Charged(Debt(map, burst), a, burst, {b})
      BY <1>1, <1>4, <2>2, <2>3 DEF Debt, Charged, Tracked, Absent
    <3> QED  BY <3>2, <3>3
  <2> QED  BY <2>4, <2>5
<1> QED
  BY <1>2, <1>3, <1>4

\* A token that comes back pays one unit off.
LEMMA RefillPays ==
    ASSUME NEW burst \in Nat \ {0}, NEW map \in Map(burst), NEW a \in Addr,
           map[a] \in 0 .. burst - 1
    PROVE  /\ Debt(map, burst)[a] > 0
           /\ Debt([map EXCEPT ![a] = @ + 1], burst)
                = [Debt(map, burst) EXCEPT ![a] = @ - 1]
<1> DEFINE d   == Debt(map, burst)
           new == [map EXCEPT ![a] = @ + 1]
<1>1. map \in [Addr -> (0 .. burst) \cup {Absent}] /\ new[a] = map[a] + 1
  BY DEF Map
<1>2. d[a] = burst - map[a] /\ Debt(new, burst)[a] = burst - (map[a] + 1)
  BY <1>1 DEF Debt, Absent
<1>3. \A b \in Addr \ {a} : Debt(new, burst)[b] = d[b]
  BY <1>1 DEF Debt
<1>4. d[a] > 0 /\ Debt(new, burst)[a] = d[a] - 1
  BY <1>2
<1>5. d = [b \in Addr |-> d[b]] /\ Debt(new, burst) = [b \in Addr |-> Debt(new, burst)[b]]
  BY DEF Debt
<1> HIDE DEF d, new
<1>6. Debt(new, burst) = [d EXCEPT ![a] = @ - 1]
  BY <1>3, <1>4, <1>5
<1> QED
  BY <1>4, <1>6 DEF d, new

\* Every address starts with no debt.
LEMMA NoDebtAtFirst ==
    ASSUME NEW burst
    PROVE  Debt([a \in Addr |-> Absent], burst) = [a \in Addr |-> 0]
BY DEF Debt

\* An instance counts as its module does.
LEMMA SameCount == \A S : /\ Registrations!Cardinality(S) = Cardinality(S)
                          /\ Guesses!Cardinality(S) = Cardinality(S)
BY DEF Registrations!Cardinality, Guesses!Cardinality, Cardinality

LEMMA RegistrationsStep ==
    ASSUME TypeOK, [Next]_vars
    PROVE  [Registrations!Next]_(Registrations!account)
<1>0. Sound(buckets, RegisterBurst) /\ buckets \in Map(RegisterBurst)
  BY DEF TypeOK, Sound
<1>1. ASSUME NEW s \in Arrivals, Register(s)
      PROVE  \E a \in Addr : Registrations!Charge(a)
  <2> DEFINE a == s.addr
  <2>0. a \in Addr
    BY ArrivalsTrue
  <2>1. PICK new \in Room(buckets, a, RegisterBurst, EvictIdle) : buckets' = Take(new, a)
    BY <1>1 DEF Register
  <2>2. \A b \in EvictIdle : buckets[b] = RegisterBurst
                             \/ Tracked(buckets) \ {b} \subseteq usedReg[b]
    BY <1>0, BoundAssumption DEF EvictIdle, Oldest, Map, Tracked
  <2>3. usedReg \in [Addr -> SUBSET Addr] /\ usedReg' = Stamp(usedReg, a)
    BY <1>1 DEF Register, TypeOK
  <2>4. \E forgotten \in SUBSET {b \in Addr \ {a} : Cardinality(usedReg'[b]) >= MaxTracked} :
           Debt(Take(new, a), RegisterBurst)
             = Charged(Debt(buckets, RegisterBurst), a, RegisterBurst, forgotten)
    <3> HIDE DEF a
    <3> QED  BY <1>0, <2>0, <2>1, <2>2, <2>3, EvictIdleTracked, ChargeRefines, BoundAssumption
  <2>5. usedReg' = Registrations!Seen(usedReg, a)
    BY <2>3 DEF Stamp, Registrations!Seen
  <2>6. Registrations!Charge(a)
    BY <2>1, <2>4, <2>5, SameCount DEF Registrations!Charge, Charged, Debt
  <2> QED  BY <2>0, <2>6
<1>2. ASSUME NEW a \in Addr, RefillBuckets(a)  PROVE Registrations!Pay(a)
  BY <1>0, <1>2, RefillPays, BoundAssumption DEF RefillBuckets, Registrations!Pay
<1>3. CASE UNCHANGED portal
  BY <1>3 DEF portal, Registrations!account, Debt
<1>4. ASSUME NEW r \in Req, NEW s \in Arrivals, Peek(r, s)  PROVE UNCHANGED portal
  BY <1>4 DEF Peek
<1>5. ASSUME NEW r \in Req, Lookup(r) \/ Charge(r)  PROVE UNCHANGED portal
  BY <1>5 DEF Lookup, Charge
<1>6. ASSUME NEW a \in Addr, RefillFailures(a)  PROVE UNCHANGED portal
  BY <1>6 DEF RefillFailures
<1>7. UNCHANGED vars => UNCHANGED portal
  BY DEF vars, portal
<1> QED
  BY <1>1, <1>2, <1>3, <1>4, <1>5, <1>6, <1>7 DEF Next, Registrations!Next

\* The registration limiter keeps the account that Allowance describes: nobody's
\* debt is written off while fewer others than it can hold have come since.
THEOREM RegistrationsImplemented == Spec => ActiveKeepsItsBucket
<1>1. Init => Registrations!Init
  BY NoDebtAtFirst DEF Init, Registrations!Init
<1>2. TypeOK /\ [Next]_vars => [Registrations!Next]_(Registrations!account)
  BY RegistrationsStep
<1> QED
  BY <1>1, <1>2, TypeCorrect, PTL DEF Spec, ActiveKeepsItsBucket, Registrations!Spec

\* An entry is stamped only by a push, so whoever was stamped since has pushed since.
StampsSeen == \A b \in Tracked(failures) : used[b] \subseteq seen[b]

LEMMA StampsSeenStep ==
    ASSUME TypeOK, StampsSeen, [Next]_vars
    PROVE  StampsSeen'
<1>0. Sound(failures, AuthFailureBurst)
  BY DEF TypeOK, Sound
<1>1. ASSUME NEW r \in Req, NEW s \in Arrivals, Peek(r, s)  PROVE StampsSeen'
  BY <1>1, ArrivalsTrue DEF Peek, StampsSeen, Stamp, Tracked, TypeOK
<1>2. ASSUME NEW r \in Req, Lookup(r)  PROVE StampsSeen'
  BY <1>2 DEF Lookup, StampsSeen, Tracked
<1>3. ASSUME NEW r \in Req, Charge(r)  PROVE StampsSeen'
  <2> DEFINE a == req[r].addr
  <2>1. a \in Addr
    BY <1>3 DEF Charge, TypeOK, IdleReq
  <2>2. PICK map \in Room(failures, a, AuthFailureBurst, Oldest(failures, used)) :
           failures' = Take(map, a)
    BY <1>3 DEF Charge
  <2>3. Sound(map, AuthFailureBurst) /\ a \in Tracked(map)
    BY <1>0, <2>1, <2>2, RoomSound, OldestTracked, BoundAssumption
  <2>4. \A c \in Addr \ {a} : map[c] \in {failures[c], Absent}
    BY <1>0, <2>1, <2>2, RoomEntries, OldestTracked, BoundAssumption
  <2>5. Take(map, a) = [map EXCEPT ![a] = IF map[a] > 0 THEN map[a] - 1 ELSE map[a]]
    BY <2>3, TakeSound, BoundAssumption
  <2>6. \A c \in Tracked(failures') \ {a} : c \in Tracked(failures)
    BY <2>2, <2>3, <2>4, <2>5 DEF Tracked, Sound, Map
  <2>7. used' = Stamp(used, a) /\ seen' = Stamp(seen, a)
    BY <1>3 DEF Charge
  <2>8. \A b \in Tracked(failures') : used'[b] \subseteq seen'[b]
    BY <2>1, <2>6, <2>7 DEF Stamp, StampsSeen, Tracked
  <2> QED  BY <2>8 DEF StampsSeen, Tracked
<1>4. ASSUME NEW a \in Addr, RefillFailures(a)  PROVE StampsSeen'
  BY <1>4, BoundAssumption DEF RefillFailures, StampsSeen, Tracked, Absent, TypeOK, Map
<1>5. CASE UNCHANGED api
  BY <1>5 DEF api, StampsSeen, Tracked
<1>6. ASSUME (\E s \in Arrivals : Register(s)) \/ (\E a \in Addr : RefillBuckets(a))
      PROVE  UNCHANGED api
  BY <1>6 DEF Register, RefillBuckets
<1>7. vars' = vars => UNCHANGED api
  BY DEF vars, api
<1> QED
  BY <1>1, <1>2, <1>3, <1>4, <1>5, <1>6, <1>7 DEF Next

LEMMA GuessesStep ==
    ASSUME TypeOK, StampsSeen, [Next]_vars
    PROVE  [Guesses!Next]_(Guesses!account)
<1>0. Sound(failures, AuthFailureBurst) /\ failures \in Map(AuthFailureBurst)
  BY DEF TypeOK, Sound
<1>1. ASSUME NEW r \in Req, NEW s \in Arrivals, Peek(r, s)
      PROVE  \E a \in Addr : Guesses!Knock(a)
  <2>1. Guesses!Knock(s.addr)
    BY <1>1 DEF Peek, Guesses!Knock, Guesses!Seen, Stamp, Debt
  <2> QED  BY <2>1, ArrivalsTrue
<1>2. ASSUME NEW r \in Req, Lookup(r)  PROVE UNCHANGED <<failures, seen>>
  BY <1>2 DEF Lookup
<1>3. ASSUME NEW r \in Req, Charge(r)  PROVE \E a \in Addr : Guesses!Charge(a)
  <2> DEFINE a == req[r].addr
  <2>1. a \in Addr
    BY <1>3 DEF Charge, TypeOK, IdleReq
  <2>2. PICK new \in Room(failures, a, AuthFailureBurst, Oldest(failures, used)) :
           failures' = Take(new, a)
    BY <1>3 DEF Charge
  <2>3. \A b \in Oldest(failures, used) : failures[b] = AuthFailureBurst
                                          \/ Tracked(failures) \ {b} \subseteq seen[b]
    BY DEF Oldest, StampsSeen
  <2>4. seen \in [Addr -> SUBSET Addr] /\ seen' = Stamp(seen, a)
    BY <1>3 DEF Charge, TypeOK
  <2>5. \E forgotten \in SUBSET {b \in Addr \ {a} : Cardinality(seen'[b]) >= MaxTracked} :
           Debt(Take(new, a), AuthFailureBurst)
             = Charged(Debt(failures, AuthFailureBurst), a, AuthFailureBurst, forgotten)
    <3> HIDE DEF a
    <3> QED  BY <1>0, <2>1, <2>2, <2>3, <2>4, OldestTracked, ChargeRefines, BoundAssumption
  <2>6. seen' = Guesses!Seen(seen, a)
    BY <2>4 DEF Stamp, Guesses!Seen
  <2>7. Guesses!Charge(a)
    BY <2>2, <2>5, <2>6, SameCount DEF Guesses!Charge, Charged, Debt
  <2> QED  BY <2>1, <2>7
<1>4. ASSUME NEW a \in Addr, RefillFailures(a)  PROVE Guesses!Pay(a)
  BY <1>0, <1>4, RefillPays, BoundAssumption DEF RefillFailures, Guesses!Pay
<1>5. CASE UNCHANGED <<failures, seen>>
  BY <1>5 DEF Guesses!account, Debt
<1>6. ASSUME (\E s \in Arrivals : Register(s)) \/ (\E a \in Addr : RefillBuckets(a))
      PROVE  UNCHANGED <<failures, seen>>
  BY <1>6 DEF Register, RefillBuckets, api
<1>7. UNCHANGED vars => UNCHANGED <<failures, seen>>
  BY DEF vars
<1> QED
  BY <1>1, <1>2, <1>3, <1>4, <1>5, <1>6, <1>7 DEF Next, Guesses!Next

\* The limiter of failed authentications keeps that account too: an address that
\* goes on pushing keeps the block it is serving.
THEOREM GuessesImplemented == Spec => KnockerKeepsItsBlock
<1>1. Init => Guesses!Init /\ StampsSeen
  BY NoDebtAtFirst DEF Init, Guesses!Init, StampsSeen, Tracked
<1>2. TypeOK /\ StampsSeen /\ [Next]_vars => TypeOK' /\ StampsSeen'
  BY TypeStep, StampsSeenStep
<1>3. TypeOK /\ StampsSeen /\ [Next]_vars => [Guesses!Next]_(Guesses!account)
  BY GuessesStep
<1> QED
  BY <1>1, <1>2, <1>3, TypeInit, PTL DEF Spec, KnockerKeepsItsBlock, Guesses!Spec
=============================================================================
