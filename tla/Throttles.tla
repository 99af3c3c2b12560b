----------------------------- MODULE Throttles ------------------------------
(***************************************************************************)
(* The throttles by source address: failed authentications of the push API *)
(* and public registrations.  Each keeps a token bucket per address in a   *)
(* map of limited size, and makes room by forgetting somebody.             *)
(*                                                                         *)
(*   internal/api/push.go        authenticate: peek, look up, charge       *)
(*   internal/api/limiter.go     AuthFailureBlocked, AllowAuthFailure      *)
(*   internal/portal/limiter.go  Allow, evictIdleLocked                    *)
(*                                                                         *)
(* A call of a limiter is one critical section; a push is three steps, and *)
(* any number of them are in flight.  time.Now, read under the lock, is    *)
(* taken to advance between two calls, so lastUsed is kept as the order it *)
(* induces: who was stamped since.  A bucket is its whole tokens; fractions*)
(* decide only when the next one comes.  Requests come from their origins   *)
(* through proxies, see ClientAddress.                                     *)
(***************************************************************************)
EXTENDS ClientAddress, FiniteSets

CONSTANTS
    NoAddr,           \* the address of a request slot that is idle
    Req,              \* slots for concurrent pushes
    MaxTracked,       \* maxTrackedAuthFailures, maxTrackedRegisterIPs
    AuthFailureBurst, \* authFailureBurst
    RegisterBurst     \* REGISTER_LIMIT_BURST

ASSUME AddrAssumption  == IsFiniteSet(Addr) /\ NoAddr \notin Addr
ASSUME ReqAssumption   == IsFiniteSet(Req)
ASSUME BoundAssumption == /\ MaxTracked \in Nat \ {0}
                          /\ AuthFailureBurst \in Nat \ {0}
                          /\ RegisterBurst \in Nat \ {0}

VARIABLES
    failures,  \* Limiter.failures: the tokens left to each address, or Absent
    used,      \* lastUsed there: the addresses stamped since each address was
    buckets,   \* RegisterLimiter.buckets, likewise
    usedReg,   \* and lastUsed there
    req,       \* the pushes in flight
    (* Observation only: no guard reads these. *)
    seen,      \* the addresses that sent a push since each address did
    over       \* lookups made for each address since its bucket ran out of tokens

api    == <<failures, used, req, seen, over>>
portal == <<buckets, usedReg>>
vars   == <<failures, used, buckets, usedReg, req, seen, over>>

-----------------------------------------------------------------------------
Absent  == -1
IdleReq == [pc |-> "idle", addr |-> NoAddr, origin |-> NoAddr]
Begun(s) == [pc |-> "lookup", addr |-> s.addr, origin |-> s.origin]

Tracked(map) == {a \in Addr : map[a] # Absent}
Blocked(a)   == failures[a] = 0

\* The stamps, or the observation, after address a is stamped now.
Stamp(s, a) == [b \in Addr |-> IF b = a THEN {} ELSE s[b] \cup {a}]

\* Used least recently of those the map holds.
Oldest(map, s) == {b \in Tracked(map) : Tracked(map) \ {b} \subseteq s[b]}

\* The map with a bucket for a, new and full unless a had one, and somebody else
\* forgotten if there was no room for it.
Room(map, a, burst, victims) ==
    IF a \in Tracked(map) THEN {map}
    ELSE IF Cardinality(Tracked(map)) < MaxTracked THEN {[map EXCEPT ![a] = burst]}
    ELSE {[map EXCEPT ![b] = Absent, ![a] = burst] : b \in victims}

\* rate.Limiter.Allow takes a whole token if there is one.
Take(map, a) == IF map[a] > 0 THEN [map EXCEPT ![a] = @ - 1] ELSE map

-----------------------------------------------------------------------------
(* authenticate *)

\* Mutants: no peek before the lookup; a peek that does not count as use.
PeekAtNothing(r, s) ==
    /\ req[r].pc = "idle"
    /\ req' = [req EXCEPT ![r] = Begun(s)]
    /\ used' = IF s.addr \in Tracked(failures) THEN Stamp(used, s.addr) ELSE used
    /\ seen' = Stamp(seen, s.addr)
    /\ UNCHANGED <<failures, over, portal>>
PeekWithoutStamp(r, s) ==
    /\ req[r].pc = "idle"
    /\ req' = IF Blocked(s.addr) THEN req ELSE [req EXCEPT ![r] = Begun(s)]
    /\ seen' = Stamp(seen, s.addr)
    /\ UNCHANGED <<failures, used, over, portal>>

\* A push with a bearer token arrives, and AuthFailureBlocked peeks: 429 at once
\* if nothing is left.  One without a token is answered 401 before this.
Peek(r, s) ==
    /\ req[r].pc = "idle"
    /\ req' = IF Blocked(s.addr) THEN req ELSE [req EXCEPT ![r] = Begun(s)]
    /\ used' = IF s.addr \in Tracked(failures) THEN Stamp(used, s.addr) ELSE used
    /\ seen' = Stamp(seen, s.addr)
    /\ UNCHANGED <<failures, over, portal>>

\* ProbeByTokenHash finds a probe, or fails, and this is over; or finds none.
Lookup(r) ==
    LET a == req[r].addr
    IN  /\ req[r].pc = "lookup"
        /\ req' \in {[req EXCEPT ![r] = IdleReq], [req EXCEPT ![r].pc = "charge"]}
        /\ over' = IF Blocked(a) THEN [over EXCEPT ![a] = @ + 1] ELSE over
        /\ UNCHANGED <<failures, used, seen, portal>>

\* Mutant: the map grows with every address.
ChargeUnbounded(r) ==
    LET a == req[r].addr
    IN  /\ req[r].pc = "charge"
        /\ failures' = Take(IF a \in Tracked(failures) THEN failures
                            ELSE [failures EXCEPT ![a] = AuthFailureBurst], a)
        /\ used' = Stamp(used, a)
        /\ seen' = Stamp(seen, a)
        /\ over' = IF a \in Tracked(failures) THEN over ELSE [over EXCEPT ![a] = 0]
        /\ req' = [req EXCEPT ![r] = IdleReq]
        /\ UNCHANGED portal

\* AllowAuthFailure: the entry is found or made, stamped and charged, and the
\* answer is 401, or 429 if nothing was left.
Charge(r) ==
    LET a == req[r].addr
    IN  /\ req[r].pc = "charge"
        /\ \E map \in Room(failures, a, AuthFailureBurst, Oldest(failures, used)) :
              failures' = Take(map, a)
        /\ used' = Stamp(used, a)
        /\ seen' = Stamp(seen, a)
        /\ over' = IF a \in Tracked(failures) THEN over ELSE [over EXCEPT ![a] = 0]
        /\ req' = [req EXCEPT ![r] = IdleReq]
        /\ UNCHANGED portal

\* A token comes back; one more lookup can be paid for.
RefillFailures(a) ==
    /\ failures[a] \in 0 .. AuthFailureBurst - 1
    /\ failures' = [failures EXCEPT ![a] = @ + 1]
    /\ over' = [over EXCEPT ![a] = 0]
    /\ UNCHANGED <<used, req, seen, portal>>

-----------------------------------------------------------------------------
(* handleRegister *)

\* Mutant: make room without looking who is idle, or who was last used when.
EvictAnyone == Tracked(buckets)

\* evictIdleLocked takes the first full bucket it comes across; only if there is
\* none, the one used least recently.
EvictIdle ==
    LET full == {b \in Tracked(buckets) : buckets[b] >= RegisterBurst}
    IN  IF full # {} THEN full ELSE Oldest(buckets, usedReg)

\* Allow.
Register(s) ==
    /\ \E map \in Room(buckets, s.addr, RegisterBurst, EvictIdle) :
          buckets' = Take(map, s.addr)
    /\ usedReg' = Stamp(usedReg, s.addr)
    /\ UNCHANGED api

RefillBuckets(a) ==
    /\ buckets[a] \in 0 .. RegisterBurst - 1
    /\ buckets' = [buckets EXCEPT ![a] = @ + 1]
    /\ UNCHANGED <<usedReg, api>>

-----------------------------------------------------------------------------
Init ==
    /\ failures = [a \in Addr |-> Absent]
    /\ buckets = [a \in Addr |-> Absent]
    /\ used = [a \in Addr |-> {}]
    /\ usedReg = [a \in Addr |-> {}]
    /\ seen = [a \in Addr |-> {}]
    /\ req = [r \in Req |-> IdleReq]
    /\ over = [a \in Addr |-> 0]

Next ==
    \/ \E r \in Req, s \in Arrivals : Peek(r, s)
    \/ \E r \in Req : Lookup(r) \/ Charge(r)
    \/ \E s \in Arrivals : Register(s)
    \/ \E a \in Addr : RefillFailures(a) \/ RefillBuckets(a)

Spec == Init /\ [][Next]_vars

-----------------------------------------------------------------------------
(* Properties *)

Map(burst) == [Addr -> (0 .. burst) \cup {Absent}]

\* With the bound on the memory that a flood of addresses can take.
TypeOK ==
    /\ failures \in Map(AuthFailureBurst) /\ Cardinality(Tracked(failures)) <= MaxTracked
    /\ buckets \in Map(RegisterBurst) /\ Cardinality(Tracked(buckets)) <= MaxTracked
    /\ used \in [Addr -> SUBSET Addr]
    /\ usedReg \in [Addr -> SUBSET Addr]
    /\ seen \in [Addr -> SUBSET Addr]
    /\ req \in [Req -> [pc : {"lookup", "charge"}, addr : Addr, origin : Addr] \cup {IdleReq}]
    /\ over \in [Addr -> Nat]

\* push.go:226: "a guessing flood past the budget costs no database work".  The
\* peek and the charge are two critical sections with the lookup between them, so
\* what has passed the peek goes on; nothing else does, however long the flood.
FloodCostsNoLookups ==
    \A a \in Addr : Blocked(a) => over[a] < Cardinality(Req)

\* clientip.go: behind proxies everybody still has a bucket of their own, and nobody can
\* choose whose: a push is charged to the address it comes from.
OriginIsCharged == \A r \in Req : req[r].addr = req[r].origin

Debt(map, burst) == [a \in Addr |-> IF map[a] = Absent THEN 0 ELSE burst - map[a]]

Guesses == INSTANCE Allowance WITH debt <- Debt(failures, AuthFailureBurst), since <- seen,
                                   Burst <- AuthFailureBurst, Cap <- MaxTracked
Registrations == INSTANCE Allowance WITH debt <- Debt(buckets, RegisterBurst), since <- usedReg,
                                         Burst <- RegisterBurst, Cap <- MaxTracked

\* limiter.go:125: "an address that keeps knocking must keep its entry, or the
\* eviction would reset the block it is serving".
KnockerKeepsItsBlock == Guesses!Spec

\* portal/limiter.go:78: no address that is active is handed a fresh burst before
\* as many others as the map can hold have registered since.
ActiveKeepsItsBucket == Registrations!Spec
=============================================================================
