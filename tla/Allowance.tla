----------------------------- MODULE Allowance ------------------------------
(***************************************************************************)
(* What a throttle of limited memory promises of the addresses it limits.  *)
(* An address owes one unit for each request admitted, at most Burst, and  *)
(* time pays its debt off.  The debt of an address is written off early    *)
(* only once Cap other addresses have been seen since its last request.    *)
(* api.Limiter (failed authentications) and portal.RegisterLimiter         *)
(* (registrations) both implement it: see Throttles.                       *)
(***************************************************************************)
EXTENDS Naturals, FiniteSets

CONSTANTS Addr, Burst, Cap

VARIABLES
    debt,  \* what each address owes; it is refused while it owes Burst
    since  \* the addresses seen since the last request of each address

account == <<debt, since>>

Seen(s, a) == [b \in Addr |-> IF b = a THEN {} ELSE s[b] \cup {a}]

Init == /\ debt = [a \in Addr |-> 0]
        /\ since = [a \in Addr |-> {}]

\* A request that is not charged, although it counts as one.
Knock(a) == since' = Seen(since, a) /\ UNCHANGED debt

Charge(a) ==
    /\ since' = Seen(since, a)
    /\ \E forgotten \in SUBSET {b \in Addr \ {a} : Cardinality(since'[b]) >= Cap} :
          debt' = [b \in Addr |-> IF b \in forgotten THEN 0
                                  ELSE IF b = a /\ debt[a] < Burst THEN debt[a] + 1
                                  ELSE debt[b]]

Pay(a) == /\ debt[a] > 0
          /\ debt' = [debt EXCEPT ![a] = @ - 1]
          /\ UNCHANGED since

Next == \E a \in Addr : Knock(a) \/ Charge(a) \/ Pay(a)

Spec == Init /\ [][Next]_account
=============================================================================
