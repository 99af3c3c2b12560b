--------------------------- MODULE OneShotDisplay ---------------------------
(***************************************************************************)
(* What the token page promises (portal/oneshot.go, "a capability URL,     *)
(* unguessable and single-use, with a 60 second TTL"): a token is offered  *)
(* for one probe once, and shown at most once, beside that probe and not   *)
(* after the time the offer stands.  An offer may be withdrawn at any time *)
(* and never comes back.  How offers are kept is left open.                *)
(***************************************************************************)
EXTENDS Integers, Sequences

CONSTANTS
    Token, ProbeID, TTL,
    NotYet, Over \* of a token not offered so far, and no longer

VARIABLES
    offer, \* of each token: not made yet, standing, or over
    pages, \* of each token: the probes its pages named, in order
    time

vars == <<offer, pages, time>>

Standing(t) == offer[t] \notin {NotYet, Over}

Init ==
    /\ offer = [t \in Token |-> NotYet]
    /\ pages = [t \in Token |-> <<>>]
    /\ time = 0

\* Withdraw the offers in gone; Withdraw({}) is a stutter.
Withdrawn(gone) == [t \in Token |-> IF t \in gone THEN Over ELSE offer[t]]

Withdraw(gone) ==
    /\ offer' = Withdrawn(gone)
    /\ UNCHANGED <<pages, time>>

Offer(t, p, gone) ==
    /\ offer[t] = NotYet
    /\ offer' = [Withdrawn(gone) EXCEPT ![t] = [probe |-> p, expires |-> time + TTL]]
    /\ UNCHANGED <<pages, time>>

Show(t) ==
    /\ Standing(t)
    /\ time <= offer[t].expires
    /\ pages' = [pages EXCEPT ![t] = Append(@, offer[t].probe)]
    /\ offer' = Withdrawn({t})
    /\ UNCHANGED time

Tick == time' = time + 1 /\ UNCHANGED <<offer, pages>>

Next ==
    \/ \E gone \in SUBSET Token : Withdraw(gone)
    \/ \E t \in Token, p \in ProbeID, gone \in SUBSET Token : Offer(t, p, gone)
    \/ \E t \in Token : Show(t)
    \/ Tick

Spec == Init /\ [][Next]_vars

-----------------------------------------------------------------------------
(* What follows from the promise *)

\* A token is on one page at most, and one that was shown is offered no more:
\* whoever finds the URL again finds nothing (oneshot.go).
ShownOnce ==
    \A t \in Token :
        /\ Len(pages[t]) <= 1
        /\ pages[t] # <<>> => offer[t] = Over

\* An offer that is over is not renewed.
OverForGood == [][\A t \in Token : offer[t] = Over => offer'[t] = Over]_vars
=============================================================================
