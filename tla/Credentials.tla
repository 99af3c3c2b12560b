---------------------------- MODULE Credentials ----------------------------
(***************************************************************************)
(* What the probe table promises of tokens (store/probes.go,               *)
(* README.md:335: a rotation voids the old token at once): a probe is      *)
(* given a token that nobody had before, and loses with it the one it      *)
(* had; a token that is lost stays lost.  Where tokens come from, who      *)
(* else is writing and what becomes of a request that fails are left       *)
(* open.                                                                   *)
(***************************************************************************)
CONSTANTS Token, ProbeID

VARIABLES
    valid, \* the pairs of a token and the probe that it stands for
    used   \* the tokens that may not be given (again)

vars == <<valid, used>>

\* What is left when p loses its token.
Without(p) == {x \in valid : x[2] # p}

Grant(t, p) ==
    /\ t \notin used
    /\ used' = used \cup {t}
    /\ valid' = Without(p) \cup {<<t, p>>}

Withdraw(p) ==
    /\ valid' = Without(p)
    /\ UNCHANGED used

Init == valid = {} /\ used = {}

Next == \E p \in ProbeID : Withdraw(p) \/ \E t \in Token : Grant(t, p)

Spec == Init /\ [][Next]_vars

-----------------------------------------------------------------------------
\* Tokens and pairs of the right kind.
TypeOK == valid \subseteq Token \X ProbeID /\ used \subseteq Token

\* A token that stands for a probe is not given again.
ValidAreUsed == \A x \in valid : x[1] \in used

\* A token stands for one probe, and a probe has one token.
OneEach == \A x, y \in valid : x[1] = y[1] <=> x[2] = y[2]

\* A token that no longer stands for a probe never stands for one again.
Lost(t) == t \in used /\ \A x \in valid : x[1] # t

LostForGood == [][\A t \in Token : Lost(t) => Lost(t)']_vars
=============================================================================
