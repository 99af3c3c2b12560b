------------------------------ MODULE MCPacing ------------------------------
(* Instances of Pacing for TLC. *)
EXTENDS Pacing

Set(interval, count, gap, timeout) ==
    [interval |-> interval, count |-> count, gap |-> gap, timeout |-> timeout,
     http |-> 1, dns |-> 1]

default == Set(3, 1, 1, 1)

\* A short cycle and a long one; a round as long as its cycle; one the arithmetic of
\* 6 bits takes for short, 16 * 4 + 1 = 65 = 1 (mod 64).  The ratios of a round of
\* three are rounded to fifths.
forms == {Set(2, 1, 1, 1), Set(4, 3, 1, 1), Set(3, 2, 2, 1), Set(2, 17, 4, 1)}
=============================================================================
