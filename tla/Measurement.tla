----------------------------- MODULE Measurement -----------------------------
(***************************************************************************)
(* What a probe reports of a round (Protocol v1 sections 7 to 11), and the *)
(* rules a report must satisfy, internal/protocol/validate.go.             *)
(*                                                                         *)
(* Ratios are counted in millionths, the finest difference the rules know: *)
(* Unit stands for 1.  A probe writes a ratio with some number of decimals,*)
(* so as a multiple of Grain.  Times are integers; NaN and the infinities  *)
(* are not among them.                                                     *)
(***************************************************************************)
EXTENDS Integers

CONSTANTS
    None,      \* null
    Unit,      \* the ratio 1
    Tolerance, \* lossRatioTolerance, a thousandth of it
    Grain,     \* what a probe rounds its ratios to
    Time,      \* the times it measures
    Status     \* the HTTP statuses it meets

\* A probe rounds to three decimals or finer (validate.go:8), and meets statuses that
\* HTTP defines.
ASSUME RatioAssumption == /\ Unit \in Nat \ {0} /\ Grain \in Nat \ {0, 1}
                          /\ \E k \in 0 .. Unit : Unit = Grain * k
                          /\ Tolerance \in Nat /\ Grain <= 2 * Tolerance
ASSUME ValueAssumption == Time \subseteq Nat /\ Status \subseteq 100 .. 599 /\ None \notin Int

-----------------------------------------------------------------------------
(* The rules *)

\* How far a loss ratio is from (sent - received) / sent, times sent.
Distance(sent, received, loss) ==
    LET d == loss * sent - (sent - received) * Unit IN IF d < 0 THEN -d ELSE d

\* Mutant: a ratio that has to be exact.
ValidICMPExact(m) ==
    /\ m.sent > 0 /\ 0 <= m.received /\ m.received <= m.sent
    /\ 0 <= m.loss /\ m.loss <= Unit
    /\ Distance(m.sent, m.received, m.loss) = 0

\* Mutant: a tolerance of a hundredth.
ValidICMPLoose(m) ==
    /\ m.sent > 0 /\ 0 <= m.received /\ m.received <= m.sent
    /\ 0 <= m.loss /\ m.loss <= Unit
    /\ Distance(m.sent, m.received, m.loss) <= 10 * Tolerance * m.sent
    /\ Unit - m.loss <= 1 => m.received = 0
    /\ m.success <=> m.received > 0

\* validateICMP.
ValidICMP(m) ==
    /\ m.sent > 0 /\ 0 <= m.received /\ m.received <= m.sent
    /\ 0 <= m.loss /\ m.loss <= Unit
    /\ Distance(m.sent, m.received, m.loss) <= Tolerance * m.sent
    /\ Unit - m.loss <= 1 => m.received = 0
    /\ m.success <=> m.received > 0
    /\ m.received = 0 => {m.min, m.avg, m.max, m.jitter} = {None}
    /\ m.received > 0 =>
          /\ None \notin {m.min, m.avg, m.max}
          /\ 0 <= m.min /\ m.min <= m.avg /\ m.avg <= m.max
          /\ m.jitter = None \/ m.jitter >= 0

\* validateDNS, validateHTTP.
ValidDNS(m) == IF m.success THEN m.duration # None /\ m.duration >= 0 ELSE m.duration = None

ValidHTTP(m) ==
    IF m.code = None /\ m.duration = None THEN ~m.success
    ELSE /\ m.code # None /\ m.duration # None
         /\ m.code \in 100 .. 599 /\ m.duration >= 0
         /\ m.success <=> m.code \in 200 .. 399

-----------------------------------------------------------------------------
(* The probe *)

\* The multiples of Grain nearest to the ratio lost.
Rounded(sent, received) ==
    {l \in {Grain * k : k \in 0 .. Unit} :
        l <= Unit /\ 2 * Distance(sent, received, l) <= Grain * sent}

Lost(sent) == {[success |-> FALSE, sent |-> sent, received |-> 0, loss |-> l, min |-> None,
                avg |-> None, max |-> None, jitter |-> None] : l \in Rounded(sent, 0)}

Answered(sent, received) ==
    {[success |-> TRUE, sent |-> sent, received |-> received, loss |-> l, min |-> t[1],
      avg |-> t[2], max |-> t[3], jitter |-> j] :
        l \in Rounded(sent, received),
        t \in {u \in Time \X Time \X Time : u[1] <= u[2] /\ u[2] <= u[3]},
        j \in IF received < 2 THEN {None} ELSE Time}

MeasuredICMP(sent) == Lost(sent) \cup UNION {Answered(sent, n) : n \in 1 .. sent}

MeasuredDNS == [success : {TRUE}, duration : Time] \cup [success : {FALSE}, duration : {None}]

MeasuredHTTP ==
    {[success |-> c \in 200 .. 399, code |-> c, duration |-> t] : c \in Status, t \in Time}
    \cup {[success |-> FALSE, code |-> None, duration |-> None]}
=============================================================================
