---------------------------- MODULE PacingProofs ----------------------------
(***************************************************************************)
(* Proofs about Pacing.  A bucket that has been used at the pace of its    *)
(* RATE_LIMIT holds an allowance for every push under way, and the time    *)
(* since the last round began towards the next one.                        *)
(***************************************************************************)
EXTENDS Pacing, TLAPS

USE IntAssumption, LimitAssumption, BurstAssumption

(* Arithmetic of the bucket *)

LEMMA OneMore ==
    ASSUME NEW n \in Nat, NEW l \in Nat
    PROVE  /\ n * l \in Nat
           /\ (n + 1) * l = n * l + l
           /\ n > 0 => (n - 1) * l = n * l - l
  OBVIOUS

LEMMA RoomForOneMore ==
    ASSUME NEW n \in Nat, NEW b \in Nat, NEW l \in Nat, n < b
    PROVE  n * l + l <= b * l
<1>1. (b - (n + 1)) * l >= 0
  OBVIOUS
<1>2. (b - (n + 1)) * l = b * l - (n + 1) * l
  OBVIOUS
<1> QED
  BY <1>1, <1>2, OneMore

(* Arithmetic of the parameters *)

LEMMA ModSmall ==
    ASSUME NEW a \in Nat, NEW b \in Nat \ {0}, a < b
    PROVE  a % b = a
  OBVIOUS

LEMMA WrapSmall ==
    ASSUME NEW x \in Nat, x <= IntMax
    PROVE  Wrap(x) = x
  BY ModSmall DEF Wrap

LEMMA ProductNat ==
    ASSUME NEW a \in Nat, NEW b \in Nat
    PROVE  a * b \in Nat
  OBVIOUS

\* A round that int can hold is computed as it is.
LEMMA RoundExact ==
    ASSUME NEW c \in Params, Valid(c), Round(c) <= IntMax
    PROVE  Round(c) < c.interval
<1> DEFINE k == c.count - 1
<1>1. c.count \in Int /\ c.gap \in Int /\ c.timeout \in Int
  BY DEF Params, Int64
<1>2. c.count > 0 /\ c.gap > 0 /\ c.timeout > 0 /\ ICMPRoundMS(c) < c.interval
  BY DEF Valid
<1>3. k \in Nat /\ c.gap \in Nat /\ c.timeout \in Nat
  BY <1>1, <1>2
<1>4. k * c.gap + c.timeout <= IntMax
  BY DEF Round
<1> HIDE DEF k
<1>5. k * c.gap \in Nat
  BY <1>3, ProductNat
<1>6. Wrap(k * c.gap) = k * c.gap /\ Wrap(k * c.gap + c.timeout) = k * c.gap + c.timeout
  BY <1>3, <1>4, <1>5, WrapSmall
<1>7. ICMPRoundMS(c) = k * c.gap + c.timeout
  BY <1>1, <1>2, <1>6 DEF ICMPRoundMS, k
<1> QED
  BY <1>2, <1>7 DEF Round, k

-----------------------------------------------------------------------------
(* Types *)

LEMMA InForceGiven == TypeOK => InForce \in Form \cup {Default} /\ Valid(InForce)
  BY DefaultAssumption DEF TypeOK, InForce

LEMMA IntervalNat ==
    ASSUME NEW c \in Params, Valid(c)
    PROVE  c.interval \in Nat /\ c.interval > 0
  BY DEF Valid, Params, Int64

\* Whatever the probe works with passed the gateway's validation.
ValidInv == Valid(known) /\ Valid(held)

TypeInv == TypeOK /\ ValidInv

LEMMA LimitNat == ASSUME NEW l \in RateLimit PROVE l \in Nat /\ l > 0 /\ Burst * l \in Nat
  BY OneMore

LEMMA TypeNext == TypeInv /\ [Next]_vars => TypeInv'
<1> SUFFICES ASSUME TypeInv, [Next]_vars PROVE TypeInv'
  OBVIOUS
<1> USE DEF TypeInv
<1>1. /\ limit \in Nat /\ limit > 0 /\ Full \in Nat
      /\ held.interval \in Nat /\ known.interval \in Nat
  BY LimitNat, IntervalNat, DefaultAssumption, FormAssumption DEF TypeOK, Full, ValidInv
<1>2. ASSUME NEW c \in Form, Save(c) PROVE TypeInv'
  BY <1>2 DEF Save, TypeOK, ValidInv, Full, probe
<1>3. ASSUME NEW l \in RateLimit, Restart(l) PROVE TypeInv'
  <2>1. credit' \in 0 .. Full'
    BY <1>3, LimitNat DEF Restart, Full
  <2>2. outpaced' \in BOOLEAN
    BY <1>3 DEF Restart, Outpacing
  <2>3. sent' \in 0 .. MaxSent
    BY <1>3 DEF Restart, TypeOK
  <2> QED
    BY <1>3, <2>1, <2>2, <2>3 DEF Restart, TypeOK, ValidInv, probe
<1>4. CASE Reset
  BY <1>4 DEF Reset, TypeOK, ValidInv, Full, probe
<1>5. CASE Remove
  BY <1>1, <1>5 DEF Remove, TypeOK, ValidInv, Full, probe, settings, Outpacing
<1>6. CASE Arrive
  <2>1. credit' \in 0 .. Full
    BY <1>1, <1>6 DEF Arrive, TypeOK
  <2>2. sent' \in 0 .. MaxSent /\ verdict' \in {"none", "admitted", "refused"}
    BY <1>6 DEF Arrive, TypeOK
  <2> QED
    BY <1>6, <2>1, <2>2 DEF Arrive, TypeOK, ValidInv, Full, probe, settings
<1>7. CASE Refresh
  BY <1>7, InForceGiven DEF Refresh, TypeOK, ValidInv, Full, settings
<1>8. CASE Begin
  <2>1. outpaced' \in BOOLEAN /\ sent' \in 0 .. MaxSent
    BY <1>8 DEF Begin, TypeOK, Outpacing
  <2>2. wait' \in Nat /\ wait' <= held'.interval
    BY <1>1, <1>8 DEF Begin
  <2> QED
    BY <1>8, <2>1, <2>2 DEF Begin, TypeOK, ValidInv, Full, settings
<1>9. CASE Lose
  <2>1. sent' \in 0 .. MaxSent
    BY <1>9 DEF Lose, TypeOK
  <2> QED
    BY <1>9, <2>1 DEF Lose, TypeOK, ValidInv, Full, settings, probe
<1>10. CASE Tick
  <2>1. wait' \in Nat /\ wait' <= held.interval /\ credit' \in 0 .. Full
    BY <1>1, <1>10 DEF Tick, TypeOK
  <2> QED
    BY <1>10, <2>1 DEF Tick, TypeOK, ValidInv, Full, settings
<1>11. CASE UNCHANGED vars
  BY <1>11 DEF vars, TypeOK, ValidInv, Full
<1> QED
  BY <1>2, <1>3, <1>4, <1>5, <1>6, <1>7, <1>8, <1>9, <1>10, <1>11 DEF Next

LEMMA TypeInit == Init => TypeInv
<1> SUFFICES ASSUME Init PROVE TypeInv
  OBVIOUS
<1>1. credit \in 0 .. Full
  BY LimitNat DEF Init, Full
<1>2. wait \in Nat /\ wait <= held.interval
  BY IntervalNat, DefaultAssumption DEF Init
<1> QED
  BY <1>1, <1>2, DefaultAssumption DEF Init, TypeInv, TypeOK, ValidInv, Outpacing

LEMMA TypeInvariant == Spec => []TypeInv
<1> QED
  BY TypeInit, TypeNext, PTL DEF Spec

\* Types, and the bucket between empty and full.
THEOREM TypeCorrect == Spec => []TypeOK
<1>1. TypeInv => TypeOK
  BY DEF TypeInv
<1> QED
  BY TypeInvariant, <1>1, PTL

\* Parameters that reach a probe: a round ends before the next one begins, for every
\* width of int and whatever is saved, unless the round is too long for an int to hold.
THEOREM RoundsEnd == Spec => []RoundsDoNotOverlap
<1>1. TypeInv => RoundsDoNotOverlap
  <2> SUFFICES ASSUME TypeInv, NEW c \in {known, held}
               PROVE  /\ c.interval <= Round(c) => IntMax < Round(c)
                      /\ c.http < c.interval /\ c.dns < c.interval
    BY DEF RoundsDoNotOverlap
  <2>1. c \in Params /\ Valid(c)
    BY DefaultAssumption, FormAssumption DEF TypeInv, TypeOK, ValidInv
  <2>2. c.interval \in Int /\ Round(c) \in Int
    <3>1. c.interval \in Int /\ c.count - 1 \in Int /\ c.gap \in Int /\ c.timeout \in Int
      BY <2>1 DEF Params, Int64
    <3>2. QED
      BY <3>1 DEF Round
  <2>3. QED
    BY <2>1, <2>2, RoundExact DEF Valid
<1> QED
  BY TypeInvariant, <1>1, PTL

-----------------------------------------------------------------------------
(* Reports *)

LEMMA ProductGrows ==
    ASSUME NEW x \in Nat, NEW d \in Nat, d >= 1
    PROVE  x * d \in Nat /\ x * d >= x
BY OneMore

LEMMA TimeIsNat == \A t \in Time : t \in Nat /\ t >= 0 /\ t # None
BY ValueAssumption

\* A ratio rounded to Grain is within the tolerance, and is not taken for 1 unless
\* nothing was answered.
LEMMA RoundedRatio ==
    ASSUME NEW n \in Nat, n > 0, n * Grain < 2 * Unit, NEW r \in 0 .. n, NEW l \in Rounded(n, r)
    PROVE  /\ l \in Nat /\ l <= Unit
           /\ Distance(n, r, l) <= Tolerance * n
           /\ Unit - l <= 1 => r = 0
<1>1. /\ Unit \in Nat /\ Unit > 0 /\ Grain \in Nat /\ Grain >= 2
      /\ Tolerance \in Nat /\ Grain <= 2 * Tolerance
  BY RatioAssumption
<1> HIDE IntAssumption, LimitAssumption, BurstAssumption
<1>2. PICK K \in Nat : Unit = Grain * K
  <2>1. \A j \in 0 .. Unit : j \in Nat
    BY <1>1
  <2>2. \E j \in 0 .. Unit : Unit = Grain * j
    BY RatioAssumption, Zenon
  <2> QED  BY <2>1, <2>2, Zenon
<1>3. PICK k \in Nat : l = Grain * k /\ l <= Unit /\ 2 * Distance(n, r, l) <= Grain * n
  <2>1. \A j \in 0 .. Unit : j \in Nat
    BY <1>1
  <2>2. /\ \E j \in 0 .. Unit : l = Grain * j
        /\ l <= Unit /\ 2 * Distance(n, r, l) <= Grain * n
    BY Zenon DEF Rounded
  <2> QED  BY <2>1, <2>2, Zenon
<1>4. l \in Nat /\ Distance(n, r, l) \in Nat
  BY <1>1, <1>3 DEF Distance
<1>5. Distance(n, r, l) <= Tolerance * n
  <2>1. Grain * n <= 2 * (Tolerance * n)
    BY <1>1
  <2>2. Tolerance * n \in Nat /\ Grain * n \in Nat
    BY <1>1
  <2> QED  BY <1>3, <1>4, <2>1, <2>2
<1>6. ASSUME Unit - l <= 1, r > 0  PROVE FALSE
  <2>1. l = Unit
    <3>1. CASE k < K
      <4>1. K - k \in Nat /\ K - k >= 1 /\ Unit - l = Grain * (K - k)
        BY <1>2, <1>3, <3>1, <1>1
      <4>2. Grain * (K - k) >= Grain
        BY <1>1, <4>1, ProductGrows
      <4> QED  BY <1>1, <1>4, <1>6, <4>1, <4>2
    <3>2. CASE k > K
      <4>1. k - K \in Nat /\ k - K >= 1 /\ l - Unit = Grain * (k - K)
        BY <1>2, <1>3, <3>2, <1>1
      <4>2. Grain * (k - K) >= Grain
        BY <1>1, <4>1, ProductGrows
      <4> QED  BY <1>1, <1>3, <1>4, <4>1, <4>2
    <3>3. CASE k = K
      BY <1>2, <1>3, <3>3
    <3> QED  BY <3>1, <3>2, <3>3
  <2>2. Distance(n, r, l) = Unit * r
    <3>1. Unit * r \in Nat /\ l * n - (n - r) * Unit = Unit * r
      BY <1>1, <2>1
    <3> QED  BY <3>1 DEF Distance
  <2>3. Unit * r >= Unit /\ Unit * r \in Nat
    BY <1>1, <1>6, ProductGrows
  <2>4. Grain * n = n * Grain /\ Grain * n \in Nat
    BY <1>1
  <2> QED  BY <1>1, <1>3, <2>2, <2>3, <2>4
<1> QED
  BY <1>3, <1>4, <1>5, <1>6

LEMMA RoundReported ==
    ASSUME NEW n \in Nat, n > 0, n * Grain < 2 * Unit, NEW m \in MeasuredICMP(n)
    PROVE  ValidICMP(m)
<1>1. CASE m \in Lost(n)
  <2>1. /\ m.success = FALSE /\ m.sent = n /\ m.received = 0 /\ m.loss \in Rounded(n, 0)
        /\ m.min = None /\ m.avg = None /\ m.max = None /\ m.jitter = None
    BY <1>1 DEF Lost
  <2>2. m.loss \in Nat /\ m.loss <= Unit /\ Distance(n, 0, m.loss) <= Tolerance * n
    BY <2>1, RoundedRatio
  <2> QED  BY <2>1, <2>2 DEF ValidICMP
<1>2. ASSUME NEW r \in 1 .. n, m \in Answered(n, r)  PROVE ValidICMP(m)
  <2>1. /\ m.success = TRUE /\ m.sent = n /\ m.received = r /\ m.loss \in Rounded(n, r)
        /\ m.min \in Time /\ m.avg \in Time /\ m.max \in Time
        /\ m.min <= m.avg /\ m.avg <= m.max /\ m.jitter \in Time \cup {None}
    BY <1>2 DEF Answered
  <2>2. /\ m.loss \in Nat /\ m.loss <= Unit /\ Distance(n, r, m.loss) <= Tolerance * n
        /\ ~(Unit - m.loss <= 1)
    BY <2>1, RoundedRatio
  <2>3. /\ None \notin {m.min, m.avg, m.max} /\ 0 <= m.min
        /\ m.jitter = None \/ m.jitter >= 0
    BY <2>1, TimeIsNat
  <2> QED  BY <2>1, <2>2, <2>3 DEF ValidICMP
<1> QED
  BY <1>1, <1>2 DEF MeasuredICMP

LEMMA AnswersReported ==
    /\ \A m \in MeasuredDNS : ValidDNS(m)
    /\ \A m \in MeasuredHTTP : ValidHTTP(m)
<1>1. ASSUME NEW m \in MeasuredDNS  PROVE ValidDNS(m)
  <2>1. CASE m \in [success : {TRUE}, duration : Time]
    <3>1. m.success = TRUE /\ m.duration \in Time
      BY <2>1
    <3> QED  BY <3>1, TimeIsNat DEF ValidDNS
  <2>2. CASE m \in [success : {FALSE}, duration : {None}]
    BY <2>2 DEF ValidDNS
  <2> QED  BY <2>1, <2>2 DEF MeasuredDNS
<1>2. ASSUME NEW m \in MeasuredHTTP  PROVE ValidHTTP(m)
  <2>1. CASE m = [success |-> FALSE, code |-> None, duration |-> None]
    BY <2>1 DEF ValidHTTP
  <2>2. ASSUME NEW c \in Status, NEW t \in Time,
               m = [success |-> c \in 200 .. 399, code |-> c, duration |-> t]
        PROVE  ValidHTTP(m)
    <3>1. c \in 100 .. 599 /\ c # None
      BY ValueAssumption
    <3>2. m.code = c /\ m.duration = t /\ (m.success <=> c \in 200 .. 399)
      BY <2>2
    <3> QED  BY <3>1, <3>2, TimeIsNat DEF ValidHTTP
  <2> QED  BY <2>1, <2>2 DEF MeasuredHTTP
<1> QED
  BY <1>1, <1>2

\* What a round measures with parameters that reached the probe passes the rules,
\* unless so many requests are sent that a single answer rounds to none.
THEOREM ReportsPass == Spec => []HonestReportsPass
<1>1. TypeInv => HonestReportsPass
  <2> SUFFICES ASSUME TypeInv  PROVE HonestReportsPass
    OBVIOUS
  <2>1. \A c \in {known, held} : c.count \in Nat /\ c.count > 0
    BY DefaultAssumption, FormAssumption, IntAssumption
       DEF TypeInv, TypeOK, ValidInv, Valid, Params, Int64
  <2> QED  BY <2>1, RoundReported, AnswersReported DEF HonestReportsPass
<1> QED
  BY TypeInvariant, <1>1, PTL

\* Two valid reports of rounds of one size that name one ratio count the same
\* replies: the tolerance is less than half of what one reply makes of the ratio.
LEMMA RatioTellsReplies ==
    ASSUME NEW n \in Nat, NEW T \in Nat, NEW U \in Nat, 2 * T * n < U,
           NEW l \in Int, NEW a \in 0 .. n, NEW b \in 0 .. n, a < b
    PROVE  LET d(r) == l * n - (n - r) * U
           IN  ~(-(T * n) <= d(a) /\ d(b) <= T * n)
<1> DEFINE d(r) == l * n - (n - r) * U
<1>1. d(a) \in Int /\ d(b) \in Int /\ T * n \in Nat
  OBVIOUS
<1>2. d(b) - d(a) = U * (b - a)
  OBVIOUS
<1>3. b - a \in Nat /\ b - a >= 1
  OBVIOUS
<1>4. U * (b - a) >= U
  BY <1>3, ProductGrows
<1>5. 2 * T * n = 2 * (T * n)
  OBVIOUS
<1> HIDE DEF d
<1>6. ~(-(T * n) <= d(a) /\ d(b) <= T * n)
  BY <1>1, <1>2, <1>4, <1>5
<1> QED  BY <1>6 DEF d

\* A report whose replies are not those its ratio was computed from is refused,
\* with every tolerance and unit, in rounds that are small against the tolerance.
THEOREM MismatchesRefused == Spec => []MismatchesFail
<1>1. ASSUME NEW n \in Nat, n > 0, 2 * Tolerance * n < Unit, NEW m \in MeasuredICMP(n),
             NEW r \in 0 .. n, r # m.received, ValidICMP([m EXCEPT !.received = r])
      PROVE  FALSE
  <2>0. Unit \in Nat /\ Tolerance \in Nat /\ Grain \in Nat /\ Grain <= 2 * Tolerance
    BY RatioAssumption
  <2>1. n * Grain < 2 * Unit
    <3>1. n * Grain <= n * (2 * Tolerance)
      BY <2>0
    <3>2. n * (2 * Tolerance) = 2 * Tolerance * n /\ n * Grain \in Nat /\ 2 * Tolerance * n \in Nat
      BY <2>0
    <3> QED  BY <1>1, <2>0, <3>1, <3>2
  <2>2. PICK q \in 0 .. n : /\ m.received = q /\ m.sent = n /\ m.loss \in Rounded(n, q)
                            /\ [m EXCEPT !.received = r].received = r
                            /\ [m EXCEPT !.received = r].sent = n
                            /\ [m EXCEPT !.received = r].loss = m.loss
    <3>1. CASE m \in Lost(n)
      BY <3>1 DEF Lost
    <3>2. ASSUME NEW p \in 1 .. n, m \in Answered(n, p)
          PROVE  /\ m.received = p /\ m.sent = n /\ m.loss \in Rounded(n, p)
                 /\ [m EXCEPT !.received = r].received = r
                 /\ [m EXCEPT !.received = r].sent = n
                 /\ [m EXCEPT !.received = r].loss = m.loss
      BY <3>2 DEF Answered
    <3> QED  BY <1>1, <3>1, <3>2 DEF MeasuredICMP
  <2>3. m.loss \in Nat /\ Distance(n, q, m.loss) <= Tolerance * n
    BY <1>1, <2>1, <2>2, RoundedRatio
  <2>4. Distance(n, r, m.loss) <= Tolerance * n
    BY <1>1, <2>2 DEF ValidICMP
  <2> DEFINE d(x) == m.loss * n - (n - x) * Unit
  <2>5. /\ d(q) \in Int /\ d(r) \in Int /\ Tolerance * n \in Nat
        /\ Distance(n, q, m.loss) = IF d(q) < 0 THEN -d(q) ELSE d(q)
        /\ Distance(n, r, m.loss) = IF d(r) < 0 THEN -d(r) ELSE d(r)
    BY <2>0, <2>3 DEF Distance
  <2>6. q < r => ~(-(Tolerance * n) <= d(q) /\ d(r) <= Tolerance * n)
    BY <1>1, <2>0, <2>3, RatioTellsReplies
  <2>7. r < q => ~(-(Tolerance * n) <= d(r) /\ d(q) <= Tolerance * n)
    BY <1>1, <2>0, <2>3, RatioTellsReplies
  <2>8. q < r \/ r < q
    BY <1>1, <2>2
  <2> HIDE DEF d
  <2> QED  BY <2>3, <2>4, <2>5, <2>6, <2>7, <2>8
<1>2. TypeInv => MismatchesFail
  <2> SUFFICES ASSUME TypeInv  PROVE MismatchesFail
    OBVIOUS
  <2>1. \A c \in {known, held} : c.count \in Nat /\ c.count > 0
    BY DefaultAssumption, FormAssumption, IntAssumption
       DEF TypeInv, TypeOK, ValidInv, Valid, Params, Int64
  <2> QED  BY <1>1, <2>1 DEF MismatchesFail
<1> QED
  BY TypeInvariant, <1>2, PTL

-----------------------------------------------------------------------------
(* Pace *)

\* The time since the present round began, as far as it counts for an allowance.
Ready == IF held.interval - wait < limit THEN held.interval - wait ELSE limit

\* The allowances of the pushes under way.
Owed == sent * limit

PaceInv ==
    /\ \A c \in vetted : c.interval >= limit
    /\ ~outpaced => /\ held.interval >= limit
                    /\ credit >= Owed + Ready
                    /\ verdict # "refused"

Sound ==
    /\ limit \in Nat /\ limit > 0 /\ Full \in Nat /\ credit \in Nat /\ credit <= Full
    /\ held.interval \in Nat /\ known.interval \in Nat /\ wait \in Nat
    /\ wait <= held.interval /\ Ready \in Nat /\ Ready <= limit
    /\ sent \in Nat /\ sent < Burst /\ Owed \in Nat

LEMMA Numbers == TypeInv => Sound
<1> SUFFICES ASSUME TypeInv PROVE Sound
  OBVIOUS
<1>1. limit \in Nat /\ limit > 0 /\ Full \in Nat
  BY LimitNat DEF TypeInv, TypeOK, Full
<1>2. held.interval \in Nat /\ known.interval \in Nat
  BY IntervalNat, DefaultAssumption, FormAssumption DEF TypeInv, TypeOK, ValidInv
<1>3. wait \in Nat /\ wait <= held.interval /\ sent \in Nat /\ sent < Burst
  BY DEF TypeInv, TypeOK
<1>4. credit \in Nat /\ credit <= Full
  BY <1>1 DEF TypeInv, TypeOK
<1>5. Owed \in Nat
  BY <1>1, <1>3, OneMore DEF Owed
<1> QED
  BY <1>1, <1>2, <1>3, <1>4, <1>5 DEF Ready, Sound

\* A full bucket is enough for whatever is under way.
LEMMA FullIsEnough ==
    ASSUME NEW n \in Nat, NEW l \in Nat, NEW r \in Nat, n < Burst, r <= l
    PROVE  n * l + r <= Burst * l
<1>1. n * l \in Nat /\ Burst * l \in Nat
  BY OneMore
<1> QED
  BY <1>1, RoomForOneMore

\* While time passes, the bucket keeps up with what is owed.
LEMMA FillsInTime ==
    ASSUME NEW c \in Nat, NEW d \in Nat, NEW full \in Nat, NEW o \in Nat,
           NEW r \in Nat, NEW s \in Nat,
           c < full => d = c + 1, ~(c < full) => d = full,
           c >= o + r, s <= r + 1, o + s <= full
    PROVE  d >= o + s
  OBVIOUS

LEMMA PaceNext == TypeInv /\ TypeInv' /\ PaceInv /\ [Next]_vars => PaceInv'
<1> SUFFICES ASSUME TypeInv, TypeInv', PaceInv, [Next]_vars PROVE PaceInv'
  OBVIOUS
<1>0. Sound
  BY Numbers
<1>1. Sound'
  BY <1>0, Numbers, PTL
<1>a. /\ limit' \in Nat /\ limit' > 0 /\ Full' \in Nat /\ credit' \in Nat /\ credit' <= Full'
      /\ held'.interval \in Nat /\ wait' \in Nat /\ wait' <= held'.interval
      /\ Ready' \in Nat /\ Ready' <= limit'
      /\ sent' \in Nat /\ sent' < Burst /\ Owed' \in Nat
  BY <1>1 DEF Sound
<1> USE DEF Sound
<1>b. Owed' + Ready' <= Burst * limit'
  BY <1>a, FullIsEnough DEF Owed
<1>2. ASSUME NEW c \in Form, Save(c) PROVE PaceInv'
  BY <1>2 DEF Save, Owed, PaceInv, Ready, Accepts, probe
<1>3. ASSUME NEW l \in RateLimit, Restart(l) PROVE PaceInv'
  <2>1. credit' = Burst * limit' /\ vetted' = {} /\ verdict' = "none" /\ held' = held
    BY <1>3 DEF Restart, probe
  <2>2. ~outpaced' => ~(held.interval < limit')
    BY <1>3, Zenon DEF Restart, Outpacing
  <2>3. ~outpaced' => held'.interval >= limit'
    BY <1>0, <1>a, <2>1, <2>2
  <2> QED
    BY <1>a, <1>b, <2>1, <2>3 DEF PaceInv
<1>4. CASE Reset
  BY <1>4 DEF Reset, Owed, PaceInv, Ready, probe
<1>5. CASE Remove
  <2>1. credit' = Burst * limit' /\ vetted' = vetted /\ verdict' = "none"
        /\ held' = held /\ limit' = limit
    BY <1>5 DEF Remove, probe, settings, Full
  <2>2. ~outpaced' => ~(held.interval < limit) \/ held \in vetted
    BY <1>5, Zenon DEF Remove, Outpacing
  <2>3. ~outpaced' => held'.interval >= limit'
    BY <1>0, <2>1, <2>2 DEF PaceInv
  <2> QED
    BY <1>a, <1>b, <2>1, <2>3 DEF PaceInv
<1>6. CASE Arrive
  <2>1. /\ outpaced' = outpaced /\ held' = held /\ limit' = limit /\ vetted' = vetted
        /\ wait' = wait /\ sent > 0 /\ sent' = sent - 1 /\ Ready' = Ready
    BY <1>6 DEF Arrive, probe, settings, Ready
  <2>2. SUFFICES ASSUME ~outpaced
                 PROVE  credit' >= Owed' + Ready' /\ verdict' # "refused"
    BY <2>1 DEF PaceInv
  <2>3. Owed' = Owed - limit
    BY <1>0, <2>1, OneMore DEF Owed
  <2>4. credit >= Owed + Ready
    BY <2>2 DEF PaceInv
  <2>5. credit >= limit
    BY <1>0, <1>a, <2>3, <2>4
  <2>6. credit' = credit - limit /\ verdict' = "admitted"
    BY <1>6, <2>5 DEF Arrive
  <2> QED
    BY <1>0, <1>a, <2>1, <2>3, <2>4, <2>6
<1>7. CASE Refresh
  BY <1>7 DEF Refresh, Owed, PaceInv, Ready, settings
<1>8. CASE Begin
  <2>1. /\ wait = 0 /\ held' = known /\ wait' = known.interval /\ sent' = sent + 1
        /\ limit' = limit /\ vetted' = vetted /\ credit' = credit /\ verdict' = verdict
        /\ outpaced' = (outpaced \/ Outpacing(known, limit, vetted))
    BY <1>8 DEF Begin, settings
  <2>2. SUFFICES ASSUME ~outpaced, ~Outpacing(known, limit, vetted)
                 PROVE  /\ held'.interval >= limit'
                        /\ credit' >= Owed' + Ready'
                        /\ verdict' # "refused"
    BY <2>1 DEF PaceInv
  <2>3. held'.interval >= limit'
    BY <1>0, <2>1, <2>2 DEF PaceInv, Outpacing
  <2>4. Ready = limit /\ Ready' = 0
    BY <1>0, <2>1, <2>2 DEF Ready, PaceInv
  <2>5. Owed' = Owed + limit
    BY <1>0, <2>1, OneMore DEF Owed
  <2>6. credit >= Owed + limit
    BY <2>2, <2>4 DEF PaceInv
  <2>7. verdict' # "refused"
    BY <2>1, <2>2 DEF PaceInv
  <2>8. credit' >= Owed' + Ready'
    BY <1>0, <2>1, <2>4, <2>5, <2>6
  <2> QED
    BY <2>3, <2>7, <2>8
<1>9. CASE Lose
  <2>1. /\ outpaced' = outpaced /\ held' = held /\ limit' = limit /\ vetted' = vetted
        /\ credit' = credit /\ verdict' = verdict
        /\ wait' = wait /\ sent > 0 /\ sent' = sent - 1 /\ Ready' = Ready
    BY <1>9 DEF Lose, probe, settings, Ready
  <2>2. Owed' = Owed - limit
    BY <1>0, <2>1, OneMore DEF Owed
  <2>3. ~outpaced => credit >= Owed + Ready
    BY DEF PaceInv
  <2>4. ~outpaced => credit' >= Owed' + Ready'
    BY <1>0, <2>1, <2>2, <2>3
  <2> QED
    BY <2>1, <2>4 DEF PaceInv
<1>10. CASE Tick
  <2>1. /\ outpaced' = outpaced /\ held' = held /\ limit' = limit /\ vetted' = vetted
        /\ verdict' = verdict /\ sent' = sent /\ Full' = Full
        /\ wait' = (IF wait > 0 THEN wait - 1 ELSE 0)
        /\ credit' = (IF credit < Full THEN credit + 1 ELSE credit)
    BY <1>10 DEF Tick, settings, Full
  <2>2. Ready' <= Ready + 1
    BY <1>0, <2>1 DEF Ready
  <2>3. ~outpaced => credit >= Owed + Ready
    BY DEF PaceInv
  <2>4. Owed' = Owed
    BY <2>1 DEF Owed
  <2>5. ASSUME ~outpaced PROVE credit' >= Owed' + Ready'
    <3>0. credit >= Owed + Ready
      BY <2>3, <2>5
    <3>1. credit < Full => credit' = credit + 1
      BY <2>1
    <3>2. ~(credit < Full) => credit' = Full
      BY <1>0, <2>1
    <3>3. Owed' + Ready' <= Full
      BY <1>b, <2>1 DEF Full
    <3> QED
      BY <1>0, <1>a, <2>2, <2>4, <3>0, <3>1, <3>2, <3>3, FillsInTime
  <2> QED
    BY <2>1, <2>5 DEF PaceInv
<1>11. CASE UNCHANGED vars
  BY <1>11 DEF vars, PaceInv, Ready, Owed
<1> QED
  BY <1>2, <1>3, <1>4, <1>5, <1>6, <1>7, <1>8, <1>9, <1>10, <1>11 DEF Next

LEMMA PaceInit == Init => PaceInv
<1> SUFFICES ASSUME Init PROVE PaceInv
  OBVIOUS
<1>1. TypeInv
  BY TypeInit
<1>2. Owed + Ready <= Burst * limit
  BY <1>1, Numbers, FullIsEnough DEF Sound, Owed
<1>3. ~outpaced => ~(held.interval < limit)
  BY Zenon DEF Init, Outpacing
<1>4. ~outpaced => held.interval >= limit
  BY <1>1, <1>3, Numbers DEF Sound
<1> QED
  BY <1>2, <1>4 DEF Init, PaceInv, Full

\* A probe is refused only when it has used parameters that no form accepted under this
\* RATE_LIMIT, for every burst that leaves one allowance more than it has pushes under way.
THEOREM PacedAdmitted == Spec => []PacedIsAdmitted
<1>1. PaceInv => PacedIsAdmitted
  BY DEF PaceInv, PacedIsAdmitted
<1>2. Spec => []PaceInv
  BY TypeInvariant, PaceInit, PaceNext, PTL DEF Spec
<1> QED
  BY <1>1, <1>2, PTL
=============================================================================
