------------------------------- MODULE Pacing -------------------------------
(***************************************************************************)
(* The pace at which a probe pushes against the pace the gateway admits.   *)
(*                                                                         *)
(*   parameters   internal/protocol/dispatch.go    Validate, ICMPRoundMS   *)
(*   their form   internal/admin/settings.go       configFromForm          *)
(*   their row    internal/store/measurement.go                            *)
(*   bucket       internal/api/limiter.go          Allow, Remove           *)
(*   reports      Measurement, internal/protocol/validate.go               *)
(*                                                                         *)
(* The cycle is a setting that outlives the process.  RATE_LIMIT belongs to*)
(* a process, and is compared with the cycle only when a form is saved.    *)
(* Time is in milliseconds, and so is RATE_LIMIT: the comparison cuts a    *)
(* fraction off.  The probe is external: it begins a round every cycle and *)
(* pushes once for each (Protocol v1 sections 18 and 32.4); measuring and  *)
(* the network delay or lose the push.                                     *)
(***************************************************************************)
EXTENDS Measurement

CONSTANTS
    IntMax,      \* the largest int
    Form,        \* the forms an administrator submits
    Default,     \* DefaultMeasurementConfig
    MinInterval, \* MinIntervalMS
    RateLimit,   \* the values RATE_LIMIT has over the restarts
    Burst,       \* RATE_LIMIT_BURST
    MaxSent      \* the pushes a probe has under way at most

Int64  == -IntMax - 1 .. IntMax
Params == [interval : Int64, count : Int64, gap : Int64, timeout : Int64,
           http : Int64, dns : Int64]

VARIABLES
    limit,    \* RATE_LIMIT of this process
    stored,   \* the measurement_config row, or None
    known,    \* the parameters the probe has fetched
    held,     \* those it began its present round with
    wait,     \* the time until it begins the next
    sent,     \* pushes under way: being measured, or on the network
    credit,   \* the bucket of the probe, as the time it took to fill
    (* Observation only: no guard reads these. *)
    verdict,  \* on the last push the bucket has judged, "none" for a new bucket
    vetted,   \* the parameters saved under this RATE_LIMIT
    outpaced  \* has the probe used others, with a cycle below this RATE_LIMIT?

settings == <<stored, vetted>>
probe    == <<known, held, wait>>
vars     == <<limit, stored, known, held, wait, sent, credit, verdict, vetted, outpaced>>

-----------------------------------------------------------------------------
(* Parameters *)

\* int arithmetic.
Wrap(x) == ((x + IntMax + 1) % (2 * IntMax + 2)) - IntMax - 1

\* Mutant: a round ends with its last request, not with that request's timeout.
RoundWithoutTimeout(c) == IF c.count <= 0 THEN 0 ELSE Wrap((c.count - 1) * c.gap)

\* What the gateway takes the longest ICMP round to be, and how long it is.
ICMPRoundMS(c) == IF c.count <= 0 THEN 0
                  ELSE Wrap(Wrap((c.count - 1) * c.gap) + c.timeout)
Round(c) == (c.count - 1) * c.gap + c.timeout

\* MeasurementConfig.Validate.
Valid(c) ==
    /\ c.interval >= MinInterval
    /\ c.count > 0 /\ c.gap > 0 /\ c.timeout > 0
    /\ ICMPRoundMS(c) < c.interval
    /\ 0 < c.http /\ c.http < c.interval
    /\ 0 < c.dns /\ c.dns < c.interval

\* Mutant: a form that says nothing about RATE_LIMIT.
AcceptsAnyCycle(c) == Valid(c)

\* configFromForm.
Accepts(c) == Valid(c) /\ c.interval >= limit

\* Store.MeasurementConfig: a row that is not valid is as good as none.
InForce == IF stored # None /\ Valid(stored) THEN stored ELSE Default

ASSUME IntAssumption     == IntMax \in Nat \ {0}
ASSUME FormAssumption    == Form \subseteq Params /\ None \notin Params
ASSUME LimitAssumption   == RateLimit \subseteq Nat \ {0} /\ MinInterval \in Nat \ {0}
ASSUME DefaultAssumption == Default \in Params /\ Valid(Default) /\ Round(Default) < Default.interval
\* A probe that waits for its answers has one push under way, and RATE_LIMIT_BURST is
\* 3 unless it is set.  With no more than MaxSent, any delay at all is too much.
ASSUME BurstAssumption   == Burst \in Nat /\ MaxSent \in Nat /\ 0 < MaxSent /\ MaxSent < Burst

-----------------------------------------------------------------------------
(* The bucket.  It holds Burst allowances of `limit` each and fills with time. *)

Full == Burst * limit

\* Mutant: a refused push that is paid for.
ArriveForAll ==
    /\ sent > 0 /\ sent' = sent - 1
    /\ IF credit >= limit THEN credit' = credit - limit /\ verdict' = "admitted"
                          ELSE credit' = 0 /\ verdict' = "refused"
    /\ UNCHANGED <<limit, settings, probe, outpaced>>

\* Limiter.Allow, for a push that arrives.
Arrive ==
    /\ sent > 0 /\ sent' = sent - 1
    /\ IF credit >= limit THEN credit' = credit - limit /\ verdict' = "admitted"
                          ELSE UNCHANGED credit /\ verdict' = "refused"
    /\ UNCHANGED <<limit, settings, probe, outpaced>>

Outpacing(c, l, vet) == c.interval < l /\ c \notin vet

\* Limiter.Remove, when the probe is disabled: the next push finds a new bucket.
Remove ==
    /\ credit' = Full
    /\ verdict' = "none"
    /\ outpaced' = Outpacing(held, limit, vetted)
    /\ UNCHANGED <<limit, settings, probe, sent>>

-----------------------------------------------------------------------------
(* The settings page, and the process *)

\* handleMeasurementSettingsSave.
Save(c) ==
    /\ Accepts(c)
    /\ stored' = c /\ vetted' = vetted \cup {c}
    /\ UNCHANGED <<limit, probe, sent, credit, verdict, outpaced>>

\* handleMeasurementSettingsReset.
Reset ==
    /\ stored' = None
    /\ UNCHANGED <<limit, vetted, probe, sent, credit, verdict, outpaced>>

\* Mutant: a bucket that outlives the process.
RestartWithBucket(l) ==
    /\ limit' = l
    /\ sent' \in 0 .. sent
    /\ verdict' = "none" /\ vetted' = {}
    /\ outpaced' = Outpacing(held, l, {})
    /\ UNCHANGED <<stored, probe, credit>>

\* A start with another environment, or the same.  Connections die; a push that is
\* still being measured is sent to the new process.
Restart(l) ==
    /\ limit' = l /\ credit' = Burst * l
    /\ sent' \in 0 .. sent
    /\ verdict' = "none" /\ vetted' = {}
    /\ outpaced' = Outpacing(held, l, {})
    /\ UNCHANGED <<stored, probe>>

-----------------------------------------------------------------------------
(* The probe *)

Refresh ==
    /\ known' = InForce
    /\ UNCHANGED <<limit, settings, held, wait, sent, credit, verdict, outpaced>>

\* New parameters take effect with the next round.
Begin ==
    /\ wait = 0 /\ sent < MaxSent
    /\ held' = known /\ wait' = known.interval /\ sent' = sent + 1
    /\ outpaced' = (outpaced \/ Outpacing(known, limit, vetted))
    /\ UNCHANGED <<limit, settings, known, credit, verdict>>

\* The measurement fails, or the push does not arrive: the round is not sent again.
Lose ==
    /\ sent > 0 /\ sent' = sent - 1
    /\ UNCHANGED <<limit, settings, probe, credit, verdict, outpaced>>

Tick ==
    /\ wait' = IF wait > 0 THEN wait - 1 ELSE 0
    /\ credit' = IF credit < Full THEN credit + 1 ELSE credit
    /\ UNCHANGED <<limit, settings, known, held, sent, verdict, outpaced>>

-----------------------------------------------------------------------------
Init ==
    /\ limit \in RateLimit /\ credit = Full
    /\ stored = None /\ known = Default /\ held = Default
    /\ wait = 0 /\ sent = 0 /\ verdict = "none" /\ vetted = {}
    /\ outpaced = Outpacing(Default, limit, {})

Next ==
    \/ \E c \in Form : Save(c)
    \/ \E l \in RateLimit : Restart(l)
    \/ Reset \/ Remove \/ Arrive \/ Refresh \/ Begin \/ Lose \/ Tick

Spec == Init /\ [][Next]_vars

\* Time passes, the probe goes on (section 18), and of its pushes some arrive.
FairSpec == Spec /\ WF_vars(Tick) /\ WF_vars(Begin) /\ SF_vars(Arrive)

-----------------------------------------------------------------------------
(* Properties *)

TypeOK ==
    /\ limit \in RateLimit
    /\ stored \in Form \cup {None}
    /\ known \in Form \cup {Default}
    /\ held \in Form \cup {Default}
    /\ wait \in Nat /\ wait <= held.interval
    /\ sent \in 0 .. MaxSent
    /\ credit \in 0 .. Full
    /\ verdict \in {"none", "admitted", "refused"}
    /\ vetted \in SUBSET Form
    /\ outpaced \in BOOLEAN

\* settings.go:144-148 and Protocol v1 section 21, "jitter, recovery of the network,
\* deviations of the schedule": a probe that works with parameters the form accepted is
\* not throttled however its pushes are delayed.  One is only after a restart raised
\* RATE_LIMIT above the cycle in use, or above the default one.
PacedIsAdmitted == verdict = "refused" => outpaced

\* dispatch.go:137 and section 32.4, "a probe may assume": a round is over when the
\* next begins.  One way only leads out of what dispatch.go:117 says, that Validate
\* rejects parameters that would make probes misbehave: ICMPRoundMS computes the round
\* in int, and a round too long for an int wraps and may be taken for a short one.
RoundsDoNotOverlap ==
    \A c \in {known, held} :
        /\ c.interval <= Round(c) => IntMax < Round(c)
        /\ c.http < c.interval /\ c.dns < c.interval

\* validate.go:129: the rules are there for probes that are wrong.  A result that breaks
\* one costs the whole report, so nothing that a round of the parameters can measure
\* may: not the rounding of a ratio, nor a round that loses all, or all but one.  It
\* holds while one answer in a round does not round to none, validate.go:148.
HonestReportsPass ==
    /\ \A c \in {known, held} :
          c.count * Grain < 2 * Unit => \A m \in MeasuredICMP(c.count) : ValidICMP(m)
    /\ \A m \in MeasuredDNS : ValidDNS(m)
    /\ \A m \in MeasuredHTTP : ValidHTTP(m)

\* validate.go:8, a tolerance that is not "too loose to catch real mismatches": a report
\* whose number of replies is not the one its ratio was computed from is refused.  It
\* holds of rounds of fewer than 500 requests.
MismatchesFail ==
    \A c \in {known, held} :
        2 * Tolerance * c.count < Unit =>
            \A m \in MeasuredICMP(c.count) : \A r \in 0 .. c.count :
                r # m.received => ~ValidICMP([m EXCEPT !.received = r])

\* However much too fast a probe is, it is not shut out: a refusal costs nothing, so
\* the bucket fills under its pushes.
RefusedIsAdmittedAgain == verdict = "refused" ~> verdict # "refused"
=============================================================================
