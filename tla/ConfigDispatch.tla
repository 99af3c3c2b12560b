--------------------------- MODULE ConfigDispatch ---------------------------
(***************************************************************************)
(* How a probe learns what to measure, and how the gateway tells it that   *)
(* what it holds is out of date.                                           *)
(*                                                                         *)
(*   GET /api/v1/targets   internal/api/targets.go    list, then parameters*)
(*   POST /api/v1/push     internal/api/push.go       allowlist, then      *)
(*                         parameters, then list; internal/protocol/       *)
(*                         validate.go judges the push against the three   *)
(*   admin UI              internal/admin/targets.go and settings.go edit  *)
(*                         the two tables                                  *)
(*   config_id             internal/protocol/dispatch.go                   *)
(*                                                                         *)
(* The handlers read the tables with two or three separate statements and  *)
(* no transaction, so an edit can fall between any two of them.  A step is *)
(* one statement, or one transaction.  The probe is not part of this       *)
(* repository: it does what Protocol v1 sections 14.1 and 32.7 ask of it,  *)
(* and its requests and their answers may be lost.  A read that fails is   *)
(* answered 503, which a probe treats like an answer that never came.      *)
(***************************************************************************)
EXTENDS Integers

CONSTANTS
    TargetID, Address, ProbeType,
    Param,       \* sets of measurement parameters that pass validation
    Default,     \* the parameters of Protocol v1
    Seed,        \* the targets seeded into an empty table
    NoAddress,   \* an address that is empty or blank
    None,        \* a row, a setting, a config_id that is not there
    Probe,
    Legacy,      \* probes that name no config_id and measure what they like
    MaxChange    \* bound on the edits and the restarts

Row    == [enabled : BOOLEAN, address : Address \cup {NoAddress},
           types : (SUBSET ProbeType) \ {{}}]
Entry  == [target : TargetID, address : Address, types : SUBSET ProbeType]
Config == [param : Param, list : SUBSET Entry]

ASSUME ParamAssumption   == Default \in Param
ASSUME NoneAssumption    == None \notin Param \cup Row \cup Config
ASSUME AddressAssumption == NoAddress \notin Address
ASSUME SeedAssumption    == Seed \in [TargetID -> Row]
ASSUME LegacyAssumption  == Legacy \subseteq Probe
ASSUME ChangeAssumption  == MaxChange \in Nat

VARIABLES
    targets,   \* targets and target_probe_types: the row of each ID, or None
    stored,    \* the measurement_config setting, or None
    saving,    \* a create form that met an existing ID and has yet to update it
    held,      \* the configuration each probe works with, or None
    next,      \* what a probe turns to when it has no request outstanding
    req,       \* the request of each probe
    changes    \* edits and restarts so far

tables == <<targets, stored, saving, changes>>
client == <<held, next>>
vars   == <<targets, stored, saving, held, next, req, changes>>

-----------------------------------------------------------------------------
(* What the gateway reads *)

\* DispatchTargets: enabled, and with an address to dial.
Dispatch(T) ==
    {[target |-> t, address |-> T[t].address, types |-> T[t].types] :
        t \in {u \in TargetID : T[u] # None /\ T[u].enabled /\ T[u].address # NoAddress}}

\* Allowlist: enabled, with or without an address.
Allowlist(T) ==
    {x \in TargetID \X ProbeType :
        T[x[1]] # None /\ T[x[1]].enabled /\ x[2] \in T[x[1]].types}

\* The measurements a dispatched list asks for.
Pairs(list) ==
    {x \in TargetID \X ProbeType : \E e \in list : e.target = x[1] /\ x[2] \in e.types}

\* Without a row the built-in parameters are in force.
MeasurementConfig == IF stored = None THEN Default ELSE stored

\* Mutant: an ID over the parameters alone, as it was before the list joined it.
ParamOnlyID(param, list) == [param |-> param, list |-> {}]

\* A digest of the parameters and of the list as a set: equal exactly when both
\* are (SHA-1 collisions are left out).
ConfigID(param, list) == [param |-> param, list |-> list]

\* The configuration the gateway dispatches at this moment.
InForce == [param |-> MeasurementConfig, list |-> Dispatch(targets)]

\* Mutant: the targets are judged before the config_id.
VerdictTargetsFirst(r, current) ==
    IF r.results = {} THEN "invalid_payload"
    ELSE IF ~(r.results \subseteq r.allow) THEN "invalid_target"
    ELSE IF r.id \notin {None, current} THEN "config_stale" ELSE "accepted"

\* PushRequest.Validate, as far as the configuration decides it.
Verdict(r, current) ==
    IF r.id \notin {None, current} THEN "config_stale"
    ELSE IF r.results = {} THEN "invalid_payload"
    ELSE IF r.results \subseteq r.allow THEN "accepted" ELSE "invalid_target"

-----------------------------------------------------------------------------
(* Requests of a probe *)

IdleReq == [pc |-> "idle", list |-> {}, param |-> Default, id |-> None,
            results |-> {}, allow |-> {}, seen |-> FALSE, missed |-> FALSE, restored |-> FALSE,
            code |-> "none"]

\* `seen`, `missed` and `restored` are observation: since the gateway began to judge
\* a push, was there a moment at which the configuration that it names was in force,
\* was there one at which it was not, and has an edit made the list that it names
\* the dispatched one again?
Request ==
    [pc : {"idle", "listed", "served", "allowed", "configured", "judged"},
     list : SUBSET Entry, param : Param, id : Config \cup {None},
     results : SUBSET (TargetID \X ProbeType),
     allow : SUBSET (TargetID \X ProbeType),
     seen : BOOLEAN, missed : BOOLEAN, restored : BOOLEAN,
     code : {"none", "accepted", "config_stale", "invalid_payload", "invalid_target"}]

InJudgement(p) == req[p].pc \in {"allowed", "configured"} /\ req[p].id # None

\* At start, on a timer, and at once after a 409.
FetchTargets(p) ==
    /\ p \notin Legacy
    /\ req[p].pc = "idle"
    /\ req' = [req EXCEPT ![p] = [IdleReq EXCEPT !.pc = "listed", !.list = Dispatch(targets)]]
    /\ UNCHANGED <<tables, client>>

FetchConfig(p) ==
    /\ req[p].pc = "listed"
    /\ req' = [req EXCEPT ![p].pc = "served", ![p].param = MeasurementConfig]
    /\ UNCHANGED <<tables, client>>

Fetched(p) ==
    /\ req[p].pc = "served"
    /\ held' = [held EXCEPT ![p] = [param |-> req[p].param, list |-> req[p].list]]
    /\ next' = [next EXCEPT ![p] = "push"]
    /\ req' = [req EXCEPT ![p] = IdleReq]
    /\ UNCHANGED tables

\* A probe whose refresh fails works on with the list it knows.
FetchLost(p) ==
    /\ req[p].pc = "served"
    /\ next' = [next EXCEPT ![p] = "push"]
    /\ req' = [req EXCEPT ![p] = IdleReq]
    /\ UNCHANGED <<tables, held>>

\* A probe measures what it holds and names it; with an empty list it reports
\* nothing.  The allowlist is the first of the handler's three reads.
PushNamed(p) ==
    /\ p \notin Legacy
    /\ req[p].pc = "idle"
    /\ next[p] = "push"
    /\ held[p] # None
    /\ \E results \in (SUBSET Pairs(held[p].list)) \ {{}} :
          req' = [req EXCEPT ![p] =
                    [IdleReq EXCEPT !.pc = "allowed", !.results = results,
                                    !.id = ConfigID(held[p].param, held[p].list),
                                    !.allow = Allowlist(targets),
                                    !.seen = (held[p] = InForce),
                                    !.missed = (held[p] # InForce)]]
    /\ UNCHANGED <<tables, client>>

PushUnnamed(p) ==
    /\ p \in Legacy
    /\ req[p].pc = "idle"
    /\ \E results \in SUBSET (TargetID \X ProbeType) :
          req' = [req EXCEPT ![p] =
                    [IdleReq EXCEPT !.pc = "allowed", !.results = results,
                                    !.allow = Allowlist(targets)]]
    /\ UNCHANGED <<tables, client>>

\* Mutant: a push is judged against the defaults, whatever is stored.
PushConfigDefault(p) ==
    /\ req[p].pc = "allowed"
    /\ req' = [req EXCEPT ![p].pc = "configured", ![p].param = Default]
    /\ UNCHANGED <<tables, client>>

PushConfig(p) ==
    /\ req[p].pc = "allowed"
    /\ req' = [req EXCEPT ![p].pc = "configured", ![p].param = MeasurementConfig]
    /\ UNCHANGED <<tables, client>>

\* The list is read last, and the verdict follows from the three reads.
PushDispatch(p) ==
    /\ req[p].pc = "configured"
    /\ req' = [req EXCEPT ![p] =
                 [IdleReq EXCEPT !.pc = "judged", !.seen = req[p].seen, !.missed = req[p].missed,
                                 !.restored = req[p].restored,
                                 !.code = Verdict(req[p], ConfigID(req[p].param, Dispatch(targets)))]]
    /\ UNCHANGED <<tables, client>>

PushAnswered(p) ==
    /\ req[p].pc = "judged"
    /\ next' = [next EXCEPT ![p] = IF req[p].code = "config_stale" THEN "fetch" ELSE "push"]
    /\ req' = [req EXCEPT ![p] = IdleReq]
    /\ UNCHANGED <<tables, held>>

PushLost(p) ==
    /\ req[p].pc = "judged"
    /\ req' = [req EXCEPT ![p] = IdleReq]
    /\ UNCHANGED <<tables, client>>

-----------------------------------------------------------------------------
(* The administrator *)

\* The rows T bring a list back that is not the one dispatched now.
Restores(list, T) == list # Dispatch(targets) /\ list = Dispatch(T)

\* The rows T and the setting s are committed.
Commit(T, s) ==
    /\ changes < MaxChange
    /\ changes' = changes + 1
    /\ targets' = T
    /\ stored' = s
    /\ req' = [p \in Probe |->
                 IF InJudgement(p)
                 THEN [req[p] EXCEPT !.seen = @ \/ req[p].id = InForce',
                                     !.missed = @ \/ req[p].id # InForce',
                                     !.restored = @ \/ Restores(req[p].id.list, T)]
                 ELSE req[p]]
    /\ UNCHANGED client

\* The create form inserts a new ID; an ID that exists is updated, by a second
\* transaction of its own.
CreateTarget(t, d) ==
    /\ saving = None
    /\ \/ /\ targets[t] = None
          /\ Commit([targets EXCEPT ![t] = d], stored)
          /\ UNCHANGED saving
       \/ /\ targets[t] # None
          /\ saving' = [target |-> t, row |-> d]
          /\ UNCHANGED <<targets, stored, changes, client, req>>

\* The row may be gone by then: the form ends in an error.
FinishCreate ==
    /\ saving # None
    /\ \/ /\ targets[saving.target] # None
          /\ Commit([targets EXCEPT ![saving.target] = saving.row], stored)
       \/ /\ targets[saving.target] = None
          /\ UNCHANGED <<targets, stored, changes, client, req>>
    /\ saving' = None

UpdateTarget(t, d) ==
    /\ targets[t] # None
    /\ Commit([targets EXCEPT ![t] = d], stored)
    /\ UNCHANGED saving

DeleteTarget(t) ==
    /\ targets[t] # None
    /\ Commit([targets EXCEPT ![t] = None], stored)
    /\ UNCHANGED saving

SetMeasurementConfig(c) ==
    /\ Commit(targets, c)
    /\ UNCHANGED saving

ResetMeasurementConfig ==
    /\ Commit(targets, None)
    /\ UNCHANGED saving

\* Requests die with the process; a table left empty is seeded again.
Restart ==
    /\ changes < MaxChange
    /\ changes' = changes + 1
    /\ targets' = IF \A t \in TargetID : targets[t] = None THEN Seed ELSE targets
    /\ saving' = None
    /\ req' = [p \in Probe |-> IdleReq]
    /\ UNCHANGED <<stored, client>>

-----------------------------------------------------------------------------
Init ==
    /\ targets = Seed
    /\ stored = None
    /\ saving = None
    /\ held = [p \in Probe |-> None]
    /\ next = [p \in Probe |-> "fetch"]
    /\ req = [p \in Probe |-> IdleReq]
    /\ changes = 0

Handler(p) == FetchConfig(p) \/ PushConfig(p) \/ PushDispatch(p)

Next ==
    \/ \E p \in Probe : FetchTargets(p) \/ PushNamed(p) \/ PushUnnamed(p)
    \/ \E p \in Probe : FetchConfig(p) \/ PushConfig(p) \/ PushDispatch(p)
    \/ \E p \in Probe : Fetched(p) \/ PushAnswered(p) \/ FetchLost(p) \/ PushLost(p)
    \/ \E t \in TargetID, d \in Row : CreateTarget(t, d) \/ UpdateTarget(t, d)
    \/ \E t \in TargetID : DeleteTarget(t)
    \/ FinishCreate
    \/ \E c \in Param : SetMeasurementConfig(c)
    \/ ResetMeasurementConfig
    \/ Restart

Spec == Init /\ [][Next]_vars

\* A fetch that a 409 asked for, or without which there is nothing to measure.
DueFetch(p) ==
    /\ next[p] = "push" /\ held[p] # None => held[p].list = {}
    /\ FetchTargets(p)

(***************************************************************************)
(* A handler that has started ends.  A probe makes the fetches that are    *)
(* due and keeps measuring, however often its refresh timer fires in       *)
(* between; the network loses neither every list nor every verdict.  The   *)
(* refresh timer itself is not relied upon.                                *)
(***************************************************************************)
FairSpec ==
    /\ Spec
    /\ \A p \in Probe : /\ WF_vars(Handler(p))
                        /\ WF_vars(DueFetch(p))
                        /\ SF_vars(PushNamed(p))
                        /\ SF_vars(Fetched(p)) /\ SF_vars(PushAnswered(p))

-----------------------------------------------------------------------------
(* Properties *)

TypeOK ==
    /\ targets \in [TargetID -> Row \cup {None}]
    /\ stored \in Param \cup {None}
    /\ saving \in [target : TargetID, row : Row] \cup {None}
    /\ held \in [Probe -> Config \cup {None}]
    /\ next \in [Probe -> {"fetch", "push"}]
    /\ req \in [Probe -> Request]
    /\ changes \in Nat

\* A probe that measures exactly what it was given is accepted or told that its
\* configuration is stale, whatever is edited between the fetch and the push or under
\* the push.  It is told that its push is wrong only if, under the push, the list it
\* names went out of force and came back: the allowlist was read in between
\* (push.go:162-196).  In every other case "the useful answer is `fetch the config
\* again' rather than a complaint" (validate.go:32-38, Protocol v1 section 32.7).
BlamedWasRestored ==
    \A p \in Probe \ Legacy :
        req[p].pc = "judged" /\ req[p].code \notin {"accepted", "config_stale"}
            => req[p].restored

\* A push that is accepted was measured under a configuration that was in force as a
\* whole at some moment while it was judged, although its parameters and its list are
\* compared with reads made at two different moments (validate.go:21, "dispatching right
\* now").  Again the one exception is a list that came back under the push, after the
\* parameters had been read.
AcceptedWasInForceOrRestored ==
    \A p \in Probe \ Legacy :
        req[p].code = "accepted" => req[p].seen \/ req[p].restored

\* A push that names what was in force all the while it was judged is accepted: no
\* mixture of reads made before and after an edit turns away a probe that is up to
\* date, be it with 409 or 400, even when edits restore what they changed
\* (push.go:162-196, validate.go:42-44).
RefusedWasOvertaken ==
    \A p \in Probe \ Legacy :
        req[p].pc = "judged" /\ req[p].code # "accepted" => req[p].missed

\* Once the administrator stops, every probe comes to hold what is in force, and
\* keeps it: 409 is enough to get it there.
Converges == \A p \in Probe \ Legacy : <>[](held[p] = InForce)

\* Once the administrator stops, every probe gets pushes accepted for ever,
\* unless there is nothing to measure.
ReportsAgain ==
    \A p \in Probe \ Legacy :
        <>[](Dispatch(targets) = {}) \/ []<>(req[p].code = "accepted")

(***************************************************************************)
(* What the documents and comments promise and the code does not keep.     *)
(***************************************************************************)

\* push.go:183 of a target without an address: "a probe that measures it anyway
\* is told its target is unknown".  The allowlist read just before holds it.
AddresslessIsUnknown ==
    [][\A p \in Probe : req[p].pc = "configured" /\ req'[p].code = "accepted" =>
           \A x \in req[p].results :
               targets[x[1]] # None => targets[x[1]].address # NoAddress]_vars

=============================================================================
