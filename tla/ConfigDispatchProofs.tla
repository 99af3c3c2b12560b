------------------------- MODULE ConfigDispatchProofs -------------------------
(***************************************************************************)
(* Proofs about ConfigDispatch for every set of targets, addresses,        *)
(* parameters and probes.                                                  *)
(***************************************************************************)
EXTENDS ConfigDispatch, TLAPS

-----------------------------------------------------------------------------
(* What the gateway reads *)

\* DispatchTargets returns well-formed entries.
LEMMA DispatchType ==
    ASSUME NEW T \in [TargetID -> Row \cup {None}]
    PROVE  Dispatch(T) \subseteq Entry
<1> SUFFICES ASSUME NEW t \in TargetID, T[t] # None, T[t].address # NoAddress
             PROVE  [target |-> t, address |-> T[t].address, types |-> T[t].types] \in Entry
    BY DEF Dispatch
<1>1. T[t] \in Row
    OBVIOUS
<1>2. T[t].address \in Address /\ T[t].types \in SUBSET ProbeType
    BY <1>1 DEF Row
<1> QED
    BY <1>2 DEF Entry

\* Whatever the gateway asks a probe to measure, it accepts: the dispatched list
\* asks for no pair of target and type that the allowlist of the same rows lacks
\* (targets.go:190-217 against 243-278).
THEOREM DispatchedIsAllowed ==
    ASSUME NEW T
    PROVE  Pairs(Dispatch(T)) \subseteq Allowlist(T)
<1> SUFFICES ASSUME NEW x \in TargetID \X ProbeType, NEW e \in Dispatch(T),
                    e.target = x[1], x[2] \in e.types
             PROVE  x \in Allowlist(T)
    BY DEF Pairs
<1>1. PICK t \in TargetID : /\ T[t] # None /\ T[t].enabled
                            /\ e = [target |-> t, address |-> T[t].address, types |-> T[t].types]
    BY DEF Dispatch
<1>2. t = x[1] /\ x[2] \in T[x[1]].types
    BY <1>1
<1> QED
    BY <1>1, <1>2 DEF Allowlist

LEMMA ConfigType == TypeOK => MeasurementConfig \in Param /\ InForce \in Config
<1> SUFFICES ASSUME TypeOK PROVE MeasurementConfig \in Param /\ InForce \in Config
    OBVIOUS
<1>1. MeasurementConfig \in Param
    BY ParamAssumption DEF TypeOK, MeasurementConfig
<1>2. Dispatch(targets) \subseteq Entry
    BY DispatchType DEF TypeOK
<1> QED
    BY <1>1, <1>2 DEF InForce, Config

-----------------------------------------------------------------------------
(* Type correctness *)

LEMMA IdleReqType == IdleReq \in Request
    BY ParamAssumption DEF IdleReq, Request

LEMMA TypeInit == Init => TypeOK
<1> SUFFICES ASSUME Init PROVE TypeOK
    OBVIOUS
<1>1. targets \in [TargetID -> Row \cup {None}]
    BY SeedAssumption DEF Init
<1> QED
    BY <1>1, IdleReqType DEF Init, TypeOK

\* The values of the two tables alone decide what a commit does to the requests.
LEMMA CommitType ==
    ASSUME TypeOK, NEW T \in [TargetID -> Row \cup {None}], NEW s \in Param \cup {None},
           Commit(T, s), saving' \in [target : TargetID, row : Row] \cup {None}
    PROVE  TypeOK'
<1>1. req' \in [Probe -> Request]
    <2> SUFFICES ASSUME NEW p \in Probe
                 PROVE  (IF InJudgement(p)
                         THEN [req[p] EXCEPT !.seen = @ \/ req[p].id = InForce',
                                             !.missed = @ \/ req[p].id # InForce',
                                             !.restored = @ \/ Restores(req[p].id.list, T)]
                         ELSE req[p]) \in Request
        BY DEF Commit
    <2>1. req[p] \in Request
        BY DEF TypeOK
    <2>2. /\ (req[p].seen \/ req[p].id = InForce') \in BOOLEAN
          /\ (req[p].missed \/ req[p].id # InForce') \in BOOLEAN
          /\ (req[p].restored \/ Restores(req[p].id.list, T)) \in BOOLEAN
        OBVIOUS
    <2> QED
        BY <2>1, <2>2 DEF Request
<1>2. targets' = T /\ stored' = s /\ changes' = changes + 1 /\ UNCHANGED client
    BY DEF Commit
<1> QED
    BY <1>1, <1>2 DEF TypeOK, client

LEMMA TypeStep == TypeOK /\ [Next]_vars => TypeOK'
<1> SUFFICES ASSUME TypeOK, [Next]_vars PROVE TypeOK'
    OBVIOUS
<1> USE IdleReqType
<1>1. ASSUME NEW p \in Probe, FetchTargets(p) PROVE TypeOK'
    <2>1. Dispatch(targets) \subseteq Entry
        BY DispatchType DEF TypeOK
    <2>2. [IdleReq EXCEPT !.pc = "listed", !.list = Dispatch(targets)] \in Request
        BY <2>1 DEF Request
    <2> QED
        BY <1>1, <2>2 DEF FetchTargets, TypeOK, tables, client
<1>2. ASSUME NEW p \in Probe, FetchConfig(p) PROVE TypeOK'
    <2>1. [req[p] EXCEPT !.pc = "served", !.param = MeasurementConfig] \in Request
        BY ConfigType DEF Request, TypeOK
    <2> QED
        BY <1>2, <2>1 DEF FetchConfig, TypeOK, tables, client
<1>3. ASSUME NEW p \in Probe, Fetched(p) PROVE TypeOK'
    <2>1. [param |-> req[p].param, list |-> req[p].list] \in Config
        BY DEF TypeOK, Request, Config
    <2> QED
        BY <1>3, <2>1 DEF Fetched, TypeOK, tables
<1>4. ASSUME NEW p \in Probe, FetchLost(p) PROVE TypeOK'
    BY <1>4 DEF FetchLost, TypeOK, tables
<1>5. ASSUME NEW p \in Probe, PushNamed(p) PROVE TypeOK'
    <2>1. held[p] \in Config
        BY <1>5 DEF PushNamed, TypeOK
    <2>2. PICK results \in SUBSET Pairs(held[p].list) :
             req' = [req EXCEPT ![p] =
                       [IdleReq EXCEPT !.pc = "allowed", !.results = results,
                                       !.id = ConfigID(held[p].param, held[p].list),
                                       !.allow = Allowlist(targets),
                                       !.seen = (held[p] = InForce),
                                       !.missed = (held[p] # InForce)]]
        BY <1>5 DEF PushNamed
    <2>3. ConfigID(held[p].param, held[p].list) \in Config
        BY <2>1 DEF ConfigID, Config
    <2>4. results \subseteq TargetID \X ProbeType /\ Allowlist(targets) \subseteq TargetID \X ProbeType
        BY DEF Pairs, Allowlist
    <2>5. (held[p] = InForce) \in BOOLEAN /\ (held[p] # InForce) \in BOOLEAN
        OBVIOUS
    <2>6. [IdleReq EXCEPT !.pc = "allowed", !.results = results,
                          !.id = ConfigID(held[p].param, held[p].list),
                          !.allow = Allowlist(targets),
                          !.seen = (held[p] = InForce),
                          !.missed = (held[p] # InForce)] \in Request
        BY <2>3, <2>4, <2>5 DEF Request
    <2> QED
        BY <1>5, <2>2, <2>6 DEF PushNamed, TypeOK, tables, client
<1>6. ASSUME NEW p \in Probe, PushUnnamed(p) PROVE TypeOK'
    <2>1. PICK results \in SUBSET (TargetID \X ProbeType) :
             req' = [req EXCEPT ![p] =
                       [IdleReq EXCEPT !.pc = "allowed", !.results = results,
                                       !.allow = Allowlist(targets)]]
        BY <1>6 DEF PushUnnamed
    <2>2. Allowlist(targets) \subseteq TargetID \X ProbeType
        BY DEF Allowlist
    <2>3. [IdleReq EXCEPT !.pc = "allowed", !.results = results,
                          !.allow = Allowlist(targets)] \in Request
        BY <2>2 DEF Request
    <2> QED
        BY <1>6, <2>1, <2>3 DEF PushUnnamed, TypeOK, tables, client
<1>7. ASSUME NEW p \in Probe, PushConfig(p) PROVE TypeOK'
    <2>1. [req[p] EXCEPT !.pc = "configured", !.param = MeasurementConfig] \in Request
        BY ConfigType DEF Request, TypeOK
    <2> QED
        BY <1>7, <2>1 DEF PushConfig, TypeOK, tables, client
<1>8. ASSUME NEW p \in Probe, PushDispatch(p) PROVE TypeOK'
    <2> DEFINE code == Verdict(req[p], ConfigID(req[p].param, Dispatch(targets)))
    <2>1. code \in {"accepted", "config_stale", "invalid_payload", "invalid_target"}
        BY DEF Verdict
    <2>2. [IdleReq EXCEPT !.pc = "judged", !.seen = req[p].seen,
                          !.missed = req[p].missed, !.restored = req[p].restored,
                          !.code = code] \in Request
        <3> HIDE DEF code
        <3> QED
            BY <2>1 DEF Request, TypeOK
    <2> QED
        BY <1>8, <2>2 DEF PushDispatch, TypeOK, tables, client
<1>9. ASSUME NEW p \in Probe, PushAnswered(p) PROVE TypeOK'
    BY <1>9 DEF PushAnswered, TypeOK, tables
<1>10. ASSUME NEW p \in Probe, PushLost(p) PROVE TypeOK'
    BY <1>10 DEF PushLost, TypeOK, tables, client
<1>11. ASSUME NEW t \in TargetID, NEW d \in Row, CreateTarget(t, d) PROVE TypeOK'
    <2>1. CASE targets[t] = None /\ Commit([targets EXCEPT ![t] = d], stored) /\ UNCHANGED saving
        BY <2>1, CommitType DEF TypeOK
    <2>2. CASE saving' = [target |-> t, row |-> d] /\ UNCHANGED <<targets, stored, changes, client, req>>
        BY <2>2 DEF TypeOK, client
    <2> QED
        BY <1>11, <2>1, <2>2 DEF CreateTarget
<1>12. ASSUME NEW t \in TargetID, NEW d \in Row, UpdateTarget(t, d) PROVE TypeOK'
    BY <1>12, CommitType DEF UpdateTarget, TypeOK
<1>13. ASSUME NEW t \in TargetID, DeleteTarget(t) PROVE TypeOK'
    BY <1>13, CommitType DEF DeleteTarget, TypeOK
<1>14. CASE FinishCreate
    <2>1. saving \in [target : TargetID, row : Row] /\ saving' = None
        BY <1>14 DEF FinishCreate, TypeOK
    <2>2. CASE Commit([targets EXCEPT ![saving.target] = saving.row], stored)
        BY <2>1, <2>2, CommitType DEF TypeOK
    <2>3. CASE UNCHANGED <<targets, stored, changes, client, req>>
        BY <2>1, <2>3 DEF TypeOK, client
    <2> QED
        BY <1>14, <2>2, <2>3 DEF FinishCreate
<1>15. ASSUME NEW c \in Param, SetMeasurementConfig(c) PROVE TypeOK'
    BY <1>15, CommitType DEF SetMeasurementConfig, TypeOK
<1>16. CASE ResetMeasurementConfig
    BY <1>16, CommitType DEF ResetMeasurementConfig, TypeOK
<1>17. CASE Restart
    BY <1>17, SeedAssumption, ChangeAssumption DEF Restart, TypeOK, client
<1>18. CASE UNCHANGED vars
    BY <1>18 DEF vars, TypeOK
<1> QED
    BY <1>1, <1>2, <1>3, <1>4, <1>5, <1>6, <1>7, <1>8, <1>9, <1>10, <1>11, <1>12,
       <1>13, <1>14, <1>15, <1>16, <1>17, <1>18 DEF Next

\* TypeOK is an invariant.
THEOREM TypeCorrect == Spec => []TypeOK
    BY TypeInit, TypeStep, PTL DEF Spec

-----------------------------------------------------------------------------
(* A push is judged by what its probe was given *)

(***************************************************************************)
(* While a push that names a configuration is judged: if the list it names *)
(* is the one dispatched, and no edit has restored it, then the allowlist  *)
(* read at the start covers the push; if moreover it names the parameters  *)
(* that were read, what it names has been in force since the judging began.*)
(***************************************************************************)
NamesList(p)  == req[p].id.list = Dispatch(targets)

InJudgementInv(p) ==
    /\ req[p].id \in Config /\ req[p].results # {} /\ req[p].code = "none"
    /\ NamesList(p) => req[p].results \subseteq req[p].allow \/ req[p].restored
    /\ req[p].id = InForce => req[p].seen
    /\ req[p].pc = "configured" /\ NamesList(p) /\ req[p].id.param = req[p].param
          => req[p].seen \/ req[p].restored

JudgedInv(p) ==
    /\ req[p].code \in {"accepted", "config_stale"} \/ req[p].restored
    /\ req[p].code = "accepted" => req[p].seen \/ req[p].restored

JudgeInv ==
    \A p \in Probe \ Legacy :
        CASE req[p].pc \in {"allowed", "configured"} -> InJudgementInv(p)
          [] req[p].pc = "judged"                    -> JudgedInv(p)
          [] OTHER                                   -> req[p].code = "none"

\* A configuration is in force when both its parts are.
LEMMA InForceParts ==
    ASSUME NEW c \in Config, c.list = Dispatch(targets), c.param = MeasurementConfig
    PROVE  c = InForce
    BY DEF Config, InForce

\* An edit restores the list a push names, or keeps what is known of it.
LEMMA CommitJudge ==
    ASSUME TypeOK, JudgeInv, NEW T, NEW s, Commit(T, s)
    PROVE  JudgeInv'
<1> SUFFICES ASSUME NEW p \in Probe \ Legacy
             PROVE  CASE req'[p].pc \in {"allowed", "configured"} -> InJudgementInv(p)'
                      [] req'[p].pc = "judged"                    -> JudgedInv(p)'
                      [] OTHER                                    -> req'[p].code = "none"
    BY DEF JudgeInv
<1>0. req[p] \in Request
    BY DEF TypeOK
<1>1. CASE ~InJudgement(p)
    <2>1. req'[p] = req[p]
        BY <1>1 DEF Commit
    <2>2. req[p].pc \notin {"allowed", "configured"}
        <3>1. req[p].pc \in {"allowed", "configured"} => req[p].id \in Config
            BY DEF JudgeInv, InJudgementInv
        <3>2. None \notin Config
            BY NoneAssumption
        <3> QED
            BY <1>1, <3>1, <3>2 DEF InJudgement
    <2> QED
        BY <2>1, <2>2 DEF JudgeInv, JudgedInv
<1>2. CASE InJudgement(p)
    <2>1. req'[p] = [req[p] EXCEPT !.seen = @ \/ req[p].id = InForce',
                                   !.missed = @ \/ req[p].id # InForce',
                                   !.restored = @ \/ Restores(req[p].id.list, T)]
        BY <1>2 DEF Commit
    <2>2. req[p].pc \in {"allowed", "configured"} /\ InJudgementInv(p)
        BY <1>2 DEF InJudgement, JudgeInv
    <2>3. /\ req'[p].pc = req[p].pc /\ req'[p].id = req[p].id /\ req'[p].param = req[p].param
          /\ req'[p].results = req[p].results /\ req'[p].allow = req[p].allow
          /\ req'[p].code = req[p].code
          /\ req'[p].seen = (req[p].seen \/ req[p].id = InForce')
          /\ req'[p].restored = (req[p].restored \/ Restores(req[p].id.list, T))
        BY <1>0, <2>1 DEF Request
    <2>4. NamesList(p)' => NamesList(p) \/ req'[p].restored
        <3>1. Dispatch(targets)' = Dispatch(T)
            BY DEF Commit
        <3> QED
            BY <2>3, <3>1 DEF NamesList, Restores
    <2>5. (req[p].seen => req'[p].seen) /\ (req[p].restored => req'[p].restored)
        BY <2>3
    <2>6. req'[p].id = InForce' => req'[p].seen
        BY <2>3
    <2>7. InJudgementInv(p)'
        BY <2>2, <2>3, <2>4, <2>5, <2>6 DEF InJudgementInv
    <2> QED
        BY <2>2, <2>3, <2>7
<1> QED
    BY <1>1, <1>2

\* A step that leaves the tables alone disturbs the request of one probe only.
LEMMA OneRequest ==
    ASSUME JudgeInv, UNCHANGED tables, NEW p \in Probe, NEW r,
           req' = [req EXCEPT ![p] = r], TypeOK,
           p \notin Legacy =>
               CASE req'[p].pc \in {"allowed", "configured"} -> InJudgementInv(p)'
                 [] req'[p].pc = "judged"                    -> JudgedInv(p)'
                 [] OTHER                                    -> req'[p].code = "none"
    PROVE  JudgeInv'
<1>1. Dispatch(targets)' = Dispatch(targets) /\ InForce' = InForce
    BY DEF tables, Dispatch, InForce, MeasurementConfig
<1>2. ASSUME NEW q \in Probe, q # p PROVE req'[q] = req[q]
    BY <1>2 DEF TypeOK
<1>3. ASSUME NEW q \in Probe, q # p
      PROVE  (InJudgementInv(q)' <=> InJudgementInv(q)) /\ (JudgedInv(q)' <=> JudgedInv(q))
    BY <1>1, <1>2, <1>3 DEF InJudgementInv, JudgedInv, NamesList
<1>4. ASSUME NEW q \in Probe \ Legacy
      PROVE  CASE req'[q].pc \in {"allowed", "configured"} -> InJudgementInv(q)'
               [] req'[q].pc = "judged"                    -> JudgedInv(q)'
               [] OTHER                                    -> req'[q].code = "none"
    <2>1. CASE q = p
        BY <2>1, <1>4
    <2>2. CASE q # p
        BY <2>2, <1>2, <1>3, <1>4 DEF JudgeInv
    <2> QED
        BY <2>1, <2>2
<1> QED
    BY <1>4 DEF JudgeInv

LEMMA JudgeInit == Init => JudgeInv
    BY DEF Init, JudgeInv, IdleReq

LEMMA JudgeStep == TypeOK /\ TypeOK' /\ JudgeInv /\ [Next]_vars => JudgeInv'
<1> SUFFICES ASSUME TypeOK, TypeOK', JudgeInv, [Next]_vars PROVE JudgeInv'
    OBVIOUS
<1>a. IdleReq.pc = "idle" /\ IdleReq.code = "none"
    BY DEF IdleReq
<1>b. ASSUME NEW p \in Probe, req' = [req EXCEPT ![p] = IdleReq], UNCHANGED tables PROVE JudgeInv'
    BY <1>a, <1>b, OneRequest DEF TypeOK
<1>1. ASSUME NEW p \in Probe, FetchTargets(p) PROVE JudgeInv'
    <2> DEFINE r == [IdleReq EXCEPT !.pc = "listed", !.list = Dispatch(targets)]
    <2>1. r.pc = "listed" /\ r.code = "none"
        BY DEF IdleReq
    <2>2. req' = [req EXCEPT ![p] = r] /\ UNCHANGED tables
        BY <1>1 DEF FetchTargets
    <2> HIDE DEF r
    <2>3. req'[p] = r
        BY <2>2 DEF TypeOK
    <2> QED
        BY <2>1, <2>2, <2>3, OneRequest
<1>2. ASSUME NEW p \in Probe, FetchConfig(p) PROVE JudgeInv'
    <2> DEFINE r == [req[p] EXCEPT !.pc = "served", !.param = MeasurementConfig]
    <2>1. req[p] \in Request /\ req[p].pc = "listed"
        BY <1>2 DEF FetchConfig, TypeOK
    <2>2. r.pc = "served" /\ r.code = req[p].code
        BY <2>1 DEF Request
    <2>3. p \notin Legacy => req[p].code = "none"
        BY <2>1 DEF JudgeInv
    <2>4. req' = [req EXCEPT ![p] = r] /\ UNCHANGED tables
        BY <1>2 DEF FetchConfig
    <2> HIDE DEF r
    <2>5. req'[p] = r
        BY <2>4 DEF TypeOK
    <2> QED
        BY <2>2, <2>3, <2>4, <2>5, OneRequest
<1>3. ASSUME NEW p \in Probe, Fetched(p) PROVE JudgeInv'
    BY <1>3, <1>b DEF Fetched
<1>4. ASSUME NEW p \in Probe, FetchLost(p) PROVE JudgeInv'
    BY <1>4, <1>b DEF FetchLost
<1>5. ASSUME NEW p \in Probe, PushNamed(p) PROVE JudgeInv'
    <2>1. held[p] \in Config /\ UNCHANGED tables
        BY <1>5 DEF PushNamed, TypeOK
    <2>2. PICK results \in (SUBSET Pairs(held[p].list)) \ {{}} :
             req' = [req EXCEPT ![p] =
                       [IdleReq EXCEPT !.pc = "allowed", !.results = results,
                                       !.id = ConfigID(held[p].param, held[p].list),
                                       !.allow = Allowlist(targets),
                                       !.seen = (held[p] = InForce),
                                       !.missed = (held[p] # InForce)]]
        BY <1>5 DEF PushNamed
    <2> DEFINE r == [IdleReq EXCEPT !.pc = "allowed", !.results = results,
                                    !.id = ConfigID(held[p].param, held[p].list),
                                    !.allow = Allowlist(targets),
                                    !.seen = (held[p] = InForce),
                                    !.missed = (held[p] # InForce)]
    <2>3. ConfigID(held[p].param, held[p].list) = held[p]
        BY <2>1 DEF ConfigID, Config
    <2>4. /\ r.pc = "allowed" /\ r.results = results /\ r.allow = Allowlist(targets)
          /\ r.id = held[p] /\ r.code = "none"
        BY <2>3 DEF IdleReq
    <2>5. held[p] = InForce => r.seen
        BY DEF IdleReq
    <2>6. held[p].list = Dispatch(targets) => results \subseteq Allowlist(targets)
        BY DispatchedIsAllowed
    <2>7. req' = [req EXCEPT ![p] = r]
        BY <2>2
    <2> HIDE DEF r
    <2>8. req'[p] = r
        BY <2>7 DEF TypeOK
    <2>9. Dispatch(targets)' = Dispatch(targets) /\ InForce' = InForce
        BY <2>1 DEF tables, Dispatch, InForce, MeasurementConfig
    <2>10. InJudgementInv(p)'
        BY <2>1, <2>4, <2>5, <2>6, <2>8, <2>9 DEF InJudgementInv, NamesList
    <2> QED
        BY <2>1, <2>4, <2>7, <2>8, <2>10, OneRequest
<1>6. ASSUME NEW p \in Probe, PushUnnamed(p) PROVE JudgeInv'
    <2>1. PICK results \in SUBSET (TargetID \X ProbeType) :
             req' = [req EXCEPT ![p] =
                       [IdleReq EXCEPT !.pc = "allowed", !.results = results,
                                       !.allow = Allowlist(targets)]]
        BY <1>6 DEF PushUnnamed
    <2> QED
        BY <1>6, <2>1, OneRequest DEF PushUnnamed
<1>7. ASSUME NEW p \in Probe, PushConfig(p) PROVE JudgeInv'
    <2> DEFINE r == [req[p] EXCEPT !.pc = "configured", !.param = MeasurementConfig]
    <2>1. req[p] \in Request /\ req[p].pc = "allowed"
        BY <1>7 DEF PushConfig, TypeOK
    <2>2. /\ r.pc = "configured" /\ r.param = MeasurementConfig /\ r.code = req[p].code
          /\ r.id = req[p].id /\ r.results = req[p].results /\ r.allow = req[p].allow
          /\ r.seen = req[p].seen /\ r.restored = req[p].restored
        BY <2>1 DEF Request
    <2>3. req' = [req EXCEPT ![p] = r] /\ UNCHANGED tables
        BY <1>7 DEF PushConfig
    <2> HIDE DEF r
    <2>4. req'[p] = r
        BY <2>3 DEF TypeOK
    <2>5. Dispatch(targets)' = Dispatch(targets) /\ InForce' = InForce
        BY <2>3 DEF tables, Dispatch, InForce, MeasurementConfig
    <2>6. ASSUME p \notin Legacy PROVE InJudgementInv(p)'
        <3>1. InJudgementInv(p)
            BY <2>1, <2>6 DEF JudgeInv
        <3>2. NamesList(p) /\ req[p].id.param = MeasurementConfig => req[p].id = InForce
            BY <3>1, InForceParts DEF InJudgementInv, NamesList
        <3> QED
            BY <2>2, <2>4, <2>5, <3>1, <3>2 DEF InJudgementInv, NamesList
    <2> QED
        BY <2>2, <2>3, <2>4, <2>6, OneRequest
<1>8. ASSUME NEW p \in Probe, PushDispatch(p) PROVE JudgeInv'
    <2> DEFINE current == ConfigID(req[p].param, Dispatch(targets))
               r == [IdleReq EXCEPT !.pc = "judged", !.seen = req[p].seen,
                                    !.missed = req[p].missed,
                                    !.restored = req[p].restored,
                                    !.code = Verdict(req[p], current)]
    <2>1. req[p].pc = "configured" /\ req' = [req EXCEPT ![p] = r] /\ UNCHANGED tables
        BY <1>8 DEF PushDispatch
    <2>2. /\ r.pc = "judged" /\ r.code = Verdict(req[p], current)
          /\ r.seen = req[p].seen /\ r.restored = req[p].restored
        BY DEF IdleReq
    <2>3. current.param = req[p].param /\ current.list = Dispatch(targets)
        BY DEF ConfigID
    <2> HIDE DEF r, current
    <2>4. req'[p] = r
        BY <2>1 DEF TypeOK
    <2>5. ASSUME p \notin Legacy PROVE JudgedInv(p)'
        <3>1. InJudgementInv(p)
            BY <2>1, <2>5 DEF JudgeInv
        <3>2. None \notin Config
            BY NoneAssumption
        <3>3. CASE req[p].id = current
            <4>1. /\ req[p].results \subseteq req[p].allow \/ req[p].restored
                  /\ req[p].results # {}
                  /\ req[p].seen \/ req[p].restored
                BY <2>1, <2>3, <3>1, <3>3 DEF InJudgementInv, NamesList
            <4>2. req[p].results \subseteq req[p].allow => Verdict(req[p], current) = "accepted"
                BY <3>3, <4>1 DEF Verdict
            <4> QED
                BY <2>2, <2>4, <4>1, <4>2 DEF JudgedInv
        <3>4. CASE req[p].id # current
            <4>1. req[p].id \notin {None, current}
                BY <3>1, <3>2, <3>4 DEF InJudgementInv
            <4>2. Verdict(req[p], current) = "config_stale"
                BY <4>1 DEF Verdict
            <4> QED
                BY <2>2, <2>4, <4>2 DEF JudgedInv
        <3> QED
            BY <3>3, <3>4
    <2> QED
        BY <2>1, <2>2, <2>4, <2>5, OneRequest
<1>9. ASSUME NEW p \in Probe, PushAnswered(p) PROVE JudgeInv'
    BY <1>9, <1>b DEF PushAnswered
<1>10. ASSUME NEW p \in Probe, PushLost(p) PROVE JudgeInv'
    BY <1>10, <1>b DEF PushLost
<1>c. ASSUME UNCHANGED <<targets, stored, req>> PROVE JudgeInv'
    BY <1>c DEF JudgeInv, InJudgementInv, JudgedInv, NamesList, Dispatch, InForce, MeasurementConfig
<1>11. ASSUME NEW t \in TargetID, NEW d \in Row, CreateTarget(t, d) PROVE JudgeInv'
    BY <1>11, <1>c, CommitJudge DEF CreateTarget
<1>12. ASSUME NEW t \in TargetID, NEW d \in Row, UpdateTarget(t, d) PROVE JudgeInv'
    BY <1>12, CommitJudge DEF UpdateTarget
<1>13. ASSUME NEW t \in TargetID, DeleteTarget(t) PROVE JudgeInv'
    BY <1>13, CommitJudge DEF DeleteTarget
<1>14. CASE FinishCreate
    BY <1>14, <1>c, CommitJudge DEF FinishCreate
<1>15. ASSUME NEW c \in Param, SetMeasurementConfig(c) PROVE JudgeInv'
    BY <1>15, CommitJudge DEF SetMeasurementConfig
<1>16. CASE ResetMeasurementConfig
    BY <1>16, CommitJudge DEF ResetMeasurementConfig
<1>17. CASE Restart
    BY <1>17, <1>a DEF Restart, JudgeInv
<1>18. CASE UNCHANGED vars
    BY <1>18, <1>c DEF vars
<1> QED
    BY <1>1, <1>2, <1>3, <1>4, <1>5, <1>6, <1>7, <1>8, <1>9, <1>10, <1>11, <1>12,
       <1>13, <1>14, <1>15, <1>16, <1>17, <1>18 DEF Next

LEMMA JudgeInvariant == Spec => [](TypeOK /\ JudgeInv)
<1>1. Init => TypeOK /\ JudgeInv
    BY TypeInit, JudgeInit
<1>2. TypeOK /\ JudgeInv /\ [Next]_vars => (TypeOK /\ JudgeInv)'
    BY TypeStep, JudgeStep
<1> QED
    BY <1>1, <1>2, PTL DEF Spec

\* A push that names the configuration it was measured under is accepted or told
\* that the configuration is stale, unless an edit restored the list it names while
\* it was judged.
THEOREM NamedPushes == Spec => []BlamedWasRestored
<1>1. JudgeInv => BlamedWasRestored
    BY DEF JudgeInv, JudgedInv, BlamedWasRestored
<1> QED
    BY <1>1, JudgeInvariant, PTL

\* With the same exception, what an accepted push names was in force as a whole at
\* some moment while it was judged.
THEOREM AcceptedPushes == Spec => []AcceptedWasInForceOrRestored
<1>1. JudgeInv => AcceptedWasInForceOrRestored
    BY DEF JudgeInv, InJudgementInv, JudgedInv, AcceptedWasInForceOrRestored
<1> QED
    BY <1>1, JudgeInvariant, PTL

-----------------------------------------------------------------------------
(* A push is refused only when it was overtaken *)

(***************************************************************************)
(* While a push that names a configuration is judged: if what it names is  *)
(* not in force, or differs from the parameters that were read, or asks    *)
(* for more than the allowlist that was read, then it has missed being in  *)
(* force since the judging began.                                          *)
(***************************************************************************)
MissedAt(p) ==
    /\ req[p].pc \in {"allowed", "configured"} =>
          /\ req[p].id \in Config /\ req[p].results # {}
          /\ req[p].id # InForce => req[p].missed
          /\ req[p].results \subseteq req[p].allow \/ req[p].missed
    /\ req[p].pc = "configured" /\ req[p].id.param # req[p].param => req[p].missed
    /\ req[p].pc = "judged" /\ req[p].code # "accepted" => req[p].missed

MissedInv == \A p \in Probe \ Legacy : MissedAt(p)

LEMMA MissedInit == Init => MissedInv
    BY DEF Init, MissedInv, MissedAt, IdleReq

\* An edit is a moment too: what is not in force after it has been missed.
LEMMA CommitMissed ==
    ASSUME TypeOK, MissedInv, NEW T, NEW s, Commit(T, s)
    PROVE  MissedInv'
<1> SUFFICES ASSUME NEW p \in Probe \ Legacy PROVE MissedAt(p)'
    BY DEF MissedInv
<1>0. req[p] \in Request /\ MissedAt(p)
    BY DEF TypeOK, MissedInv
<1>1. CASE ~InJudgement(p)
    <2>1. req'[p] = req[p]
        BY <1>1 DEF Commit
    <2>2. req[p].pc \notin {"allowed", "configured"}
        BY <1>0, <1>1, NoneAssumption DEF MissedAt, InJudgement
    <2> QED
        BY <1>0, <2>1, <2>2 DEF MissedAt
<1>2. CASE InJudgement(p)
    <2>1. req'[p] = [req[p] EXCEPT !.seen = @ \/ req[p].id = InForce',
                                   !.missed = @ \/ req[p].id # InForce',
                                   !.restored = @ \/ Restores(req[p].id.list, T)]
        BY <1>2 DEF Commit
    <2>2. /\ req'[p].pc = req[p].pc /\ req'[p].id = req[p].id /\ req'[p].param = req[p].param
          /\ req'[p].results = req[p].results /\ req'[p].allow = req[p].allow
          /\ req'[p].code = req[p].code
          /\ req'[p].missed = (req[p].missed \/ req[p].id # InForce')
        BY <1>0, <2>1 DEF Request
    <2> QED
        BY <1>0, <2>2 DEF MissedAt
<1> QED
    BY <1>1, <1>2

\* A step that leaves the tables alone disturbs the request of one probe only.
LEMMA OneMissed ==
    ASSUME TypeOK, MissedInv, UNCHANGED tables, NEW p \in Probe, NEW r,
           req' = [req EXCEPT ![p] = r], p \notin Legacy => MissedAt(p)'
    PROVE  MissedInv'
<1>1. InForce' = InForce
    BY DEF tables, Dispatch, InForce, MeasurementConfig
<1>2. ASSUME NEW q \in Probe \ Legacy, q # p PROVE MissedAt(q)'
    <2>1. req'[q] = req[q] /\ MissedAt(q)
        BY <1>2 DEF TypeOK, MissedInv
    <2> QED
        BY <1>1, <2>1 DEF MissedAt
<1> QED
    BY <1>2 DEF MissedInv

LEMMA MissedStep == TypeOK /\ MissedInv /\ [Next]_vars => MissedInv'
<1> SUFFICES ASSUME TypeOK, MissedInv, [Next]_vars PROVE MissedInv'
    OBVIOUS
<1>a. ASSUME NEW p \in Probe, NEW r, req' = [req EXCEPT ![p] = r], UNCHANGED tables,
             r.pc \notin {"allowed", "configured", "judged"}
      PROVE  MissedInv'
    <2>1. req'[p] = r
        BY <1>a DEF TypeOK
    <2>2. p \notin Legacy => MissedAt(p)'
        BY <1>a, <2>1 DEF MissedAt
    <2> QED
        BY <1>a, <2>2, OneMissed
<1>i. IdleReq.pc = "idle" /\ IdleReq.code = "none"
    BY DEF IdleReq
<1>b. ASSUME NEW p \in Probe, req' = [req EXCEPT ![p] = IdleReq], UNCHANGED tables PROVE MissedInv'
    BY <1>a, <1>b, <1>i
<1>1. ASSUME NEW p \in Probe, FetchTargets(p) PROVE MissedInv'
    <2>1. PICK r : r.pc = "listed" /\ req' = [req EXCEPT ![p] = r]
        BY <1>1 DEF FetchTargets, IdleReq
    <2> QED
        BY <1>1, <1>a, <2>1 DEF FetchTargets
<1>2. ASSUME NEW p \in Probe, FetchConfig(p) PROVE MissedInv'
    <2> DEFINE r == [req[p] EXCEPT !.pc = "served", !.param = MeasurementConfig]
    <2>1. req[p] \in Request /\ req' = [req EXCEPT ![p] = r] /\ UNCHANGED tables
        BY <1>2 DEF FetchConfig, TypeOK
    <2>2. r.pc = "served"
        BY <2>1 DEF Request
    <2> HIDE DEF r
    <2> QED
        BY <1>a, <2>1, <2>2
<1>3. ASSUME NEW p \in Probe, Fetched(p) PROVE MissedInv'
    BY <1>3, <1>b DEF Fetched
<1>4. ASSUME NEW p \in Probe, FetchLost(p) PROVE MissedInv'
    BY <1>4, <1>b DEF FetchLost
<1>5. ASSUME NEW p \in Probe, PushNamed(p) PROVE MissedInv'
    <2>1. held[p] \in Config /\ UNCHANGED tables
        BY <1>5 DEF PushNamed, TypeOK
    <2>2. ConfigID(held[p].param, held[p].list) = held[p]
        BY <2>1 DEF ConfigID, Config
    <2>3. PICK r : /\ r.pc = "allowed" /\ r.id = held[p] /\ r.allow = Allowlist(targets)
                   /\ r.results \subseteq Pairs(held[p].list) /\ r.results # {}
                   /\ r.missed = (held[p] # InForce)
                   /\ req' = [req EXCEPT ![p] = r]
        BY <1>5, <2>2 DEF PushNamed, IdleReq
    <2>4. req'[p] = r
        BY <2>3 DEF TypeOK
    <2>5. InForce' = InForce
        BY <2>1 DEF tables, Dispatch, InForce, MeasurementConfig
    <2>6. r.results \subseteq r.allow \/ r.missed
        <3>1. held[p] = InForce => held[p].list = Dispatch(targets)
            BY DEF InForce
        <3>2. Pairs(Dispatch(targets)) \subseteq Allowlist(targets)
            BY DispatchedIsAllowed
        <3> QED
            BY <2>3, <3>1, <3>2
    <2>7. MissedAt(p)'
        BY <2>1, <2>3, <2>4, <2>5, <2>6 DEF MissedAt
    <2> QED
        BY <2>1, <2>3, <2>7, OneMissed
<1>6. ASSUME NEW p \in Probe, PushUnnamed(p) PROVE MissedInv'
    BY <1>6, OneMissed DEF PushUnnamed
<1>7. ASSUME NEW p \in Probe, PushConfig(p) PROVE MissedInv'
    <2> DEFINE r == [req[p] EXCEPT !.pc = "configured", !.param = MeasurementConfig]
    <2>1. /\ req[p] \in Request /\ req[p].pc = "allowed"
          /\ req' = [req EXCEPT ![p] = r] /\ UNCHANGED tables
        BY <1>7 DEF PushConfig, TypeOK
    <2>2. /\ r.pc = "configured" /\ r.param = MeasurementConfig /\ r.id = req[p].id
          /\ r.results = req[p].results /\ r.allow = req[p].allow /\ r.missed = req[p].missed
        BY <2>1 DEF Request
    <2> HIDE DEF r
    <2>3. req'[p] = r
        BY <2>1 DEF TypeOK
    <2>4. InForce' = InForce /\ InForce.param = MeasurementConfig
        BY <2>1 DEF tables, Dispatch, InForce, MeasurementConfig
    <2>5. p \notin Legacy => MissedAt(p)'
        BY <2>1, <2>2, <2>3, <2>4 DEF MissedAt, MissedInv
    <2> QED
        BY <2>1, <2>5, OneMissed
<1>8. ASSUME NEW p \in Probe, PushDispatch(p) PROVE MissedInv'
    <2> DEFINE current == ConfigID(req[p].param, Dispatch(targets))
    <2>1. PICK r : /\ r.pc = "judged" /\ r.missed = req[p].missed
                   /\ r.code = Verdict(req[p], current)
                   /\ req' = [req EXCEPT ![p] = r]
        BY <1>8 DEF PushDispatch, IdleReq
    <2>2. req[p].pc = "configured" /\ UNCHANGED tables /\ req'[p] = r
        BY <1>8, <2>1 DEF PushDispatch, TypeOK
    <2>3. ASSUME p \notin Legacy, r.code # "accepted" PROVE r.missed
        <3>1. MissedAt(p)
            BY <2>3 DEF MissedInv
        <3>2. req[p].id # current \/ req[p].results = {} \/ ~(req[p].results \subseteq req[p].allow)
            BY <2>1, <2>3 DEF Verdict
        <3>3. req[p].id # current => req[p].id # InForce \/ req[p].id.param # req[p].param
            BY DEF InForce, ConfigID
        <3> QED
            BY <2>1, <2>2, <3>1, <3>2, <3>3 DEF MissedAt
    <2>4. p \notin Legacy => MissedAt(p)'
        BY <2>1, <2>2, <2>3 DEF MissedAt
    <2> QED
        BY <2>1, <2>2, <2>4, OneMissed
<1>9. ASSUME NEW p \in Probe, PushAnswered(p) PROVE MissedInv'
    BY <1>9, <1>b DEF PushAnswered
<1>10. ASSUME NEW p \in Probe, PushLost(p) PROVE MissedInv'
    BY <1>10, <1>b DEF PushLost
<1>c. ASSUME UNCHANGED <<targets, stored, req>> PROVE MissedInv'
    BY <1>c DEF MissedInv, MissedAt, Dispatch, InForce, MeasurementConfig
<1>11. ASSUME NEW t \in TargetID, NEW d \in Row, CreateTarget(t, d) PROVE MissedInv'
    BY <1>11, <1>c, CommitMissed DEF CreateTarget
<1>12. ASSUME NEW t \in TargetID, NEW d \in Row, UpdateTarget(t, d) PROVE MissedInv'
    BY <1>12, CommitMissed DEF UpdateTarget
<1>13. ASSUME NEW t \in TargetID, DeleteTarget(t) PROVE MissedInv'
    BY <1>13, CommitMissed DEF DeleteTarget
<1>14. CASE FinishCreate
    BY <1>14, <1>c, CommitMissed DEF FinishCreate
<1>15. ASSUME NEW c \in Param, SetMeasurementConfig(c) PROVE MissedInv'
    BY <1>15, CommitMissed DEF SetMeasurementConfig
<1>16. CASE ResetMeasurementConfig
    BY <1>16, CommitMissed DEF ResetMeasurementConfig
<1>17. CASE Restart
    BY <1>17, <1>i DEF Restart, MissedInv, MissedAt
<1>18. CASE UNCHANGED vars
    BY <1>18, <1>c DEF vars
<1> QED
    BY <1>1, <1>2, <1>3, <1>4, <1>5, <1>6, <1>7, <1>8, <1>9, <1>10, <1>11, <1>12,
       <1>13, <1>14, <1>15, <1>16, <1>17, <1>18 DEF Next

\* Whatever is edited, and restored, while a push is judged: what it names was out of
\* force at some moment of that time, or the push is accepted.
THEOREM RefusedPushes == Spec => []RefusedWasOvertaken
<1>1. Init => TypeOK /\ MissedInv
    BY TypeInit, MissedInit
<1>2. TypeOK /\ MissedInv /\ [Next]_vars => (TypeOK /\ MissedInv)'
    BY TypeStep, MissedStep
<1>3. MissedInv => RefusedWasOvertaken
    BY DEF MissedInv, MissedAt, RefusedWasOvertaken
<1> QED
    BY <1>1, <1>2, <1>3, PTL DEF Spec

=============================================================================
