------------------------ MODULE TokenHandoverProofs ------------------------
(***************************************************************************)
(* Proofs about TokenHandover: a page tells the truth, a current token is  *)
(* in reach, and the slots implement OneShotDisplay, for any number of     *)
(* probes, requests and tokens.                                            *)
(***************************************************************************)
EXTENDS TokenHandover, TLAPS

Reserved == [pc : {"insert"}, probe : {NoProbe}, value : Token]
Named    == [pc : {"update", "mint"}, probe : ProbeID, value : Token]

\* The records a request is made of.
LEMMA RequestRecords ==
    /\ IdleReq.pc = "idle" /\ IdleReq.value = 0
    /\ \A m \in Reserved : m.pc = "insert" /\ m.value \in Token
    /\ \A m \in Named : /\ m.pc \in {"update", "mint"} /\ m.value \in Token
                        /\ m.probe \in ProbeID
    /\ \A v \in Token :
         /\ [pc |-> "insert", probe |-> NoProbe, value |-> v] \in Reserved
         /\ \A p \in ProbeID : /\ [pc |-> "update", probe |-> p, value |-> v] \in Named
                               /\ [pc |-> "mint", probe |-> p, value |-> v] \in Named
BY DEF IdleReq, Reserved, Named

\* What a request in flight is, by the place it has reached.
LEMMA RequestKinds ==
    ASSUME TypeOK, NEW r \in Request
    PROVE  /\ req[r].pc = "insert" => req[r] \in Reserved
           /\ req[r].pc \in {"update", "mint"} => req[r] \in Named
           /\ req[r].pc = "idle" => req[r] = IdleReq
           /\ req[r].pc \in {"idle", "insert", "update", "mint"}
<1>1. req[r] \in {IdleReq} \cup Reserved \cup Named
  BY DEF TypeOK, Reserved, Named
<1>2. CASE req[r] = IdleReq  BY <1>2, RequestRecords
<1>3. CASE req[r] \in Reserved  BY <1>3, RequestRecords
<1>4. CASE req[r] \in Named  BY <1>4, RequestRecords
<1> QED  BY <1>1, <1>2, <1>3, <1>4

\* The token of a request is one of those issued.
LEMMA RequestValue ==
    ASSUME TypeOK, NEW r \in Request
    PROVE  req[r].pc # "idle" => req[r].value \in Token
BY RequestKinds, RequestRecords

-----------------------------------------------------------------------------
(* Type correctness *)

\* The types of req, apart from the others: record sets are costly.
ReqTypeOK == req \in [Request -> {IdleReq} \cup Reserved \cup Named]

LEMMA ReqType ==
    ASSUME TypeOK, [Next]_vars
    PROVE  ReqTypeOK'
<1> USE DEF ReqTypeOK
<1>0. ReqTypeOK  BY DEF TypeOK, Reserved, Named
<1>1. ASSUME NEW r \in Request, Finish(r)  PROVE ReqTypeOK'
  BY <1>0, <1>1 DEF Finish
<1>2. ASSUME NEW r \in Request, NEW p \in ProbeID, req[r].value \in Token, Stored(r, p)
      PROVE  ReqTypeOK'
  BY <1>0, <1>2, RequestRecords DEF Stored
<1>3. ASSUME issued < MaxToken, issued' = issued + 1  PROVE issued' \in Token
  BY <1>3, BoundAssumption DEF TypeOK, Token
<1>4. ASSUME NEW r \in Request, BeginCreate(r)  PROVE ReqTypeOK'
  BY <1>0, <1>3, <1>4, RequestRecords DEF BeginCreate
<1>5. ASSUME NEW r \in Request, NEW p \in ProbeID, BeginRotate(r, p)  PROVE ReqTypeOK'
  BY <1>0, <1>3, <1>5, RequestRecords DEF BeginRotate
<1>6. ASSUME NEW r \in Request, NEW p \in ProbeID, Insert(r, p)  PROVE ReqTypeOK'
  BY <1>2, <1>6, RequestValue DEF Insert
<1>11. ASSUME NEW r \in Request, NEW p \in ProbeID, InsertUnread(r, p)  PROVE ReqTypeOK'
  BY <1>1, <1>11 DEF InsertUnread
<1>7. ASSUME NEW r \in Request, UpdateProbeToken(r)  PROVE ReqTypeOK'
  BY <1>1, <1>2, <1>7, RequestKinds, RequestRecords DEF UpdateProbeToken
<1>8. ASSUME NEW r \in Request, InsertDuplicate(r) \/ PutPair(r) \/ PutPairFails(r)
      PROVE  ReqTypeOK'
  BY <1>1, <1>8 DEF InsertDuplicate, PutPair, PutPairFails
<1>9. ASSUME Restart  PROVE ReqTypeOK'
  BY <1>9 DEF Restart
<1>10. ASSUME UNCHANGED req  PROVE ReqTypeOK'
  BY <1>0, <1>10
<1> QED
  BY <1>4, <1>5, <1>6, <1>7, <1>8, <1>9, <1>10, <1>11
  DEF Next, vars, TakePair, DeleteProbe, Tick

LEMMA TypeStep == TypeOK /\ [Next]_vars => TypeOK'
<1> SUFFICES ASSUME TypeOK, [Next]_vars  PROVE TypeOK'
  OBVIOUS
<1>0. ReqTypeOK'  BY ReqType
<1>1. ReqTypeOK' => (req \in [Request -> {IdleReq}
                           \cup [pc : {"insert"}, probe : {NoProbe}, value : Token]
                           \cup [pc : {"update", "mint"}, probe : ProbeID, value : Token]])'
  BY DEF ReqTypeOK, Reserved, Named
<1> DEFINE Rest == /\ token \in [ProbeID -> Token \cup {0}]
                   /\ issued \in 0 .. MaxToken
                   /\ slots \in [Token -> Slot \cup {Vacant}]
                   /\ clock \in Nat
                   /\ filed \in [Token -> ProbeID \cup {NoProbe}]
                   /\ pages \in [Token -> Seq(ProbeID)]
                   /\ minted \in SUBSET Token
                   /\ lost \in SUBSET (Token \cup {0})
<1>2. Rest  BY DEF TypeOK
<1>3. SUFFICES Rest'  BY <1>0, <1>1 DEF TypeOK
<1>4. ASSUME NEW r \in Request, BeginCreate(r)  PROVE Rest'
  BY <1>2, <1>4, BoundAssumption DEF BeginCreate, seen
<1>5. ASSUME NEW r \in Request, NEW p \in ProbeID, BeginRotate(r, p)  PROVE Rest'
  BY <1>2, <1>5, BoundAssumption DEF BeginRotate, seen
<1>6. ASSUME NEW r \in Request, NEW p \in ProbeID, Insert(r, p)  PROVE Rest'
  BY <1>2, <1>6, RequestValue DEF Insert, seen
<1>16. ASSUME NEW r \in Request, NEW p \in ProbeID, InsertUnread(r, p)  PROVE Rest'
  BY <1>2, <1>16, RequestValue DEF InsertUnread, seen
<1>7. ASSUME NEW r \in Request, UpdateProbeToken(r)  PROVE Rest'
  BY <1>2, <1>7, RequestKinds, RequestRecords DEF UpdateProbeToken, seen
<1>8. ASSUME NEW r \in Request, InsertDuplicate(r)  PROVE Rest'
  BY <1>2, <1>8 DEF InsertDuplicate, table, seen
<1>9. ASSUME NEW r \in Request, PutPair(r)  PROVE Rest'
  <2>1. req[r].probe \in ProbeID /\ req[r].value \in Token
    BY <1>9, RequestKinds, RequestRecords DEF PutPair
  <2>2. [probe |-> req[r].probe, expires |-> clock + TTL] \in Slot
    BY <1>2, <2>1, TTLAssumption DEF Slot
  <2> QED  BY <1>2, <1>9, <2>1, <2>2 DEF PutPair, table
<1>10. ASSUME NEW r \in Request, PutPairFails(r)  PROVE Rest'
  BY <1>2, <1>10, RequestValue DEF PutPairFails, table, seen
<1>11. ASSUME NEW t \in Token, TakePair(t)  PROVE Rest'
  <2>1. slots[t].probe \in ProbeID
    BY <1>2, <1>11 DEF TakePair, Full, Slot
  <2>2. slots' \in [Token -> Slot \cup {Vacant}]
    BY <1>2, <1>11 DEF TakePair
  <2> DEFINE longer == Append(pages[t], slots[t].probe)
  <2>4. longer \in Seq(ProbeID)
    BY <1>2, <2>1
  <2>5. pages' = pages \/ pages' = [pages EXCEPT ![t] = longer]
    BY <1>11 DEF TakePair
  <2>3. pages' \in [Token -> Seq(ProbeID)]
    <3> HIDE DEF longer
    <3> QED  BY <1>2, <2>4, <2>5
  <2> QED  BY <1>2, <1>11, <2>2, <2>3 DEF TakePair, table
<1>12. ASSUME NEW p \in ProbeID, DeleteProbe(p)  PROVE Rest'
  BY <1>2, <1>12 DEF DeleteProbe, seen
<1>13. ASSUME Restart  PROVE Rest'
  <2>1. {req[r].value : r \in Request} \in SUBSET (Token \cup {0})
    BY RequestValue, RequestKinds, RequestRecords
  <2>2. slots' \in [Token -> Slot \cup {Vacant}]
    BY <1>13 DEF Restart
  <2>3. lost' \in SUBSET (Token \cup {0})
    BY <1>2, <1>13, <2>1 DEF Restart
  <2> QED  BY <1>2, <1>13, <2>2, <2>3 DEF Restart, table, seen
<1>14. ASSUME Tick  PROVE Rest'
  BY <1>2, <1>14 DEF Tick, table, seen
<1>15. ASSUME UNCHANGED vars  PROVE Rest'
  BY <1>2, <1>15 DEF vars
<1> QED
  BY <1>4, <1>5, <1>6, <1>7, <1>8, <1>9, <1>10, <1>11, <1>12, <1>13, <1>14, <1>15, <1>16
  DEF Next

LEMMA TypeInit == Init => TypeOK
BY BoundAssumption DEF Init, TypeOK, Token

\* Type correctness of the hand-over.
THEOREM TypeCorrect == Spec => []TypeOK
BY TypeInit, TypeStep, PTL DEF Spec

-----------------------------------------------------------------------------
(* Where a token is *)

\* A token not issued yet is nowhere.
Unissued == \A t \in Token : t > issued => filed[t] = NoProbe /\ t \notin minted

\* No two requests have one token, and a request that has not minted holds one
\* that is in no slot and on no page.
Held ==
    \A r \in Request : req[r].pc # "idle" =>
        /\ req[r].value <= issued
        /\ req[r].value \notin minted
        /\ \A q \in Request : req[q].pc # "idle" /\ req[q].value = req[r].value => q = r

\* What a request holds is in the table only once its statement has run.
Unfiled ==
    \A r \in Request :
        /\ req[r].pc \in {"insert", "update"} => filed[req[r].value] = NoProbe
        /\ req[r].pc = "mint" => filed[req[r].value] = req[r].probe

\* The token of a row was filed under it.
RowsFiled == \A p \in ProbeID : Registered(p) => filed[token[p]] = p

\* A slot or a page belongs to a minted token, and to its probe; never both.
SlotsTrue ==
    \A t \in Token : Full(t) => /\ t \in minted
                                /\ filed[t] = slots[t].probe
                                /\ pages[t] = <<>>
PagesMinted == \A t \in Token : pages[t] # <<>> => t \in minted

PlaceInv == /\ TypeOK /\ Unissued /\ Held /\ Unfiled /\ RowsFiled
            /\ SlotsTrue /\ PagesMinted /\ PagesAreTrue

\* Nothing is filed, minted or shown: the invariant asks only about requests.
LEMMA PlaceInit == Init => PlaceInv
<1> SUFFICES ASSUME Init  PROVE PlaceInv
  OBVIOUS
<1>1. TypeOK  BY TypeInit
<1>2. Unissued /\ RowsFiled /\ SlotsTrue /\ PagesMinted /\ PagesAreTrue
  BY DEF Init, Unissued, RowsFiled, SlotsTrue, PagesMinted, PagesAreTrue, Registered, Full
<1>3. Held /\ Unfiled
  BY RequestRecords DEF Init, Held, Unfiled
<1> QED  BY <1>1, <1>2, <1>3 DEF PlaceInv

\* A request leaves or stays as it is, and nothing else of the places changes.
LEMMA RequestsLeave ==
    ASSUME PlaceInv,
           req' \in [Request -> {IdleReq} \cup Reserved \cup Named],
           \A r \in Request : req'[r] \in {req[r], IdleReq},
           UNCHANGED <<issued, filed, minted>>
    PROVE  Unissued' /\ Held' /\ Unfiled'
BY RequestRecords DEF PlaceInv, Unissued, Held, Unfiled, IdleReq

LEMMA PlaceStep == PlaceInv /\ [Next]_vars => PlaceInv'
<1> SUFFICES ASSUME PlaceInv, [Next]_vars  PROVE PlaceInv'
  OBVIOUS
<1> DEFINE Requests == Unissued /\ Held /\ Unfiled
           Shown    == SlotsTrue /\ PagesMinted /\ PagesAreTrue
<1>1. TypeOK /\ TypeOK'  BY TypeStep DEF PlaceInv
<1>2. ReqTypeOK'  BY <1>1, ReqType
<1>3. SUFFICES Requests' /\ RowsFiled' /\ Shown'
  BY <1>1 DEF PlaceInv
<1>4. ASSUME NEW r \in Request, InsertDuplicate(r) \/ PutPairFails(r)
      PROVE  Requests' /\ RowsFiled' /\ Shown'
  <2>1. Requests'
    BY <1>2, <1>4, RequestsLeave
    DEF ReqTypeOK, InsertDuplicate, PutPairFails, Finish, table, seen
  <2> QED
    BY <1>4, <2>1 DEF PlaceInv, InsertDuplicate, PutPairFails, table, seen, RowsFiled,
                      Registered, SlotsTrue, Full, PagesMinted, PagesAreTrue
<1>5. ASSUME NEW r \in Request, NEW v \in Token, NEW m \in Reserved \cup Named,
             req[r].pc = "idle", m.value = v, m.pc # "mint", v = issued + 1, issued' = v,
             req' = [req EXCEPT ![r] = m],
             UNCHANGED <<token, slots, clock, filed, seen, lost>>
      PROVE  Requests' /\ RowsFiled' /\ Shown'
  <2>1. Unissued' /\ Held' /\ Unfiled'
    BY <1>1, <1>2, <1>5, RequestValue DEF PlaceInv, Unissued, Held, Unfiled, seen, ReqTypeOK,
       TypeOK, Token
  <2> QED
    BY <1>5, <2>1 DEF PlaceInv, seen, RowsFiled, Registered, SlotsTrue, Full,
                      PagesMinted, PagesAreTrue
<1>6. issued < MaxToken => issued + 1 \in Token
  BY <1>1, BoundAssumption DEF TypeOK, Token
<1>7. ASSUME NEW r \in Request, BeginCreate(r)
      PROVE  Requests' /\ RowsFiled' /\ Shown'
  BY <1>5, <1>6, <1>7, RequestRecords DEF BeginCreate
<1>8. ASSUME NEW r \in Request, NEW p \in ProbeID, BeginRotate(r, p)
      PROVE  Requests' /\ RowsFiled' /\ Shown'
  BY <1>5, <1>6, <1>8, RequestRecords DEF BeginRotate
<1>9. ASSUME NEW r \in Request, NEW p \in ProbeID, NEW v \in Token,
             v = req[r].value, req[r].pc \in {"insert", "update"},
             token' = [token EXCEPT ![p] = v],
             filed' = [filed EXCEPT ![v] = p],
             Stored(r, p), UNCHANGED <<issued, slots, clock, seen, lost>>
      PROVE  Requests' /\ RowsFiled' /\ Shown'
  <2> DEFINE m == [pc |-> "mint", probe |-> p, value |-> v]
  <2>1. req' = [req EXCEPT ![r] = m] /\ m.pc = "mint" /\ m.value = v /\ m.probe = p
    BY <1>9 DEF Stored
  <2>2. filed[v] = NoProbe /\ v \notin minted /\ v <= issued
    BY <1>9 DEF PlaceInv, Held, Unfiled
  <2> HIDE DEF m
  <2>3. Unissued' /\ Held'
    BY <1>1, <1>2, <1>9, <2>1, <2>2 DEF PlaceInv, Unissued, Held, seen, ReqTypeOK, TypeOK, Token
  <2>4. Unfiled'
    BY <1>1, <1>9, <2>1, <2>2 DEF PlaceInv, Held, Unfiled, seen, ReqTypeOK, TypeOK
  <2>5. RowsFiled'
    BY <1>1, <1>9, <2>2, NoProbeAssumption DEF PlaceInv, RowsFiled, Registered, TypeOK
  <2>6. Shown'
    BY <1>1, <1>9, <2>2
    DEF PlaceInv, SlotsTrue, Full, PagesMinted, PagesAreTrue, seen, TypeOK
  <2> QED  BY <2>3, <2>4, <2>5, <2>6
<1>10. ASSUME NEW r \in Request, NEW p \in ProbeID, Insert(r, p)
       PROVE  Requests' /\ RowsFiled' /\ Shown'
  BY <1>1, <1>9, <1>10, RequestValue DEF Insert
<1>17. ASSUME NEW r \in Request, NEW p \in ProbeID, InsertUnread(r, p)
       PROVE  Requests' /\ RowsFiled' /\ Shown'
  <2> DEFINE v == req[r].value
  <2>1. v \in Token /\ filed[v] = NoProbe /\ v \notin minted /\ v <= issued
    BY <1>1, <1>17, RequestValue DEF InsertUnread, PlaceInv, Held, Unfiled
  <2>2. \A q \in Request : req[q].pc # "idle" /\ req[q].value = v => q = r
    BY <1>17 DEF InsertUnread, PlaceInv, Held
  <2>3. /\ token' = [token EXCEPT ![p] = v] /\ filed' = [filed EXCEPT ![v] = p]
        /\ req' = [req EXCEPT ![r] = IdleReq] /\ UNCHANGED <<issued, slots, seen>>
    BY <1>17 DEF InsertUnread, Finish
  <2> HIDE DEF v
  <2>4. Requests'
    BY <1>1, <1>2, <2>1, <2>2, <2>3, RequestRecords
    DEF PlaceInv, Unissued, Held, Unfiled, ReqTypeOK, TypeOK, Token, IdleReq, seen
  <2>5. RowsFiled'
    BY <1>1, <2>1, <2>3, NoProbeAssumption DEF PlaceInv, RowsFiled, Registered, TypeOK
  <2>6. Shown'
    BY <1>1, <2>1, <2>3 DEF PlaceInv, SlotsTrue, Full, PagesMinted, PagesAreTrue, seen, TypeOK
  <2> QED  BY <2>4, <2>5, <2>6
<1>11. ASSUME NEW r \in Request, UpdateProbeToken(r)
       PROVE  Requests' /\ RowsFiled' /\ Shown'
  <2>1. req[r].probe \in ProbeID /\ req[r].value \in Token
    BY <1>1, <1>11, RequestKinds, RequestRecords DEF UpdateProbeToken
  <2>2. CASE Stored(r, req[r].probe) /\ Registered(req[r].probe)
    BY <1>9, <1>11, <2>1, <2>2 DEF UpdateProbeToken
  <2>3. CASE ~Registered(req[r].probe)
    <3>1. Requests'
      BY <1>2, <1>11, <2>3, RequestsLeave
      DEF ReqTypeOK, UpdateProbeToken, Finish, table, seen
    <3> QED
      BY <1>11, <2>3, <3>1 DEF PlaceInv, UpdateProbeToken, table, seen, RowsFiled,
                             Registered, SlotsTrue, Full, PagesMinted, PagesAreTrue
  <2> QED  BY <1>11, <2>2, <2>3 DEF UpdateProbeToken
<1>12. ASSUME NEW r \in Request, PutPair(r)
       PROVE  Requests' /\ RowsFiled' /\ Shown'
  <2> DEFINE v == req[r].value
  <2>1. req[r].probe \in ProbeID /\ v \in Token
    BY <1>1, <1>12, RequestKinds, RequestRecords DEF PutPair
  <2>2. /\ filed[v] = req[r].probe /\ v <= issued /\ v \notin minted
        /\ \A q \in Request : req[q].pc # "idle" /\ req[q].value = v => q = r
    BY <1>12 DEF PutPair, PlaceInv, Unfiled, Held
  <2> HIDE DEF v
  <2>3. minted' = minted \cup {v} /\ req' = [req EXCEPT ![r] = IdleReq]
    BY <1>12 DEF PutPair, Finish, v
  <2>4. Unissued' /\ Held' /\ Unfiled'
    BY <1>1, <1>2, <1>12, <2>1, <2>2, <2>3, RequestRecords
    DEF PutPair, table, PlaceInv, Unissued, Held, Unfiled, ReqTypeOK, TypeOK, Token, IdleReq
  <2>5. RowsFiled'
    BY <1>12 DEF PutPair, table, PlaceInv, RowsFiled, Registered
  <2>6. \A t \in Token : Full(t)' => t = v \/ (Full(t) /\ slots'[t] = slots[t])
    BY <1>12 DEF PutPair, Full, v
  <2>7. slots'[v].probe = req[r].probe
    BY <1>12, <2>1 DEF PutPair, v
  <2>8. pages[v] = <<>>
    BY <2>1, <2>2 DEF PlaceInv, PagesMinted
  <2>9. Shown'
    BY <1>12, <2>1, <2>2, <2>3, <2>6, <2>7, <2>8
    DEF PutPair, table, PlaceInv, SlotsTrue, PagesMinted, PagesAreTrue
  <2> QED  BY <2>4, <2>5, <2>9
<1>13. ASSUME NEW t \in Token, TakePair(t)
       PROVE  Requests' /\ RowsFiled' /\ Shown'
  <2>1. Requests' /\ RowsFiled'
    BY <1>13 DEF TakePair, table, PlaceInv, Unissued, Held, Unfiled, RowsFiled, Registered
  <2>2. t \in minted /\ filed[t] = slots[t].probe /\ pages[t] = <<>>
    BY <1>13 DEF TakePair, PlaceInv, SlotsTrue
  <2>3. filed[t] # NoProbe
    BY <1>1, <1>13, <2>2, NoProbeAssumption DEF TakePair, Full, TypeOK, Slot
  <2>4. \A u \in Token : Full(u)' => u # t /\ Full(u) /\ slots'[u] = slots[u]
    BY <1>1, <1>13 DEF TakePair, Full, TypeOK
  <2>5. \A u \in Token : u # t => pages'[u] = pages[u]
    BY <1>1, <1>13 DEF TakePair, TypeOK
  <2>6. pages'[t] \in {<<>>, <<filed[t]>>}
    <3>1. pages'[t] = pages[t] \/ pages'[t] = Append(pages[t], slots[t].probe)
      BY <1>1, <1>13 DEF TakePair, TypeOK
    <3>2. Append(<<>>, filed[t]) = <<filed[t]>>
      OBVIOUS
    <3> QED  BY <2>2, <3>1, <3>2
  <2>7. SlotsTrue'
    BY <1>13, <2>4, <2>5 DEF TakePair, table, PlaceInv, SlotsTrue
  <2>8. PagesMinted' /\ PagesAreTrue'
    BY <1>13, <2>2, <2>3, <2>5, <2>6
    DEF TakePair, table, PlaceInv, PagesMinted, PagesAreTrue
  <2> QED  BY <2>1, <2>7, <2>8
<1>14. ASSUME NEW p \in ProbeID, DeleteProbe(p)
       PROVE  Requests' /\ RowsFiled' /\ Shown'
  BY <1>1, <1>14 DEF DeleteProbe, seen, PlaceInv, Unissued, Held, Unfiled, RowsFiled,
     Registered, SlotsTrue, Full, PagesMinted, PagesAreTrue, TypeOK
<1>15. CASE Restart
  <2>1. Requests'
    BY <1>2, <1>15, RequestsLeave DEF Restart, ReqTypeOK, table, seen
  <2> QED
    BY <1>15, <2>1 DEF Restart, table, seen, PlaceInv, RowsFiled, Registered,
                       SlotsTrue, Full, PagesMinted, PagesAreTrue
<1>16. CASE Tick \/ UNCHANGED vars
  BY <1>16 DEF Tick, vars, table, seen, PlaceInv, Unissued, Held, Unfiled, RowsFiled,
     Registered, SlotsTrue, Full, PagesMinted, PagesAreTrue
<1> QED
  BY <1>4, <1>7, <1>8, <1>10, <1>11, <1>12, <1>13, <1>14, <1>15, <1>16, <1>17 DEF Next

\* A page shows a token beside the probe whose row held it, once.
THEOREM PagesTrue == Spec => []PagesAreTrue
<1>1. PlaceInv => PagesAreTrue  BY DEF PlaceInv
<1> QED  BY PlaceInit, PlaceStep, <1>1, PTL DEF Spec

-----------------------------------------------------------------------------
(* The current token is in reach *)

\* The places a committed token can be.
InReach(t) ==
    \/ pages[t] # <<>>
    \/ Full(t)
    \/ \E r \in Request : req[r].pc = "mint" /\ req[r].value = t
    \/ t \in lost

\* A step moves a token between these places and takes it out of none.
LEMMA ReachKept ==
    ASSUME PlaceInv, [Next]_vars, NEW t \in Token, InReach(t)
    PROVE  InReach(t)'
<1>1. TypeOK  BY DEF PlaceInv
<1>2. ASSUME NEW r \in Request, req[r].pc # "mint",
             \A q \in Request : q # r => req'[q] = req[q],
             UNCHANGED <<slots, pages, lost>>
      PROVE  InReach(t)'
  BY <1>2 DEF InReach, Full
<1>3. ASSUME NEW r \in Request, BeginCreate(r) \/ InsertDuplicate(r) \/ UpdateProbeToken(r)
      PROVE  InReach(t)'
  BY <1>1, <1>2, <1>3
  DEF BeginCreate, InsertDuplicate, UpdateProbeToken, Finish, Stored, TypeOK, table, seen
<1>4. ASSUME NEW r \in Request, NEW p \in ProbeID, Insert(r, p) \/ BeginRotate(r, p)
      PROVE  InReach(t)'
  BY <1>1, <1>2, <1>4 DEF Insert, BeginRotate, Stored, TypeOK, seen
<1>10. ASSUME NEW r \in Request, NEW p \in ProbeID, InsertUnread(r, p)
       PROVE  InReach(t)'
  <2>1. req[r].pc # "mint" /\ \A q \in Request : q # r => req'[q] = req[q]
    BY <1>1, <1>10 DEF InsertUnread, Finish, TypeOK
  <2> QED  BY <1>10, <2>1 DEF InsertUnread, InReach, Full, seen
<1>5. ASSUME NEW r \in Request, PutPair(r)  PROVE InReach(t)'
  <2>1. CASE t = req[r].value
    <3>1. slots'[t] = [probe |-> req[r].probe, expires |-> clock + TTL]
      BY <1>5, <2>1 DEF PutPair
    <3>2. slots'[t] \in Slot
      BY <1>1, <1>5, <3>1, RequestKinds, RequestRecords, TTLAssumption DEF PutPair, Slot, TypeOK
    <3> QED  BY <3>2, VacantAssumption DEF InReach, Full
  <2>2. CASE t # req[r].value /\ Expired(t)
    BY <1>5, <2>2 DEF PutPair, InReach
  <2>3. CASE t # req[r].value /\ ~Expired(t)
    <3>1. slots'[t] = slots[t] /\ pages' = pages /\ (t \in lost => t \in lost')
      BY <1>5, <2>3 DEF PutPair
    <3>2. \A q \in Request : q # r => req'[q] = req[q]
      BY <1>1, <1>5 DEF PutPair, Finish, TypeOK
    <3> QED  BY <2>3, <3>1, <3>2 DEF InReach, Full
  <2> QED  BY <2>1, <2>2, <2>3
<1>6. ASSUME NEW r \in Request, PutPairFails(r)  PROVE InReach(t)'
  <2>1. \A q \in Request : q # r => req'[q] = req[q]
    BY <1>1, <1>6 DEF PutPairFails, Finish, TypeOK
  <2> QED  BY <1>6, <2>1 DEF PutPairFails, InReach, Full, seen
<1>7. ASSUME NEW u \in Token, TakePair(u)  PROVE InReach(t)'
  <2>1. CASE t = u
    <3>1. CASE Expired(u)
      BY <1>7, <2>1, <3>1 DEF TakePair, InReach
    <3>2. CASE ~Expired(u)
      <4>1. pages'[u] = Append(pages[u], slots[u].probe)
        BY <1>1, <1>7, <3>2 DEF TakePair, TypeOK
      <4>2. pages[u] = <<>>
        BY <1>7 DEF TakePair, PlaceInv, SlotsTrue
      <4>3. Append(<<>>, slots[u].probe) # <<>>
        OBVIOUS
      <4> QED  BY <2>1, <4>1, <4>2, <4>3 DEF InReach
    <3> QED  BY <3>1, <3>2
  <2>2. CASE t # u
    <3>1. slots'[t] = slots[t] /\ pages'[t] = pages[t] /\ (t \in lost => t \in lost')
      BY <1>1, <1>7, <2>2 DEF TakePair, TypeOK
    <3> QED  BY <1>7, <3>1 DEF TakePair, InReach, Full
  <2> QED  BY <2>1, <2>2
<1>8. CASE Restart
  <2>1. \A r \in Request : req[r].value \in lost'
    BY <1>8 DEF Restart
  <2> QED  BY <1>8, <2>1 DEF Restart, InReach, seen
<1>9. CASE (\E p \in ProbeID : DeleteProbe(p)) \/ Tick \/ UNCHANGED vars
  BY <1>9 DEF DeleteProbe, Tick, vars, seen, InReach, Full
<1> QED
  BY <1>3, <1>4, <1>5, <1>6, <1>7, <1>8, <1>9, <1>10 DEF Next

\* A statement that gives a row another token leaves that token with the request, or
\* the token is lost at once.
LEMMA RowsInReach ==
    PlaceInv /\ CurrentTokenIsInReach /\ [Next]_vars => CurrentTokenIsInReach'
<1> SUFFICES ASSUME PlaceInv, CurrentTokenIsInReach, [Next]_vars,
                    NEW p \in ProbeID, Registered(p)'
             PROVE  InReach(token[p])'
  BY DEF CurrentTokenIsInReach, InReach, Registered
<1>1. TypeOK  BY DEF PlaceInv
<1>2. CASE token'[p] = token[p]
  <2>1. token[p] \in Token /\ InReach(token[p])
    BY <1>1, <1>2 DEF CurrentTokenIsInReach, InReach, Registered, TypeOK
  <2>2. \A t \in Token : InReach(t) => InReach(t)'
    BY ReachKept
  <2> QED  BY <1>2, <2>1, <2>2 DEF InReach, Full
<1>3. CASE /\ token'[p] # token[p]
           /\ \E r \in Request, q \in ProbeID : InsertUnread(r, q)
  BY <1>1, <1>3 DEF InsertUnread, TypeOK, InReach
<1>4. CASE /\ token'[p] # token[p]
           /\ ~\E r \in Request, q \in ProbeID : InsertUnread(r, q)
  <2>1. PICK r \in Request : /\ token'[p] = req[r].value
                             /\ \E q \in ProbeID : Stored(r, q)
    <3>1. ASSUME NEW q \in ProbeID, DeleteProbe(q)  PROVE FALSE
      BY <1>1, <1>4, <3>1 DEF DeleteProbe, TypeOK, Registered
    <3>2. ASSUME NEW r \in Request, NEW q \in ProbeID, Insert(r, q)
          PROVE  token'[p] = req[r].value /\ Stored(r, q)
      BY <1>1, <1>4, <3>2 DEF Insert, TypeOK
    <3>3. ASSUME NEW r \in Request, UpdateProbeToken(r)
          PROVE  /\ token'[p] = req[r].value
                 /\ Stored(r, req[r].probe) /\ req[r].probe \in ProbeID
      BY <1>1, <1>4, <3>3, RequestKinds, RequestRecords DEF UpdateProbeToken, TypeOK
    <3> QED
      BY <1>4, <3>1, <3>2, <3>3
      DEF Next, vars, table, BeginCreate, BeginRotate, InsertDuplicate, PutPair,
          PutPairFails, TakePair, Restart, Tick
  <2>2. req'[r].pc = "mint" /\ req'[r].value = req[r].value
    BY <1>1, <2>1 DEF Stored, TypeOK
  <2> QED  BY <2>1, <2>2 DEF InReach
<1> QED  BY <1>2, <1>3, <1>4

\* No overlap of rotations, creations and redemptions loses a row's token.
THEOREM TokenInReach == Spec => []CurrentTokenIsInReach
<1>1. Init => CurrentTokenIsInReach
  BY DEF Init, CurrentTokenIsInReach, Registered
<1> QED  BY PlaceInit, PlaceStep, RowsInReach, <1>1, PTL DEF Spec

-----------------------------------------------------------------------------
(* The refinement *)

\* A standing offer is the record of the slot.
LEMMA OffersStand ==
    ASSUME NEW t \in Token
    PROVE  Offers[t] \notin {Vacant, Spent} => Full(t) /\ Offers[t] = slots[t]
BY DEF Offers

LEMMA DisplayInit == Init => Display!Init
BY DEF Init, Display!Init, Offers, Full

LEMMA DisplayStep == PlaceInv /\ [Next]_vars => [Display!Next]_Display!vars
<1> SUFFICES ASSUME PlaceInv, [Next]_vars  PROVE [Display!Next]_Display!vars
  OBVIOUS
<1>1. TypeOK  BY DEF PlaceInv
<1>2. ASSUME UNCHANGED <<slots, minted, pages, clock>>
      PROVE  UNCHANGED Display!vars
  BY <1>2 DEF Display!vars, Offers, Full
<1>3. ASSUME NEW r \in Request, PutPair(r)  PROVE Display!Next
  <2> DEFINE v    == req[r].value
             gone == {t \in Token : Expired(t)}
             rec  == [probe |-> req[r].probe, expires |-> clock + TTL]
  <2>1. req[r].probe \in ProbeID /\ v \in Token
    BY <1>1, <1>3, RequestKinds, RequestRecords DEF PutPair
  <2>2. v \notin minted /\ ~Full(v)
    BY <1>3, <2>1 DEF PutPair, PlaceInv, Held, SlotsTrue
  <2>3. rec \in Slot
    BY <1>1, <2>1, TTLAssumption DEF TypeOK, Slot
  <2>4. \A t \in Token : Full(t) => t \in minted
    BY DEF PlaceInv, SlotsTrue
  <2>5. \A t \in Token : /\ t = v => slots'[t] = rec
                         /\ t # v /\ t \in gone => slots'[t] = Vacant
                         /\ t # v /\ t \notin gone => slots'[t] = slots[t]
    BY <1>3 DEF PutPair
  <2>6. minted' = minted \cup {v}
    BY <1>3 DEF PutPair
  <2>7. gone \in SUBSET Token /\ \A t \in gone : Full(t)
    BY DEF Expired
  <2> DEFINE offers == [t \in Token |-> IF t = v THEN rec
                                        ELSE IF t \in gone THEN Spent ELSE Offers[t]]
  <2> HIDE DEF v, gone, rec
  <2>8. Offers' = offers
    <3>1. SUFFICES ASSUME NEW t \in Token  PROVE Offers'[t] = offers[t]
      BY DEF Offers
    <3>2. CASE t = v
      BY <2>3, <2>5, <3>2, VacantAssumption DEF Offers, Full
    <3>3. CASE t # v /\ t \in gone
      BY <2>4, <2>5, <2>6, <2>7, <3>3 DEF Offers, Full
    <3>4. CASE t # v /\ t \notin gone
      BY <2>5, <2>6, <3>4 DEF Offers, Full
    <3> QED  BY <3>2, <3>3, <3>4
  <2>9. offers = [Display!Withdrawn(gone) EXCEPT ![v] = rec]
    BY <2>1 DEF Display!Withdrawn
  <2>10. Offers[v] = Vacant
    BY <2>1, <2>2 DEF Offers
  <2>11. UNCHANGED <<pages, clock>>
    BY <1>3 DEF PutPair
  <2>12. Display!Offer(v, req[r].probe, gone)
    BY <2>8, <2>9, <2>10, <2>11 DEF Display!Offer, rec
  <2> QED  BY <2>1, <2>7, <2>12 DEF Display!Next
<1>4. ASSUME NEW t \in Token, TakePair(t)  PROVE Display!Next
  <2>1. Full(t) /\ t \in minted /\ Offers[t] = slots[t]
    BY <1>4 DEF TakePair, PlaceInv, SlotsTrue, Offers
  <2>2. slots[t] \in Slot
    BY <1>1, <2>1 DEF TypeOK, Full
  <2>3. Offers' = Display!Withdrawn({t})
    BY <1>1, <1>4, <2>1 DEF TakePair, Offers, Full, Display!Withdrawn, TypeOK
  <2>4. CASE Expired(t)
    <3>1. Display!Withdraw({t})
      BY <1>4, <2>3, <2>4 DEF TakePair, Display!Withdraw
    <3> QED  BY <3>1 DEF Display!Next
  <2>5. CASE ~Expired(t)
    <3>1. clock <= Offers[t].expires
      BY <1>1, <2>1, <2>2, <2>5 DEF Expired, TypeOK, Slot
    <3>2. Display!Standing(t)
      BY <2>1, <2>2, VacantAssumption DEF Display!Standing
    <3>3. pages' = [pages EXCEPT ![t] = Append(@, Offers[t].probe)]
      BY <1>4, <2>1, <2>5 DEF TakePair
    <3>4. Display!Show(t)
      BY <1>4, <2>3, <3>1, <3>2, <3>3 DEF TakePair, Display!Show
    <3> QED  BY <3>4 DEF Display!Next
  <2> QED  BY <2>4, <2>5
<1>5. ASSUME Restart  PROVE Display!Next
  <2> DEFINE gone == {t \in Token : Full(t)}
  <2>1. Offers' = Display!Withdrawn(gone)
    BY <1>5 DEF Restart, seen, PlaceInv, SlotsTrue, Offers, Full, Display!Withdrawn
  <2>2. Display!Withdraw(gone)
    BY <1>5, <2>1 DEF Restart, seen, Display!Withdraw
  <2> QED  BY <2>2 DEF Display!Next
<1>6. ASSUME Tick  PROVE Display!Next
  BY <1>6 DEF Tick, seen, Display!Next, Display!Tick, Offers, Full
<1>7. ASSUME NEW r \in Request, \/ BeginCreate(r) \/ InsertDuplicate(r)
                                \/ UpdateProbeToken(r) \/ PutPairFails(r)
      PROVE  UNCHANGED Display!vars
  BY <1>2, <1>7 DEF BeginCreate, InsertDuplicate, UpdateProbeToken, PutPairFails, seen
<1>8. ASSUME NEW r \in Request, NEW p \in ProbeID,
             Insert(r, p) \/ InsertUnread(r, p) \/ BeginRotate(r, p)
      PROVE  UNCHANGED Display!vars
  BY <1>2, <1>8 DEF Insert, InsertUnread, BeginRotate, seen
<1>9. ASSUME (\E p \in ProbeID : DeleteProbe(p)) \/ UNCHANGED vars
      PROVE  UNCHANGED Display!vars
  BY <1>2, <1>9 DEF DeleteProbe, vars, seen
<1> QED
  BY <1>3, <1>4, <1>5, <1>6, <1>7, <1>8, <1>9 DEF Next

\* The slots keep the promise of OneShotDisplay: every token is shown at most
\* once, beside the probe it was offered for, within its 60 seconds.
THEOREM Refinement == Spec => ShownAtMostOnce
BY PlaceInit, PlaceStep, DisplayInit, DisplayStep, PTL DEF Spec, ShownAtMostOnce, Display!Spec

\* Over is final, and nothing is on the page of a token before its offer is over.
LEMMA DisplayOnce ==
    ASSUME TypeOK, Display!ShownOnce, [Display!Next]_Display!vars, NEW t \in Token
    PROVE  /\ Offers[t] = Spent => Offers'[t] = Spent
           /\ Len(pages'[t]) <= 1
           /\ pages'[t] # <<>> => Offers'[t] = Spent
<1> DEFINE Goal == /\ Offers[t] = Spent => Offers'[t] = Spent
                   /\ Len(pages'[t]) <= 1
                   /\ pages'[t] # <<>> => Offers'[t] = Spent
<1>0. /\ pages \in [Token -> Seq(ProbeID)] /\ Vacant # Spent
      /\ Len(pages[t]) <= 1 /\ (pages[t] # <<>> => Offers[t] = Spent)
  <2>1. pages \in [Token -> Seq(ProbeID)] /\ Vacant # Spent
    BY VacantAssumption DEF TypeOK
  <2> QED  BY <2>1 DEF Display!ShownOnce
<1>1. \A gone \in SUBSET Token :
        /\ Display!Withdrawn(gone) = [u \in Token |-> IF u \in gone THEN Spent ELSE Offers[u]]
        /\ Display!Withdrawn(gone)[t] \in {Spent, Offers[t]}
  BY DEF Display!Withdrawn
<1>2. ASSUME NEW gone \in SUBSET Token, Display!Withdraw(gone)  PROVE Goal
  <2>1. Offers'[t] \in {Spent, Offers[t]} /\ pages' = pages
    BY <1>1, <1>2 DEF Display!Withdraw
  <2> QED  BY <1>0, <2>1
<1>3. ASSUME NEW u \in Token, NEW p \in ProbeID, NEW gone \in SUBSET Token,
             Display!Offer(u, p, gone)
      PROVE  Goal
  <2>1. Offers[u] = Vacant /\ pages' = pages
    BY <1>3 DEF Display!Offer
  <2>2. t # u => Offers'[t] \in {Spent, Offers[t]}
    BY <1>1, <1>3 DEF Display!Offer
  <2> QED  BY <1>0, <2>1, <2>2
<1>4. ASSUME NEW u \in Token, Display!Show(u)  PROVE Goal
  <2>1. Offers[u] # Spent /\ Offers' = Display!Withdrawn({u})
    BY <1>4 DEF Display!Show, Display!Standing
  <2>2. CASE t = u
    <3>1. pages[t] = <<>> /\ Offers'[t] = Spent
      BY <1>0, <1>1, <2>1, <2>2 DEF Display!Withdrawn
    <3>2. pages'[t] = Append(<<>>, Offers[t].probe)
      BY <1>0, <1>4, <2>2, <3>1 DEF Display!Show
    <3>3. Len(Append(<<>>, Offers[t].probe)) = 1
      OBVIOUS
    <3> QED  BY <3>1, <3>2, <3>3
  <2>3. CASE t # u
    <3>1. pages'[t] = pages[t] /\ Offers'[t] = Offers[t]
      BY <1>0, <1>1, <1>4, <2>1, <2>3 DEF Display!Show
    <3> QED  BY <1>0, <3>1
  <2> QED  BY <2>2, <2>3
<1>5. CASE Display!Tick \/ UNCHANGED Display!vars
  BY <1>0, <1>5 DEF Display!Tick, Display!vars
<1> QED
  BY <1>2, <1>3, <1>4, <1>5 DEF Display!Next

\* So no token is on two pages or twice on one, and a URL that was opened or has
\* expired shows nothing ever again.
THEOREM NeverShownAgain == Spec => ([]Display!ShownOnce /\ Display!OverForGood)
<1> DEFINE Final == \A t \in Token : Offers[t] = Spent => Offers'[t] = Spent
<1>1. Init => Display!ShownOnce
  BY DEF Init, Display!ShownOnce
<1>2. TypeOK /\ Display!ShownOnce /\ [Display!Next]_Display!vars => Display!ShownOnce'
  BY DisplayOnce DEF Display!ShownOnce
<1>3. TypeOK /\ Display!ShownOnce /\ [Display!Next]_Display!vars => [Final]_Display!vars
  BY DisplayOnce
<1> QED
  BY <1>1, <1>2, <1>3, TypeCorrect, Refinement, PTL
     DEF Spec, ShownAtMostOnce, Display!Spec, Display!OverForGood

-----------------------------------------------------------------------------
(* The table keeps the promise of Credentials *)

\* The table begins without tokens, and 0 is none.
LEMMA CredsInit == Init => Creds!Init
BY DEF Init, Creds!Init, Token, Valid, Used

\* A step that writes no row is a stutter of Credentials.
LEMMA CredsStutter ==
    ASSUME UNCHANGED <<token, filed>>
    PROVE  UNCHANGED Creds!vars
BY DEF Creds!vars, Valid, Used

\* A statement that gives p the token of a request is a grant: the token has
\* been filed under no probe, because no request's is filed before its statement.
LEMMA CredsGrant ==
    ASSUME PlaceInv, NEW v \in Token, NEW p \in ProbeID, filed[v] = NoProbe,
           token' = [token EXCEPT ![p] = v], filed' = [filed EXCEPT ![v] = p]
    PROVE  Creds!Grant(v, p)
<1>1. TypeOK  BY DEF PlaceInv
<1>2. v \notin Used  BY DEF Used
<1>3. Used' = Used \cup {v}
  BY <1>1, NoProbeAssumption DEF TypeOK, Used
<1>4. Valid' = {x \in Valid : x[2] # p} \cup {<<v, p>>}
  BY <1>1 DEF TypeOK, Valid
<1> QED  BY <1>2, <1>3, <1>4 DEF Creds!Grant, Creds!Without

LEMMA CredsStep == PlaceInv /\ [Next]_vars => [Creds!Next]_Creds!vars
<1> SUFFICES ASSUME PlaceInv, [Next]_vars  PROVE [Creds!Next]_Creds!vars
  OBVIOUS
<1>1. TypeOK  BY DEF PlaceInv
<1>2. ASSUME NEW r \in Request, NEW p \in ProbeID, Insert(r, p) \/ InsertUnread(r, p)
      PROVE  Creds!Next
  <2>1. req[r].value \in Token /\ filed[req[r].value] = NoProbe
    BY <1>1, <1>2, RequestValue DEF Insert, InsertUnread, PlaceInv, Unfiled
  <2>2. Creds!Grant(req[r].value, p)
    BY <1>2, <2>1, CredsGrant DEF Insert, InsertUnread
  <2> QED  BY <2>1, <2>2 DEF Creds!Next
<1>3. ASSUME NEW r \in Request, UpdateProbeToken(r)  PROVE [Creds!Next]_Creds!vars
  <2>1. /\ req[r].value \in Token /\ req[r].probe \in ProbeID
        /\ filed[req[r].value] = NoProbe
    BY <1>1, <1>3, RequestKinds, RequestRecords DEF UpdateProbeToken, PlaceInv, Unfiled
  <2>2. CASE ~Registered(req[r].probe)
    BY <1>3, <2>2, CredsStutter DEF UpdateProbeToken
  <2>3. CASE Registered(req[r].probe)
    <3>1. Creds!Grant(req[r].value, req[r].probe)
      BY <1>3, <2>1, <2>3, CredsGrant DEF UpdateProbeToken
    <3> QED  BY <2>1, <3>1 DEF Creds!Next
  <2> QED  BY <2>2, <2>3
<1>4. ASSUME NEW p \in ProbeID, DeleteProbe(p)  PROVE Creds!Next
  <2>1. Valid' = {x \in Valid : x[2] # p}
    BY <1>1, <1>4 DEF TypeOK, DeleteProbe, Token, Valid
  <2>2. Creds!Withdraw(p)
    BY <1>4, <2>1 DEF DeleteProbe, Used, Creds!Withdraw, Creds!Without
  <2> QED  BY <2>2 DEF Creds!Next
<1>5. ASSUME NEW r \in Request,
             BeginCreate(r) \/ InsertDuplicate(r) \/ PutPair(r) \/ PutPairFails(r)
      PROVE  UNCHANGED Creds!vars
  BY <1>5, CredsStutter DEF BeginCreate, InsertDuplicate, PutPair, PutPairFails, table
<1>6. ASSUME NEW r \in Request, NEW p \in ProbeID, BeginRotate(r, p)
      PROVE  UNCHANGED Creds!vars
  BY <1>6, CredsStutter DEF BeginRotate
<1>7. ASSUME (\E t \in Token : TakePair(t)) \/ Restart \/ Tick \/ UNCHANGED vars
      PROVE  UNCHANGED Creds!vars
  BY <1>7, CredsStutter DEF TakePair, Restart, Tick, vars, table
<1> QED
  BY <1>2, <1>3, <1>4, <1>5, <1>6, <1>7 DEF Next

\* Every statement that writes a token writes one that no row has had, however
\* creations, rotations, deletions and crashes overlap.
THEOREM TableRefinement == Spec => ReplacedStaysReplaced
BY PlaceInit, PlaceStep, CredsInit, CredsStep, PTL
DEF Spec, ReplacedStaysReplaced, Creds!Spec

-----------------------------------------------------------------------------
(* What Credentials is worth: this follows from its steps alone *)

CredsInv == Creds!TypeOK /\ Creds!ValidAreUsed /\ Creds!OneEach

LEMMA CredsInvStep == CredsInv /\ [Creds!Next]_Creds!vars => CredsInv'
<1> SUFFICES ASSUME CredsInv, [Creds!Next]_Creds!vars  PROVE CredsInv'
  OBVIOUS
<1> USE DEF CredsInv, Creds!TypeOK, Creds!ValidAreUsed, Creds!OneEach
<1>1. ASSUME NEW p \in ProbeID, NEW t \in Token, Creds!Grant(t, p)  PROVE CredsInv'
  BY <1>1 DEF Creds!Grant, Creds!Without
<1>2. ASSUME NEW p \in ProbeID, Creds!Withdraw(p)  PROVE CredsInv'
  BY <1>2 DEF Creds!Withdraw, Creds!Without
<1>3. CASE UNCHANGED Creds!vars
  BY <1>3 DEF Creds!vars
<1> QED  BY <1>1, <1>2, <1>3 DEF Creds!Next

LEMMA CredsInvariant == Creds!Spec => []CredsInv
<1>1. Creds!Init => CredsInv
  BY DEF Creds!Init, CredsInv, Creds!TypeOK, Creds!ValidAreUsed, Creds!OneEach
<1> QED  BY <1>1, CredsInvStep, PTL DEF Creds!Spec

\* No two rows of the table hold one token, at any moment of any overlap.
THEOREM OneTokenEach == Spec => []Creds!OneEach
<1>1. CredsInv => Creds!OneEach  BY DEF CredsInv
<1> QED  BY TableRefinement, CredsInvariant, <1>1, PTL DEF ReplacedStaysReplaced

\* A token that no row holds any more is held by none ever again: a rotation that
\* was overtaken does not bring back what it replaced.
THEOREM LostTokensStayLost == Spec => Creds!LostForGood
<1>1. [Creds!Next]_Creds!vars =>
         [\A t \in Token : Creds!Lost(t) => Creds!Lost(t)']_Creds!vars
  BY DEF Creds!Next, Creds!Grant, Creds!Withdraw, Creds!Without, Creds!Lost, Creds!vars
<1> QED
  BY TableRefinement, <1>1, PTL DEF ReplacedStaysReplaced, Creds!Spec, Creds!LostForGood
=============================================================================
