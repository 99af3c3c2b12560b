------------------------- MODULE RegistrationProofs -------------------------
(***************************************************************************)
(* Proofs about Registration for every catalog, every number of            *)
(* simultaneous requests and every cap.                                    *)
(***************************************************************************)
EXTENDS Registration, FiniteSetTheorems, TLAPS

-----------------------------------------------------------------------------
(* Type correctness *)

LEMMA NoneApart ==
    /\ None \notin Campus /\ None \notin Building /\ None \notin Group
    /\ None \notin Place /\ None \notin Probe
BY NoneAssumption, RowAssumption

LEMMA TypeInit == Init => TypeOK
BY DEF Init, TypeOK, Request, Slot

\* Refusing a request keeps the table of requests well-formed.
LEMMA RefuseType ==
    ASSUME req \in [Slot -> Request], NEW q \in Slot, Refuse(q)
    PROVE  req' \in [Slot -> Request]
BY DEF Refuse, Request

\* What the back-fill restores is well-formed.
LEMMA BackfillType ==
    ASSUME TypeOK, Backfill
    PROVE  campuses' \subseteq Campus /\ building' \in [Building -> Place \cup {None}]
<1>1. \A p \in Registered : probe[p].campus \in Campus
    BY DEF TypeOK, Registered, Probe
<1> QED
    BY <1>1 DEF Backfill

\* The fields of a request are what its stage says, and filling in the place
\* takes it from one stage to the next.
LEMMA StageType ==
    ASSUME NEW r \in Request
    PROVE  /\ r.pc \in Chosen \cup Placed \cup {"recheck", "update"}
                => r.building \in Building /\ r.campus \in Campus
           /\ r.pc \in Placed => r.group \in Group
           /\ r.pc = "import" => r.campus \in Campus
           /\ r.pc = "delete" => r.building \in Building
BY DEF Request, Chosen, Placed, IdleReq

LEMMA PlaceType ==
    ASSUME NEW r \in Request, r.pc \in Chosen, NEW c \in Campus, NEW g \in Group
    PROVE  /\ [r EXCEPT !.pc = "campus", !.campus = c, !.group = g] \in Request
           /\ [r EXCEPT !.pc = "insert", !.group = g] \in Request
<1>1. r \in [pc : Chosen, building : Building, campus : Campus, group : {None}]
    BY DEF Request, Chosen, Placed, IdleReq
<1>2. [r EXCEPT !.pc = "campus", !.campus = c, !.group = g]
        \in [pc : Placed, building : Building, campus : Campus, group : Group]
    <2>1. [r EXCEPT !.pc = "campus"]
            \in [pc : Placed, building : Building, campus : Campus, group : {None}]
        BY <1>1 DEF Placed
    <2> DEFINE r1 == [r EXCEPT !.pc = "campus"]
    <2> HIDE DEF r1
    <2>2. [r1 EXCEPT !.campus = c]
            \in [pc : Placed, building : Building, campus : Campus, group : {None}]
        BY <2>1 DEF r1
    <2> QED
        BY <2>2 DEF r1
<1> QED
    BY <1>1, <1>2 DEF Request, Placed

LEMMA RegisterType ==
    ASSUME TypeOK, NEW v \in Visitor, Register(v)
    PROVE  TypeOK'
<1> USE DEF TypeOK
<1>0. v \in Slot /\ req[v] \in Request
    BY DEF Slot
<1>1. ASSUME NEW b \in Building, NEW c \in Campus, Submit(v, b, c)
      PROVE  TypeOK'
    <2>1. [IdleReq EXCEPT !.pc = "validate", !.building = b, !.campus = c] \in Request
        BY DEF IdleReq, Request, Chosen
    <2> QED
        BY <1>0, <1>1, <2>1 DEF Submit, catalog
<1>2. CASE ValidateRegistration(v)
    <2>1. req[v].pc = "validate"
        BY <1>2 DEF ValidateRegistration
    <2>2. [req[v] EXCEPT !.pc = "locate"] \in Request
        BY <1>0, <2>1 DEF Request, Chosen, Placed, IdleReq
    <2>3. req' \in [Slot -> Request]
        BY <1>0, <1>2, <2>2, RefuseType DEF ValidateRegistration, Advance
    <2> QED
        BY <1>2, <2>3 DEF ValidateRegistration, catalog
<1>3. CASE Locate(v)
    <2>1. req[v].pc = "locate"
        BY <1>3 DEF Locate
    <2>2. req[v].building \in Building
        BY <1>0, <2>1, StageType DEF Chosen
    <2>3. CASE building[req[v].building] = None
        <3>1. req' \in [Slot -> Request]
            BY <1>0, <1>3, <2>3, RefuseType DEF Locate
        <3> QED
            BY <1>3, <3>1 DEF Locate, catalog
    <2>4. CASE building[req[v].building] # None
        <3> DEFINE place == building[req[v].building]
        <3>1. place.campus \in Campus /\ place.group \in Group
            BY <2>2, <2>4 DEF Place
        <3>2. req' = [req EXCEPT ![v].pc = "campus", ![v].campus = place.campus,
                                 ![v].group = place.group]
            BY <1>3, <2>4 DEF Locate
        <3> HIDE DEF place
        <3>3. [req[v] EXCEPT !.pc = "campus", !.campus = place.campus,
                             !.group = place.group] \in Request
            BY <1>0, <2>1, <3>1, PlaceType DEF Chosen
        <3>4. req' = [req EXCEPT ![v] = [req[v] EXCEPT !.pc = "campus",
                                  !.campus = place.campus, !.group = place.group]]
            BY <1>0, <3>2
        <3> QED
            BY <1>0, <1>3, <3>3, <3>4 DEF Locate, catalog
    <2> QED
        BY <2>3, <2>4
<1>4. CASE LocateCampus(v)
    <2>1. req[v].pc = "campus"
        BY <1>4 DEF LocateCampus
    <2>2. [req[v] EXCEPT !.pc = "count"] \in Request
        BY <1>0, <2>1 DEF Request, Chosen, Placed, IdleReq
    <2>3. req' \in [Slot -> Request]
        BY <1>0, <1>4, <2>2, RefuseType DEF LocateCampus, Advance
    <2> QED
        BY <1>4, <2>3 DEF LocateCampus, catalog
<1>5. CASE CheckCap(v)
    <2>1. req[v].pc = "count"
        BY <1>5 DEF CheckCap
    <2>2. [req[v] EXCEPT !.pc = "insert"] \in Request
        BY <1>0, <2>1 DEF Request, Chosen, Placed, IdleReq
    <2>3. req' \in [Slot -> Request]
        BY <1>0, <1>5, <2>2, RefuseType DEF CheckCap, Advance
    <2> QED
        BY <1>5, <2>3 DEF CheckCap, catalog
<1> QED
    BY <1>1, <1>2, <1>3, <1>4, <1>5 DEF Register

LEMMA CreateType ==
    ASSUME TypeOK,
           \/ \E a \in Admin, b \in Building, c \in Campus : ChooseCampus(a, b, c)
           \/ \E a \in Admin : Agree(a)
           \/ \E q \in Slot, p \in ProbeID : CreateProbe(q, p) \/ CreateDuplicate(q, p)
           \/ \E p \in ProbeID : DeleteProbe(p)
    PROVE  TypeOK'
<1> USE DEF TypeOK
<1>1. ASSUME NEW a \in Admin, NEW b \in Building, NEW c \in Campus, ChooseCampus(a, b, c)
      PROVE  TypeOK'
    <2>1. [IdleReq EXCEPT !.pc = "agree", !.building = b, !.campus = c] \in Request
        BY DEF IdleReq, Request, Chosen
    <2> QED
        BY <1>1, <2>1 DEF ChooseCampus, catalog, Slot
<1>2. ASSUME NEW a \in Admin, Agree(a)
      PROVE  TypeOK'
    <2>0. a \in Slot /\ req[a] \in Request /\ req[a].pc = "agree"
        BY <1>2 DEF Slot, Agree
    <2>1. req[a].building \in Building
        BY <2>0, StageType DEF Chosen
    <2> DEFINE place == building[req[a].building]
    <2>2. CASE place # None /\ place.campus = req[a].campus
        <3>1. place.group \in Group
            BY <2>1, <2>2 DEF Place
        <3>2. req' = [req EXCEPT ![a].pc = "insert", ![a].group = place.group]
            BY <1>2, <2>2 DEF Agree
        <3> HIDE DEF place
        <3>3. [req[a] EXCEPT !.pc = "insert", !.group = place.group] \in Request
            BY <2>0, <3>1, PlaceType, StageType DEF Chosen
        <3>4. req' = [req EXCEPT ![a] = [req[a] EXCEPT !.pc = "insert",
                                                       !.group = place.group]]
            BY <2>0, <3>2
        <3> QED
            BY <1>2, <2>0, <3>3, <3>4 DEF Agree, catalog
    <2>3. CASE ~(place # None /\ place.campus = req[a].campus)
        <3>1. req' \in [Slot -> Request]
            BY <1>2, <2>0, <2>3, RefuseType DEF Agree
        <3> QED
            BY <1>2, <3>1 DEF Agree, catalog
    <2> QED
        BY <2>2, <2>3
<1>3. ASSUME NEW q \in Slot, NEW p \in ProbeID, CreateProbe(q, p)
      PROVE  TypeOK'
    <2>1. req[q].building \in Building /\ req[q].campus \in Campus /\ req[q].group \in Group
        BY <1>3, StageType DEF CreateProbe, Placed
    <2>2. [building |-> req[q].building, campus |-> req[q].campus, group |-> req[q].group,
           via |-> IF q \in Visitor THEN "public" ELSE "admin",
           missedBy |-> Deleting(req[q].building)] \in Probe
        BY <2>1 DEF Probe, Deleting
    <2>3. req' \in [Slot -> Request]
        BY <1>3, RefuseType DEF CreateProbe
    <2> QED
        BY <1>3, <2>2, <2>3 DEF CreateProbe, catalog
<1>4. ASSUME NEW q \in Slot, NEW p \in ProbeID, CreateDuplicate(q, p)
      PROVE  TypeOK'
    <2>1. req' \in [Slot -> Request]
        BY <1>4, RefuseType DEF CreateDuplicate
    <2> QED
        BY <1>4, <2>1 DEF CreateDuplicate, catalog
<1>5. ASSUME NEW p \in ProbeID, DeleteProbe(p)
      PROVE  TypeOK'
    BY <1>5 DEF DeleteProbe, catalog
<1> QED
    BY <1>1, <1>2, <1>3, <1>4, <1>5

LEMMA EditType ==
    ASSUME TypeOK, NEW a \in Admin, EditPlaces(a)
    PROVE  TypeOK'
<1> USE DEF TypeOK
<1>0. a \in Slot /\ req[a] \in Request
    BY DEF Slot
<1>1. ASSUME NEW c \in Campus, ChooseImport(a, c)
      PROVE  TypeOK'
    <2>1. [IdleReq EXCEPT !.pc = "import", !.campus = c] \in Request
        BY DEF IdleReq, Request
    <2> QED
        BY <1>0, <1>1, <2>1 DEF ChooseImport, catalog
<1>2. ASSUME NEW b \in Building, NEW g \in Group, CreateBuilding(a, b, g)
      PROVE  TypeOK'
    <2>1. req[a].campus \in Campus
        BY <1>0, <1>2, StageType DEF CreateBuilding
    <2>2. [campus |-> req[a].campus, group |-> g] \in Place
        BY <2>1 DEF Place
    <2>3. CASE req[a].campus \in campuses
        BY <1>2, <2>1, <2>2, <2>3 DEF CreateBuilding
    <2>4. CASE req[a].campus \notin campuses
        <3>1. req' \in [Slot -> Request]
            BY <1>0, <1>2, <2>4, RefuseType DEF CreateBuilding
        <3> QED
            BY <1>2, <2>4, <3>1 DEF CreateBuilding
    <2> QED
        BY <2>3, <2>4
<1>3. CASE FinishImport(a)
    <2>1. req' \in [Slot -> Request]
        BY <1>0, <1>3, RefuseType DEF FinishImport
    <2> QED
        BY <1>3, <2>1 DEF FinishImport, catalog
<1>4. ASSUME NEW b \in Building, ChooseUpdate(a, b)
      PROVE  TypeOK'
    <2>1. building[b].campus \in Campus
        BY <1>4 DEF ChooseUpdate, Place
    <2>2. [IdleReq EXCEPT !.pc = "recheck", !.building = b,
                          !.campus = building[b].campus] \in Request
        BY <2>1 DEF IdleReq, Request
    <2> QED
        BY <1>0, <1>4, <2>2 DEF ChooseUpdate, catalog
<1>5. ASSUME NEW b \in Building, CountBuilding(a, b)
      PROVE  TypeOK'
    <2>1. [IdleReq EXCEPT !.pc = "delete", !.building = b] \in Request
        BY DEF IdleReq, Request
    <2> QED
        BY <1>0, <1>5, <2>1 DEF CountBuilding, catalog
<1>6. CASE RecheckCampus(a)
    <2>1. req[a].pc = "recheck"
        BY <1>6 DEF RecheckCampus
    <2>2. [req[a] EXCEPT !.pc = "update"] \in Request
        BY <1>0, <2>1 DEF Request, Chosen, Placed, IdleReq
    <2>3. req' \in [Slot -> Request]
        BY <1>0, <1>6, <2>2, RefuseType DEF RecheckCampus, Advance
    <2> QED
        BY <1>6, <2>3 DEF RecheckCampus, catalog
<1>7. CASE DeleteBuilding(a)
    <2>1. req' \in [Slot -> Request]
        BY <1>0, <1>7, RefuseType DEF DeleteBuilding
    <2> QED
        BY <1>7, <2>1 DEF DeleteBuilding
<1>8. ASSUME NEW g \in Group, UpdateBuilding(a, g)
      PROVE  TypeOK'
    <2>1. req' \in [Slot -> Request]
        BY <1>0, <1>8, RefuseType DEF UpdateBuilding
    <2>2. req[a].building \in Building
        BY <1>0, <1>8, StageType DEF UpdateBuilding
    <2> DEFINE b == req[a].building
    <2>3. CASE building[b] # None
        <3>1. building[b].campus \in Campus /\ [building[b] EXCEPT !.group = g] \in Place
            BY <2>2, <2>3 DEF Place
        <3>2. building' = [building EXCEPT ![b] = [building[b] EXCEPT !.group = g]]
            BY <1>8, <2>2, <2>3 DEF UpdateBuilding
        <3>3. entered' = entered \cup {<<b, building[b].campus, g>>}
            BY <1>8, <2>3 DEF UpdateBuilding
        <3> QED
            BY <1>8, <2>1, <2>2, <3>1, <3>2, <3>3 DEF UpdateBuilding
    <2>4. CASE building[b] = None
        BY <1>8, <2>1, <2>4 DEF UpdateBuilding
    <2> QED
        BY <2>3, <2>4
<1> QED
    BY <1>1, <1>2, <1>3, <1>4, <1>5, <1>6, <1>7, <1>8 DEF EditPlaces

LEMMA TypeStep == TypeOK /\ [Next]_vars => TypeOK'
<1> SUFFICES ASSUME TypeOK, [Next]_vars
             PROVE  TypeOK'
    OBVIOUS
<1>1. ASSUME NEW c \in Campus, CreateCampus(c) \/ DeleteCampus(c)
      PROVE  TypeOK'
    BY <1>1 DEF TypeOK, CreateCampus, DeleteCampus
<1>2. CASE Restart
    <2>1. req' \in [Slot -> Request]
        BY <1>2 DEF Restart, Request
    <2> QED
        BY <1>2, <2>1, BackfillType DEF Restart, TypeOK
<1>3. CASE UNCHANGED vars
    BY <1>3 DEF TypeOK, vars
<1> QED
    BY <1>1, <1>2, <1>3, RegisterType, CreateType, EditType DEF Next

\* Every variable stays in its type: no request ever acts on a field it has not
\* read, and no row is written from one.
THEOREM TypeCorrect == Spec => []TypeOK
<1> QED
    BY TypeInit, TypeStep, PTL DEF Spec

-----------------------------------------------------------------------------
(* Which steps write which table *)

LEMMA AdvancePC ==
    ASSUME req \in [Slot -> Request], NEW q \in Slot, NEW pc, Advance(q, pc)
    PROVE  req'[q].pc = pc
BY DEF Advance, Request, Chosen, Placed, IdleReq

EditCatalog ==
    \/ \E a \in Admin, b \in Building, g \in Group : CreateBuilding(a, b, g)
    \/ \E a \in Admin, g \in Group : UpdateBuilding(a, g)
    \/ \E a \in Admin : DeleteBuilding(a)
    \/ \E c \in Campus : CreateCampus(c) \/ DeleteCampus(c)
    \/ Restart

LEMMA CatalogWriters == [Next]_vars => EditCatalog \/ UNCHANGED catalog
BY DEF Next, EditCatalog, Register, EditPlaces, vars, catalog, Submit,
       ValidateRegistration, Locate, LocateCampus, CheckCap, ChooseCampus, Agree,
       CreateProbe, CreateDuplicate, DeleteProbe, ChooseImport, FinishImport,
       ChooseUpdate, RecheckCampus, CountBuilding

LEMMA ProbeWriters ==
    [Next]_vars => \/ \E q \in Slot, p \in ProbeID : CreateProbe(q, p)
                   \/ \E p \in ProbeID : DeleteProbe(p)
                   \/ UNCHANGED probe
BY DEF Next, Register, EditPlaces, vars, Submit, ValidateRegistration, Locate,
       LocateCampus, CheckCap, ChooseCampus, Agree, CreateDuplicate, ChooseImport,
       CreateBuilding, FinishImport, ChooseUpdate, RecheckCampus, UpdateBuilding,
       CountBuilding, DeleteBuilding, CreateCampus, DeleteCampus, Restart

-----------------------------------------------------------------------------
(* The catalog *)

LEMMA ClosedStep ==
    TypeOK /\ BuildingsHaveCampus /\ [Next]_vars => BuildingsHaveCampus'
<1> SUFFICES ASSUME TypeOK, BuildingsHaveCampus, [Next]_vars,
                    NEW b \in Building, building'[b] # None
             PROVE  building'[b].campus \in campuses'
    BY DEF BuildingsHaveCampus
<1> USE DEF TypeOK, BuildingsHaveCampus
<1>1. ASSUME NEW a \in Admin, NEW d \in Building, NEW g \in Group, CreateBuilding(a, d, g)
      PROVE  building'[b].campus \in campuses'
    BY <1>1 DEF CreateBuilding
<1>2. ASSUME NEW a \in Admin, NEW g \in Group, UpdateBuilding(a, g)
      PROVE  building'[b].campus \in campuses'
    <2>1. CASE building' = building
        BY <1>2, <2>1 DEF UpdateBuilding
    <2>2. CASE building' # building
        <3> DEFINE d == req[a].building
        <3>1. building[d] # None /\ building' = [building EXCEPT ![d] = [building[d] EXCEPT !.group = g]]
            BY <1>2, <2>2 DEF UpdateBuilding
        <3>2. CASE b = d
            <4>1. building[b] \in Place
                BY <3>1, <3>2
            <4>2. building'[b].campus = building[b].campus
                BY <3>1, <3>2, <4>1 DEF Place
            <4> QED
                BY <1>2, <3>1, <3>2, <4>2 DEF UpdateBuilding
        <3>3. CASE b # d
            BY <1>2, <3>1, <3>3 DEF UpdateBuilding
        <3> QED
            BY <3>2, <3>3
    <2> QED
        BY <2>1, <2>2
<1>3. ASSUME NEW a \in Admin, DeleteBuilding(a)
      PROVE  building'[b].campus \in campuses'
    BY <1>3 DEF DeleteBuilding
<1>4. ASSUME NEW c \in Campus, CreateCampus(c) \/ DeleteCampus(c)
      PROVE  building'[b].campus \in campuses'
    BY <1>4 DEF CreateCampus, DeleteCampus
<1>5. CASE Restart
    <2>1. CASE campuses = {}
        BY <1>5, <2>1 DEF Restart, Backfill
    <2>2. CASE campuses # {}
        BY <1>5, <2>2 DEF Restart
    <2> QED
        BY <2>1, <2>2
<1>6. CASE UNCHANGED catalog
    BY <1>6 DEF catalog
<1> QED
    BY <1>1, <1>2, <1>3, <1>4, <1>5, <1>6, CatalogWriters DEF EditCatalog

\* A building row never refers to a campus that is gone, although the campus was
\* looked up one or many statements before the row is inserted: the foreign key
\* and the order of the deletions keep it so.
THEOREM CatalogClosed == Spec => []BuildingsHaveCampus
<1>1. Init => BuildingsHaveCampus
    BY DEF Init, BuildingsHaveCampus
<1> QED
    BY <1>1, ClosedStep, TypeCorrect, PTL DEF Spec

-----------------------------------------------------------------------------
(* What happens to the buildings in one step *)

\* Deleting a campus takes no building from under a probe: the transaction counts
\* the probes of its buildings, whatever campus those probes are filed under.
THEOREM NobodyStranded == Spec => CampusDeletionStrandsNobody
<1>1. ASSUME TypeOK, [Next]_vars, NEW c \in campuses \ campuses', NEW p \in Registered
      PROVE  /\ probe[p].campus # c
             /\ building'[probe[p].building] = building[probe[p].building]
    <2>1. PICK d \in Campus : DeleteCampus(d)
        <3>1. ASSUME NEW d \in Campus, CreateCampus(d)
              PROVE  FALSE
            BY <1>1, <3>1 DEF CreateCampus
        <3>2. CASE Restart
            BY <1>1, <3>2 DEF Restart
        <3> QED
            BY <1>1, <3>1, <3>2, CatalogWriters
               DEF EditCatalog, catalog, CreateBuilding, UpdateBuilding, DeleteBuilding
    <2>2. c = d
        BY <1>1, <2>1 DEF DeleteCampus
    <2>3. probe[p] \in Probe
        BY <1>1 DEF TypeOK, Registered
    <2> QED
        BY <1>1, <2>1, <2>2, <2>3 DEF DeleteCampus, Probe
<1>2. TypeOK /\ [Next]_vars =>
        [\A c \in campuses \ campuses' : \A p \in Registered :
            /\ probe[p].campus # c
            /\ building'[probe[p].building] = building[probe[p].building]]_vars
    BY <1>1
<1> QED
    BY <1>2, TypeCorrect, PTL DEF Spec, CampusDeletionStrandsNobody

\* A building stays in its campus: an update writes the group alone, so a campus
\* read before a deletion and a re-creation is never written back, and the
\* back-fill writes no row that is there.
THEOREM NeverMove == Spec => BuildingsNeverMove
<1>1. ASSUME TypeOK, [Next]_vars, NEW b \in Building, building[b] # None, building'[b] # None
      PROVE  building'[b].campus = building[b].campus
    <2> USE <1>1 DEF TypeOK
    <2>1. ASSUME NEW a \in Admin, NEW d \in Building, NEW g \in Group, CreateBuilding(a, d, g)
          PROVE  building'[b].campus = building[b].campus
        BY <2>1 DEF CreateBuilding
    <2>2. ASSUME NEW a \in Admin, NEW g \in Group, UpdateBuilding(a, g)
          PROVE  building'[b].campus = building[b].campus
        BY <2>2 DEF UpdateBuilding, Place
    <2>3. ASSUME NEW a \in Admin, DeleteBuilding(a)
          PROVE  building'[b].campus = building[b].campus
        BY <2>3 DEF DeleteBuilding
    <2>4. ASSUME NEW c \in Campus, CreateCampus(c) \/ DeleteCampus(c)
          PROVE  building'[b].campus = building[b].campus
        BY <2>4 DEF CreateCampus, DeleteCampus
    <2>5. CASE Restart
        BY <2>5 DEF Restart, Backfill
    <2> QED
        BY <2>1, <2>2, <2>3, <2>4, <2>5, CatalogWriters DEF EditCatalog, catalog
<1>2. TypeOK /\ [Next]_vars =>
        [\A b \in Building : building[b] # None /\ building'[b] # None =>
            building'[b].campus = building[b].campus]_vars
    BY <1>1
<1> QED
    BY <1>2, TypeCorrect, PTL DEF Spec, BuildingsNeverMove

-----------------------------------------------------------------------------
(* Deleting a building *)

\* What makes StrandedWereMissed inductive: whoever is about to delete a building
\* has missed every probe that is filed under it.
DeletersMissed ==
    \A p \in Registered : Deleting(probe[p].building) \subseteq probe[p].missedBy

\* A request reaches the DELETE only by counting no probe.
LEMMA DeleteWriters ==
    ASSUME TypeOK, [Next]_vars, NEW a \in Admin, req'[a].pc = "delete"
    PROVE  req'[a] = req[a] \/ CountBuilding(a, req'[a].building)
<1>0. /\ req \in [Slot -> Request] /\ a \in Slot /\ a \notin Visitor
      /\ \A x \in Admin : x \in Slot
      /\ \A v \in Visitor : v \in Slot
      /\ IdleReq.pc = "idle"
    BY SlotAssumption DEF TypeOK, Slot, IdleReq
<1>1. ASSUME NEW v \in Visitor, Register(v)
      PROVE  req'[a] = req[a]
    BY <1>0, <1>1 DEF Register, Submit, ValidateRegistration, Locate, LocateCampus,
                      CheckCap, Advance, Refuse
<1>2. ASSUME NEW x \in Admin, NEW b \in Building, NEW c \in Campus, ChooseCampus(x, b, c)
      PROVE  req'[a] = req[a]
    BY <1>0, <1>2 DEF ChooseCampus, IdleReq
<1>3. ASSUME NEW x \in Admin, Agree(x)
      PROVE  req'[a] = req[a]
    BY <1>0, <1>3 DEF Agree, Refuse, Request, Chosen, Placed, IdleReq
<1>4. ASSUME NEW x \in Admin, NEW b \in Building, CountBuilding(x, b)
      PROVE  req'[a] = req[a] \/ CountBuilding(a, req'[a].building)
    BY <1>0, <1>4 DEF CountBuilding, IdleReq
<1>5. ASSUME NEW x \in Admin, RecheckCampus(x)
      PROVE  req'[a] = req[a]
    BY <1>0, <1>5, AdvancePC DEF RecheckCampus, Refuse, Advance
<1>6. ASSUME NEW x \in Admin, EditPlaces(x), ~RecheckCampus(x),
             ~ \E b \in Building : CountBuilding(x, b)
      PROVE  req'[a] = req[a]
    BY <1>0, <1>6 DEF EditPlaces, ChooseImport, CreateBuilding, FinishImport, ChooseUpdate,
                      UpdateBuilding, DeleteBuilding, Refuse, IdleReq
<1>7. ASSUME NEW q \in Slot, NEW p \in ProbeID, CreateProbe(q, p) \/ CreateDuplicate(q, p)
      PROVE  req'[a] = req[a]
    BY <1>0, <1>7 DEF CreateProbe, CreateDuplicate, Refuse
<1>8. ASSUME \/ \E p \in ProbeID : DeleteProbe(p)
             \/ \E c \in Campus : CreateCampus(c) \/ DeleteCampus(c)
             \/ UNCHANGED vars
      PROVE  req'[a] = req[a]
    BY <1>8 DEF DeleteProbe, CreateCampus, DeleteCampus, vars
<1>9. ~Restart
    BY <1>0 DEF Restart
<1> QED
    BY <1>1, <1>2, <1>3, <1>4, <1>5, <1>6, <1>7, <1>8, <1>9 DEF Next

LEMMA MissedStep == TypeOK /\ DeletersMissed /\ [Next]_vars => DeletersMissed'
<1> SUFFICES ASSUME TypeOK, DeletersMissed, [Next]_vars,
                    NEW p \in ProbeID, probe'[p] # None,
                    NEW a \in Admin, req'[a].pc = "delete",
                    req'[a].building = probe'[p].building
             PROVE  a \in probe'[p].missedBy
    BY DEF DeletersMissed, Deleting, Registered
<1>1. CASE CountBuilding(a, req'[a].building)
    BY <1>1 DEF CountBuilding, Registered
<1>2. CASE req'[a] = req[a] /\ probe'[p] = probe[p]
    BY <1>2 DEF DeletersMissed, Deleting, Registered
<1>3. ASSUME req'[a] = req[a], NEW q \in Slot, NEW d \in ProbeID, CreateProbe(q, d),
             probe'[p] # probe[p]
      PROVE  a \in probe'[p].missedBy
    <2>1. /\ probe'[p].building = req[q].building
          /\ probe'[p].missedBy = Deleting(req[q].building)
        BY <1>3 DEF CreateProbe, TypeOK
    <2> QED
        BY <1>3, <2>1 DEF Deleting
<1>4. ASSUME NEW d \in ProbeID, DeleteProbe(d), probe'[p] # probe[p]
      PROVE  FALSE
    BY <1>4 DEF DeleteProbe, TypeOK
<1> QED
    BY <1>1, <1>2, <1>3, <1>4, DeleteWriters, ProbeWriters

\* The one race that deletes a building under its probes is the one between the
\* two statements of DeleteBuilding.
THEOREM OnlyMissedStranded == Spec => StrandedWereMissed
<1>1. Init => DeletersMissed
    BY DEF Init, DeletersMissed, Registered
<1>2. ASSUME TypeOK, DeletersMissed, [Next]_vars, NEW b \in Building,
             building[b] # None, building'[b] = None,
             NEW p \in Registered, probe[p].building = b
      PROVE  Deleting(b) \cap probe[p].missedBy # {}
    <2> USE <1>2 DEF TypeOK
    <2>1. ASSUME NEW a \in Admin, DeleteBuilding(a)
          PROVE  a \in Deleting(b)
        BY <2>1 DEF DeleteBuilding, Deleting
    <2>2. ASSUME NEW a \in Admin, NEW d \in Building, NEW g \in Group,
                 CreateBuilding(a, d, g) \/ UpdateBuilding(a, g)
          PROVE  FALSE
        BY <2>2, NoneApart DEF CreateBuilding, UpdateBuilding, Place
    <2>3. ASSUME NEW c \in Campus, CreateCampus(c) \/ DeleteCampus(c)
          PROVE  FALSE
        BY <2>3 DEF CreateCampus, DeleteCampus
    <2>4. ~Restart
        BY DEF Restart, Backfill
    <2>5. PICK a \in Admin : a \in Deleting(b)
        BY <2>1, <2>2, <2>3, <2>4, CatalogWriters DEF EditCatalog, catalog
    <2> QED
        BY <2>5 DEF DeletersMissed
<1>3. TypeOK /\ DeletersMissed /\ [Next]_vars =>
        [\A b \in Building : building[b] # None /\ building'[b] = None =>
            \A p \in Registered : probe[p].building = b =>
                Deleting(b) \cap probe[p].missedBy # {}]_vars
    BY <1>2
<1> QED
    BY <1>1, <1>3, MissedStep, TypeCorrect, PTL DEF Spec, StrandedWereMissed

-----------------------------------------------------------------------------
(* Where probes are filed *)

\* The catalog, and every request that is to insert, hold places that were entered.
PlacesEntered ==
    /\ \A b \in Building : building[b] # None =>
          <<b, building[b].campus, building[b].group>> \in entered
    /\ \A q \in Slot : req[q].pc \in Placed =>
          <<req[q].building, req[q].campus, req[q].group>> \in entered

FiledInv == FiledAsEntered /\ PlacesEntered

LEMMA EnteredGrows == TypeOK /\ [Next]_vars => entered \subseteq entered'
BY CatalogWriters DEF EditCatalog, catalog, CreateBuilding, UpdateBuilding, DeleteBuilding,
                      CreateCampus, DeleteCampus, Restart

LEMMA CatalogEntered ==
    ASSUME TypeOK, FiledInv, [Next]_vars, NEW b \in Building, building'[b] # None
    PROVE  <<b, building'[b].campus, building'[b].group>> \in entered'
<1> USE DEF TypeOK, FiledInv, PlacesEntered
<1>1. ASSUME NEW a \in Admin, NEW d \in Building, NEW g \in Group, CreateBuilding(a, d, g)
      PROVE  <<b, building'[b].campus, building'[b].group>> \in entered'
    BY <1>1 DEF CreateBuilding
<1>2. ASSUME NEW a \in Admin, NEW g \in Group, UpdateBuilding(a, g)
      PROVE  <<b, building'[b].campus, building'[b].group>> \in entered'
    <2> DEFINE d == req[a].building
    <2>1. CASE building[d] = None
        BY <1>2, <2>1 DEF UpdateBuilding
    <2>2. CASE building[d] # None
        <3>1. /\ building' = [building EXCEPT ![d] = [building[d] EXCEPT !.group = g]]
              /\ entered' = entered \cup {<<d, building[d].campus, g>>}
            BY <1>2, <2>2 DEF UpdateBuilding
        <3>2. CASE b = d
            <4>1. building[b] \in Place
                BY <2>2, <3>2
            <4>2. building'[b].campus = building[b].campus /\ building'[b].group = g
                BY <3>1, <3>2, <4>1 DEF Place
            <4> QED
                BY <3>1, <3>2, <4>2
        <3>3. CASE b # d
            BY <3>1, <3>3
        <3> QED
            BY <3>2, <3>3
    <2> QED
        BY <2>1, <2>2
<1>3. ASSUME NEW a \in Admin, DeleteBuilding(a)
      PROVE  <<b, building'[b].campus, building'[b].group>> \in entered'
    BY <1>3 DEF DeleteBuilding, catalog
<1>4. ASSUME NEW c \in Campus, CreateCampus(c) \/ DeleteCampus(c)
      PROVE  <<b, building'[b].campus, building'[b].group>> \in entered'
    BY <1>4 DEF CreateCampus, DeleteCampus
<1>5. CASE Restart
    <2>1. CASE building'[b] = building[b]
        BY <1>5, <2>1 DEF Restart
    <2>2. CASE building'[b] # building[b]
        <3>1. PICK p \in Registered :
                 /\ probe[p].building = b
                 /\ building'[b] = [campus |-> probe[p].campus, group |-> probe[p].group]
            BY <1>5, <2>2 DEF Restart, Backfill
        <3> QED
            BY <1>5, <3>1 DEF Restart, FiledAsEntered
    <2> QED
        BY <2>1, <2>2
<1>6. CASE UNCHANGED catalog
    BY <1>6 DEF catalog
<1> QED
    BY <1>1, <1>2, <1>3, <1>4, <1>5, <1>6, CatalogWriters DEF EditCatalog

Triple(r) == <<r.building, r.campus, r.group>>

\* A request that holds a place has kept it, or has just read it whole.
LEMMA PlacedWriters ==
    ASSUME TypeOK, [Next]_vars, NEW q \in Slot, req'[q].pc \in Placed
    PROVE  \/ req[q].pc \in Placed /\ Triple(req'[q]) = Triple(req[q])
           \/ LET b == req[q].building
              IN  /\ b \in Building /\ building[b] # None
                  /\ Triple(req'[q]) = <<b, building[b].campus, building[b].group>>
<1> DEFINE b == req[q].building
           Kept == req[q].pc \in Placed /\ Triple(req'[q]) = Triple(req[q])
           Read == /\ b \in Building /\ building[b] # None
                   /\ Triple(req'[q]) = <<b, building[b].campus, building[b].group>>
<1> SUFFICES Kept \/ Read
    OBVIOUS
<1>0. /\ req \in [Slot -> Request]
      /\ \A x \in Visitor : x \in Slot
      /\ \A x \in Admin : x \in Slot
      /\ IdleReq.pc \notin Placed
    BY DEF TypeOK, Slot, IdleReq, Placed
<1>1. CASE req'[q] = req[q]
    BY <1>1
<1>2. ASSUME NEW v \in Visitor, Register(v), req'[q] # req[q]
      PROVE  Kept \/ Read
    <2>1. q = v
        BY <1>0, <1>2 DEF Register, Submit, ValidateRegistration, Locate, LocateCampus,
                          CheckCap, Advance, Refuse
    <2>2. CASE \E d \in Building, c \in Campus : Submit(v, d, c)
        BY <1>0, <2>1, <2>2 DEF Submit, Placed, IdleReq
    <2>3. CASE ValidateRegistration(v)
        <3>1. req'[q] = IdleReq \/ req'[q].pc = "locate"
            BY <1>0, <2>1, <2>3, AdvancePC DEF ValidateRegistration, Refuse
        <3> QED
            BY <1>0, <3>1 DEF Placed
    <2>4. CASE Locate(v)
        <3>1. req[q] \in Request /\ req[q].pc = "locate"
            BY <1>0, <2>1, <2>4 DEF Locate
        <3>2. b \in Building
            BY <3>1, StageType DEF Chosen
        <3>3. building[b] # None
            BY <1>0, <2>1, <2>4 DEF Locate, Refuse
        <3>4. /\ req'[q].building = b /\ req'[q].campus = building[b].campus
              /\ req'[q].group = building[b].group
            BY <1>0, <2>1, <2>4, <3>1, <3>3 DEF Locate, Request, IdleReq, Chosen, Placed
        <3> QED
            BY <3>2, <3>3, <3>4 DEF Triple
    <2>5. CASE LocateCampus(v) \/ CheckCap(v)
        <3>1. req[q].pc \in Placed
            BY <2>1, <2>5 DEF LocateCampus, CheckCap, Placed
        <3>2. /\ req'[q].building = b /\ req'[q].campus = req[q].campus
              /\ req'[q].group = req[q].group
            BY <1>0, <2>1, <2>5 DEF LocateCampus, CheckCap, Advance, Refuse, Request,
                                    IdleReq, Chosen, Placed
        <3> QED
            BY <3>1, <3>2 DEF Triple
    <2> QED
        BY <1>2, <2>2, <2>3, <2>4, <2>5 DEF Register
<1>3. ASSUME NEW a \in Admin, Agree(a), req'[q] # req[q]
      PROVE  Kept \/ Read
    <2>1. q = a
        BY <1>0, <1>3 DEF Agree, Refuse
    <2>2. req[q] \in Request /\ req[q].pc = "agree"
        BY <1>0, <1>3, <2>1 DEF Agree
    <2>3. b \in Building
        BY <2>2, StageType DEF Chosen
    <2>4. building[b] # None /\ building[b].campus = req[q].campus
        BY <1>0, <1>3, <2>1 DEF Agree, Refuse
    <2>5. /\ req'[q].building = b /\ req'[q].campus = req[q].campus
          /\ req'[q].group = building[b].group
        BY <1>0, <1>3, <2>1, <2>2, <2>4 DEF Agree, Request, IdleReq, Chosen, Placed
    <2> QED
        BY <2>3, <2>4, <2>5 DEF Triple
<1>4. ASSUME NEW a \in Admin, EditPlaces(a) \/ (\E d \in Building, c \in Campus : ChooseCampus(a, d, c)),
             req'[q] # req[q]
      PROVE  FALSE
    <2>1. CASE RecheckCampus(a)
        <3>1. q = a
            BY <1>0, <1>4, <2>1 DEF RecheckCampus, Advance, Refuse
        <3>2. req'[q] = IdleReq \/ req'[q].pc = "update"
            BY <1>0, <2>1, <3>1, AdvancePC DEF RecheckCampus, Refuse
        <3> QED
            BY <1>0, <3>2 DEF Placed
    <2>2. CASE ~RecheckCampus(a)
        BY <1>0, <1>4, <2>2 DEF EditPlaces, ChooseCampus, ChooseImport, CreateBuilding,
                                FinishImport, ChooseUpdate, UpdateBuilding, CountBuilding,
                                DeleteBuilding, Refuse, IdleReq, Placed
    <2> QED
        BY <2>1, <2>2
<1>5. ASSUME NEW x \in Slot, NEW p \in ProbeID, CreateProbe(x, p) \/ CreateDuplicate(x, p),
             req'[q] # req[q]
      PROVE  FALSE
    BY <1>0, <1>5 DEF CreateProbe, CreateDuplicate, Refuse
<1>6. ASSUME NEW p \in ProbeID, DeleteProbe(p)
      PROVE  req'[q] = req[q]
    BY <1>6 DEF DeleteProbe
<1>7. ASSUME NEW c \in Campus, CreateCampus(c) \/ DeleteCampus(c)
      PROVE  req'[q] = req[q]
    BY <1>7 DEF CreateCampus, DeleteCampus
<1>8. CASE Restart
    BY <1>0, <1>8 DEF Restart
<1>9. CASE UNCHANGED vars
    BY <1>9 DEF vars
<1> QED
    BY <1>1, <1>2, <1>3, <1>4, <1>5, <1>6, <1>7, <1>8, <1>9 DEF Next

LEMMA FiledStep == TypeOK /\ FiledInv /\ [Next]_vars => FiledInv'
<1> SUFFICES ASSUME TypeOK, FiledInv, [Next]_vars
             PROVE  FiledInv'
    OBVIOUS
<1>1. \A b \in Building : building'[b] # None =>
          <<b, building'[b].campus, building'[b].group>> \in entered'
    BY CatalogEntered
<1>2. ASSUME NEW q \in Slot, req'[q].pc \in Placed
      PROVE  Triple(req'[q]) \in entered'
    BY <1>2, PlacedWriters, EnteredGrows DEF FiledInv, PlacesEntered, Triple
<1>3. ASSUME NEW p \in ProbeID, probe'[p] # None
      PROVE  Triple(probe'[p]) \in entered'
    <2>1. CASE probe'[p] = probe[p]
        BY <1>3, <2>1, EnteredGrows DEF FiledInv, FiledAsEntered, Registered, Triple
    <2>2. ASSUME NEW q \in Slot, NEW d \in ProbeID, CreateProbe(q, d), probe'[p] # probe[p]
          PROVE  Triple(probe'[p]) \in entered'
        <3>1. p = d /\ Triple(probe'[p]) = Triple(req[q])
            BY <2>2 DEF CreateProbe, TypeOK, Triple
        <3> QED
            BY <2>2, <3>1, EnteredGrows DEF CreateProbe, FiledInv, PlacesEntered, Triple, Placed
    <2>3. ASSUME NEW d \in ProbeID, DeleteProbe(d), probe'[p] # probe[p]
          PROVE  FALSE
        BY <1>3, <2>3 DEF DeleteProbe, TypeOK
    <2> QED
        BY <2>1, <2>2, <2>3, ProbeWriters
<1> QED
    BY <1>1, <1>2, <1>3 DEF FiledInv, FiledAsEntered, PlacesEntered, Registered, Triple

\* No probe carries a campus and a group that were never together the building's,
\* however the catalog changes between the reads of the handler that filed it.
THEOREM FiledTruly == Spec => []FiledAsEntered
<1>1. Init => FiledInv
    BY DEF Init, FiledInv, FiledAsEntered, PlacesEntered, Registered, IdleReq, Placed
<1>2. FiledInv => FiledAsEntered
    BY DEF FiledInv
<1> QED
    BY <1>1, <1>2, FiledStep, TypeCorrect, PTL DEF Spec

-----------------------------------------------------------------------------
(* The cap *)

LEMMA Finite ==
    /\ IsFiniteSet(Registered) /\ IsFiniteSet(Public) /\ IsFiniteSet(Admitted)
    /\ Cardinality(Registered) \in Nat /\ Cardinality(Public) \in Nat
    /\ Cardinality(Admitted) \in Nat /\ Cardinality(Visitor) \in Nat
    /\ Cardinality(Public) <= Cardinality(Registered)
    /\ Cardinality(Admitted) <= Cardinality(Visitor)
<1>1. Registered \in SUBSET ProbeID /\ Public \in SUBSET Registered /\ Admitted \in SUBSET Visitor
    BY DEF Registered, Public, Admitted
<1>2. IsFiniteSet(Registered) /\ IsFiniteSet(Admitted) /\ Cardinality(Admitted) <= Cardinality(Visitor)
    BY <1>1, FiniteAssumption, FS_Subset
<1>3. IsFiniteSet(Public) /\ Cardinality(Public) <= Cardinality(Registered)
    BY <1>1, <1>2, FS_Subset
<1> QED
    BY <1>2, <1>3, FiniteAssumption, FS_CardinalityType

\* Only the comparison with the cap admits a visitor to the insert.
LEMMA AdmittedWriters ==
    ASSUME TypeOK, [Next]_vars, NEW v \in Visitor, req'[v].pc = "insert"
    PROVE  v \in Admitted \/ (CheckCap(v) /\ Cardinality(Registered) < MaxProbes)
<1>0. /\ req \in [Slot -> Request] /\ v \in Slot /\ v \notin Admin
      /\ \A a \in Admin : a \in Slot
      /\ \A w \in Visitor : w \in Slot
      /\ IdleReq.pc = "idle"
    BY SlotAssumption DEF TypeOK, Slot, IdleReq
<1>1. CASE req'[v] = req[v]
    BY <1>1 DEF Admitted
<1>2. ASSUME NEW w \in Visitor, Register(w), req'[v] # req[v]
      PROVE  CheckCap(v) /\ Cardinality(Registered) < MaxProbes
    <2>1. v = w
        BY <1>0, <1>2 DEF Register, Submit, ValidateRegistration, Locate, LocateCampus,
                          CheckCap, Advance, Refuse
    <2>2. CASE CheckCap(v)
        BY <1>0, <2>2, Finite, CapAssumption DEF CheckCap, Refuse
    <2>3. CASE \E b \in Building, c \in Campus : Submit(v, b, c)
        BY <1>0, <2>3 DEF Submit, IdleReq
    <2>4. CASE ValidateRegistration(v)
        BY <1>0, <2>4, AdvancePC DEF ValidateRegistration, Refuse
    <2>5. CASE LocateCampus(v)
        BY <1>0, <2>5, AdvancePC DEF LocateCampus, Refuse
    <2>6. CASE Locate(v)
        BY <1>0, <2>6 DEF Locate, Refuse, Request, Chosen, Placed, IdleReq
    <2> QED
        BY <1>2, <2>1, <2>2, <2>3, <2>4, <2>5, <2>6 DEF Register
<1>3. ASSUME NEW a \in Admin, NEW b \in Building, NEW c \in Campus, ChooseCampus(a, b, c)
      PROVE  req'[v] = req[v]
    BY <1>0, <1>3 DEF ChooseCampus
<1>4. ASSUME NEW a \in Admin, Agree(a) \/ EditPlaces(a)
      PROVE  req'[v] = req[v]
    BY <1>0, <1>4 DEF Agree, EditPlaces, ChooseImport, CreateBuilding,
                      FinishImport, ChooseUpdate, RecheckCampus, UpdateBuilding,
                      CountBuilding, DeleteBuilding, Advance, Refuse
<1>5. ASSUME NEW q \in Slot, NEW p \in ProbeID, CreateProbe(q, p) \/ CreateDuplicate(q, p)
      PROVE  req'[v] = req[v]
    BY <1>0, <1>5 DEF CreateProbe, CreateDuplicate, Refuse
<1>6. ASSUME NEW p \in ProbeID, DeleteProbe(p)
      PROVE  req'[v] = req[v]
    BY <1>6 DEF DeleteProbe
<1>7. ASSUME NEW c \in Campus, CreateCampus(c) \/ DeleteCampus(c)
      PROVE  req'[v] = req[v]
    BY <1>7 DEF CreateCampus, DeleteCampus
<1>8. ~Restart
    BY <1>0 DEF Restart
<1>9. CASE UNCHANGED vars
    BY <1>1, <1>9 DEF vars
<1>10. CASE Next /\ req'[v] # req[v]
    <2>1. PICK w \in Visitor : Register(w)
        BY <1>3, <1>4, <1>5, <1>6, <1>7, <1>8, <1>10 DEF Next
    <2> QED
        BY <1>2, <1>10, <2>1
<1> QED
    BY <1>1, <1>9, <1>10

LEMMA OvershootStep ==
    TypeOK /\ OvershootBounded /\ [Next]_vars => OvershootBounded'
<1> SUFFICES ASSUME TypeOK, OvershootBounded, [Next]_vars
             PROVE  Cardinality(Public') + Cardinality(Admitted') < MaxProbes + Cardinality(Visitor)
    BY DEF OvershootBounded
<1>0. Cardinality(Public) + Cardinality(Admitted) < MaxProbes + Cardinality(Visitor)
    BY DEF OvershootBounded
<1>1. Admitted' \in SUBSET Visitor /\ IsFiniteSet(Admitted')
      /\ Cardinality(Admitted') <= Cardinality(Visitor) /\ Cardinality(Admitted') \in Nat
    <2>1. Admitted' \in SUBSET Visitor
        BY DEF Admitted
    <2> QED
        BY <2>1, FiniteAssumption, FS_Subset, FS_CardinalityType
<1>2. ASSUME NEW q \in Slot, NEW p \in ProbeID, CreateProbe(q, p)
      PROVE  Cardinality(Public') + Cardinality(Admitted') < MaxProbes + Cardinality(Visitor)
    <2>0. /\ probe' = [probe EXCEPT ![p] =
                          [building |-> req[q].building, campus |-> req[q].campus,
                           group |-> req[q].group,
                           via |-> IF q \in Visitor THEN "public" ELSE "admin",
                           missedBy |-> Deleting(req[q].building)]]
          /\ probe \in [ProbeID -> Probe \cup {None}]
          /\ req' = [req EXCEPT ![q] = IdleReq] /\ req \in [Slot -> Request]
          /\ \A v \in Visitor : v \in Slot
          /\ probe[p] = None /\ req[q].pc = "insert" /\ IdleReq.pc = "idle"
        BY <1>2 DEF CreateProbe, TypeOK, Refuse, Slot, IdleReq
    <2>1. p \notin Public
        BY <2>0 DEF Public, Registered
    <2>2. probe'[p] \in Probe
        BY <2>0, <1>2, StageType DEF Placed, Probe, Deleting
    <2>3. CASE q \in Visitor
        <3>1. Public' = Public \cup {p}
            BY <2>0, <2>2, <2>3, NoneApart DEF Public, Registered
        <3>2. q \in Admitted /\ Admitted' = Admitted \ {q}
            BY <2>0, <2>3 DEF Admitted
        <3>3. Cardinality(Public') = Cardinality(Public) + 1
            BY <2>1, <3>1, Finite, FS_AddElement
        <3>4. Cardinality(Admitted') = Cardinality(Admitted) - 1
            BY <3>2, Finite, FS_RemoveElement
        <3> QED
            BY <1>0, <3>3, <3>4, Finite
    <2>4. CASE q \notin Visitor
        <3>1. Public' = Public
            BY <2>0, <2>1, <2>4 DEF Public, Registered
        <3>2. Admitted' = Admitted
            BY <2>0, <2>4 DEF Admitted
        <3> QED
            BY <1>0, <3>1, <3>2
    <2> QED
        BY <2>3, <2>4
<1>3. CASE ~ \E q \in Slot, p \in ProbeID : CreateProbe(q, p)
    <2>1. Public' \in SUBSET Public
        BY <1>3, ProbeWriters DEF DeleteProbe, Public, Registered, TypeOK
    <2>2. Cardinality(Public') <= Cardinality(Public) /\ Cardinality(Public') \in Nat
        BY <2>1, Finite, FS_Subset, FS_CardinalityType
    <2>3. CASE Admitted' \in SUBSET Admitted
        <3>1. Cardinality(Admitted') <= Cardinality(Admitted)
            BY <2>3, Finite, FS_Subset
        <3> QED
            BY <1>0, <1>1, <2>2, <3>1, Finite, CapAssumption
    <2>4. CASE Admitted' \notin SUBSET Admitted
        <3>1. PICK v \in Visitor : req'[v].pc = "insert" /\ v \notin Admitted
            BY <2>4 DEF Admitted
        <3>2. Cardinality(Registered) < MaxProbes
            BY <3>1, AdmittedWriters
        <3> QED
            BY <1>1, <2>2, <3>2, Finite, CapAssumption
    <2> QED
        BY <2>3, <2>4
<1> QED
    BY <1>2, <1>3

\* Visitors overshoot the cap by less than the number of registrations that can be
\* in flight at once, whatever administrators create and delete meanwhile.
THEOREM Overshoot == Spec => []OvershootBounded
<1>1. Init => OvershootBounded
    <2> SUFFICES ASSUME Init PROVE OvershootBounded
        OBVIOUS
    <2>1. Public = {} /\ Admitted = {}
        BY DEF Init, Public, Registered, Admitted, Slot, IdleReq
    <2> QED
        BY <2>1, Finite, FS_EmptySet, CapAssumption DEF OvershootBounded
<1> QED
    BY <1>1, OvershootStep, TypeCorrect, PTL DEF Spec

=============================================================================
