---------------------------- MODULE Registration ----------------------------
(***************************************************************************)
(* Places and the probes filed under them: the catalog of campuses and     *)
(* buildings, the two ways a probe is created, and the edits of an         *)
(* administrator under both.                                               *)
(*                                                                         *)
(*   visitors   internal/portal/register.go  validate, locate, cap, insert *)
(*   admin UI   internal/admin/probes.go     locate, insert, delete        *)
(*              internal/admin/campuses.go   create, delete                *)
(*              internal/admin/buildings.go  create, import, update, delete*)
(*   catalog    internal/store/catalog.go, migrations/002_catalog.sql      *)
(*   start      internal/store/migrate.go    backfillCatalog               *)
(*                                                                         *)
(* A step is one SQL statement or one transaction: the pool holds a single *)
(* connection, so nothing runs inside one and anything between two.  A     *)
(* request that is refused goes back to idle.  Display names, descriptions *)
(* and network types are left out: nothing is decided by them.             *)
(***************************************************************************)
EXTENDS Integers, FiniteSets

CONSTANTS
    Campus, Building, Group, \* codes of places
    ProbeID,   \* every identifier generateProbeID can return
    Visitor,   \* slots for concurrent POST / of the public page
    Admin,     \* slots for concurrent requests of administrators
    None,      \* no row, no value
    MaxProbes  \* MAX_PROBES

ASSUME NoneAssumption   == None \notin Campus \cup Building \cup Group
ASSUME SlotAssumption   == Visitor \cap Admin = {}
ASSUME FiniteAssumption == IsFiniteSet(ProbeID) /\ IsFiniteSet(Visitor)
ASSUME CapAssumption    == MaxProbes \in Nat \ {0}

Place == [campus : Campus, group : Group]
Probe == [building : Building, campus : Campus, group : Group,
          via : {"public", "admin"}, missedBy : SUBSET Admin]

ASSUME RowAssumption == None \notin Place \cup Probe

VARIABLES
    campuses, \* the codes in table campuses
    building, \* table buildings: the Place of each code, or None
    probe,    \* table probes: the place and created_via of each ID, or None;
              \* missedBy, which no guard reads, is for observation
    req,      \* the requests in flight, with what they have read
    (* Observation only: no guard reads it. *)
    entered   \* every (building, campus, group) the catalog has ever held

catalog == <<campuses, building, entered>>
vars    == <<campuses, building, probe, req, entered>>

-----------------------------------------------------------------------------
Slot    == Visitor \cup Admin
IdleReq == [pc |-> "idle", building |-> None, campus |-> None, group |-> None]

\* How far a request has come, and which of its fields it has read by then.
Chosen == {"validate", "locate", "agree"}         \* building and campus
Placed == {"campus", "count", "insert"}           \* building, campus and group

Request ==
    {IdleReq}
    \cup [pc : Chosen, building : Building, campus : Campus, group : {None}]
    \cup [pc : Placed, building : Building, campus : Campus, group : Group]
    \cup [pc : {"import"}, building : {None}, campus : Campus, group : {None}]
    \cup [pc : {"recheck", "update"}, building : Building, campus : Campus, group : {None}]
    \cup [pc : {"delete"}, building : Building, campus : {None}, group : {None}]

Registered == {p \in ProbeID : probe[p] # None}
Public     == {p \in Registered : probe[p].via = "public"}
Deleting(b) == {a \in Admin : req[a].pc = "delete" /\ req[a].building = b}
Admitted   == {v \in Visitor : req[v].pc = "insert"}

Refuse(q)      == req' = [req EXCEPT ![q] = IdleReq]
Advance(q, pc) == req' = [req EXCEPT ![q].pc = pc]

-----------------------------------------------------------------------------
(* POST / of the public page *)

\* The form is well-formed and the catalog lists a campus.
Submit(v, b, c) ==
    /\ req[v].pc = "idle"
    /\ campuses # {}
    /\ req' = [req EXCEPT ![v] = [IdleReq EXCEPT !.pc = "validate", !.building = b,
                                                 !.campus = c]]
    /\ UNCHANGED <<catalog, probe>>

\* validateRegistration: the building exists, and in the campus of the form.
ValidateRegistration(v) ==
    LET place == building[req[v].building]
    IN  /\ req[v].pc = "validate"
        /\ IF place # None /\ place.campus = req[v].campus
           THEN Advance(v, "locate")
           ELSE Refuse(v)
        /\ UNCHANGED <<catalog, probe>>

\* The building is read a second time, and this copy is what the probe gets,
\* the campus included.
Locate(v) ==
    LET place == building[req[v].building]
    IN  /\ req[v].pc = "locate"
        /\ IF place = None
           THEN Refuse(v)
           ELSE req' = [req EXCEPT ![v].pc = "campus", ![v].campus = place.campus,
                                   ![v].group = place.group]
        /\ UNCHANGED <<catalog, probe>>

\* GetCampus of the building's campus.  The address' allowance may refuse next.
LocateCampus(v) ==
    /\ req[v].pc = "campus"
    /\ \/ /\ req[v].campus \in campuses
          /\ Advance(v, "count")
       \/ Refuse(v)
    /\ UNCHANGED <<catalog, probe>>

\* Mutant: off by one.
CheckCapInclusive(v) ==
    /\ req[v].pc = "count"
    /\ IF Cardinality(Registered) > MaxProbes THEN Refuse(v) ELSE Advance(v, "insert")
    /\ UNCHANGED <<catalog, probe>>

\* CountProbes counts every row, whoever created it; the insert comes later.
CheckCap(v) ==
    /\ req[v].pc = "count"
    /\ IF Cardinality(Registered) >= MaxProbes THEN Refuse(v) ELSE Advance(v, "insert")
    /\ UNCHANGED <<catalog, probe>>

-----------------------------------------------------------------------------
(* POST /admin/probes and the insert both paths share *)

\* resolveLocation, first read: the campus exists.
ChooseCampus(a, b, c) ==
    /\ req[a].pc = "idle"
    /\ c \in campuses
    /\ req' = [req EXCEPT ![a] = [IdleReq EXCEPT !.pc = "agree", !.building = b,
                                                 !.campus = c]]
    /\ UNCHANGED <<catalog, probe>>

\* Mutant: the pair is not compared.
AgreeUnchecked(a) ==
    LET place == building[req[a].building]
    IN  /\ req[a].pc = "agree"
        /\ IF place # None
           THEN req' = [req EXCEPT ![a].pc = "insert", ![a].group = place.group]
           ELSE Refuse(a)
        /\ UNCHANGED <<catalog, probe>>

\* resolveLocation, second read: the building exists, in that campus.
Agree(a) ==
    LET place == building[req[a].building]
    IN  /\ req[a].pc = "agree"
        /\ IF place # None /\ place.campus = req[a].campus
           THEN req' = [req EXCEPT ![a].pc = "insert", ![a].group = place.group]
           ELSE Refuse(a)
        /\ UNCHANGED <<catalog, probe>>

\* INSERT of a row under an ID that the table does not hold.  missedBy: who has
\* counted the probes of the building without this one, and is about to delete it.
CreateProbe(q, p) ==
    /\ req[q].pc = "insert"
    /\ probe[p] = None
    /\ probe' = [probe EXCEPT ![p] =
                    [building |-> req[q].building, campus |-> req[q].campus,
                     group |-> req[q].group,
                     via |-> IF q \in Visitor THEN "public" ELSE "admin",
                     missedBy |-> Deleting(req[q].building)]]
    /\ Refuse(q)
    /\ UNCHANGED catalog

\* The ID is taken: another is drawn, up to five times.
CreateDuplicate(q, p) ==
    /\ req[q].pc = "insert"
    /\ probe[p] # None
    /\ req' = req \/ Refuse(q)
    /\ UNCHANGED <<catalog, probe>>

DeleteProbe(p) ==
    /\ probe[p] # None
    /\ probe' = [probe EXCEPT ![p] = None]
    /\ UNCHANGED <<catalog, req>>

-----------------------------------------------------------------------------
(* The administrator's edits of the catalog *)

CreateCampus(c) ==
    /\ c \notin campuses
    /\ campuses' = campuses \cup {c}
    /\ UNCHANGED <<building, entered, probe, req>>

\* Mutant: only the probes' own campus is counted.
DeleteCampusOwnProbes(c) ==
    /\ c \in campuses
    /\ \A p \in Registered : probe[p].campus # c
    /\ campuses' = campuses \ {c}
    /\ building' = [b \in Building |-> IF building[b] # None /\ building[b].campus = c
                                       THEN None ELSE building[b]]
    /\ UNCHANGED <<entered, probe, req>>

\* One transaction: no probe names the campus or one of its buildings; the
\* buildings go first, then the campus.
DeleteCampus(c) ==
    LET Its(b) == building[b] # None /\ building[b].campus = c
    IN  /\ c \in campuses
        /\ \A p \in Registered : probe[p].campus # c /\ ~Its(probe[p].building)
        /\ campuses' = campuses \ {c}
        /\ building' = [b \in Building |-> IF Its(b) THEN None ELSE building[b]]
        /\ UNCHANGED <<entered, probe, req>>

\* validateCampus, once for a form of one building and once for a whole batch.
ChooseImport(a, c) ==
    /\ req[a].pc = "idle"
    /\ c \in campuses
    /\ req' = [req EXCEPT ![a] = [IdleReq EXCEPT !.pc = "import", !.campus = c]]
    /\ UNCHANGED <<catalog, probe>>

\* Mutant: foreign keys are not enforced.
CreateBuildingUnchecked(a, b, g) ==
    /\ req[a].pc = "import"
    /\ building[b] = None
    /\ building' = [building EXCEPT ![b] = [campus |-> req[a].campus, group |-> g]]
    /\ entered' = entered \cup {<<b, req[a].campus, g>>}
    /\ UNCHANGED <<campuses, probe, req>>

\* INSERT of one line.  The foreign key rejects a campus that has gone since,
\* and that ends the batch; a code that is taken is skipped.
CreateBuilding(a, b, g) ==
    /\ req[a].pc = "import"
    /\ building[b] = None
    /\ IF req[a].campus \in campuses
       THEN /\ building' = [building EXCEPT ![b] = [campus |-> req[a].campus, group |-> g]]
            /\ entered' = entered \cup {<<b, req[a].campus, g>>}
            /\ UNCHANGED req
       ELSE /\ Refuse(a)
            /\ UNCHANGED <<building, entered>>
    /\ UNCHANGED <<campuses, probe>>

FinishImport(a) ==
    /\ req[a].pc = "import"
    /\ Refuse(a)
    /\ UNCHANGED <<catalog, probe>>

\* GetBuilding: the handler remembers the building's campus.
ChooseUpdate(a, b) ==
    /\ req[a].pc = "idle"
    /\ building[b] # None
    /\ req' = [req EXCEPT ![a] = [IdleReq EXCEPT !.pc = "recheck", !.building = b,
                                                 !.campus = building[b].campus]]
    /\ UNCHANGED <<catalog, probe>>

\* validateCampus of that campus.
RecheckCampus(a) ==
    /\ req[a].pc = "recheck"
    /\ IF req[a].campus \in campuses THEN Advance(a, "update") ELSE Refuse(a)
    /\ UNCHANGED <<catalog, probe>>

\* Mutant: the campus that was read is written back.
UpdateWholeBuilding(a, g) ==
    LET b == req[a].building
        place == [campus |-> req[a].campus, group |-> g]
    IN  /\ req[a].pc = "update"
        /\ building[b] # None
        /\ building' = [building EXCEPT ![b] = place]
        /\ entered' = entered \cup {<<b, place.campus, g>>}
        /\ Refuse(a)
        /\ UNCHANGED <<campuses, probe>>

\* UPDATE of whatever row has the code by now; none is an error.
UpdateBuilding(a, g) ==
    LET b == req[a].building
    IN  /\ req[a].pc = "update"
        /\ IF building[b] # None
           THEN /\ building' = [building EXCEPT ![b].group = g]
                /\ entered' = entered \cup {<<b, building[b].campus, g>>}
           ELSE UNCHANGED <<building, entered>>
        /\ Refuse(a)
        /\ UNCHANGED <<campuses, probe>>

\* Mutant: only the probes visitors registered are counted.
CountBuildingPublic(a, b) ==
    /\ req[a].pc = "idle"
    /\ \A p \in Public : probe[p].building # b
    /\ req' = [req EXCEPT ![a] = [IdleReq EXCEPT !.pc = "delete", !.building = b]]
    /\ UNCHANGED <<catalog, probe>>

\* DeleteBuilding, first statement: no probe is filed under the building.
CountBuilding(a, b) ==
    /\ req[a].pc = "idle"
    /\ \A p \in Registered : probe[p].building # b
    /\ req' = [req EXCEPT ![a] = [IdleReq EXCEPT !.pc = "delete", !.building = b]]
    /\ UNCHANGED <<catalog, probe>>

\* DeleteBuilding, second statement: nothing is counted again.
DeleteBuilding(a) ==
    /\ req[a].pc = "delete"
    /\ building' = [building EXCEPT ![req[a].building] = None]
    /\ Refuse(a)
    /\ UNCHANGED <<campuses, entered, probe>>
-----------------------------------------------------------------------------
(* The process *)

\* backfillCatalog, when no campus is left: each place a probe names comes back.
\* Of several probes of one building SQLite keeps the values of any one.
Backfill ==
    LET Housed(b) == {p \in Registered : probe[p].building = b}
        Home(p)   == [campus |-> probe[p].campus, group |-> probe[p].group]
    IN  /\ campuses' = {probe[p].campus : p \in Registered}
        /\ building' \in [Building -> Place \cup {None}]
        /\ \A b \in Building :
              IF building[b] # None \/ Housed(b) = {}
              THEN building'[b] = building[b]
              ELSE \E p \in Housed(b) : building'[b] = Home(p)

\* The process dies at any point and starts again: the tables survive, the
\* requests do not.
Restart ==
    /\ req' = [q \in Slot |-> IdleReq]
    /\ IF campuses = {} THEN Backfill ELSE UNCHANGED <<campuses, building>>
    /\ UNCHANGED <<probe, entered>>

Init ==
    /\ campuses = {}
    /\ building = [b \in Building |-> None]
    /\ probe = [p \in ProbeID |-> None]
    /\ req = [q \in Slot |-> IdleReq]
    /\ entered = {}

Register(v) ==
    \/ \E b \in Building, c \in Campus : Submit(v, b, c)
    \/ ValidateRegistration(v) \/ Locate(v) \/ LocateCampus(v) \/ CheckCap(v)

EditPlaces(a) ==
    \/ \E c \in Campus : ChooseImport(a, c)
    \/ \E b \in Building, g \in Group : CreateBuilding(a, b, g)
    \/ FinishImport(a)
    \/ \E b \in Building : ChooseUpdate(a, b) \/ CountBuilding(a, b)
    \/ RecheckCampus(a) \/ DeleteBuilding(a)
    \/ \E g \in Group : UpdateBuilding(a, g)

Next ==
    \/ \E v \in Visitor : Register(v)
    \/ \E a \in Admin, b \in Building, c \in Campus : ChooseCampus(a, b, c)
    \/ \E a \in Admin : Agree(a) \/ EditPlaces(a)
    \/ \E q \in Slot, p \in ProbeID : CreateProbe(q, p) \/ CreateDuplicate(q, p)
    \/ \E p \in ProbeID : DeleteProbe(p)
    \/ \E c \in Campus : CreateCampus(c) \/ DeleteCampus(c)
    \/ Restart

Spec == Init /\ [][Next]_vars

-----------------------------------------------------------------------------
(* Properties *)

TypeOK ==
    /\ campuses \subseteq Campus
    /\ building \in [Building -> Place \cup {None}]
    /\ probe \in [ProbeID -> Probe \cup {None}]
    /\ req \in [Slot -> Request]
    /\ entered \subseteq Building \X Campus \X Group

\* No building outlives its campus, whatever is deleted while a form or a batch
\* that looked the campus up is still inserting (buildings.go:124 against 148).
BuildingsHaveCampus ==
    \A b \in Building : building[b] # None => building[b].campus \in campuses

\* The labels a probe reports under are a place that the catalog once held as it
\* is: campus and group were never mixed from two reads of a building that was
\* moved or regrouped between the reads (register.go:58-79, probes.go:178-203).
FiledAsEntered ==
    \A p \in Registered : <<probe[p].building, probe[p].campus, probe[p].group>> \in entered

\* The overshoot that register.go:91-97 accepts has a bound: probes made by
\* visitors, with those about to be, stay below the cap plus the number of
\* registrations that can be in flight at once.
OvershootBounded ==
    Cardinality(Public) + Cardinality(Admitted) < MaxProbes + Cardinality(Visitor)

\* Deleting a campus never takes a building from under a probe, not even from one
\* filed under another campus, which the building belonged to when it registered
\* (catalog.go:124-135).
CampusDeletionStrandsNobody ==
    [][\A c \in campuses \ campuses' : \A p \in Registered :
          /\ probe[p].campus # c
          /\ building'[probe[p].building] = building[probe[p].building]]_vars

\* While its row lives a building stays in its campus, although the update form
\* works on a copy that a deletion and a re-creation may have made stale
\* (buildings.go:210-245), and although a restart may rebuild the catalog.
BuildingsNeverMove ==
    [][\A b \in Building : building[b] # None /\ building'[b] # None =>
          building'[b].campus = building[b].campus]_vars

\* A building goes from under a probe only if the probe was inserted between the
\* count and the DELETE of that very deletion (catalog.go:255-269): no other
\* overlap of edits, deletions and registrations, and no restart, strands one.
StrandedWereMissed ==
    [][\A b \in Building : building[b] # None /\ building'[b] = None =>
          \A p \in Registered : probe[p].building = b =>
              Deleting(b) \cap probe[p].missedBy # {}]_vars

(***************************************************************************)
(* What the documentation promises of the same state, and the code does    *)
(* not keep.                                                               *)
(***************************************************************************)

\* README.md:288: deleting a campus or a building that probes refer to is refused.
BuildingInUseStays ==
    [][\A b \in Building : building[b] # None /\ building'[b] = None =>
          \A p \in Registered : probe[p].building # b]_vars

=============================================================================
