-------------------------- MODULE AdminAccessProofs --------------------------
(***************************************************************************)
(* Proofs about AdminAccess: sessions last as long as promised, and which  *)
(* passwords and sessions a restart and a reset leave in force.            *)
(***************************************************************************)
EXTENDS AdminAccess, FiniteSetTheorems, TLAPS

\* What the sessions component of a step keeps to: a type, and the cap.
Kept(map) == {id \in SessionID : map[id] # Gone}

Sessions == [SessionID -> -2 .. TTL]

Fits(map) == map \in Sessions /\ Cardinality(Kept(map)) <= MaxSessions

LEMMA KeptFinite ==
    ASSUME NEW map
    PROVE  IsFiniteSet(Kept(map)) /\ Cardinality(Kept(map)) \in Nat
<1>1. Kept(map) \subseteq SessionID
  BY DEF Kept
<1> QED
  BY <1>1, SessionAssumption, FS_Subset, FS_CardinalityType

\* A map that keeps no other sessions fits if the first one did.
LEMMA FewerFit ==
    ASSUME NEW map, Fits(map), NEW new \in Sessions, Kept(new) \subseteq Kept(map)
    PROVE  Fits(new)
<1>1. Cardinality(Kept(new)) <= Cardinality(Kept(map))
  BY KeptFinite, FS_Subset
<1> QED
  BY <1>1, KeptFinite, BoundAssumption DEF Fits

LEMMA EvictedFits ==
    ASSUME Fits(left)
    PROVE  Fits(Evicted)
<1>1. Evicted \in Sessions /\ Kept(Evicted) \subseteq Kept(left)
  BY BoundAssumption DEF Fits, Sessions, Evicted, Kept, Gone, Expired
<1> QED
  BY <1>1, FewerFit

\* create admits one more session than are left once expired ones are out.
LEMMA CreateFits ==
    ASSUME Fits(left), NEW id \in SessionID, Create(id)
    PROVE  Fits(left')
<1>1. Fits(Evicted)
  BY EvictedFits
<1>2. left' = [Evicted EXCEPT ![id] = TTL] /\ Cardinality(Kept(Evicted)) < MaxSessions
  BY DEF Create, Kept
<1>3. left' \in Sessions /\ Kept(left') \subseteq Kept(Evicted) \cup {id}
  BY <1>1, <1>2, BoundAssumption DEF Fits, Sessions, Kept, Evicted
<1>4. Cardinality(Kept(left')) <= Cardinality(Kept(Evicted)) + 1
  <2> DEFINE K == Kept(Evicted)
             L == Kept(left')
  <2>1. IsFiniteSet(K) /\ L \subseteq K \cup {id} /\ Cardinality(K) \in Nat
    BY <1>3, KeptFinite
  <2> HIDE DEF K, L
  <2>2. /\ IsFiniteSet(K \cup {id})
        /\ Cardinality(K \cup {id}) = IF id \in K THEN Cardinality(K) ELSE Cardinality(K) + 1
    BY <2>1, FS_AddElement
  <2>3. Cardinality(L) <= Cardinality(K \cup {id}) /\ IsFiniteSet(L)
    BY <2>1, <2>2, FS_Subset
  <2>4. Cardinality(L) \in Nat
    BY <2>3, FS_CardinalityType
  <2>5. Cardinality(L) <= Cardinality(K) + 1
    BY <2>1, <2>2, <2>3, <2>4
  <2> QED  BY <2>5 DEF K, L
<1>5. Cardinality(Kept(Evicted)) \in Nat /\ Cardinality(Kept(left')) \in Nat
  BY KeptFinite
<1> QED
  BY <1>2, <1>3, <1>4, <1>5, BoundAssumption DEF Fits

LEMMA GetFits ==
    ASSUME Fits(left), NEW id \in SessionID, Get(id)
    PROVE  Fits(left')
<1>1. left' \in Sessions /\ Kept(left') \subseteq Kept(left)
  BY BoundAssumption DEF Get, Fits, Sessions, Kept, Live, Gone, Expired
<1> QED
  BY <1>1, FewerFit

LEMMA TypeInit == Init => TypeOK
<1> SUFFICES ASSUME Init  PROVE TypeOK
  OBVIOUS
<1>1. {id \in SessionID : left[id] # Gone} = {}
  BY DEF Init
<1>2. Cardinality({id \in SessionID : left[id] # Gone}) <= MaxSessions
  BY <1>1, FS_EmptySet, BoundAssumption
<1>3. left \in [SessionID -> -2 .. TTL] /\ idle \in [SessionID -> 0 .. Ended]
  BY BoundAssumption DEF Init, Gone, Ended
<1>4. 0 \in 0 .. MaxStarts
  BY BoundAssumption
<1> QED
  BY <1>2, <1>3, <1>4 DEF Init, TypeOK

LEMMA TypeStep == TypeOK /\ [Next]_vars => TypeOK'
<1> SUFFICES ASSUME TypeOK, [Next]_vars  PROVE TypeOK'
  OBVIOUS
<1> DEFINE Rest == /\ opened' \in [SessionID -> Password \cup Configured \cup {None}]
                   /\ idle' \in [SessionID -> 0 .. Ended]
<1>0. Fits(left) /\ Ended \in Nat
  BY BoundAssumption DEF TypeOK, Fits, Sessions, Kept, Ended
<1>1. ASSUME NEW conf \in Configured \cup {None}, Start(conf)  PROVE TypeOK'
  <2>1. starts' \in 0 .. MaxStarts
    BY <1>1, BoundAssumption DEF Start, TypeOK
  <2>2. /\ stored' \in Password \cup {None} /\ fresh' \in Password \cup {None}
        /\ force' \in Password \cup Configured \cup {None}
    BY <1>1 DEF Start, TypeOK
  <2>3. UNCHANGED <<left, opened, idle, cookie, here, req, log, voided>>
    BY <1>1 DEF Start, sessions
  <2>4. proc' \in {"down", "starting", "serving"} /\ stale' \in BOOLEAN
    BY <1>1 DEF Start
  <2> QED  BY <2>1, <2>2, <2>3, <2>4 DEF TypeOK
<1>2. ASSUME NEW quiet \in BOOLEAN, Serve(quiet)  PROVE TypeOK'
  BY <1>2 DEF Serve, TypeOK, sessions
<1>3. CASE Crash
  <2>1. left' \in Sessions /\ Kept(left') \subseteq Kept(left)
    BY <1>3, BoundAssumption DEF Crash, Sessions, Kept, Gone
  <2>2. Fits(left') /\ Rest
    BY <1>0, <1>3, <2>1, FewerFit DEF Crash
  <2> QED  BY <1>3, <2>2 DEF Crash, TypeOK, Fits, Sessions, Kept
<1>4. CASE Reset
  <2>1. voided' \in SUBSET Password /\ stored' \in Password \cup {None} /\ stale' \in BOOLEAN
    BY <1>4 DEF Reset, TypeOK
  <2> QED  BY <1>4, <2>1 DEF Reset, TypeOK, sessions
<1>5. ASSUME NEW b \in Browser, NEW answered \in BOOLEAN, Login(b, answered)  PROVE TypeOK'
  <2> DEFINE id == CHOOSE i \in SessionID : ~Held(i)
  <2>1. id \in SessionID
    BY <1>5 DEF Login
  <2>2. /\ Create(id)
        /\ opened' = [opened EXCEPT ![id] = force]
        /\ idle' = [idle EXCEPT ![id] = 0]
        /\ cookie' = IF answered THEN [cookie EXCEPT ![b] = id] ELSE cookie
        /\ UNCHANGED <<password, here, req>>
    BY <1>5 DEF Login
  <2> HIDE DEF id
  <2>3. Fits(left')
    BY <1>0, <2>1, <2>2, CreateFits
  <2>4. Rest /\ cookie' \in [Browser -> SessionID \cup {None}]
    BY <1>0, <2>1, <2>2 DEF TypeOK
  <2> QED  BY <2>2, <2>3, <2>4 DEF password, TypeOK, Fits, Sessions, Kept
<1>6. ASSUME NEW b \in Browser, RefuseLogin(b)  PROVE TypeOK'
  <2>1. Fits(left')
    BY <1>0, <1>6, EvictedFits DEF RefuseLogin
  <2> QED  BY <1>6, <2>1 DEF RefuseLogin, password, TypeOK, Fits, Sessions, Kept
<1>u. ASSUME NEW id \in SessionID, Use(id)  PROVE Fits(left') /\ Rest
  BY <1>0, <1>u, GetFits DEF Use, TypeOK
<1>7. ASSUME NEW b \in Browser, VisitLogin(b)  PROVE TypeOK'
  <2>1. cookie[b] \in SessionID /\ Use(cookie[b])
    BY <1>7 DEF VisitLogin, TypeOK
  <2>2. Fits(left') /\ Rest
    BY <1>u, <2>1
  <2> QED  BY <1>7, <2>2 DEF VisitLogin, password, TypeOK, Fits, Sessions, Kept
<1>8. ASSUME NEW b \in Browser, Leave(b)  PROVE TypeOK'
  BY <1>8 DEF Leave, TypeOK, password, sessions
<1>9. ASSUME NEW r \in Req, NEW b \in Browser, NEW kind \in {"form", "page", "logout"},
             Enter(r, b, kind)
      PROVE  TypeOK'
  <2>1. cookie[b] \in SessionID /\ Use(cookie[b])
    BY <1>9 DEF Enter, TypeOK
  <2>2. Fits(left') /\ Rest
    BY <1>u, <2>1
  <2>3. [pc |-> kind, id |-> cookie[b]] \in Request
    BY <2>1 DEF Request
  <2>4. req' \in [Req -> Request \cup {IdleReq}]
    BY <1>9, <2>3 DEF Enter, TypeOK
  <2> QED  BY <1>9, <2>2, <2>4 DEF Enter, password, TypeOK, Fits, Sessions, Kept
<1>r. ASSUME NEW r \in Req, req[r].pc # "idle"  PROVE req[r] \in Request /\ req[r].id \in SessionID
  BY <1>r DEF TypeOK, IdleReq, Request
<1>10. ASSUME NEW r \in Req, CheckForm(r)  PROVE TypeOK'
  <2>1. req[r] \in Request /\ req[r].id \in SessionID /\ Use(req[r].id)
    BY <1>10, <1>r DEF CheckForm
  <2>2. Fits(left') /\ Rest
    BY <1>u, <2>1
  <2>3. [req[r] EXCEPT !.pc = "page"] \in Request
    BY <2>1 DEF Request
  <2>4. req' \in [Req -> Request \cup {IdleReq}]
    BY <1>10, <2>3 DEF CheckForm, TypeOK
  <2> QED  BY <1>10, <2>2, <2>4 DEF CheckForm, password, TypeOK, Fits, Sessions, Kept
<1>11. ASSUME NEW r \in Req, Handle(r)  PROVE TypeOK'
  <2>1. req[r] \in Request /\ req[r].id \in SessionID /\ Use(req[r].id)
    BY <1>11, <1>r DEF Handle
  <2>2. Fits(left') /\ Rest
    BY <1>u, <2>1
  <2>3. [req[r] EXCEPT !.pc = "work"] \in Request
    BY <2>1 DEF Request
  <2>4. req' \in [Req -> Request \cup {IdleReq}]
    BY <1>11, <2>3 DEF Handle, TypeOK
  <2> QED  BY <1>11, <2>2, <2>4 DEF Handle, password, TypeOK, Fits, Sessions, Kept
<1>12. ASSUME NEW r \in Req, Finish(r)  PROVE TypeOK'
  BY <1>12 DEF Finish, TypeOK, password, sessions
<1>13. ASSUME NEW r \in Req, Logout(r)  PROVE TypeOK'
  <2>1. req[r].id \in SessionID
    BY <1>13, <1>r DEF Logout
  <2>2. left' \in Sessions /\ Kept(left') \subseteq Kept(left)
    BY <1>0, <1>13, <2>1, BoundAssumption DEF Logout, Fits, Sessions, Kept, Gone
  <2>3. Fits(left')
    BY <1>0, <2>2, FewerFit
  <2>4. Rest /\ cookie' \in [Browser -> SessionID \cup {None}]
    BY <1>0, <1>13, <2>1 DEF Logout, TypeOK
  <2>5. req' \in [Req -> Request \cup {IdleReq}]
    BY <1>13 DEF Logout, TypeOK
  <2> QED  BY <1>13, <2>3, <2>4, <2>5 DEF Logout, password, TypeOK, Fits, Sessions, Kept
<1>14. CASE Tick
  <2>1. left' \in Sessions /\ Kept(left') \subseteq Kept(left)
    BY <1>0, <1>14, BoundAssumption DEF Tick, Fits, Sessions, Kept, Gone, Live
  <2>2. Fits(left')
    BY <1>0, <2>1, FewerFit
  <2>3. Rest
    BY <1>0, <1>14, BoundAssumption DEF Tick, TypeOK, Ended
  <2> QED  BY <1>14, <2>2, <2>3 DEF Tick, password, TypeOK, Fits, Sessions, Kept
<1>15. CASE UNCHANGED vars
  BY <1>15 DEF vars, TypeOK
<1> HIDE DEF Rest
<1> QED
  BY <1>1, <1>2, <1>3, <1>4, <1>5, <1>6, <1>7, <1>8, <1>9, <1>10, <1>11, <1>12, <1>13, <1>14,
     <1>15 DEF Next

\* Every variable keeps its type, and the map of sessions its bound.
THEOREM TypeCorrect == Spec => []TypeOK
  BY TypeInit, TypeStep, PTL DEF Spec

-----------------------------------------------------------------------------
(* Sessions *)

\* The time that is left is the time sessionTTL leaves of the idle one.
Agrees(id) == /\ Live(id) <=> idle[id] <= TTL
              /\ Live(id) => left[id] = TTL - idle[id]

SessionInv == \A id \in SessionID : Agrees(id)

\* What an action does that only looks a session up.
LEMMA UseAgrees ==
    ASSUME TypeOK, SessionInv, NEW id \in SessionID, Use(id)
    PROVE  SessionInv'
<1>1. ASSUME NEW i \in SessionID  PROVE Agrees(i)'
  <2>1. Agrees(i) /\ Agrees(id)
    BY DEF SessionInv
  <2>2. CASE i # id
    BY <2>1, <2>2 DEF Use, Get, Agrees, Live, TypeOK
  <2>3. CASE i = id
    BY <2>1, <2>3, BoundAssumption
       DEF Use, Get, Agrees, Live, TypeOK, Gone, Expired, Ended
  <2> QED  BY <2>2, <2>3
<1> QED
  BY <1>1 DEF SessionInv

LEMMA SessionStep ==
    ASSUME TypeOK, SessionInv, [Next]_vars
    PROVE  SessionInv'
<1>0. \A id \in SessionID : Agrees(id)
  BY DEF SessionInv
<1>r. ASSUME NEW r \in Req, req[r].pc # "idle"  PROVE req[r].id \in SessionID
  BY <1>r DEF TypeOK, IdleReq, Request
<1>1. CASE UNCHANGED sessions
  BY <1>0, <1>1 DEF sessions, SessionInv, Agrees, Live
<1>2. CASE Crash
  BY <1>2, BoundAssumption DEF Crash, SessionInv, Agrees, Live, Gone, Ended
<1>3. ASSUME NEW b \in Browser, NEW answered \in BOOLEAN, Login(b, answered)  PROVE SessionInv'
  <2> DEFINE id == CHOOSE i \in SessionID : ~Held(i)
  <2>1. id \in SessionID
    BY <1>3 DEF Login
  <2>2. Create(id) /\ idle' = [idle EXCEPT ![id] = 0]
    BY <1>3 DEF Login
  <2> HIDE DEF id
  <2>3. left' = [Evicted EXCEPT ![id] = TTL]
    BY <2>2 DEF Create
  <2>4. ASSUME NEW i \in SessionID  PROVE Agrees(i)'
    <3>1. CASE i = id
      BY <2>1, <2>2, <2>3, <3>1, BoundAssumption DEF Agrees, Live, Evicted, TypeOK
    <3>2. CASE i # id
      BY <1>0, <2>1, <2>2, <2>3, <3>2 DEF Agrees, Live, Evicted, TypeOK, Expired, Gone
    <3> QED  BY <3>1, <3>2
  <2> QED  BY <2>4 DEF SessionInv
<1>4. ASSUME NEW b \in Browser, RefuseLogin(b)  PROVE SessionInv'
  BY <1>0, <1>4 DEF RefuseLogin, SessionInv, Agrees, Live, Evicted, TypeOK, Expired, Gone
<1>5. ASSUME NEW b \in Browser, VisitLogin(b)  PROVE SessionInv'
  <2>1. cookie[b] \in SessionID /\ Use(cookie[b])
    BY <1>5 DEF VisitLogin, TypeOK
  <2> QED  BY <2>1, UseAgrees
<1>6. ASSUME NEW r \in Req, NEW b \in Browser, NEW kind \in {"form", "page", "logout"},
             Enter(r, b, kind)
      PROVE  SessionInv'
  <2>1. cookie[b] \in SessionID /\ Use(cookie[b])
    BY <1>6 DEF Enter, TypeOK
  <2> QED  BY <2>1, UseAgrees
<1>7. ASSUME NEW r \in Req, CheckForm(r) \/ Handle(r)  PROVE SessionInv'
  <2>1. req[r].id \in SessionID /\ Use(req[r].id)
    BY <1>7, <1>r DEF CheckForm, Handle
  <2> QED  BY <2>1, UseAgrees
<1>8. ASSUME NEW r \in Req, Logout(r)  PROVE SessionInv'
  <2>1. /\ req[r].id \in SessionID
        /\ left' = [left EXCEPT ![req[r].id] = Gone]
        /\ idle' = [idle EXCEPT ![req[r].id] = Ended]
    BY <1>8, <1>r DEF Logout
  <2> QED  BY <1>0, <2>1, BoundAssumption DEF SessionInv, Agrees, Live, TypeOK, Gone, Ended
<1>9. CASE Tick
  BY <1>0, <1>9, BoundAssumption DEF Tick, SessionInv, Agrees, Live, TypeOK, Ended
<1>10. ASSUME NEW conf \in Configured \cup {None}, Start(conf)  PROVE UNCHANGED sessions
  BY <1>10 DEF Start
<1>11. ASSUME NEW quiet \in BOOLEAN, Serve(quiet)  PROVE UNCHANGED sessions
  BY <1>11 DEF Serve
<1>12. Reset => UNCHANGED sessions
  BY DEF Reset
<1>13. ASSUME NEW b \in Browser, Leave(b)  PROVE UNCHANGED sessions
  BY <1>13 DEF Leave
<1>14. ASSUME NEW r \in Req, Finish(r)  PROVE UNCHANGED sessions
  BY <1>14 DEF Finish
<1>15. UNCHANGED vars => UNCHANGED sessions
  BY DEF vars, sessions
<1> QED
  BY <1>1, <1>2, <1>3, <1>4, <1>5, <1>6, <1>7, <1>8, <1>9, <1>10, <1>11, <1>12, <1>13, <1>14,
     <1>15 DEF Next

LEMMA SessionInit == Init => SessionInv
BY BoundAssumption DEF Init, SessionInv, Agrees, Live, Gone, Ended

\* A session is found exactly while it is in use, however lookups, logins, logouts,
\* evictions and the clock overlap.
THEOREM SessionsLast == Spec => []LiveUntilEnded
<1>1. TypeOK /\ SessionInv /\ [Next]_vars => TypeOK' /\ SessionInv'
  BY TypeStep, SessionStep
<1>2. SessionInv => LiveUntilEnded
  BY DEF SessionInv, LiveUntilEnded, Agrees
<1> QED
  BY <1>1, <1>2, TypeInit, SessionInit, PTL DEF Spec

-----------------------------------------------------------------------------
(* Passwords *)

\* The row holds the only password that was printed and not voided; a process runs
\* on it, on a configured one, or on one whose row was deleted under it.
PasswordInv ==
    /\ proc = "down" => force = None /\ fresh = None
    /\ log \ voided \subseteq {stored}
    /\ stored \notin voided
    /\ fresh = None \/ fresh = stored \/ fresh \in voided
    /\ proc # "down" /\ force \notin Configured => force = stored \/ stored = None
    /\ proc # "down" /\ ~stale => force \notin voided
    /\ \A id \in SessionID : Live(id) => Serving /\ opened[id] = force

LEMMA PasswordInit == Init => PasswordInv
BY DEF Init, PasswordInv, Live, Gone

LEMMA PasswordStep ==
    ASSUME TypeOK, SessionInv, PasswordInv, [Next]_vars
    PROVE  PasswordInv'
<1> DEFINE Opened == \A id \in SessionID : Live(id) => Serving /\ opened[id] = force
<1>k. ASSUME UNCHANGED password, Opened'  PROVE PasswordInv'
  BY <1>k DEF PasswordInv, password
<1>d. ASSUME UNCHANGED <<password, opened>>,
             \A id \in SessionID : Live(id)' => Live(id)
      PROVE  PasswordInv'
  BY <1>d, <1>k DEF PasswordInv, password, Serving
<1>1. ASSUME NEW conf \in Configured \cup {None}, Start(conf)  PROVE PasswordInv'
  <2>1. \A id \in SessionID : ~Live(id)
    BY <1>1 DEF Start, PasswordInv, Serving
  <2>2. Opened'
    BY <1>1, <2>1 DEF Start, sessions, Live
  <2>3. voided \subseteq Password /\ None \notin Password /\ Password \cap Configured = {}
        /\ None \notin Configured
    BY PasswordAssumption DEF TypeOK
  <2>4. /\ proc' = "starting" /\ UNCHANGED <<log, voided>>
        /\ log \ voided \subseteq {stored} /\ stored \notin voided
    BY <1>1 DEF Start, PasswordInv
  <2> HIDE DEF Opened
  <2>5. CASE conf # None
    <3>1. conf \in Configured /\ conf \notin voided
      BY <2>3, <2>5
    <3>2. force' = conf /\ fresh' = None /\ stored' = stored
      BY <1>1, <2>5 DEF Start
    <3> QED  BY <2>2, <2>4, <3>1, <3>2 DEF PasswordInv, Opened
  <2>6. CASE conf = None /\ stored # None
    <3>1. force' = stored /\ fresh' = None /\ stored' = stored
      BY <1>1, <2>6 DEF Start
    <3> QED  BY <2>2, <2>4, <3>1 DEF PasswordInv, Opened
  <2>7. CASE conf = None /\ stored = None
    <3>1. PICK p \in Password \ (log \cup voided) : stored' = p /\ force' = p /\ fresh' = p
      BY <1>1, <2>7 DEF Start
    <3>2. log \ voided = {}
      BY <2>3, <2>4, <2>7 DEF TypeOK
    <3> QED  BY <2>2, <2>4, <3>1, <3>2 DEF PasswordInv, Opened
  <2> QED  BY <2>5, <2>6, <2>7
<1>2. ASSUME NEW quiet \in BOOLEAN, Serve(quiet)  PROVE PasswordInv'
  <2>1. Opened'
    BY <1>2 DEF Serve, PasswordInv, sessions, Live, Serving
  <2> QED  BY <1>2, <2>1 DEF Serve, PasswordInv
<1>3. CASE Crash
  BY <1>3 DEF Crash, PasswordInv, Live, Gone
<1>4. CASE Reset
  <2>1. Opened'
    BY <1>4 DEF Reset, PasswordInv, sessions, Live, Serving
  <2>2. None \notin voided'
    BY <1>4, PasswordAssumption DEF Reset, TypeOK
  <2> QED  BY <1>4, <2>1, <2>2 DEF Reset, PasswordInv
<1>5. ASSUME NEW b \in Browser, NEW answered \in BOOLEAN, Login(b, answered)  PROVE PasswordInv'
  <2> DEFINE id == CHOOSE i \in SessionID : ~Held(i)
  <2>1. id \in SessionID
    BY <1>5 DEF Login
  <2>2. /\ Create(id)
        /\ opened' = [opened EXCEPT ![id] = force]
        /\ UNCHANGED password /\ Serving
    BY <1>5 DEF Login
  <2> HIDE DEF id
  <2>3. \A i \in SessionID \ {id} : Live(i)' => Live(i)
    BY <2>1, <2>2 DEF Create, Evicted, Live, Gone, TypeOK
  <2>4. Opened'
    BY <2>1, <2>2, <2>3 DEF PasswordInv, password, TypeOK, Serving
  <2> QED  BY <1>k, <2>2, <2>4
<1>6. ASSUME NEW b \in Browser, RefuseLogin(b)  PROVE PasswordInv'
  <2>1. \A i \in SessionID : Live(i)' => Live(i)
    BY <1>6 DEF RefuseLogin, Evicted, Live, Gone
  <2> QED  BY <1>6, <1>d, <2>1 DEF RefuseLogin
<1>u. ASSUME NEW id \in SessionID, Use(id)  PROVE \A i \in SessionID : Live(i)' => Live(i)
  BY <1>u DEF Use, Get, Live, Gone, TypeOK
<1>7. ASSUME NEW b \in Browser, VisitLogin(b)  PROVE PasswordInv'
  <2>1. cookie[b] \in SessionID /\ Use(cookie[b])
    BY <1>7 DEF VisitLogin, TypeOK
  <2> QED  BY <1>7, <1>d, <1>u, <2>1 DEF VisitLogin, Use
<1>r. ASSUME NEW r \in Req, req[r].pc # "idle"  PROVE req[r].id \in SessionID
  BY <1>r DEF TypeOK, IdleReq, Request
<1>8. ASSUME NEW r \in Req, NEW b \in Browser, NEW kind \in {"form", "page", "logout"},
             Enter(r, b, kind)
      PROVE  PasswordInv'
  <2>1. cookie[b] \in SessionID /\ Use(cookie[b])
    BY <1>8 DEF Enter, TypeOK
  <2> QED  BY <1>8, <1>d, <1>u, <2>1 DEF Enter, Use
<1>9. ASSUME NEW r \in Req, CheckForm(r) \/ Handle(r)  PROVE PasswordInv'
  <2>1. req[r].id \in SessionID /\ Use(req[r].id) /\ UNCHANGED password
    BY <1>9, <1>r DEF CheckForm, Handle
  <2> QED  BY <1>d, <1>u, <2>1 DEF Use
<1>10. ASSUME NEW r \in Req, Finish(r)  PROVE PasswordInv'
  BY <1>10, <1>d DEF Finish, sessions, Live
<1>11. ASSUME NEW r \in Req, Logout(r)  PROVE PasswordInv'
  <2>1. /\ req[r].id \in SessionID /\ UNCHANGED password
        /\ left' = [left EXCEPT ![req[r].id] = Gone]
        /\ opened' = [opened EXCEPT ![req[r].id] = None]
    BY <1>11, <1>r DEF Logout
  <2>2. Opened'
    BY <2>1 DEF PasswordInv, password, Live, Gone, TypeOK, Serving
  <2> QED  BY <1>k, <2>1, <2>2
<1>12. CASE Tick
  <2>1. ASSUME NEW id \in SessionID, Live(id)'  PROVE Live(id) /\ idle'[id] <= TTL
    BY <1>12, <2>1, BoundAssumption DEF Tick, Live, SessionInv, Agrees, TypeOK
  <2>2. \A id \in SessionID : Live(id)' => opened'[id] = opened[id]
    BY <1>12, <2>1 DEF Tick
  <2>3. Opened'
    BY <1>12, <2>1, <2>2 DEF Tick, PasswordInv, password, Serving
  <2> QED  BY <1>12, <1>k, <2>3 DEF Tick
<1>13. ASSUME NEW b \in Browser, Leave(b)  PROVE PasswordInv'
  BY <1>13, <1>d DEF Leave, sessions, Live
<1>14. CASE UNCHANGED vars
  BY <1>14, <1>d DEF vars, password, Live
<1> QED
  BY <1>1, <1>2, <1>3, <1>4, <1>5, <1>6, <1>7, <1>8, <1>9, <1>10, <1>11, <1>12, <1>13, <1>14
     DEF Next

\* A password that was read in the log is the one a process without ADMIN_PASSWORD
\* checks, over any number of restarts and crashes, until its row is deleted.
THEOREM ReadPasswordStays == Spec => []ReadPasswordWorks
<1>1. TypeOK /\ SessionInv /\ PasswordInv /\ [Next]_vars => TypeOK' /\ SessionInv' /\ PasswordInv'
  BY TypeStep, SessionStep, PasswordStep
<1>2. TypeOK /\ PasswordInv => ReadPasswordWorks
  BY PasswordAssumption DEF TypeOK, PasswordInv, ReadPasswordWorks, Serving
<1> QED
  BY <1>1, <1>2, TypeInit, SessionInit, PasswordInit, PTL DEF Spec

\* A reset and a restart leave nothing of the passwords before it.
THEOREM ResetIsComplete == Spec => []ResetLocksOut
<1>1. TypeOK /\ SessionInv /\ PasswordInv /\ [Next]_vars => TypeOK' /\ SessionInv' /\ PasswordInv'
  BY TypeStep, SessionStep, PasswordStep
<1>2. PasswordInv => ResetLocksOut
  BY DEF PasswordInv, ResetLocksOut, Serving
<1> QED
  BY <1>1, <1>2, TypeInit, SessionInit, PasswordInit, PTL DEF Spec
=============================================================================
