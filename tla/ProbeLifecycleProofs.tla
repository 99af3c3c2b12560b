------------------------ MODULE ProbeLifecycleProofs ------------------------
(***************************************************************************)
(* Proofs about ProbeLifecycle, for every set of probe identifiers and of  *)
(* request slots and every bound.                                          *)
(***************************************************************************)
EXTENDS ProbeLifecycle, TLAPS

USE NoProbeAssumption, BoundAssumption, OverlapAssumption

-----------------------------------------------------------------------------
(* Type correctness *)

LEMMA TypeInit == Init => TypeOK
  BY DEF Init, TypeOK, ActivePush, ActiveAdmin, IdlePush, IdleAdmin, Origin, NoEntry

\* Marking the requests and the state of a life that ended keeps their types.
LEMMA EndLifeType ==
    ASSUME TypeOK, NEW p \in ProbeID, EndLife(p)
    PROVE  /\ push' \in [PushReq -> ActivePush \cup {IdlePush}]
           /\ origin' \in [ProbeID -> Origin]
           /\ bucket' \in [ProbeID -> Origin \cup {"none"}]
<1>1. ASSUME NEW r \in PushReq, push[r].probe = p
      PROVE  [push[r] EXCEPT !.stale = TRUE] \in ActivePush
  <2>1. push[r] \in ActivePush \cup {IdlePush} /\ push[r] # IdlePush
    BY <1>1 DEF TypeOK, IdlePush
  <2>2. QED
    BY <2>1 DEF ActivePush
<1>2. push' \in [PushReq -> ActivePush \cup {IdlePush}]
  BY <1>1 DEF EndLife, TypeOK
<1>3. QED
  BY <1>2 DEF EndLife, TypeOK, Origin

LEMMA TypeStep == TypeOK /\ [Next]_vars => TypeOK'
<1> SUFFICES ASSUME TypeOK, [Next]_vars
             PROVE  TypeOK'
  OBVIOUS
<1> USE DEF TypeOK, ActivePush, ActiveAdmin, IdlePush, IdleAdmin, Origin, NoEntry, table, entries
<1>1. ASSUME NEW r \in PushReq, NEW p \in ProbeID, Authenticate(r, p) PROVE TypeOK'
  BY <1>1 DEF Authenticate
<1>2. ASSUME NEW r \in PushReq, Limit(r) PROVE TypeOK'
  BY <1>2 DEF Limit
<1>3. ASSUME NEW r \in PushReq, Validate(r) PROVE TypeOK'
  BY <1>3 DEF Validate
<1>4. ASSUME NEW r \in PushReq, Put(r) PROVE TypeOK'
  <2>1. ASSUME NEW s \in PushReq, push[s].pc = "put"
        PROVE  [push[s] EXCEPT !.overtaken = TRUE] \in ActivePush
    <3>1. push[s] \in ActivePush
      BY <2>1
    <3>2. QED
      BY <3>1
  <2>2. push' \in [PushReq -> ActivePush \cup {IdlePush}]
    BY <1>4, <2>1 DEF Put
  <2>3. push[r].probe \in ProbeID /\ push[r].stamp \in Nat
    BY <1>4 DEF Put
  <2>4. QED
    BY <1>4, <2>2, <2>3 DEF Put
<1>5. ASSUME NEW a \in AdminReq, NEW p \in ProbeID, ToggleRead(a, p) PROVE TypeOK'
  BY <1>5 DEF ToggleRead
<1>6. ASSUME NEW a \in AdminReq, NEW p \in ProbeID, Delete(a, p) PROVE TypeOK'
  <2>1. token[p] \in Nat
    OBVIOUS
  <2>2. QED
    BY <1>6, <2>1, EndLifeType DEF Delete, Registered
<1>7. ASSUME NEW a \in AdminReq, ToggleWrite(a) PROVE TypeOK'
  <2> DEFINE p == admin[a].probe
  <2>1. admin[a].pc = "toggle" /\ p \in ProbeID
    BY <1>7 DEF ToggleWrite
  <2>2. CASE ~Registered(p)
    BY <1>7, <2>1, <2>2 DEF ToggleWrite
  <2>3. CASE Registered(p) /\ ~admin[a].was
    BY <1>7, <2>1, <2>3 DEF ToggleWrite
  <2>4. CASE Registered(p) /\ admin[a].was
    <3>1. EndLife(p)
      BY <1>7, <2>4 DEF ToggleWrite
    <3>2. QED
      BY <1>7, <2>1, <2>4, <3>1, EndLifeType DEF ToggleWrite
  <2>5. QED
    BY <2>2, <2>3, <2>4
<1>8. ASSUME NEW a \in AdminReq, RemoveBucket(a) PROVE TypeOK'
  BY <1>8 DEF RemoveBucket
<1>9. ASSUME NEW a \in AdminReq, DropEntry(a) PROVE TypeOK'
  BY <1>9 DEF DropEntry
<1>10. ASSUME NEW p \in ProbeID, Create(p) PROVE TypeOK'
  BY <1>10 DEF Create
<1>11. ASSUME NEW p \in ProbeID, Rotate(p) PROVE TypeOK'
  <2>1. issued' \in Nat /\ token' \in [ProbeID -> Nat]
    BY <1>11 DEF Rotate
  <2>2. revoked' = revoked \cup {token[p]} /\ token[p] \in Nat
    BY <1>11 DEF Rotate
  <2>3. QED
    BY <1>11, <2>1, <2>2 DEF Rotate
<1>12. CASE Restart
  BY <1>12 DEF Restart
<1>13. CASE Tick
  BY <1>13 DEF Tick
<1>14. CASE UNCHANGED vars
  BY <1>14 DEF vars
<1>15. QED
  BY <1>1, <1>2, <1>3, <1>4, <1>5, <1>6, <1>7, <1>8, <1>9, <1>10, <1>11, <1>12,
     <1>13, <1>14 DEF Next

\* Every variable keeps its type, whatever the interleaving.
THEOREM TypeCorrect == Spec => []TypeOK
  BY TypeInit, TypeStep, PTL DEF Spec

-----------------------------------------------------------------------------
(* Only late pushes leave state behind *)

\* What makes the two invariants inductive: a push in flight that is not stale
\* belongs to a probe that is still enabled, so what it stores is "current".
FreshPushEnabled ==
    \A r \in PushReq : push[r].pc # "idle" /\ ~push[r].stale
                         => row[push[r].probe] = "enabled"

LifeInv == /\ TypeOK
           /\ FreshPushEnabled
           /\ OnlyLatePushesLeaveEntries
           /\ OnlyLatePushesLeaveBuckets

LEMMA FreshStep == TypeOK /\ FreshPushEnabled /\ [Next]_vars => FreshPushEnabled'
<1> SUFFICES ASSUME TypeOK, FreshPushEnabled, [Next]_vars,
                    NEW q \in PushReq, push'[q].pc # "idle", ~push'[q].stale
             PROVE  row'[push'[q].probe] = "enabled"
  BY DEF FreshPushEnabled
<1> USE DEF TypeOK, FreshPushEnabled, ActivePush, IdlePush, table, entries
<1>1. ASSUME NEW r \in PushReq, NEW p \in ProbeID, Authenticate(r, p)
      PROVE  row'[push'[q].probe] = "enabled"
  BY <1>1 DEF Authenticate
<1>2. ASSUME NEW r \in PushReq, PushStep(r)
      PROVE  row'[push'[q].probe] = "enabled"
  BY <1>2 DEF PushStep, Limit, Validate, Put
<1>3. ASSUME NEW p \in ProbeID, EndLife(p), \A o \in ProbeID \ {p} : row'[o] = row[o]
      PROVE  row'[push'[q].probe] = "enabled"
  BY <1>3 DEF EndLife
<1>4. ASSUME NEW a \in AdminReq, NEW p \in ProbeID, Delete(a, p)
      PROVE  row'[push'[q].probe] = "enabled"
  BY <1>3, <1>4 DEF Delete
<1>5. ASSUME NEW a \in AdminReq, ToggleWrite(a)
      PROVE  row'[push'[q].probe] = "enabled"
  <2>1. CASE ~Registered(admin[a].probe) \/ ~admin[a].was
    BY <1>5, <2>1 DEF ToggleWrite
  <2>2. CASE Registered(admin[a].probe) /\ admin[a].was
    <3>1. admin[a].probe \in ProbeID
      BY <1>5 DEF ToggleWrite, ActiveAdmin, IdleAdmin
    <3>2. EndLife(admin[a].probe) /\ row' = [row EXCEPT ![admin[a].probe] = "disabled"]
      BY <1>5, <2>2 DEF ToggleWrite
    <3>3. QED
      BY <1>3, <3>1, <3>2
  <2>3. QED
    BY <2>1, <2>2
<1>6. ASSUME NEW p \in ProbeID, Create(p) \/ Rotate(p)
      PROVE  row'[push'[q].probe] = "enabled"
  BY <1>6 DEF Create, Rotate
<1>7. CASE Restart
  BY <1>7 DEF Restart
<1>8. ASSUME UNCHANGED <<row, push>>
      PROVE  row'[push'[q].probe] = "enabled"
  BY <1>8
<1>9. QED
  BY <1>1, <1>2, <1>4, <1>5, <1>6, <1>7, <1>8
     DEF Next, PushStep, ToggleRead, RemoveBucket, DropEntry, Tick, vars

LEMMA EntryStep == LifeInv /\ [Next]_vars => OnlyLatePushesLeaveEntries'
<1> SUFFICES ASSUME LifeInv, [Next]_vars,
                    NEW q \in ProbeID, latest'[q] # NoEntry, ~EntryOwed(q)'
             PROVE  \/ origin'[q] = "late"
                    \/ origin'[q] = "current" /\ row'[q] = "enabled"
  BY DEF OnlyLatePushesLeaveEntries
<1> DEFINE Goal == \/ origin'[q] = "late"
                   \/ origin'[q] = "current" /\ row'[q] = "enabled"
<1> USE DEF LifeInv, TypeOK, OnlyLatePushesLeaveEntries, EntryOwed, table, entries
\* A step that leaves the entry alone, owes no less and disables nothing.
<1>1. ASSUME latest'[q] = latest[q], origin'[q] = origin[q],
             row[q] = "enabled" => row'[q] = "enabled",
             EntryOwed(q) => EntryOwed(q)'
      PROVE  Goal
  BY <1>1
<1>2. ASSUME NEW r \in PushReq, NEW p \in ProbeID, Authenticate(r, p) PROVE Goal
  BY <1>1, <1>2 DEF Authenticate
<1>3. ASSUME NEW r \in PushReq, Limit(r) \/ Validate(r) PROVE Goal
  BY <1>1, <1>3 DEF Limit, Validate
<1>4. ASSUME NEW r \in PushReq, Put(r) PROVE Goal
  <2>1. CASE push[r].probe = q
    BY <1>4, <2>1 DEF Put, FreshPushEnabled
  <2>2. CASE push[r].probe # q
    BY <1>1, <1>4, <2>2 DEF Put
  <2>3. QED
    BY <2>1, <2>2
<1>5. ASSUME NEW a \in AdminReq, NEW p \in ProbeID, ToggleRead(a, p) PROVE Goal
  BY <1>1, <1>5 DEF ToggleRead
\* The request that ends a life owes the clean-up from then on.
<1>6. ASSUME NEW a \in AdminReq, NEW p \in ProbeID, Delete(a, p) PROVE Goal
  <2>1. EntryOwed(p)'
    BY <1>6 DEF Delete, IdleAdmin
  <2>2. q # p /\ (EntryOwed(q) => EntryOwed(q)')
    BY <1>6, <2>1 DEF Delete
  <2>3. QED
    BY <1>1, <1>6, <2>2 DEF Delete, EndLife
<1>7. ASSUME NEW a \in AdminReq, ToggleWrite(a) PROVE Goal
  <2>1. EntryOwed(q) => EntryOwed(q)'
    BY <1>7 DEF ToggleWrite
  <2>2. CASE admin[a].probe # q \/ ~Registered(admin[a].probe) \/ ~admin[a].was
    BY <1>1, <1>7, <2>1, <2>2 DEF ToggleWrite, EndLife, Registered
  <2>3. CASE admin[a].probe = q /\ Registered(q) /\ admin[a].was
    BY <1>7, <2>3 DEF ToggleWrite, ActiveAdmin, IdleAdmin
  <2>4. QED
    BY <2>2, <2>3
<1>8. ASSUME NEW a \in AdminReq, RemoveBucket(a) PROVE Goal
  <2>1. EntryOwed(q) => EntryOwed(q)'
    BY <1>8 DEF RemoveBucket, ActiveAdmin, IdleAdmin
  <2>2. QED
    BY <1>1, <1>8, <2>1 DEF RemoveBucket
<1>9. ASSUME NEW a \in AdminReq, DropEntry(a) PROVE Goal
  <2>1. q # admin[a].probe
    BY <1>9 DEF DropEntry
  <2>2. EntryOwed(q) => EntryOwed(q)'
    BY <1>9, <2>1 DEF DropEntry
  <2>3. QED
    BY <1>1, <1>9, <2>1, <2>2 DEF DropEntry
<1>10. ASSUME NEW p \in ProbeID, Create(p) PROVE Goal
  BY <1>1, <1>10 DEF Create
<1>11. ASSUME NEW p \in ProbeID, Rotate(p) PROVE Goal
  BY <1>1, <1>11 DEF Rotate
<1>12. CASE Restart
  BY <1>12 DEF Restart
<1>13. CASE Tick \/ UNCHANGED vars
  BY <1>1, <1>13 DEF Tick, vars
<1>14. QED
  BY <1>2, <1>3, <1>4, <1>5, <1>6, <1>7, <1>8, <1>9, <1>10, <1>11, <1>12, <1>13 DEF Next

LEMMA BucketStep == LifeInv /\ [Next]_vars => OnlyLatePushesLeaveBuckets'
<1> SUFFICES ASSUME LifeInv, [Next]_vars,
                    NEW q \in ProbeID, bucket'[q] # "none", ~BucketOwed(q)'
             PROVE  \/ bucket'[q] = "late"
                    \/ bucket'[q] = "current" /\ row'[q] = "enabled"
  BY DEF OnlyLatePushesLeaveBuckets
<1> DEFINE Goal == \/ bucket'[q] = "late"
                   \/ bucket'[q] = "current" /\ row'[q] = "enabled"
<1> USE DEF LifeInv, TypeOK, OnlyLatePushesLeaveBuckets, BucketOwed, table, entries
<1>1. ASSUME bucket'[q] = bucket[q], row[q] = "enabled" => row'[q] = "enabled",
             BucketOwed(q) => BucketOwed(q)'
      PROVE  Goal
  BY <1>1
<1>2. ASSUME NEW r \in PushReq, NEW p \in ProbeID, Authenticate(r, p) PROVE Goal
  BY <1>1, <1>2 DEF Authenticate
<1>3. ASSUME NEW r \in PushReq, Limit(r) PROVE Goal
  <2>1. CASE push[r].probe = q /\ bucket[q] = "none"
    BY <1>3, <2>1 DEF Limit, FreshPushEnabled
  <2>2. CASE ~(push[r].probe = q /\ bucket[q] = "none")
    BY <1>1, <1>3, <2>2 DEF Limit
  <2>3. QED
    BY <2>1, <2>2
<1>4. ASSUME NEW r \in PushReq, Validate(r) \/ Put(r) PROVE Goal
  BY <1>1, <1>4 DEF Validate, Put
<1>5. ASSUME NEW a \in AdminReq, NEW p \in ProbeID, ToggleRead(a, p) PROVE Goal
  BY <1>1, <1>5 DEF ToggleRead
<1>6. ASSUME NEW a \in AdminReq, NEW p \in ProbeID, Delete(a, p) PROVE Goal
  <2>1. BucketOwed(p)'
    BY <1>6 DEF Delete, IdleAdmin
  <2>2. q # p /\ (BucketOwed(q) => BucketOwed(q)')
    BY <1>6, <2>1 DEF Delete
  <2>3. QED
    BY <1>1, <1>6, <2>2 DEF Delete, EndLife
<1>7. ASSUME NEW a \in AdminReq, ToggleWrite(a) PROVE Goal
  <2>1. BucketOwed(q) => BucketOwed(q)'
    BY <1>7 DEF ToggleWrite
  <2>2. CASE admin[a].probe # q \/ ~Registered(admin[a].probe) \/ ~admin[a].was
    BY <1>1, <1>7, <2>1, <2>2 DEF ToggleWrite, EndLife, Registered
  <2>3. CASE admin[a].probe = q /\ Registered(q) /\ admin[a].was
    BY <1>7, <2>3 DEF ToggleWrite, ActiveAdmin, IdleAdmin
  <2>4. QED
    BY <2>2, <2>3
<1>8. ASSUME NEW a \in AdminReq, RemoveBucket(a) PROVE Goal
  <2>1. q # admin[a].probe
    BY <1>8 DEF RemoveBucket
  <2>2. BucketOwed(q) => BucketOwed(q)'
    BY <1>8, <2>1 DEF RemoveBucket
  <2>3. QED
    BY <1>1, <1>8, <2>1, <2>2 DEF RemoveBucket
<1>9. ASSUME NEW a \in AdminReq, DropEntry(a) PROVE Goal
  <2>1. BucketOwed(q) => BucketOwed(q)'
    BY <1>9 DEF DropEntry, ActiveAdmin, IdleAdmin
  <2>2. QED
    BY <1>1, <1>9, <2>1 DEF DropEntry
<1>10. ASSUME NEW p \in ProbeID, Create(p) \/ Rotate(p) PROVE Goal
  BY <1>1, <1>10 DEF Create, Rotate
<1>11. CASE Restart
  BY <1>11 DEF Restart
<1>12. CASE Tick \/ UNCHANGED vars
  BY <1>1, <1>12 DEF Tick, vars
<1>13. QED
  BY <1>2, <1>3, <1>4, <1>5, <1>6, <1>7, <1>8, <1>9, <1>10, <1>11, <1>12 DEF Next

LEMMA LifeInvariant == Spec => []LifeInv
<1>1. Init => LifeInv
  BY TypeInit DEF Init, LifeInv, FreshPushEnabled, OnlyLatePushesLeaveEntries,
     OnlyLatePushesLeaveBuckets, IdlePush
<1>2. LifeInv /\ [Next]_vars => LifeInv'
  BY TypeStep, FreshStep, EntryStep, BucketStep DEF LifeInv
<1>3. QED
  BY <1>1, <1>2, PTL DEF Spec

\* With any number of administrators and pushes, a measurement that survives the
\* clean-up of the life it belongs to was put by a push already past its
\* authentication when that life ended.
THEOREM LateEntries == Spec => []OnlyLatePushesLeaveEntries
  BY LifeInvariant, PTL DEF LifeInv

\* And so was a rate-limit bucket that survives it.
THEOREM LateBuckets == Spec => []OnlyLatePushesLeaveBuckets
  BY LifeInvariant, PTL DEF LifeInv

-----------------------------------------------------------------------------
(* Tokens *)

\* Every token in the table or out of it for good has been issued, so the next
\* one issued is neither.
TokensIssued ==
    /\ \A p \in ProbeID : Registered(p) => token[p] \in 1 .. issued
    /\ revoked \subseteq 1 .. issued

TokenInv == TypeOK /\ TokensIssued /\ RevokedStaysRevoked

LEMMA TokenStep == TokenInv /\ [Next]_vars => TokenInv'
<1> SUFFICES ASSUME TokenInv, [Next]_vars
             PROVE  TokensIssued' /\ RevokedStaysRevoked'
  BY TypeStep DEF TokenInv
<1> USE DEF TokenInv, TypeOK, TokensIssued, RevokedStaysRevoked, Registered, table
<1>1. ASSUME NEW p \in ProbeID, Create(p)
      PROVE  TokensIssued' /\ RevokedStaysRevoked'
  BY <1>1 DEF Create
<1>2. ASSUME NEW p \in ProbeID, Rotate(p)
      PROVE  TokensIssued' /\ RevokedStaysRevoked'
  <2>1. TokensIssued'
    <3>1. token[p] \in 1 .. issued /\ 1 .. issued \subseteq 1 .. issued'
      BY <1>2 DEF Rotate
    <3>2. revoked' \subseteq 1 .. issued'
      BY <1>2, <3>1 DEF Rotate
    <3>3. QED
      BY <1>2, <3>1, <3>2 DEF Rotate
  <2>2. ASSUME NEW q \in ProbeID, Registered(q)'
        PROVE  /\ token'[q] \notin revoked'
               /\ \A o \in ProbeID : Registered(o)' /\ token'[o] = token'[q] => o = q
    <3>1. CASE q = p
      BY <1>2, <3>1 DEF Rotate
    <3>2. CASE q # p
      BY <1>2, <2>2, <3>2 DEF Rotate
    <3>3. QED
      BY <3>1, <3>2
  <2>3. QED
    BY <2>1, <2>2
<1>3. ASSUME NEW a \in AdminReq, NEW p \in ProbeID, Delete(a, p)
      PROVE  TokensIssued' /\ RevokedStaysRevoked'
  BY <1>3 DEF Delete
<1>4. ASSUME NEW a \in AdminReq, ToggleWrite(a)
      PROVE  TokensIssued' /\ RevokedStaysRevoked'
  BY <1>4 DEF ToggleWrite
<1>5. ASSUME UNCHANGED <<row, token, issued, revoked>>
      PROVE  TokensIssued' /\ RevokedStaysRevoked'
  BY <1>5
<1>6. QED
  BY <1>1, <1>2, <1>3, <1>4, <1>5
     DEF Next, Authenticate, Limit, Validate, Put, ToggleRead, RemoveBucket, DropEntry,
         Restart, Tick, vars

\* A token resolves to one probe at most and, once rotated away or deleted with
\* its probe, to none ever again.
THEOREM TokensRevoked == Spec => []RevokedStaysRevoked
<1>1. Init => TokenInv
  BY TypeInit DEF Init, TokenInv, TokensIssued, RevokedStaysRevoked, Registered
<1>2. QED
  BY <1>1, TokenStep, PTL DEF Spec, TokenInv

-----------------------------------------------------------------------------
(* The table keeps the promise of Credentials *)

\* Here the tokens that are used up are those issued: one is issued and stored
\* in one step (TokenHandover takes the two apart).
Valid == {x \in (1 .. MaxToken) \X ProbeID : token[x[2]] = x[1]}

Creds == INSTANCE Credentials
             WITH Token <- 1 .. MaxToken, valid <- Valid, used <- 1 .. issued

LEMMA CredsGrant ==
    ASSUME TypeOK, NEW p \in ProbeID, issued < MaxToken,
           issued' = issued + 1, token' = [token EXCEPT ![p] = issued']
    PROVE  Creds!Next
<1>1. issued' \in 1 .. MaxToken /\ issued' \notin 1 .. issued
  BY DEF TypeOK
<1>2. (1 .. issued)' = 1 .. issued \cup {issued'}
  BY DEF TypeOK
<1>3. Valid' = {x \in Valid : x[2] # p} \cup {<<issued', p>>}
  BY <1>1 DEF TypeOK, Valid
<1>4. Creds!Grant(issued', p)
  BY <1>1, <1>2, <1>3 DEF Creds!Grant, Creds!Without
<1>5. QED
  BY <1>1, <1>4 DEF Creds!Next

LEMMA CredsStep == TypeOK /\ [Next]_vars => [Creds!Next]_Creds!vars
<1> SUFFICES ASSUME TypeOK, [Next]_vars PROVE [Creds!Next]_Creds!vars
  OBVIOUS
<1>1. ASSUME NEW p \in ProbeID, Create(p) \/ Rotate(p) PROVE Creds!Next
  BY <1>1, CredsGrant DEF Create, Rotate
<1>2. ASSUME NEW a \in AdminReq, NEW p \in ProbeID, Delete(a, p) PROVE Creds!Next
  <2>1. Valid' = {x \in Valid : x[2] # p}
    BY <1>2 DEF TypeOK, Delete, Valid
  <2>2. Creds!Withdraw(p)
    BY <1>2, <2>1 DEF Delete, Creds!Withdraw, Creds!Without
  <2>3. QED
    BY <2>2 DEF Creds!Next
<1>3. ASSUME UNCHANGED <<token, issued>> PROVE UNCHANGED Creds!vars
  BY <1>3 DEF Creds!vars, Valid
<1>4. ASSUME NEW a \in AdminReq, ToggleWrite(a) PROVE UNCHANGED Creds!vars
  BY <1>3, <1>4 DEF ToggleWrite
<1>5. QED
  BY <1>1, <1>2, <1>3, <1>4
     DEF Next, Authenticate, Limit, Validate, Put, ToggleRead, RemoveBucket, DropEntry,
         Restart, Tick, vars, table

\* Every creation and rotation gives a token that is nobody's and was nobody's,
\* and every deletion takes the one there is: the promise that the hand-over of
\* tokens keeps as well.
THEOREM TableRefinement == Spec => Creds!Spec
<1>1. Init => Creds!Init
  BY DEF Init, Creds!Init, Valid
<1>2. QED
  BY <1>1, CredsStep, TypeCorrect, PTL DEF Spec, Creds!Spec

-----------------------------------------------------------------------------
(* last_seen *)

\* No entry is dated in the future, and only a push that another overtook carries a
\* stamp older than the entry it will replace.
StampInv ==
    /\ TypeOK
    /\ \A p \in ProbeID : latest[p] <= clock
    /\ \A r \in PushReq : push[r].pc = "put" =>
           /\ push[r].stamp <= clock
           /\ ~push[r].overtaken => latest[push[r].probe] <= push[r].stamp

LEMMA StampStep == StampInv /\ [Next]_vars => StampInv'
<1> SUFFICES ASSUME StampInv, [Next]_vars PROVE StampInv'
  OBVIOUS
<1> USE DEF StampInv, TypeOK, ActivePush, IdlePush, NoEntry, table, entries
<1>1. TypeOK'
  BY TypeStep DEF StampInv
<1>2. ASSUME NEW r \in PushReq, NEW p \in ProbeID, Authenticate(r, p) PROVE StampInv'
  BY <1>1, <1>2 DEF Authenticate
<1>3. ASSUME NEW r \in PushReq, Limit(r) PROVE StampInv'
  BY <1>1, <1>3 DEF Limit
<1>4. ASSUME NEW r \in PushReq, Validate(r) PROVE StampInv'
  BY <1>1, <1>4 DEF Validate
<1>5. ASSUME NEW r \in PushReq, Put(r) PROVE StampInv'
  <2>1. push[r].probe \in ProbeID /\ push[r].stamp <= clock /\ clock' = clock
    BY <1>5 DEF Put
  <2>2. \A p \in ProbeID : latest'[p] <= clock'
    BY <1>5, <2>1 DEF Put
  <2>3. ASSUME NEW s \in PushReq, push'[s].pc = "put"
        PROVE  /\ push'[s].stamp <= clock'
               /\ ~push'[s].overtaken => latest'[push'[s].probe] <= push'[s].stamp
    <3>1. s # r /\ push[s].pc = "put" /\ push'[s].stamp = push[s].stamp
                /\ push'[s].probe = push[s].probe
      BY <1>5, <2>3 DEF Put
    <3>2. CASE push[s].probe = push[r].probe
      BY <1>5, <2>1, <3>1, <3>2 DEF Put
    <3>3. CASE push[s].probe # push[r].probe
      <4>1. latest'[push[s].probe] = latest[push[s].probe] /\ push'[s] = push[s]
        BY <1>5, <3>1, <3>3 DEF Put
      <4>2. QED
        BY <2>1, <3>1, <4>1
    <3>4. QED
      BY <3>2, <3>3
  <2>4. QED
    BY <1>1, <2>2, <2>3
<1>6. ASSUME NEW p \in ProbeID, EndLife(p), UNCHANGED <<latest, clock>> PROVE StampInv'
  BY <1>1, <1>6 DEF EndLife
<1>7. ASSUME UNCHANGED <<push, latest>>, clock' \in {clock, clock + 1} PROVE StampInv'
  BY <1>1, <1>7
<1>8. ASSUME NEW a \in AdminReq, NEW p \in ProbeID, Delete(a, p) PROVE StampInv'
  BY <1>6, <1>8 DEF Delete
<1>9. ASSUME NEW a \in AdminReq, ToggleWrite(a) PROVE StampInv'
  <2>1. admin[a].probe \in ProbeID
    BY <1>9 DEF ToggleWrite, ActiveAdmin, IdleAdmin
  <2>2. CASE EndLife(admin[a].probe)
    BY <1>6, <1>9, <2>1, <2>2 DEF ToggleWrite
  <2>3. CASE UNCHANGED push
    BY <1>7, <1>9, <2>3 DEF ToggleWrite
  <2>4. QED
    BY <1>9, <2>2, <2>3 DEF ToggleWrite
<1>10. ASSUME NEW a \in AdminReq, DropEntry(a) PROVE StampInv'
  <2>1. \A p \in ProbeID : latest'[p] <= latest[p]
    BY <1>10 DEF DropEntry
  <2>2. QED
    BY <1>1, <1>10, <2>1 DEF DropEntry
<1>11. CASE Restart
  BY <1>1, <1>11 DEF Restart
<1>12. QED
  BY <1>2, <1>3, <1>4, <1>5, <1>7, <1>8, <1>9, <1>10, <1>11
     DEF Next, ToggleRead, RemoveBucket, Create, Rotate, Tick, vars

\* Under any overlap of pushes and handlers, and if the clock does not step back, an
\* accepted push moves last_seen back only if another of its probe was put between its
\* stamp and its own Put.
THEOREM OvertakenPuts == Spec => OnlyOvertakenPutsRegress
<1> DEFINE Excused(p) == \E r \in PushReq :
                            /\ push[r].pc = "put" /\ push'[r].pc = "idle"
                            /\ push[r].probe = p /\ push[r].overtaken
           Forward == \A p \in ProbeID :
              latest[p] # NoEntry /\ latest'[p] # NoEntry /\ latest'[p] < latest[p] => Excused(p)
<1>1. Init => StampInv
  BY TypeInit DEF Init, StampInv, IdlePush, NoEntry
<1>2. StampInv /\ [Next]_vars => [Forward]_latest
  <2> SUFFICES ASSUME StampInv, [Next]_vars, NEW p \in ProbeID, latest[p] # NoEntry,
                      latest'[p] # NoEntry, latest'[p] < latest[p]
               PROVE  Excused(p)
    OBVIOUS
  <2> USE DEF StampInv, TypeOK, NoEntry, table, entries
  <2>1. ASSUME NEW r \in PushReq, Put(r) PROVE Excused(p)
    <3>1. push[r].pc = "put" /\ push'[r].pc = "idle"
      BY <2>1 DEF Put, IdlePush
    <3>2. push[r].probe = p
      BY <2>1 DEF Put
    <3>3. push[r].overtaken \in BOOLEAN /\ push[r].stamp \in Nat
      BY <3>1 DEF ActivePush, IdlePush
    <3>4. push[r].overtaken
      BY <2>1, <3>1, <3>2, <3>3 DEF Put
    <3>5. QED
      BY <3>1, <3>2, <3>4
  <2>2. ASSUME NEW a \in AdminReq, DropEntry(a) PROVE FALSE
    BY <2>2 DEF DropEntry
  <2>3. CASE Restart
    BY <2>3 DEF Restart
  <2>4. CASE latest' = latest
    BY <2>4
  <2>5. QED
    BY <2>1, <2>2, <2>3, <2>4
       DEF Next, vars, Authenticate, Limit, Validate, ToggleRead, Delete, ToggleWrite,
           RemoveBucket, Create, Rotate, Tick
<1>3. QED
  BY <1>1, <1>2, StampStep, PTL DEF Spec, OnlyOvertakenPutsRegress

-----------------------------------------------------------------------------
(* Where no two pushes of one probe ID are under way at once, entries only advance *)

\* One push of a probe is in flight at most, no entry is dated in the future, and
\* the stamp a push carries to Put is no older than the entry it will replace.
SerialInv ==
    /\ TypeOK
    /\ \A r, s \in PushReq : push[r].pc # "idle" /\ push[s].probe = push[r].probe => r = s
    /\ \A p \in ProbeID : latest[p] <= clock
    /\ \A r \in PushReq : push[r].pc = "put" =>
           /\ latest[push[r].probe] <= push[r].stamp
           /\ push[r].stamp <= clock

LEMMA SerialStep ==
    ASSUME ~Overlapping, SerialInv, [Next]_vars
    PROVE  SerialInv'
<1> USE DEF SerialInv, TypeOK, ActivePush, IdlePush, NoEntry, table, entries
<1>1. TypeOK'
  BY TypeStep DEF SerialInv
<1>2. ASSUME NEW r \in PushReq, NEW p \in ProbeID, Authenticate(r, p) PROVE SerialInv'
  BY <1>1, <1>2 DEF Authenticate, InFlight
<1>3. ASSUME NEW r \in PushReq, Limit(r) PROVE SerialInv'
  BY <1>1, <1>3 DEF Limit
<1>4. ASSUME NEW r \in PushReq, Validate(r) PROVE SerialInv'
  BY <1>1, <1>4 DEF Validate
<1>5. ASSUME NEW r \in PushReq, Put(r) PROVE SerialInv'
  BY <1>1, <1>5 DEF Put
<1>6. ASSUME NEW p \in ProbeID, EndLife(p), UNCHANGED <<latest, clock>> PROVE SerialInv'
  BY <1>1, <1>6 DEF EndLife
<1>7. ASSUME UNCHANGED <<push, latest>>, clock' \in {clock, clock + 1} PROVE SerialInv'
  BY <1>1, <1>7
<1>8. ASSUME NEW a \in AdminReq, NEW p \in ProbeID, Delete(a, p) PROVE SerialInv'
  BY <1>6, <1>8 DEF Delete
<1>9. ASSUME NEW a \in AdminReq, ToggleWrite(a) PROVE SerialInv'
  <2>1. admin[a].probe \in ProbeID
    BY <1>9 DEF ToggleWrite, ActiveAdmin, IdleAdmin
  <2>2. CASE EndLife(admin[a].probe)
    BY <1>6, <1>9, <2>1, <2>2 DEF ToggleWrite
  <2>3. CASE UNCHANGED push
    BY <1>7, <1>9, <2>3 DEF ToggleWrite
  <2>4. QED
    BY <1>9, <2>2, <2>3 DEF ToggleWrite
<1>10. ASSUME NEW a \in AdminReq, DropEntry(a) PROVE SerialInv'
  <2>1. \A p \in ProbeID : latest'[p] <= latest[p]
    BY <1>10 DEF DropEntry
  <2>2. QED
    BY <1>1, <1>10, <2>1 DEF DropEntry
<1>11. CASE Restart
  BY <1>1, <1>11 DEF Restart
<1>12. QED
  BY <1>2, <1>3, <1>4, <1>5, <1>7, <1>8, <1>9, <1>10, <1>11
     DEF Next, ToggleRead, RemoveBucket, Create, Rotate, Tick, vars

\* No step replaces an entry by an older one.
LEMMA EntriesAdvance ==
    ASSUME SerialInv, [Next]_vars, NEW p \in ProbeID,
           latest[p] # NoEntry, latest'[p] # NoEntry
    PROVE  latest'[p] >= latest[p]
<1> USE DEF SerialInv, TypeOK, NoEntry, table, entries
<1>1. ASSUME NEW r \in PushReq, Put(r) PROVE latest'[p] >= latest[p]
  BY <1>1 DEF Put
<1>2. ASSUME NEW a \in AdminReq, DropEntry(a) PROVE latest'[p] >= latest[p]
  BY <1>2 DEF DropEntry
<1>3. CASE Restart
  BY <1>3 DEF Restart
<1>4. CASE latest' = latest
  BY <1>4
<1>5. QED
  BY <1>1, <1>2, <1>3, <1>4
     DEF Next, vars, Authenticate, Limit, Validate, ToggleRead, Delete, ToggleWrite,
         RemoveBucket, Create, Rotate, Tick
=============================================================================
