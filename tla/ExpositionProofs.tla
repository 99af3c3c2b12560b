-------------------------- MODULE ExpositionProofs --------------------------
(***************************************************************************)
(* Proofs about Exposition, on top of those about ProbeLifecycle: what a   *)
(* scrape and a page tell of a probe is true of one instant, and last_seen *)
(* never moves back for Prometheus.  Both suppose that no two pushes of    *)
(* one probe ID are under way at once.                                     *)
(***************************************************************************)
EXTENDS Exposition, ProbeLifecycleProofs

ExpoTypeOK == /\ reader \in [Reader -> Reading]
              /\ exposed \in [Scraper -> [ProbeID -> Stamp]]

\* A reader's steps are no steps of the lifecycle, and Move and Crash are.
LEMMA StepsOfLifecycle == [ExpoNext]_expoVars => [Next]_vars
BY DEF ExpoNext, expoVars, ListProbes, ReadClock, GetRow, GetCount, StartCounts, Render,
       Expose, Move, Crash, Next

\* Scrapes and pages only read: whatever they do, the system they look at behaves
\* as ProbeLifecycle says, so each of its theorems holds beside them too.
THEOREM ReadersOnlyRead == ExpoSpec => Spec
<1>1. ExpoInit => Init
  BY DEF ExpoInit
<1> QED
  BY <1>1, StepsOfLifecycle, PTL DEF ExpoSpec, Spec

\* No reader keeps an entry or a bucket alive that no late push left.
THEOREM LateBesideReaders ==
    ExpoSpec => [](OnlyLatePushesLeaveEntries /\ OnlyLatePushesLeaveBuckets)
BY ReadersOnlyRead, LateEntries, LateBuckets, PTL

LEMMA ExpoTypeStep ==
    ASSUME TypeOK, ExpoTypeOK, [ExpoNext]_expoVars
    PROVE  ExpoTypeOK'
<1>1. \A p \in ProbeID : latest[p] \in Stamp
  BY DEF TypeOK, Stamp
<1>2. ASSUME NEW r \in Reader, NEW m \in Reading, reader' = [reader EXCEPT ![r] = m],
             UNCHANGED exposed
      PROVE  ExpoTypeOK'
  BY <1>2 DEF ExpoTypeOK
<1>3. \A r \in Reader : reader[r] \in Reading
  BY DEF ExpoTypeOK
<1>4. IdleReader \in Reading
  BY DEF IdleReader, Reading, Unread, Stamp
<1>5. ASSUME NEW r \in Reader, ListProbes(r)  PROVE ExpoTypeOK'
  <2> DEFINE E == {p \in ProbeID : row[p] = "enabled"}
             m == [IdleReader EXCEPT !.pc = "clock", !.enabled = E]
  <2>1. m \in Reading
    <3> E \in SUBSET ProbeID  OBVIOUS
    <3> HIDE DEF E
    <3> QED  BY <1>4 DEF Reading
  <2>2. reader' = [reader EXCEPT ![r] = m] /\ UNCHANGED exposed
    BY <1>5 DEF ListProbes
  <2> HIDE DEF m
  <2> QED  BY <1>2, <2>1, <2>2
<1>6. ASSUME NEW r \in Reader, ReadClock(r)  PROVE ExpoTypeOK'
  <2> DEFINE E == reader[r].enabled
             F == {p \in E : OnlineState(clock, latest[p])}
             m == [reader[r] EXCEPT !.pc = "rows", !.now = clock, !.todo = E, !.fresh = F]
  <2>1. m \in Reading
    <3>1. E \in SUBSET ProbeID /\ F \in SUBSET ProbeID /\ clock \in Nat
      BY <1>3 DEF Reading, TypeOK
    <3> HIDE DEF E, F
    <3> QED  BY <1>3, <3>1 DEF Reading
  <2>2. reader' = [reader EXCEPT ![r] = m] /\ UNCHANGED exposed
    BY <1>6 DEF ReadClock
  <2> HIDE DEF m
  <2> QED  BY <1>2, <2>1, <2>2
<1>7. ASSUME NEW r \in Reader, NEW p \in ProbeID, GetRow(r, p)  PROVE ExpoTypeOK'
  <2> DEFINE E == reader[r].todo \ {p}
             f == [reader[r].rows EXCEPT ![p] = latest[p]]
             m == [reader[r] EXCEPT !.todo = E, !.rows = f]
  <2>1. m \in Reading
    <3>1. E \in SUBSET ProbeID /\ f \in [ProbeID -> Stamp]
      BY <1>1, <1>3 DEF Reading
    <3> HIDE DEF E, f
    <3> QED  BY <1>3, <3>1 DEF Reading
  <2>2. reader' = [reader EXCEPT ![r] = m] /\ UNCHANGED exposed
    BY <1>7 DEF GetRow
  <2> HIDE DEF m
  <2> QED  BY <1>2, <2>1, <2>2
<1>8. ASSUME NEW r \in Pager, NEW p \in ProbeID, GetCount(r, p)  PROVE ExpoTypeOK'
  <2> DEFINE E == reader[r].todo \ {p}
             f == [reader[r].counts EXCEPT ![p] = latest[p]]
             m == [reader[r] EXCEPT !.todo = E, !.counts = f]
  <2>0. r \in Reader  BY DEF Reader
  <2>1. m \in Reading
    <3>1. E \in SUBSET ProbeID /\ f \in [ProbeID -> Stamp]
      BY <1>1, <1>3, <2>0 DEF Reading
    <3> HIDE DEF E, f
    <3> QED  BY <1>3, <2>0, <3>1 DEF Reading
  <2>2. reader' = [reader EXCEPT ![r] = m] /\ UNCHANGED exposed
    BY <1>8 DEF GetCount
  <2> HIDE DEF m
  <2> QED  BY <1>2, <2>0, <2>1, <2>2
<1>9. ASSUME NEW r \in Pager, StartCounts(r)  PROVE ExpoTypeOK'
  <2> DEFINE m == [reader[r] EXCEPT !.pc = "counts", !.todo = reader[r].enabled]
  <2>0. r \in Reader  BY DEF Reader
  <2>1. m \in Reading
    BY <1>3, <2>0 DEF Reading
  <2>2. reader' = [reader EXCEPT ![r] = m] /\ UNCHANGED exposed
    BY <1>9 DEF StartCounts
  <2> HIDE DEF m
  <2> QED  BY <1>2, <2>0, <2>1, <2>2
<1>10. ASSUME NEW r \in Pager, Render(r)  PROVE ExpoTypeOK'
  BY <1>2, <1>4, <1>10 DEF Render, Reader
<1>11. ASSUME NEW s \in Scraper, Expose(s)  PROVE ExpoTypeOK'
  <2> DEFINE kept == [p \in ProbeID |-> IF reader[s].rows[p] = NoEntry THEN exposed[s][p]
                                        ELSE reader[s].rows[p]]
  <2>1. kept \in [ProbeID -> Stamp]
    BY <1>3 DEF ExpoTypeOK, Reading, Reader
  <2>2. exposed' = [exposed EXCEPT ![s] = kept] /\ reader' = [reader EXCEPT ![s] = IdleReader]
    BY <1>11 DEF Expose
  <2> HIDE DEF kept
  <2> QED  BY <1>4, <2>1, <2>2 DEF ExpoTypeOK
<1>12. CASE Move
  <2>1. ASSUME NEW r \in Reader  PROVE reader'[r] \in Reading
    <3> DEFINE D == reader[r].dropped \cup Dropped
               E == reader[r].replaced \cup Replaced
               m == [reader[r] EXCEPT !.dropped = D, !.replaced = E]
    <3>1. m \in Reading
      <4>1. D \in SUBSET ProbeID /\ E \in SUBSET ProbeID
        BY <1>3 DEF Reading, Dropped, Replaced
      <4> HIDE DEF D, E
      <4> QED  BY <1>3, <4>1 DEF Reading
    <3>2. reader'[r] \in {reader[r], m}
      BY <1>12 DEF Move
    <3> HIDE DEF m
    <3> QED  BY <1>3, <3>1, <3>2
  <2>2. DOMAIN reader' = Reader /\ reader' = [r \in Reader |-> reader'[r]]
    BY <1>12 DEF Move
  <2> QED  BY <1>12, <2>1, <2>2 DEF Move, ExpoTypeOK
<1>13. CASE Crash
  BY <1>4, <1>13 DEF Crash, ExpoTypeOK
<1>14. CASE UNCHANGED expoVars
  BY <1>14 DEF expoVars, ExpoTypeOK
<1> QED
  BY <1>5, <1>6, <1>7, <1>8, <1>9, <1>10, <1>11, <1>12, <1>13, <1>14 DEF ExpoNext

\* Readers hold what they may hold, whether or not pushes of one probe overlap.
THEOREM ReadersTyped == ExpoSpec => [](TypeOK /\ ExpoTypeOK)
<1>1. ExpoInit => ExpoTypeOK
  BY DEF ExpoInit, ExpoTypeOK, IdleReader, Reading, Unread, Stamp
<1>2. TypeOK /\ ExpoTypeOK /\ [ExpoNext]_expoVars => ExpoTypeOK'
  BY ExpoTypeStep
<1> QED
  BY <1>1, <1>2, ReadersOnlyRead, TypeCorrect, PTL DEF ExpoSpec

-----------------------------------------------------------------------------
(* What a pass tells *)

\* What reading m may tell of p, given p's stamp.
Told(m, p, stamp) ==
    /\ p \in m.fresh \ m.dropped => OnlineState(m.now, stamp)
    /\ p \notin m.fresh \cup m.replaced => ~OnlineState(m.now, stamp)

\* What makes the invariant inductive: the store itself, as it is now, is still
\* one from which a pass would tell the truth of the instant m.now.
Truthful(m, store) ==
    m.pc \in {"rows", "counts"} =>
        \A p \in m.enabled :
            /\ Told(m, p, store[p])
            /\ m.pc = "counts" \/ p \notin m.todo => Told(m, p, m.rows[p])
            /\ m.pc = "counts" /\ p \notin m.todo => Told(m, p, m.counts[p])

AllTruthful == \A r \in Reader : Truthful(reader[r], latest)

ReadInv == SerialInv /\ ExpoTypeOK /\ AllTruthful

\* A step of one reader leaves the others and the store alone.
LEMMA OneReader ==
    ASSUME ExpoTypeOK, AllTruthful, NEW r \in Reader, NEW m,
           reader' = [reader EXCEPT ![r] = m], latest' = latest, Truthful(m, latest)
    PROVE  AllTruthful'
BY DEF ExpoTypeOK, AllTruthful

\* A step of the lifecycle, noted in dropped and replaced, keeps a reading true.
LEMMA StoreMoves ==
    ASSUME SerialInv, [Next]_vars, NEW m \in Reading, Truthful(m, latest),
           m.pc \in {"rows", "counts"}
    PROVE  Truthful([m EXCEPT !.dropped = @ \cup Dropped, !.replaced = @ \cup Replaced], latest')
<1> DEFINE D == m.dropped \cup Dropped
           E == m.replaced \cup Replaced
           n == [m EXCEPT !.dropped = D, !.replaced = E]
<1>1. /\ n.pc = m.pc /\ n.enabled = m.enabled /\ n.todo = m.todo /\ n.now = m.now
      /\ n.rows = m.rows /\ n.counts = m.counts /\ n.fresh = m.fresh
      /\ n.dropped = D /\ n.replaced = E
  BY DEF Reading
<1> HIDE DEF n
<1>2. ASSUME NEW p, NEW stamp, Told(m, p, stamp)  PROVE Told(n, p, stamp)
  BY <1>1, <1>2 DEF Told
<1>3. ASSUME NEW p \in m.enabled  PROVE Told(n, p, latest'[p])
  <2>0. p \in ProbeID /\ m.now \in Nat  BY DEF Reading
  <2>1. Told(m, p, latest[p])  BY DEF Truthful
  <2>2. latest[p] \in Nat \cup {NoEntry} /\ latest'[p] \in Nat \cup {NoEntry}
    BY <2>0, TypeStep DEF SerialInv, TypeOK
  <2>3. ASSUME p \in m.fresh \ D  PROVE OnlineState(m.now, latest'[p])
    <3>1. latest[p] # NoEntry /\ m.now - latest[p] <= Threshold
      BY <2>1, <2>3 DEF Told, OnlineState
    <3>2. latest'[p] # NoEntry
      BY <2>0, <2>3, <3>1 DEF Dropped
    <3>3. latest'[p] >= latest[p]
      BY <2>0, <3>1, <3>2, EntriesAdvance
    <3> QED  BY <2>0, <2>2, <3>1, <3>2, <3>3, ThresholdAssumption DEF OnlineState, NoEntry
  <2>4. ASSUME p \notin m.fresh \cup E  PROVE ~OnlineState(m.now, latest'[p])
    <3>1. latest'[p] \in {latest[p], NoEntry}
      BY <2>0, <2>4 DEF Replaced
    <3> QED  BY <2>1, <2>4, <3>1 DEF Told, OnlineState
  <2> QED  BY <1>1, <2>3, <2>4 DEF Told
<1>4. Truthful(n, latest')
  BY <1>1, <1>2, <1>3 DEF Truthful
<1> QED  BY <1>4 DEF n

LEMMA TruthStep ==
    ASSUME ~Overlapping, ReadInv, [ExpoNext]_expoVars
    PROVE  AllTruthful'
<1>0. SerialInv /\ ExpoTypeOK /\ AllTruthful /\ ~Overlapping /\ [Next]_vars
  BY StepsOfLifecycle DEF ReadInv
<1>1. \A r \in Reader : reader[r] \in Reading /\ Truthful(reader[r], latest)
  BY <1>0 DEF ExpoTypeOK, AllTruthful
<1>2. Truthful(IdleReader, latest)
  BY DEF Truthful, IdleReader
<1>3. ASSUME NEW r \in Reader, ListProbes(r)  PROVE AllTruthful'
  <2> DEFINE m == [IdleReader EXCEPT !.pc = "clock",
                                     !.enabled = {p \in ProbeID : row[p] = "enabled"}]
  <2>1. Truthful(m, latest)
    BY DEF Truthful, IdleReader
  <2>2. reader' = [reader EXCEPT ![r] = m] /\ latest' = latest
    BY <1>3 DEF ListProbes, vars, entries
  <2> HIDE DEF m
  <2> QED  BY <1>0, <2>1, <2>2, OneReader
<1>4. ASSUME NEW r \in Reader, ReadClock(r)  PROVE AllTruthful'
  <2> DEFINE E == reader[r].enabled
             F == {p \in E : OnlineState(clock, latest[p])}
             m == [reader[r] EXCEPT !.pc = "rows", !.now = clock, !.todo = E, !.fresh = F]
  <2>1. m.pc = "rows" /\ m.now = clock /\ m.todo = E /\ m.fresh = F /\ m.enabled = E
    BY <1>1 DEF Reading
  <2>2. reader' = [reader EXCEPT ![r] = m] /\ latest' = latest
    BY <1>4 DEF ReadClock, vars, entries
  <2> HIDE DEF m
  <2>3. Truthful(m, latest)
    BY <2>1 DEF Truthful, Told
  <2> QED  BY <1>0, <2>2, <2>3, OneReader
<1>5. ASSUME NEW r \in Reader, NEW p \in ProbeID, GetRow(r, p)  PROVE AllTruthful'
  <2> DEFINE E == reader[r].todo \ {p}
             f == [reader[r].rows EXCEPT ![p] = latest[p]]
             m == [reader[r] EXCEPT !.todo = E, !.rows = f]
  <2>0. reader[r].pc = "rows" /\ Truthful(reader[r], latest)
    BY <1>1, <1>5 DEF GetRow
  <2>1. /\ m.pc = "rows" /\ m.now = reader[r].now /\ m.todo = E /\ m.rows = f
        /\ m.fresh = reader[r].fresh /\ m.enabled = reader[r].enabled
        /\ m.dropped = reader[r].dropped /\ m.replaced = reader[r].replaced
    BY <1>1, <2>0 DEF Reading
  <2>2. reader' = [reader EXCEPT ![r] = m] /\ latest' = latest
    BY <1>5 DEF GetRow, vars, entries
  <2>3. f[p] = latest[p] /\ \A q \in ProbeID \ {p} : f[q] = reader[r].rows[q]
    BY <1>1 DEF Reading
  <2>4. reader[r].enabled \subseteq ProbeID
    BY <1>1 DEF Reading
  <2> HIDE DEF m, f
  <2>5. Truthful(m, latest)
    BY <2>0, <2>1, <2>3, <2>4 DEF Truthful, Told
  <2> QED  BY <1>0, <2>2, <2>5, OneReader
<1>6. ASSUME NEW r \in Pager, NEW p \in ProbeID, GetCount(r, p)  PROVE AllTruthful'
  <2> DEFINE E == reader[r].todo \ {p}
             f == [reader[r].counts EXCEPT ![p] = latest[p]]
             m == [reader[r] EXCEPT !.todo = E, !.counts = f]
  <2>r. r \in Reader  BY DEF Reader
  <2>0. reader[r].pc = "counts" /\ Truthful(reader[r], latest)
    BY <1>1, <1>6, <2>r DEF GetCount
  <2>1. /\ m.pc = "counts" /\ m.now = reader[r].now /\ m.todo = E /\ m.counts = f
        /\ m.fresh = reader[r].fresh /\ m.enabled = reader[r].enabled
        /\ m.dropped = reader[r].dropped /\ m.replaced = reader[r].replaced
        /\ m.rows = reader[r].rows
    BY <1>1, <2>r, <2>0 DEF Reading
  <2>2. reader' = [reader EXCEPT ![r] = m] /\ latest' = latest
    BY <1>6 DEF GetCount, vars, entries
  <2>3. f[p] = latest[p] /\ \A q \in ProbeID \ {p} : f[q] = reader[r].counts[q]
    BY <1>1, <2>r DEF Reading
  <2>4. reader[r].enabled \subseteq ProbeID
    BY <1>1, <2>r DEF Reading
  <2> HIDE DEF m, f
  <2>5. Truthful(m, latest)
    BY <2>0, <2>1, <2>3, <2>4 DEF Truthful, Told
  <2> QED  BY <1>0, <2>r, <2>2, <2>5, OneReader
<1>7. ASSUME NEW r \in Pager, StartCounts(r)  PROVE AllTruthful'
  <2> DEFINE E == reader[r].enabled
             m == [reader[r] EXCEPT !.pc = "counts", !.todo = E]
  <2>r. r \in Reader  BY DEF Reader
  <2>0. /\ reader[r].pc = "rows" /\ reader[r].todo = {}
        /\ Truthful(reader[r], latest)
    BY <1>1, <1>7, <2>r DEF StartCounts
  <2>1. /\ m.pc = "counts" /\ m.now = reader[r].now /\ m.todo = E /\ m.rows = reader[r].rows
        /\ m.fresh = reader[r].fresh /\ m.enabled = E
        /\ m.dropped = reader[r].dropped /\ m.replaced = reader[r].replaced
    BY <1>1, <2>r DEF Reading
  <2>2. reader' = [reader EXCEPT ![r] = m] /\ latest' = latest
    BY <1>7 DEF StartCounts, vars, entries
  <2> HIDE DEF m
  <2>3. Truthful(m, latest)
    BY <2>0, <2>1 DEF Truthful, Told
  <2> QED  BY <1>0, <2>r, <2>2, <2>3, OneReader
<1>8. ASSUME NEW r \in Pager, Render(r)  PROVE AllTruthful'
  BY <1>0, <1>2, <1>8, OneReader DEF Render, Reader, vars, entries
<1>9. ASSUME NEW r \in Scraper, Expose(r)  PROVE AllTruthful'
  BY <1>0, <1>2, <1>9, OneReader DEF Expose, Reader, vars, entries
<1>10. CASE Move
  <2> SUFFICES ASSUME NEW r \in Reader  PROVE Truthful(reader'[r], latest')
    BY DEF AllTruthful
  <2>1. CASE reader[r].pc \in {"rows", "counts"}
    BY <1>0, <1>1, <1>10, <2>1, StoreMoves DEF Move
  <2>2. CASE reader[r].pc \notin {"rows", "counts"}
    BY <1>10, <2>2 DEF Move, Truthful
  <2> QED  BY <2>1, <2>2
<1>11. CASE Crash
  <2>1. \A r \in Reader : reader'[r] = IdleReader
    BY <1>11 DEF Crash
  <2> QED  BY <2>1 DEF AllTruthful, Truthful, IdleReader
<1>12. CASE UNCHANGED expoVars
  BY <1>1, <1>12 DEF expoVars, vars, entries, AllTruthful
<1> QED
  BY <1>0, <1>3, <1>4, <1>5, <1>6, <1>7, <1>8, <1>9, <1>10, <1>11, <1>12 DEF ExpoNext

LEMMA ReadInvariant ==
    ASSUME ~Overlapping
    PROVE  ExpoSpec => []ReadInv
<1>1. ExpoInit => ReadInv
  <2> SUFFICES ASSUME ExpoInit  PROVE ReadInv
    OBVIOUS
  <2>1. SerialInv
    BY TypeInit DEF ExpoInit, Init, SerialInv, IdlePush, NoEntry
  <2>2. ExpoTypeOK /\ AllTruthful
    BY DEF ExpoInit, ExpoTypeOK, AllTruthful, Truthful, IdleReader, Reading, Unread, Stamp
  <2> QED  BY <2>1, <2>2 DEF ReadInv
<1>2. ReadInv /\ [ExpoNext]_expoVars => ReadInv'
  BY StepsOfLifecycle, SerialStep, ExpoTypeStep, TruthStep DEF ReadInv, SerialInv
<1> QED
  BY <1>1, <1>2, PTL DEF ExpoSpec

\* If no probe has two pushes in flight at once, a scrape and both passes of a
\* page tell of each probe what was true when the clock was read.
THEOREM OneInstant ==
    ASSUME ~Overlapping
    PROVE  ExpoSpec => []PassesTellOfOneInstant
<1>1. ReadInv => PassesTellOfOneInstant
  BY DEF ReadInv, AllTruthful, Truthful, Told, PassesTellOfOneInstant
<1> QED
  BY <1>1, ReadInvariant, PTL

-----------------------------------------------------------------------------
(* What Prometheus sees *)

\* Nothing that is in the store, or on its way there, or can still be dated, is
\* older than x.
Behind(p, x) ==
    /\ x <= clock
    /\ latest[p] # NoEntry => x <= latest[p]
    /\ \A q \in PushReq : push[q].probe = p /\ push[q].pc = "put" => x <= push[q].stamp

LEMMA BehindKept ==
    ASSUME TypeOK, [Next]_vars, NEW p \in ProbeID, NEW x \in Stamp, Behind(p, x)
    PROVE  Behind(p, x)'
<1> USE DEF Behind, TypeOK, Stamp, NoEntry, ActivePush, IdlePush, table, entries
<1>1. ASSUME NEW r \in PushReq, NEW q \in ProbeID, Authenticate(r, q)  PROVE Behind(p, x)'
  BY <1>1 DEF Authenticate
<1>2. ASSUME NEW r \in PushReq, Limit(r)  PROVE Behind(p, x)'
  BY <1>2 DEF Limit
<1>3. ASSUME NEW r \in PushReq, Validate(r)  PROVE Behind(p, x)'
  BY <1>3 DEF Validate
<1>4. ASSUME NEW r \in PushReq, Put(r)  PROVE Behind(p, x)'
  BY <1>4 DEF Put
<1>5. ASSUME NEW q \in ProbeID, EndLife(q), UNCHANGED <<latest, clock>>  PROVE Behind(p, x)'
  BY <1>5 DEF EndLife
<1>6. ASSUME UNCHANGED push, clock' \in {clock, clock + 1}, latest'[p] \in {latest[p], NoEntry}
      PROVE  Behind(p, x)'
  BY <1>6
<1>7. ASSUME NEW a \in AdminReq, NEW q \in ProbeID, Delete(a, q)  PROVE Behind(p, x)'
  BY <1>5, <1>7 DEF Delete
<1>8. ASSUME NEW a \in AdminReq, ToggleWrite(a)  PROVE Behind(p, x)'
  <2>1. admin[a].probe \in ProbeID
    BY <1>8 DEF ToggleWrite, ActiveAdmin, IdleAdmin
  <2>2. CASE EndLife(admin[a].probe)
    BY <1>5, <1>8, <2>1, <2>2 DEF ToggleWrite
  <2>3. CASE UNCHANGED push
    BY <1>6, <1>8, <2>3 DEF ToggleWrite
  <2>4. QED
    BY <1>8, <2>2, <2>3 DEF ToggleWrite
<1>9. ASSUME NEW a \in AdminReq, DropEntry(a)  PROVE Behind(p, x)'
  BY <1>6, <1>9 DEF DropEntry
<1>10. CASE Restart
  BY <1>10 DEF Restart
<1>11. QED
  BY <1>1, <1>2, <1>3, <1>4, <1>6, <1>7, <1>8, <1>9, <1>10
     DEF Next, ToggleRead, RemoveBucket, Create, Rotate, Tick, vars

\* What a scrape has read of a probe is no older than what Prometheus has of it,
\* and nothing that is to come is older than either.
NothingOlder(s, p) ==
    /\ Behind(p, exposed[s][p])
    /\ Behind(p, reader[s].rows[p])
    /\ reader[s].rows[p] # NoEntry => exposed[s][p] <= reader[s].rows[p]

AllBehind == \A s \in Scraper, p \in ProbeID : NothingOlder(s, p)

SeenInv == ReadInv /\ AllBehind

LEMMA StampTypes ==
    ASSUME ReadInv, NEW s \in Scraper, NEW p \in ProbeID
    PROVE  /\ TypeOK /\ SerialInv /\ exposed[s][p] \in Stamp /\ reader[s].rows[p] \in Stamp
           /\ reader[s] \in Reading /\ NoEntry \in Stamp /\ Behind(p, NoEntry)
<1>1. /\ TypeOK /\ SerialInv /\ exposed[s][p] \in Stamp /\ reader[s].rows[p] \in Stamp
      /\ reader[s] \in Reading
  BY DEF ReadInv, SerialInv, ExpoTypeOK, Reading, Reader
<1>2. NoEntry \in Stamp /\ Behind(p, NoEntry)
  BY <1>1 DEF Behind, TypeOK, ActivePush, IdlePush, NoEntry, Stamp
<1> QED  BY <1>1, <1>2

\* A lifecycle step, or a step of a reader that takes no new stamp of p.
LEMMA StampsKept ==
    ASSUME SeenInv, [Next]_vars, NEW s \in Scraper, NEW p \in ProbeID, exposed' = exposed,
           reader'[s].rows[p] \in {reader[s].rows[p], NoEntry}
    PROVE  NothingOlder(s, p)'
<1>1. /\ TypeOK /\ exposed[s][p] \in Stamp /\ reader[s].rows[p] \in Stamp
      /\ NoEntry \in Stamp /\ Behind(p, NoEntry)
  BY StampTypes DEF SeenInv
<1>2. NothingOlder(s, p)
  BY DEF SeenInv, AllBehind
<1>3. ASSUME NEW x \in Stamp, Behind(p, x)  PROVE Behind(p, x)'
  BY <1>1, <1>3, BehindKept
<1>4. Behind(p, exposed[s][p])'
  BY <1>1, <1>2, <1>3 DEF NothingOlder, Behind
<1>5. Behind(p, reader[s].rows[p])'
  BY <1>1, <1>2, <1>3 DEF NothingOlder, Behind
<1> QED
  BY <1>2, <1>4, <1>5 DEF NothingOlder

LEMMA SeenStep ==
    ASSUME ~Overlapping, SeenInv, [ExpoNext]_expoVars
    PROVE  AllBehind'
<1>0. [Next]_vars
  BY StepsOfLifecycle
<1>r. ASSUME NEW s \in Scraper  PROVE reader[s] \in Reading /\ s \in Reader
  BY <1>r DEF SeenInv, ReadInv, ExpoTypeOK, Reader
<1>1. SUFFICES ASSUME NEW s \in Scraper, NEW p \in ProbeID
               PROVE  NothingOlder(s, p)'
  BY DEF AllBehind
<1>t. /\ SerialInv /\ exposed[s][p] \in Stamp /\ reader[s].rows[p] \in Stamp
      /\ reader[s] \in Reading /\ s \in Reader /\ reader \in [Reader -> Reading]
      /\ exposed \in [Scraper -> [ProbeID -> Stamp]]
  BY <1>r, StampTypes DEF SeenInv, ReadInv, ExpoTypeOK
<1>i. IdleReader.rows[p] = NoEntry
  BY DEF IdleReader, Unread
<1>2. CASE exposed' = exposed /\ reader'[s].rows[p] \in {reader[s].rows[p], NoEntry}
  BY <1>0, <1>2, StampsKept
<1>3. ASSUME NEW r \in Reader, NEW q \in ProbeID, GetRow(r, q)  PROVE NothingOlder(s, p)'
  <2>1. CASE r = s /\ q = p
    <3>1. reader'[s].rows[p] = latest[p] /\ exposed' = exposed
      BY <1>t, <1>3, <2>1 DEF GetRow, Reading
    <3>2. UNCHANGED <<latest, clock, push>>
      BY <1>3 DEF GetRow, vars, entries
    <3>3. Behind(p, latest[p])
      BY <1>t DEF SerialInv, TypeOK, ActivePush, IdlePush, Behind
    <3>4. NothingOlder(s, p)
      BY DEF SeenInv, AllBehind
    <3> QED  BY <3>1, <3>2, <3>3, <3>4 DEF NothingOlder, Behind
  <2>2. CASE ~(r = s /\ q = p)
    <3>1. reader'[s].rows[p] = reader[s].rows[p] /\ exposed' = exposed
      BY <1>t, <1>3, <2>2 DEF GetRow, Reading
    <3> QED  BY <1>2, <3>1
  <2> QED  BY <2>1, <2>2
<1>4. ASSUME NEW r \in Scraper, Expose(r)  PROVE NothingOlder(s, p)'
  <2>1. CASE r = s
    <3>1. /\ reader'[s].rows[p] = NoEntry
          /\ exposed'[s][p] \in {exposed[s][p], reader[s].rows[p]}
      BY <1>t, <1>4, <1>i, <2>1 DEF Expose
    <3>2. UNCHANGED <<latest, clock, push>>
      BY <1>4 DEF Expose, vars, entries
    <3>3. NothingOlder(s, p) /\ Behind(p, NoEntry)
      BY StampTypes DEF SeenInv, AllBehind
    <3> QED  BY <3>1, <3>2, <3>3 DEF NothingOlder, Behind
  <2>2. CASE r # s
    <3>1. reader'[s] = reader[s] /\ exposed'[s] = exposed[s]
      BY <1>t, <1>4, <2>2 DEF Expose
    <3>2. UNCHANGED <<latest, clock, push>>
      BY <1>4 DEF Expose, vars, entries
    <3>3. NothingOlder(s, p)
      BY DEF SeenInv, AllBehind
    <3> QED  BY <3>1, <3>2, <3>3 DEF NothingOlder, Behind
  <2> QED  BY <2>1, <2>2
<1>5. ASSUME NEW r \in Reader, ListProbes(r)  PROVE NothingOlder(s, p)'
  <2>1. reader'[s].rows[p] \in {reader[s].rows[p], NoEntry}
    BY <1>t, <1>i, <1>5 DEF ListProbes, IdleReader
  <2> QED  BY <1>2, <1>5, <2>1 DEF ListProbes
<1>6. ASSUME NEW r \in Reader, ReadClock(r)  PROVE NothingOlder(s, p)'
  <2>1. reader'[s].rows = reader[s].rows
    BY <1>t, <1>6 DEF ReadClock, Reading
  <2> QED  BY <1>2, <1>6, <2>1 DEF ReadClock
<1>7. ASSUME NEW r \in Pager, NEW q \in ProbeID, GetCount(r, q)  PROVE NothingOlder(s, p)'
  <2>1. reader'[s].rows = reader[s].rows
    BY <1>t, <1>7 DEF GetCount, Reading, Reader
  <2> QED  BY <1>2, <1>7, <2>1 DEF GetCount
<1>8. ASSUME NEW r \in Pager, StartCounts(r)  PROVE NothingOlder(s, p)'
  <2>1. reader'[s].rows = reader[s].rows
    BY <1>t, <1>8 DEF StartCounts, Reading, Reader
  <2> QED  BY <1>2, <1>8, <2>1 DEF StartCounts
<1>9. ASSUME NEW r \in Pager, Render(r)  PROVE NothingOlder(s, p)'
  <2>1. reader'[s].rows[p] \in {reader[s].rows[p], NoEntry}
    BY <1>t, <1>i, <1>9 DEF Render, Reader
  <2> QED  BY <1>2, <1>9, <2>1 DEF Render
<1>10. CASE Move
  <2>1. reader'[s].rows = reader[s].rows
    BY <1>t, <1>10 DEF Move, Reading
  <2> QED  BY <1>2, <1>10, <2>1 DEF Move
<1>11. CASE Crash
  BY <1>t, <1>i, <1>2, <1>11 DEF Crash
<1>12. CASE UNCHANGED expoVars
  BY <1>2, <1>12 DEF expoVars
<1> QED
  BY <1>3, <1>4, <1>5, <1>6, <1>7, <1>8, <1>9, <1>10, <1>11, <1>12 DEF ExpoNext

\* Nor does last_seen of a probe ever move back for Prometheus then: neither a
\* disabled or deleted probe, nor its ID used again, nor a restart takes it back.
THEOREM LastSeenAdvances ==
    ASSUME ~Overlapping
    PROVE  ExpoSpec => ExposedLastSeenNeverRegresses
<1> DEFINE Forward == \A s \in Scraper, p \in ProbeID : exposed'[s][p] >= exposed[s][p]
<1>1. ExpoInit => AllBehind
  <2> SUFFICES ASSUME ExpoInit, NEW s \in Scraper, NEW p \in ProbeID
               PROVE  NothingOlder(s, p)
    BY DEF AllBehind
  <2>1. exposed[s][p] = NoEntry /\ reader[s].rows[p] = NoEntry
    BY DEF ExpoInit, IdleReader, Unread, Reader
  <2>2. latest[p] = NoEntry /\ clock = 0 /\ \A q \in PushReq : push[q].pc = "idle"
    BY DEF ExpoInit, Init, IdlePush
  <2> QED  BY <2>1, <2>2 DEF NothingOlder, Behind, NoEntry
<1>2. SeenInv /\ [ExpoNext]_expoVars => AllBehind'
  BY SeenStep
<1>3. SeenInv /\ [ExpoNext]_expoVars => [Forward]_exposed
  <2> SUFFICES ASSUME SeenInv, [ExpoNext]_expoVars, exposed' # exposed,
                      NEW s \in Scraper, NEW p \in ProbeID
               PROVE  exposed'[s][p] >= exposed[s][p]
    OBVIOUS
  <2>1. PICK r \in Scraper : Expose(r)
    BY DEF ExpoNext, expoVars, ListProbes, ReadClock, GetRow, GetCount, StartCounts, Render,
           Move, Crash
  <2>2. /\ exposed[s][p] \in Stamp /\ reader[s].rows[p] \in Stamp
        /\ exposed \in [Scraper -> [ProbeID -> Stamp]] /\ NothingOlder(s, p)
    BY StampTypes DEF SeenInv, ReadInv, ExpoTypeOK, AllBehind
  <2>3. CASE r = s
    BY <2>1, <2>2, <2>3 DEF Expose, NothingOlder, Stamp, NoEntry
  <2>4. CASE r # s
    BY <2>1, <2>2, <2>4 DEF Expose, Stamp, NoEntry
  <2> QED  BY <2>3, <2>4
<1> QED
  BY <1>1, <1>2, <1>3, ReadInvariant, PTL DEF SeenInv, ExpoSpec, ExposedLastSeenNeverRegresses
=============================================================================
