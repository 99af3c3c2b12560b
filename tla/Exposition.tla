----------------------------- MODULE Exposition -----------------------------
(***************************************************************************)
(* Who is online: a scrape of /metrics and the list page of the            *)
(* administrator read the probe table, then the clock, then the latest     *)
(* store probe by probe, while everything in ProbeLifecycle goes on.       *)
(*                                                                         *)
(*   scrape   internal/metrics/collector.go  Collect                       *)
(*   page     internal/admin/probes.go       handleProbeList, onlineState, *)
(*                                           countProbeFilters             *)
(*                                                                         *)
(* A scrape passes over the listed probes once.  The page passes twice     *)
(* with one reading of the clock: for its rows, then for the counts above  *)
(* them.  Both skip a probe whose row was not enabled when the table was   *)
(* read.  Labels, measurements and totals follow from what is read here.   *)
(***************************************************************************)
EXTENDS ProbeLifecycle

CONSTANTS
    Scraper,  \* slots for scrapes, one for each Prometheus: it scrapes in turn
    Pager,    \* slots for requests of the list page; a slot may serve both
    Threshold \* ONLINE_THRESHOLD

ASSUME ThresholdAssumption == Threshold \in Nat

VARIABLES
    reader,  \* the scrapes and pages in progress, with what they have read
    exposed  \* last_seen of each probe as each Prometheus has it, or NoEntry

expoVars == <<vars, reader, exposed>>

-----------------------------------------------------------------------------
Reader  == Scraper \cup Pager
Unread  == [p \in ProbeID |-> NoEntry]
Stamp   == Nat \cup {NoEntry}

IdleReader ==
    [pc |-> "idle", enabled |-> {}, now |-> 0, todo |-> {}, rows |-> Unread,
     counts |-> Unread, fresh |-> {}, dropped |-> {}, replaced |-> {}]

Reading == [pc : {"idle", "clock", "rows", "counts"}, enabled : SUBSET ProbeID, now : Nat,
            todo : SUBSET ProbeID, rows : [ProbeID -> Stamp], counts : [ProbeID -> Stamp],
            fresh : SUBSET ProbeID, dropped : SUBSET ProbeID, replaced : SUBSET ProbeID]

\* The rule the collector and the page share: the difference to the stamp of
\* the entry, which is negative if the entry came after the clock was read.
OnlineState(now, stamp) == stamp # NoEntry /\ now - stamp <= Threshold

\* Observation: the probes whose entry this step drops or replaces.
Dropped  == {p \in ProbeID : latest[p] # NoEntry /\ latest'[p] = NoEntry}
Replaced == {p \in ProbeID : latest'[p] \notin {latest[p], NoEntry}}

-----------------------------------------------------------------------------
\* ListProbes.  A failure counts as a collect error, or answers 500, and ends.
ListProbes(r) ==
    /\ reader[r].pc = "idle"
    /\ reader' = [reader EXCEPT ![r] = [IdleReader EXCEPT
                     !.pc = "clock", !.enabled = {p \in ProbeID : row[p] = "enabled"}]]
    /\ UNCHANGED <<vars, exposed>>

\* Now, once for the scrape, once for both passes of the page.
ReadClock(r) ==
    /\ reader[r].pc = "clock"
    /\ reader' = [reader EXCEPT ![r] = [@ EXCEPT
                     !.pc = "rows", !.now = clock, !.todo = reader[r].enabled,
                     !.fresh = {p \in reader[r].enabled : OnlineState(clock, latest[p])}]]
    /\ UNCHANGED <<vars, exposed>>

\* latest.Get in the first pass.
GetRow(r, p) ==
    /\ reader[r].pc = "rows"
    /\ p \in reader[r].todo
    /\ reader' = [reader EXCEPT ![r] = [@ EXCEPT !.todo = reader[r].todo \ {p},
                                                 !.rows[p] = latest[p]]]
    /\ UNCHANGED <<vars, exposed>>

\* Mutant: the counts are computed with a clock of their own.
StartCountsAnew(g) ==
    /\ reader[g].pc = "rows"
    /\ reader[g].todo = {}
    /\ reader' = [reader EXCEPT ![g] = [@ EXCEPT !.pc = "counts", !.todo = reader[g].enabled,
                                                 !.now = clock]]
    /\ UNCHANGED <<vars, exposed>>

\* The rows of the page are complete, and countProbeFilters begins.
StartCounts(g) ==
    /\ reader[g].pc = "rows"
    /\ reader[g].todo = {}
    /\ reader' = [reader EXCEPT ![g] = [@ EXCEPT !.pc = "counts", !.todo = reader[g].enabled]]
    /\ UNCHANGED <<vars, exposed>>

\* latest.Get in the second pass of the page.
GetCount(g, p) ==
    /\ reader[g].pc = "counts"
    /\ p \in reader[g].todo
    /\ reader' = [reader EXCEPT ![g] = [@ EXCEPT !.todo = reader[g].todo \ {p},
                                                 !.counts[p] = latest[p]]]
    /\ UNCHANGED <<vars, exposed>>

Render(g) ==
    /\ reader[g].pc = "counts"
    /\ reader[g].todo = {}
    /\ reader' = [reader EXCEPT ![g] = IdleReader]
    /\ UNCHANGED <<vars, exposed>>

\* Mutant: a probe without an entry is given last_seen 0.
ExposeBogusTime(s) ==
    /\ reader[s].pc = "rows"
    /\ reader[s].todo = {}
    /\ exposed' = [exposed EXCEPT ![s] =
                     [p \in ProbeID |-> IF reader[s].rows[p] # NoEntry THEN reader[s].rows[p]
                                        ELSE IF p \in reader[s].enabled THEN 0 ELSE @[p]]]
    /\ reader' = [reader EXCEPT ![s] = IdleReader]
    /\ UNCHANGED vars

\* Collect ends.  A probe without an entry has no last_seen, and Prometheus keeps
\* the value it has.
Expose(s) ==
    /\ reader[s].pc = "rows"
    /\ reader[s].todo = {}
    /\ exposed' = [exposed EXCEPT ![s] =
                     [p \in ProbeID |-> IF reader[s].rows[p] = NoEntry THEN @[p]
                                        ELSE reader[s].rows[p]]]
    /\ reader' = [reader EXCEPT ![s] = IdleReader]
    /\ UNCHANGED vars

-----------------------------------------------------------------------------
\* Everything else goes on.  Readers notice nothing; what moves under one that
\* has read the clock is noted for the properties.
Move ==
    /\ Next /\ ~Restart
    /\ reader' = [r \in Reader |->
                    IF reader[r].pc \in {"rows", "counts"}
                    THEN [reader[r] EXCEPT !.dropped = @ \cup Dropped,
                                           !.replaced = @ \cup Replaced]
                    ELSE reader[r]]
    /\ UNCHANGED exposed

Crash ==
    /\ Restart
    /\ reader' = [r \in Reader |-> IdleReader]
    /\ UNCHANGED exposed

ExpoInit ==
    /\ Init
    /\ reader = [r \in Reader |-> IdleReader]
    /\ exposed = [s \in Scraper |-> Unread]

ExpoNext ==
    \/ \E r \in Reader : ListProbes(r) \/ ReadClock(r)
    \/ \E r \in Reader, p \in ProbeID : GetRow(r, p)
    \/ \E g \in Pager, p \in ProbeID : GetCount(g, p)
    \/ \E g \in Pager : StartCounts(g) \/ Render(g)
    \/ \E s \in Scraper : Expose(s)
    \/ Move
    \/ Crash

ExpoSpec == ExpoInit /\ [][ExpoNext]_expoVars

\* The requests that change the store go on to their end, whoever reads it.
FairExpoSpec == ExpoSpec /\ Fairness

-----------------------------------------------------------------------------
(* Properties *)

\* Every pass over the store tells of a probe what was true when the clock was
\* read: one that was within the threshold then is online in the scrape, in its
\* row and in the counts, unless its entry was dropped since, and one that was
\* not is offline, unless a push was put since (collector.go:132-157 and
\* probes.go:90-104).  It rests on stamps that advance, so on ~Overlapping.
PassesTellOfOneInstant ==
    \A r \in Reader : \A p \in reader[r].enabled \ reader[r].todo :
        LET Told(stamp) ==
              /\ p \in reader[r].fresh \ reader[r].dropped => OnlineState(reader[r].now, stamp)
              /\ p \notin reader[r].fresh \cup reader[r].replaced =>
                    ~OnlineState(reader[r].now, stamp)
        IN  /\ reader[r].pc \in {"rows", "counts"} => Told(reader[r].rows[p])
            /\ reader[r].pc = "counts" => Told(reader[r].counts[p])

\* Prometheus never sees last_seen of a probe move back, over disabled and
\* deleted probes, reused IDs and restarts, if no two pushes of its ID are in flight
\* at once (~Overlapping).
ExposedLastSeenNeverRegresses ==
    [][\A s \in Scraper, p \in ProbeID : exposed'[s][p] >= exposed[s][p]]_exposed
=============================================================================
