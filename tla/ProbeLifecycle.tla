--------------------------- MODULE ProbeLifecycle ---------------------------
(***************************************************************************)
(* The life of a probe: its row in the SQLite table, the state the process *)
(* keeps for it in memory, and the requests that touch both concurrently.  *)
(*                                                                         *)
(*   push API   internal/api/push.go       authenticate, limit, validate,  *)
(*                                         put                             *)
(*   admin UI   internal/admin/probes.go   create, toggle, rotate, delete  *)
(*   memory     internal/latest/store.go   the latest measurement          *)
(*              internal/api/limiter.go    the rate-limit bucket           *)
(*   database   internal/store/probes.go   one connection, so one statement*)
(*                                         is one step                     *)
(*                                                                         *)
(* net/http runs every request in a goroutine of its own.  A step is what  *)
(* one of them does between two points where another can intervene: one    *)
(* SQL statement, or one critical section of a mutex.  A request refused   *)
(* before it changes any state here (401, 403, 404, 409, 413, 503 ...)     *)
(* takes no step.  The data of a measurement is abstracted to the server   *)
(* time it was stamped with, and the tokens in a bucket to the bucket's    *)
(* existence.                                                              *)
(***************************************************************************)
EXTENDS Integers

CONSTANTS
    ProbeID,      \* probe identifiers an administrator may create, and reuse
    NoProbe,      \* the probe of a request slot that is idle
    PushReq,      \* slots for concurrent POST /api/v1/push requests
    AdminReq,     \* slots for concurrent administrator requests
    Overlapping,  \* may one probe ID have two pushes in flight at once?
    MaxClock,     \* bound on the clock
    MaxToken      \* bound on the tokens ever generated

ASSUME NoProbeAssumption == NoProbe \notin ProbeID
ASSUME BoundAssumption   == MaxClock \in Nat /\ MaxToken \in Nat
ASSUME OverlapAssumption == Overlapping \in BOOLEAN

VARIABLES
    row,      \* probes.enabled of each ID, or "absent"
    token,    \* probes.token_hash of each ID; 0 when the row is absent
    issued,   \* how many tokens token.Generate has returned: they never repeat
    latest,   \* latest.Store: ServerReceivedAt of each ID's entry, or NoEntry
    bucket,   \* Limiter.buckets: "none", or whose bucket it is (see Origin)
    push,     \* the push requests in flight
    admin,    \* the administrator requests in flight
    clock,    \* Server.now
    (* Observation only: no guard reads these. *)
    origin,   \* which life of the probe its entry comes from
    revoked   \* tokens that a rotation or a deletion took out of the table

table   == <<row, token, issued, revoked>>
entries == <<latest, origin>>
vars    == <<row, token, issued, latest, bucket, push, admin, clock, origin,
             revoked>>

-----------------------------------------------------------------------------
NoEntry == -1

(***************************************************************************)
(* A life of a probe ends when a statement disables or deletes its row.    *)
(* State kept for a probe is "current" when a request of this life made    *)
(* it, "outlived" when that life ended since, and "late" when the request  *)
(* that made it had authenticated in a life that was over by then.         *)
(***************************************************************************)
Origin == {"current", "outlived", "late"}

\* Observation: a push that is overtaken has seen another of its probe put since it
\* was stamped.
IdlePush  == [pc |-> "idle", probe |-> NoProbe, stale |-> FALSE, stamp |-> 0,
              overtaken |-> FALSE]
IdleAdmin == [pc |-> "idle", probe |-> NoProbe, was |-> FALSE]

ActivePush  == [pc : {"limit", "validate", "put"}, probe : ProbeID,
                stale : BOOLEAN, stamp : Nat, overtaken : BOOLEAN]
ActiveAdmin == [pc : {"toggle", "toggled", "removed", "deleted", "dropped"},
                probe : ProbeID, was : BOOLEAN]

Registered(p) == row[p] # "absent"
InFlight(p)   == \E r \in PushReq : push[r].probe = p

\* An administrator request that ended p's life has yet to call
\* latest.Delete, respectively limiter.Remove.
EntryOwed(p)  == \E a \in AdminReq : /\ admin[a].probe = p
                                     /\ admin[a].pc \in {"toggled", "removed", "deleted"}
BucketOwed(p) == \E a \in AdminReq : /\ admin[a].probe = p
                                     /\ admin[a].pc \in {"toggled", "deleted", "dropped"}

-----------------------------------------------------------------------------
(* POST /api/v1/push *)

\* The token resolves to an enabled row.  The row is read once: what the rest
\* of the request uses is this copy.
Authenticate(r, p) ==
    /\ push[r].pc = "idle"
    /\ row[p] = "enabled"
    /\ Overlapping \/ ~InFlight(p)
    /\ push' = [push EXCEPT ![r] = [IdlePush EXCEPT !.pc = "limit", !.probe = p]]
    /\ UNCHANGED <<table, entries, bucket, admin, clock>>

\* Allow creates the bucket it does not find; a bucket just created admits.
Limit(r) ==
    LET p == push[r].probe
    IN  /\ push[r].pc = "limit"
        /\ IF bucket[p] = "none"
           THEN /\ bucket' = [bucket EXCEPT ![p] = IF push[r].stale THEN "late" ELSE "current"]
                /\ push' = [push EXCEPT ![r].pc = "validate"]
           ELSE /\ bucket' = bucket
                /\ push' \in {[push EXCEPT ![r].pc = "validate"],
                              [push EXCEPT ![r] = IdlePush]}
        /\ UNCHANGED <<table, entries, admin, clock>>

\* Mutants: the entry carries the probe's own timestamp, or none at all.
ValidateWithProbeClock(r) ==
    /\ push[r].pc = "validate"
    /\ \E t \in 0 .. clock : push' = [push EXCEPT ![r].pc = "put", ![r].stamp = t]
    /\ UNCHANGED <<table, entries, bucket, admin, clock>>
ValidateWithZeroTime(r) ==
    /\ push[r].pc = "validate"
    /\ push' = [push EXCEPT ![r].pc = "put", ![r].stamp = NoEntry]
    /\ UNCHANGED <<table, entries, bucket, admin, clock>>

\* The body is read, decoded and judged; the clock is read when it is accepted.
Validate(r) ==
    /\ push[r].pc = "validate"
    /\ push' \in {[push EXCEPT ![r].pc = "put", ![r].stamp = clock],
                  [push EXCEPT ![r] = IdlePush]}
    /\ UNCHANGED <<table, entries, bucket, admin, clock>>

\* latest.Put takes the lock and overwrites, whatever the entry holds.
Put(r) ==
    LET p == push[r].probe
    IN  /\ push[r].pc = "put"
        /\ latest' = [latest EXCEPT ![p] = push[r].stamp]
        /\ origin' = [origin EXCEPT ![p] = IF push[r].stale THEN "late" ELSE "current"]
        /\ push' = [s \in PushReq |->
                      IF s = r THEN IdlePush
                      ELSE IF push[s].probe = p /\ push[s].pc = "put"
                      THEN [push[s] EXCEPT !.overtaken = TRUE] ELSE push[s]]
        /\ UNCHANGED <<table, bucket, admin, clock>>

-----------------------------------------------------------------------------
(* The administrator's handlers *)

\* Observation: the statement just executed ends the life of p.
EndLife(p) ==
    /\ push' = [r \in PushReq |->
                  IF push[r].probe = p THEN [push[r] EXCEPT !.stale = TRUE] ELSE push[r]]
    /\ origin' = [origin EXCEPT ![p] = "outlived"]
    /\ bucket' = [bucket EXCEPT ![p] = IF @ = "none" THEN "none" ELSE "outlived"]

\* INSERT of a row under an ID the table does not hold; an ID it holds is a
\* duplicate, and the handler draws another.
Create(p) ==
    /\ ~Registered(p)
    /\ issued < MaxToken
    /\ row' = [row EXCEPT ![p] = "enabled"]
    /\ issued' = issued + 1
    /\ token' = [token EXCEPT ![p] = issued']
    /\ UNCHANGED <<revoked, entries, bucket, push, admin, clock>>

\* GetProbe: the handler remembers whether the probe was enabled.
ToggleRead(a, p) ==
    /\ admin[a].pc = "idle"
    /\ Registered(p)
    /\ admin' = [admin EXCEPT ![a] = [pc |-> "toggle", probe |-> p,
                                      was |-> row[p] = "enabled"]]
    /\ UNCHANGED <<table, entries, bucket, push, clock>>

\* SetProbeEnabled to the opposite of what was read; a row deleted in between
\* is an error and ends the request.
ToggleWrite(a) ==
    LET p == admin[a].probe
    IN  /\ admin[a].pc = "toggle"
        /\ \/ /\ ~Registered(p)
              /\ admin' = [admin EXCEPT ![a] = IdleAdmin]
              /\ UNCHANGED <<row, origin, bucket, push>>
           \/ /\ Registered(p)
              /\ admin[a].was
              /\ row' = [row EXCEPT ![p] = "disabled"]
              /\ admin' = [admin EXCEPT ![a].pc = "toggled"]
              /\ EndLife(p)
           \/ /\ Registered(p)
              /\ ~admin[a].was
              /\ row' = [row EXCEPT ![p] = "enabled"]
              /\ admin' = [admin EXCEPT ![a] = IdleAdmin]
              /\ UNCHANGED <<origin, bucket, push>>
        /\ UNCHANGED <<token, issued, revoked, latest, clock>>

\* Mutant: the generator may return the token the row already holds.
RotateToSameToken(p) ==
    /\ Registered(p)
    /\ issued < MaxToken
    /\ issued' \in {issued, issued + 1}
    /\ token' = [token EXCEPT ![p] = issued']
    /\ revoked' = revoked \cup {token[p]}
    /\ UNCHANGED <<row, entries, bucket, push, admin, clock>>

\* UPDATE of token_hash: the previous token is gone in the same statement.
Rotate(p) ==
    /\ Registered(p)
    /\ issued < MaxToken
    /\ issued' = issued + 1
    /\ token' = [token EXCEPT ![p] = issued']
    /\ revoked' = revoked \cup {token[p]}
    /\ UNCHANGED <<row, entries, bucket, push, admin, clock>>

\* DELETE of the row.
Delete(a, p) ==
    /\ admin[a].pc = "idle"
    /\ Registered(p)
    /\ row' = [row EXCEPT ![p] = "absent"]
    /\ token' = [token EXCEPT ![p] = 0]
    /\ revoked' = revoked \cup {token[p]}
    /\ admin' = [admin EXCEPT ![a] = [IdleAdmin EXCEPT !.pc = "deleted", !.probe = p]]
    /\ EndLife(p)
    /\ UNCHANGED <<issued, latest, clock>>

\* Mutant: only a deletion, not a toggle, drops the bucket.
RemoveBucketOnDelete(a) ==
    /\ admin[a].pc \in {"toggled", "dropped"}
    /\ bucket' = IF admin[a].pc = "toggled" THEN bucket
                 ELSE [bucket EXCEPT ![admin[a].probe] = "none"]
    /\ admin' = [admin EXCEPT ![a] = IF @.pc = "toggled" THEN [@ EXCEPT !.pc = "removed"]
                                                         ELSE IdleAdmin]
    /\ UNCHANGED <<table, entries, push, clock>>

\* limiter.Remove: first after a disabling toggle, last after a deletion.
RemoveBucket(a) ==
    /\ admin[a].pc \in {"toggled", "dropped"}
    /\ bucket' = [bucket EXCEPT ![admin[a].probe] = "none"]
    /\ admin' = [admin EXCEPT ![a] = IF @.pc = "toggled" THEN [@ EXCEPT !.pc = "removed"]
                                                         ELSE IdleAdmin]
    /\ UNCHANGED <<table, entries, push, clock>>

\* Mutant: the handler re-reads the row and spares the entry of a probe that is
\* enabled again, although the entry may be the old one.
DropEntryUnlessEnabled(a) ==
    LET p == admin[a].probe
    IN  /\ admin[a].pc \in {"removed", "deleted"}
        /\ latest' = IF row[p] = "enabled" THEN latest ELSE [latest EXCEPT ![p] = NoEntry]
        /\ admin' = [admin EXCEPT ![a] = IF @.pc = "deleted" THEN [@ EXCEPT !.pc = "dropped"]
                                                             ELSE IdleAdmin]
        /\ UNCHANGED <<table, origin, bucket, push, clock>>

\* latest.Delete: last after a disabling toggle, first after a deletion.
DropEntry(a) ==
    /\ admin[a].pc \in {"removed", "deleted"}
    /\ latest' = [latest EXCEPT ![admin[a].probe] = NoEntry]
    /\ admin' = [admin EXCEPT ![a] = IF @.pc = "deleted" THEN [@ EXCEPT !.pc = "dropped"]
                                                         ELSE IdleAdmin]
    /\ UNCHANGED <<table, origin, bucket, push, clock>>

-----------------------------------------------------------------------------
(* The process *)

\* The process dies at any point and starts again: the table survives, the
\* requests and everything kept in memory do not.
Restart ==
    /\ latest' = [p \in ProbeID |-> NoEntry]
    /\ bucket' = [p \in ProbeID |-> "none"]
    /\ push' = [r \in PushReq |-> IdlePush]
    /\ admin' = [a \in AdminReq |-> IdleAdmin]
    /\ UNCHANGED <<table, origin, clock>>

Tick ==
    /\ clock < MaxClock
    /\ clock' = clock + 1
    /\ UNCHANGED <<table, entries, bucket, push, admin>>

Init ==
    /\ row = [p \in ProbeID |-> "absent"]
    /\ token = [p \in ProbeID |-> 0]
    /\ issued = 0
    /\ latest = [p \in ProbeID |-> NoEntry]
    /\ bucket = [p \in ProbeID |-> "none"]
    /\ push = [r \in PushReq |-> IdlePush]
    /\ admin = [a \in AdminReq |-> IdleAdmin]
    /\ clock = 0
    /\ origin = [p \in ProbeID |-> "current"]
    /\ revoked = {}

PushStep(r)  == Limit(r) \/ Validate(r) \/ Put(r)
AdminStep(a) == ToggleWrite(a) \/ RemoveBucket(a) \/ DropEntry(a)

Next ==
    \/ \E r \in PushReq, p \in ProbeID : Authenticate(r, p)
    \/ \E r \in PushReq : Limit(r) \/ Validate(r) \/ Put(r)
    \/ \E a \in AdminReq, p \in ProbeID : ToggleRead(a, p) \/ Delete(a, p)
    \/ \E a \in AdminReq : ToggleWrite(a) \/ RemoveBucket(a) \/ DropEntry(a)
    \/ \E p \in ProbeID : Create(p) \/ Rotate(p)
    \/ Restart
    \/ Tick

Spec == Init /\ [][Next]_vars

\* The Go runtime schedules every goroutine, and no step of a handler waits for
\* another handler: a request that has started goes on to its end.
Fairness == /\ \A r \in PushReq : WF_vars(PushStep(r))
            /\ \A a \in AdminReq : WF_vars(AdminStep(a))

FairSpec == Spec /\ Fairness
-----------------------------------------------------------------------------
(* Properties *)

TypeOK ==
    /\ row \in [ProbeID -> {"absent", "disabled", "enabled"}]
    /\ token \in [ProbeID -> Nat]
    /\ issued \in Nat
    /\ latest \in [ProbeID -> Nat \cup {NoEntry}]
    /\ bucket \in [ProbeID -> Origin \cup {"none"}]
    /\ push \in [PushReq -> ActivePush \cup {IdlePush}]
    /\ admin \in [AdminReq -> ActiveAdmin \cup {IdleAdmin}]
    /\ clock \in Nat
    /\ origin \in [ProbeID -> Origin]
    /\ revoked \in SUBSET Nat

\* Once the request that disabled or deleted a probe has cleaned up, the only
\* measurement the process may still hold for a life that is over is one put by
\* a push that had authenticated before that life ended (push.go:115-200 against
\* probes.go:349-359 and 406-418).
OnlyLatePushesLeaveEntries ==
    \A p \in ProbeID : latest[p] # NoEntry /\ ~EntryOwed(p) =>
        \/ origin[p] = "late"
        \/ origin[p] = "current" /\ row[p] = "enabled"

\* The same of the rate-limit bucket: a probe enabled again, or created under an
\* old ID, starts with a fresh one unless such a push made it (limiter.go:64-70).
OnlyLatePushesLeaveBuckets ==
    \A p \in ProbeID : bucket[p] # "none" /\ ~BucketOwed(p) =>
        \/ bucket[p] = "late"
        \/ bucket[p] = "current" /\ row[p] = "enabled"

\* A token authenticates at most one probe, and one that was rotated away or
\* whose probe was deleted never authenticates again, under any overlap of
\* creations, rotations and deletions, restarts and reuse of the ID.
RevokedStaysRevoked ==
    \A p \in ProbeID : Registered(p) =>
        /\ token[p] \notin revoked
        /\ \A q \in ProbeID : Registered(q) /\ token[q] = token[p] => q = p

\* latest/store.go:1, "the most recent validated measurement per probe": an older one
\* replaces it in one way only.  The stamp is taken before the lock, and Put does not
\* compare (push.go:200), so a push that waits for the lock while another of its probe
\* is put undoes it: one device's push and its retry, or an old device's and a new
\* one's under a rotated token or a reused ID.  No clean-up, restart or slow judgement
\* moves last_seen back.
OnlyOvertakenPutsRegress ==
    [][\A p \in ProbeID :
          latest[p] # NoEntry /\ latest'[p] # NoEntry /\ latest'[p] < latest[p] =>
             \E r \in PushReq : /\ push[r].pc = "put" /\ push'[r].pc = "idle"
                                /\ push[r].probe = p /\ push[r].overtaken]_latest

\* A measurement of a life that is over does not stay: the clean-up reaches it,
\* or a push or a restart replaces it first.
OutlivedEntryGoes ==
    \A p \in ProbeID : (latest[p] # NoEntry /\ origin[p] = "outlived")
                          ~> (latest[p] = NoEntry \/ origin[p] # "outlived")

(***************************************************************************)
(* What the comments of the code promise of the same state, and the code   *)
(* does not keep.                                                          *)
(***************************************************************************)

\* probes.go:354: "A disabled probe must not keep a rate-limit bucket or a stale
\* measurement that would resurface as "online" the moment it is re-enabled."
DisabledProbeKeepsNoMeasurement ==
    \A p \in ProbeID : row[p] = "disabled" /\ ~EntryOwed(p) => latest[p] = NoEntry

=============================================================================
