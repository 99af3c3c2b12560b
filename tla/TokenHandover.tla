---------------------------- MODULE TokenHandover ----------------------------
(***************************************************************************)
(* How a new token reaches a person: a handler writes its hash into the    *)
(* probe table, then puts the plaintext in a slot and redirects to the     *)
(* page that shows the slot once.                                          *)
(*                                                                         *)
(*   creation   internal/admin/probes.go, internal/portal/register.go      *)
(*   rotation   internal/admin/probes.go                                   *)
(*   slots      internal/portal/oneshot.go  putPair, takePair              *)
(*   page       internal/portal/register.go GET /token/{slot}              *)
(*                                                                         *)
(* A step is one SQL statement, or one critical section of the slot store  *)
(* together with what its handler does before the next one.  Slot IDs are  *)
(* 32 random bytes and a token is put in a slot at most once, so a slot is *)
(* named by its token.  Whoever holds the URL may ask for it, any number   *)
(* of times.                                                               *)
(***************************************************************************)
EXTENDS Integers, Sequences

CONSTANTS
    ProbeID,  \* every identifier generateProbeID can return
    Request,  \* slots for concurrent creations and rotations
    NoProbe,
    Vacant,   \* what the store holds of a token it has no slot for
    Spent,    \* a name for a slot that is gone; no slot is ever put back
    TTL,      \* oneShotTTL
    MaxToken, \* bound on the tokens ever generated
    MaxClock  \* bound on the clock

ASSUME NoProbeAssumption == NoProbe \notin ProbeID
ASSUME TTLAssumption     == TTL \in Nat
ASSUME BoundAssumption   == MaxToken \in Nat /\ MaxClock \in Nat

VARIABLES
    token,  \* probes.token_hash of each ID; 0 when there is no row
    issued, \* how many tokens token.Generate has returned: they never repeat
    slots,  \* oneShotStore.slots: what each token's slot holds, or Vacant
    req,    \* the creations and rotations in flight
    clock,  \* oneShotStore.now
    (* Observation only: no guard reads these. *)
    filed,  \* the probe under which the table has held each token, or NoProbe
    pages,  \* of each token: the probes its pages named, in order
    minted, \* tokens that have been put in a slot
    lost    \* tokens given up with a crash, a failed read or the TTL

table == <<token, issued, filed>>
seen  == <<pages, minted>>
vars  == <<token, issued, slots, req, clock, filed, pages, minted, lost>>

-----------------------------------------------------------------------------
Token   == 1 .. MaxToken
IdleReq == [pc |-> "idle", probe |-> NoProbe, value |-> 0]

Slot == [probe : ProbeID, expires : Nat]

ASSUME VacantAssumption == Vacant # Spent /\ {Vacant, Spent} \cap Slot = {}

Registered(p) == token[p] # 0
Full(t)       == slots[t] # Vacant

\* now.After(expires): a slot is still good at the very instant it expires.
Expired(t) == Full(t) /\ clock > slots[t].expires

Finish(r) == req' = [req EXCEPT ![r] = IdleReq]

\* The handler goes on to the mint with its token, for probe p.
Stored(r, p) == req' = [req EXCEPT ![r] = [pc |-> "mint", probe |-> p, value |-> req[r].value]]

-----------------------------------------------------------------------------
(* The handlers that make a token *)

\* POST /admin/probes and POST / have validated their form.
BeginCreate(r) ==
    /\ req[r].pc = "idle"
    /\ issued < MaxToken
    /\ issued' = issued + 1
    /\ req' = [req EXCEPT ![r] = [pc |-> "insert", probe |-> NoProbe, value |-> issued']]
    /\ UNCHANGED <<token, slots, clock, filed, seen, lost>>

\* CreateProbe under an ID drawn for this attempt.
Insert(r, p) ==
    /\ req[r].pc = "insert"
    /\ ~Registered(p)
    /\ token' = [token EXCEPT ![p] = req[r].value]
    /\ filed' = [filed EXCEPT ![req[r].value] = p]
    /\ Stored(r, p)
    /\ UNCHANGED <<issued, slots, clock, seen, lost>>

\* The row is in, but CreateProbe cannot read it back: the visitor gets an error.
InsertUnread(r, p) ==
    /\ req[r].pc = "insert"
    /\ ~Registered(p)
    /\ token' = [token EXCEPT ![p] = req[r].value]
    /\ filed' = [filed EXCEPT ![req[r].value] = p]
    /\ lost' = lost \cup {req[r].value}
    /\ Finish(r)
    /\ UNCHANGED <<issued, slots, clock, seen>>

\* The ID is taken: another is drawn, until the attempts are exhausted.
InsertDuplicate(r) ==
    /\ req[r].pc = "insert"
    /\ \E p \in ProbeID : Registered(p)
    /\ Finish(r)
    /\ UNCHANGED <<table, slots, clock, seen, lost>>

\* Rotation: GetProbe finds the row, and a token is generated.
BeginRotate(r, p) ==
    /\ req[r].pc = "idle"
    /\ Registered(p)
    /\ issued < MaxToken
    /\ issued' = issued + 1
    /\ req' = [req EXCEPT ![r] = [pc |-> "update", probe |-> p, value |-> issued']]
    /\ UNCHANGED <<token, slots, clock, filed, seen, lost>>

\* Mutant: no row affected is not an error.
UpdateProbeTokenUnchecked(r) ==
    LET p == req[r].probe
    IN  /\ req[r].pc = "update"
        /\ IF Registered(p)
           THEN /\ token' = [token EXCEPT ![p] = req[r].value]
                /\ filed' = [filed EXCEPT ![req[r].value] = p]
           ELSE UNCHANGED <<token, filed>>
        /\ Stored(r, p)
        /\ UNCHANGED <<issued, slots, clock, seen, lost>>

\* Mutant: the statement is tried again, although it may have gone through.
UpdateProbeTokenRetried(r) ==
    LET p == req[r].probe
    IN  /\ req[r].pc = "update"
        /\ \/ /\ Registered(p)
              /\ token' = [token EXCEPT ![p] = req[r].value]
              /\ filed' = [filed EXCEPT ![req[r].value] = p]
              /\ Stored(r, p) \/ UNCHANGED req
           \/ /\ ~Registered(p)
              /\ Finish(r)
              /\ UNCHANGED <<token, filed>>
        /\ UNCHANGED <<issued, slots, clock, seen, lost>>

\* UPDATE of token_hash; a row deleted since is an error and ends the request.
UpdateProbeToken(r) ==
    LET p == req[r].probe
    IN  /\ req[r].pc = "update"
        /\ \/ /\ Registered(p)
              /\ token' = [token EXCEPT ![p] = req[r].value]
              /\ filed' = [filed EXCEPT ![req[r].value] = p]
              /\ Stored(r, p)
           \/ /\ ~Registered(p)
              /\ Finish(r)
              /\ UNCHANGED <<token, filed>>
        /\ UNCHANGED <<issued, slots, clock, seen, lost>>

\* Mutant: the store keeps one slot per probe, the last one put.
PutPairPerProbe(r) ==
    LET v    == req[r].value
        swept == {t \in Token : Expired(t)}
        stale == {t \in Token : Full(t) /\ slots[t].probe = req[r].probe}
    IN  /\ req[r].pc = "mint"
        /\ slots' = [t \in Token |->
                       IF t = v THEN [probe |-> req[r].probe, expires |-> clock + TTL]
                       ELSE IF t \in swept \cup stale THEN Vacant ELSE slots[t]]
        /\ minted' = minted \cup {v}
        /\ lost' = lost \cup swept
        /\ Finish(r)
        /\ UNCHANGED <<table, clock, pages>>

\* putPair: under the lock, the expired slots are swept and the new one stored.
PutPair(r) ==
    LET v     == req[r].value
        swept == {t \in Token : Expired(t)}
    IN  /\ req[r].pc = "mint"
        /\ slots' = [t \in Token |->
                       IF t = v THEN [probe |-> req[r].probe, expires |-> clock + TTL]
                       ELSE IF t \in swept THEN Vacant ELSE slots[t]]
        /\ minted' = minted \cup {v}
        /\ lost' = lost \cup swept
        /\ Finish(r)
        /\ UNCHANGED <<table, clock, pages>>

\* putPair cannot read random bytes for the slot ID: the hash is already stored.
PutPairFails(r) ==
    /\ req[r].pc = "mint"
    /\ lost' = lost \cup {req[r].value}
    /\ Finish(r)
    /\ UNCHANGED <<table, slots, clock, seen>>

-----------------------------------------------------------------------------
(* GET /token/{slot} *)

\* Mutant: the slot is read, and swept only when it has expired.
TakePairKeeping(t) ==
    /\ Full(t)
    /\ IF Expired(t)
       THEN /\ slots' = [slots EXCEPT ![t] = Vacant]
            /\ lost' = lost \cup {t} /\ UNCHANGED pages
       ELSE /\ pages' = [pages EXCEPT ![t] = Append(@, slots[t].probe)]
            /\ UNCHANGED <<slots, lost>>
    /\ UNCHANGED <<table, req, clock, minted>>

\* takePair deletes the slot it finds, then shows it unless it has expired.  A
\* slot it does not find changes nothing.
TakePair(t) ==
    /\ Full(t)
    /\ slots' = [slots EXCEPT ![t] = Vacant]
    /\ IF Expired(t)
       THEN lost' = lost \cup {t} /\ UNCHANGED pages
       ELSE pages' = [pages EXCEPT ![t] = Append(@, slots[t].probe)] /\ UNCHANGED lost
    /\ UNCHANGED <<table, req, clock, minted>>

-----------------------------------------------------------------------------
(* The rest of the world *)

\* DELETE of a row.  A slot that still holds its token stays.
DeleteProbe(p) ==
    /\ Registered(p)
    /\ token' = [token EXCEPT ![p] = 0]
    /\ UNCHANGED <<issued, slots, req, clock, filed, seen, lost>>

\* A crash anywhere and a new start: the table stays, slots and requests go.
Restart ==
    /\ slots' = [t \in Token |-> Vacant]
    /\ req' = [r \in Request |-> IdleReq]
    /\ lost' = lost \cup {t \in Token : Full(t)} \cup {req[r].value : r \in Request}
    /\ UNCHANGED <<table, clock, seen>>

Tick ==
    /\ clock < MaxClock
    /\ clock' = clock + 1
    /\ UNCHANGED <<table, slots, req, seen, lost>>

Init ==
    /\ token = [p \in ProbeID |-> 0]
    /\ issued = 0
    /\ slots = [t \in Token |-> Vacant]
    /\ req = [r \in Request |-> IdleReq]
    /\ clock = 0
    /\ filed = [t \in Token |-> NoProbe]
    /\ pages = [t \in Token |-> <<>>]
    /\ minted = {}
    /\ lost = {}

Next ==
    \/ \E r \in Request : \/ BeginCreate(r) \/ InsertDuplicate(r) \/ UpdateProbeToken(r)
                          \/ PutPair(r) \/ PutPairFails(r)
    \/ \E r \in Request, p \in ProbeID :
          Insert(r, p) \/ InsertUnread(r, p) \/ BeginRotate(r, p)
    \/ \E t \in Token : TakePair(t)
    \/ \E p \in ProbeID : DeleteProbe(p)
    \/ Restart
    \/ Tick

Spec == Init /\ [][Next]_vars

-----------------------------------------------------------------------------
(* Properties *)

TypeOK ==
    /\ token \in [ProbeID -> Token \cup {0}]
    /\ issued \in 0 .. MaxToken
    /\ slots \in [Token -> Slot \cup {Vacant}]
    /\ req \in [Request -> {IdleReq}
                           \cup [pc : {"insert"}, probe : {NoProbe}, value : Token]
                           \cup [pc : {"update", "mint"}, probe : ProbeID, value : Token]]
    /\ clock \in Nat
    /\ filed \in [Token -> ProbeID \cup {NoProbe}]
    /\ pages \in [Token -> Seq(ProbeID)]
    /\ minted \in SUBSET Token
    /\ lost \in SUBSET (Token \cup {0})

\* A page shows a token beside the probe whose row held it, and shows only what
\* a row held: whoever copies it holds a token that was good once, and that no
\* row but that probe's ever had (register.go:166-171 and oneshot.go:53-91).
PagesAreTrue ==
    \A t \in Token : pages[t] # <<>> => filed[t] # NoProbe /\ pages[t] = <<filed[t]>>

\* The token that a row holds has been shown, or can be, or is about to be put
\* where it can be, unless a crash, 60 seconds or a failed read lost it: of random
\* bytes for the slot, or of the row a creation has just inserted.
\* Rotations of one probe that overtake each other between the statement and
\* the slot do not lose it (probes.go:377-387).
CurrentTokenIsInReach ==
    \A p \in ProbeID : Registered(p) =>
        LET t == token[p]
        IN  \/ pages[t] # <<>>
            \/ Full(t)
            \/ \E r \in Request : req[r].pc = "mint" /\ req[r].value = t
            \/ t \in lost

(***************************************************************************)
(* The slots implement the promise of OneShotDisplay.                      *)
(***************************************************************************)
Offers ==
    [t \in Token |-> IF Full(t) THEN slots[t]
                     ELSE IF t \in minted THEN Spent ELSE Vacant]

Display == INSTANCE OneShotDisplay
               WITH offer <- Offers, time <- clock, NotYet <- Vacant, Over <- Spent

\* Under concurrent mints, sweeps, redemptions and restarts: shown at most once,
\* beside the probe it was offered for, and not after its 60 seconds.
ShownAtMostOnce == Display!Spec

(***************************************************************************)
(* The table implements the promise of Credentials: a token that a row has *)
(* held is used up.                                                        *)
(***************************************************************************)
Valid == {x \in Token \X ProbeID : token[x[2]] = x[1]}
Used  == {t \in Token : filed[t] # NoProbe}

Creds == INSTANCE Credentials WITH valid <- Valid, used <- Used

\* Whatever overlap, failure or crash of creations, rotations and deletions: a
\* probe only ever gets a token that no row has held, and what a rotation or a
\* deletion took out of the table never comes back, not even when an older
\* rotation overtakes a newer one (probes.go:362-387, store/probes.go:179-193).
ReplacedStaysReplaced == Creds!Spec
=============================================================================
