# A formal model of the CQU NetProbe gateway

This directory holds TLA+ specifications of the gateway, the TLC configurations
that check them on small instances, and TLAPS proofs of what matters most for
every instance. Paths below are relative to the repository unless they name a
module.

## The system

The gateway is one Go process with two listeners and one SQLite database. Probes
push measurements over HTTP; Prometheus scrapes them; administrators manage
probes, targets, places and measurement parameters in a web UI; visitors register
probes themselves. Three facts shape everything concurrent in it:

* net/http runs every request in a goroutine of its own, and no lock spans a
  request;
* the store holds a single database connection (`internal/store/store.go`), so a
  statement, or a transaction, is atomic, and two statements of one handler are
  not: any other handler may run between them;
* what a probe measured last, the rate-limit buckets, the one-shot slots and the
  sessions live in memory behind mutexes, and a restart loses them.

### Components

| component | state | operations | correct when | modelled in |
|---|---|---|---|---|
| push API `internal/api/push.go` | none of its own | authenticate, limit, decode, judge, put | nothing is put for a probe that may no longer push; a good push is never blamed | `ProbeLifecycle`, `ConfigDispatch`, `Throttles` |
| latest store `internal/latest/store.go` | one entry per probe, stamped by the server | Put, Get, Snapshot, Delete | an entry belongs to the present life of its probe; an older one replaces it only if pushes overtake each other | `ProbeLifecycle`, `Exposition` |
| rate limiter `internal/api/limiter.go` | a token bucket per probe, a failure budget per address | Allow, Remove, AllowAuthFailure, AuthFailureBlocked | a paced probe passes; a blocked address stays blocked; bounded | `ProbeLifecycle`, `Pacing`, `Throttles` |
| probe table `internal/store/probes.go` | row: ID, token hash, enabled, place | create, enable, rotate, delete | a token resolves to at most one probe; a replaced one to none | `ProbeLifecycle`, `Registration`, `TokenHandover`, `Credentials` |
| probe administration `internal/admin/probes.go` | none | create, toggle, rotate, delete, list | the table and the memory agree when the handler ends; a page tells of one instant | `ProbeLifecycle`, `Registration`, `TokenHandover`, `Exposition` |
| target dispatch `internal/api/targets.go`, `internal/protocol/dispatch.go` | none | fetch, derive `config_id`, check parameters | a probe can tell that what it holds moved on; a round fits its cycle | `ConfigDispatch`, `Pacing` |
| push validation `internal/protocol/validate.go` | none | Validate | staleness before content; what an honest probe measures passes | `ConfigDispatch`, `Measurement` |
| targets, settings `internal/store/targets.go`, `measurement.go`, `settings.go` | targets with types, parameters | create, update, delete, save, reset | what is dispatched is allowed | `ConfigDispatch`, `Pacing` |
| token page `internal/portal/oneshot.go` | slots of 60 s | mint, redeem | a token is shown at most once, to whoever holds the slot | `TokenHandover` |
| self-registration `internal/portal/register.go`, `limiter.go` | registration budget per address | register | the cap holds up to a stated overshoot; the place exists | `Registration`, `Throttles` |
| catalog `internal/store/catalog.go`, `internal/admin/campuses.go`, `buildings.go` | campuses, buildings | create, import, rename, regroup, delete | a place in use is not deleted; a building has its campus | `Registration` |
| metrics `internal/metrics` | counters; reads table and latest store | Collect | UI and scrape agree on who is online | `Exposition` |
| sessions `internal/admin/session.go`, `auth.go`, `server.go` | session map, admin password hash | login, look up, logout | expired is gone; bounded; who stays gets in | `AdminAccess` |
| start-up `internal/store/migrate.go`, `cmd/gateway/main.go` | schema version, seeds, password | migrate, back-fill, seed, shut down | a crash at any point is completed by the next start | `Registration`, `ConfigDispatch`, `AdminAccess` |
| client address `internal/clientip` | none | From | the address nearest to the trusted proxies | `ClientAddress`, `Throttles` |

### How they interact

A **push** reads the probe's row once, takes from its bucket, reads its body, then
reads the allowlist, the parameters and the list of targets in three statements,
judges, stamps and puts. A **fetch** reads the list and then the parameters. An
administrator's **toggle** reads the row, writes the opposite, and if it disabled
the probe drops bucket and entry; a **deletion** deletes the row and drops entry
and bucket, in that order. A **rotation** or a **creation** writes the row, then
mints a slot of the token page. A **scrape** reads the table and then the latest
store probe by probe. Nothing else connects these handlers: they share the
database, the latest store, the limiter and the slots.

### What is hard

Steps between which another handler can run (a push against a disable, an edit
under a push, a registration against a deletion of its building); values read in
one statement and used after another; two pushes of one probe in flight; lost
answers; restarts that keep the tables and lose the memory; budgets and caps at
their limit; arithmetic of parameters. `PROJECT.json` lists them line by line under
`hazards`, with the properties that cover each or the reason why none does.

## What is modelled

### ProbeLifecycle

The probe table against the memory. `row`, `token` are two columns of `probes`;
`latest` and `bucket` are the maps of `latest.Store` and `api.Limiter`; `push` and
`admin` hold the requests in flight, each with the place it has reached and the
values it has read. One step is one SQL statement or one critical section:

| action | code |
|---|---|
| `Authenticate` | `ProbeByTokenHash` and the check of `enabled`, on one read of the row |
| `Limit` | `Limiter.Allow`: creates a missing bucket; one that exists admits or refuses |
| `Validate` | body, decoding, judgement; `s.now()` when it is accepted |
| `Put` | `latest.Put` |
| `ToggleRead`, `ToggleWrite`, `RemoveBucket`, `DropEntry` | the toggle handler |
| `Delete`, `DropEntry`, `RemoveBucket` | the delete handler, in its order |
| `Create`, `Rotate` | the statement that writes `token_hash` |
| `Restart` | a crash anywhere and a new start |

With `Overlapping` any number of pushes of one ID may be under way. Without it one may,
which asks more than a probe that waits for its answers: after a rotation, or when the ID
is used again, no push of the old device may still be in flight beside one of the new.
Tokens are numbers that `token.Generate` never returns twice. The data of a
measurement is its stamp; the tokens in a bucket are left out, so `Limit` chooses
freely when a bucket exists. Two ghost variables, read by no guard, say which life
of the probe an entry comes from (`origin`) and which tokens are revoked; a mark on a
push (`overtaken`) says that another of its probe was put after it was stamped.

*Exactly what the clean-up guarantees* took some care to state. It does not
guarantee that a disabled probe has no entry: see the findings. It does guarantee
`OnlyLatePushesLeaveEntries`: once no clean-up is owed, an entry of a life that is
over was put by a push which had authenticated before that life ended. The same
holds of buckets, and it breaks if either handler skips or reorders a clean-up by
looking at the row again.

### ConfigDispatch

The configuration between the administrator, the gateway and a probe. `targets` and
`stored` are the tables; `held` and `next` are the probe's own state, and `req` is
its one outstanding request with everything the handler has read so far.

| action | code |
|---|---|
| `FetchTargets`, `FetchConfig` | the two reads of `handleTargets` |
| `PushNamed`, `PushConfig`, `PushDispatch` | the three reads of `handlePush` and `Validate` |
| `PushUnnamed` | the same for a probe without `config_id`, which measures anything |
| `Fetched`, `FetchLost`, `PushAnswered`, `PushLost` | the probe (external) |
| `CreateTarget`, `FinishCreate` | the create form: insert, or a later update of a duplicate |
| `UpdateTarget`, `DeleteTarget`, `SetMeasurementConfig`, `ResetMeasurementConfig` | the other edits |
| `Restart` | requests die, an empty table is seeded |

`ConfigID` pairs the parameters and the list: the digest of the code is equal when
both are, SHA-1 collisions aside. The list is a set, as the code sorts it first.
Rules of `Validate` that do not depend on the configuration are in `Measurement`. A push
takes from a handler only its verdict, so a handler whose probe gave up is the same
as one whose answer was lost.

Three properties say what being judged fairly comes down to when the allowlist, the
parameters and the list are read one after another under edits. The observations `seen`,
`missed` and `restored` record, of the push under judgement, whether what it names has
been in force since the handler began, whether it has been out of force, and whether its
list has come back.

* `RefusedWasOvertaken`: a push that names what is in force throughout is accepted.
* `BlamedWasRestored`: a push that measures what it names is answered 400 only if its
  list was taken away and put back under it. Removed, allowlist read, put back: then the
  list that is read last makes it current, and the allowlist does not hold its target.
* `AcceptedWasInForceOrRestored`: the parameters and the list of an accepted push were in
  force together while it was judged, with the same exception.

The exception takes two edits within the few milliseconds of one push; the next push is
judged rightly. The documents do not mention it (see below).

### Registration

The catalog and the probes filed under it. `campuses`, `building` and `probe` are
the three tables, reduced to the codes that become labels; `req` holds the requests
of visitors and administrators with what they have read.

| action | code |
|---|---|
| `Submit`, `ValidateRegistration`, `Locate`, `LocateCampus`, `CheckCap` | the statements of `handleRegister` in their order; `LocateCampus` is followed by the address' allowance |
| `ChooseCampus`, `Agree` | the two reads of `resolveLocation` |
| `CreateProbe`, `CreateDuplicate` | an attempt of the insert, on both paths |
| `DeleteProbe` | the statement |
| `CreateCampus`, `DeleteCampus` | the statement, the transaction |
| `ChooseImport`, `CreateBuilding`, `FinishImport` | the batch import; the create form is a batch of one line |
| `ChooseUpdate`, `RecheckCampus`, `UpdateBuilding` | the update form |
| `CountBuilding`, `DeleteBuilding` | the two statements of `Store.DeleteBuilding` |
| `Restart` (with `Backfill`) | requests die; an empty catalog is rebuilt from the probes |

Retries after a duplicate ID are not counted: after any of them the handler may give
up. The allowance of an address is a refusal that may happen (`Throttles` says when).
Display names are left out. The field `missedBy` of a probe, which no guard reads,
names the administrators who had counted the probes of its building before it was
inserted and had not yet deleted it: with it `StrandedWereMissed` says that finding 3
is one race, and the only one. Another ghost, `entered`, collects the (building, campus,
group) triples the catalog has held, so that `FiledAsEntered` can say a probe's labels
were once true together. It cannot say they still are: a building regrouped later
keeps its probes' old group, and a place may be gone by the time the probe is
inserted.

`CampusDeletionStrandsNobody` looks like its guard until one asks which probes it
protects. A probe can name campus A and a building of campus B, when the building is
deleted and re-created between the lookup and the insert; the transaction is right
because it counts both ways, and the mutant that counts one way breaks only along
that path.

### TokenHandover, OneShotDisplay, Credentials

How a new token reaches a person. The handler stores the hash, then puts the
plaintext in a slot and redirects to a page that shows it once; the two steps are
not one, and the slots do not survive the process. `token` is the column
`token_hash`, `slots` the map of `oneShotStore`, `req` the creations and rotations
in flight.

| action | code |
|---|---|
| `BeginCreate`, `Insert`, `InsertDuplicate` | a form is accepted and a token generated; an attempt of `CreateProbe`, under an ID drawn for it |
| `BeginRotate`, `UpdateProbeToken` | `GetProbe`; the UPDATE, which fails if the row is gone |
| `PutPair` | `putPair`: sweep of the expired slots and the new one, under one lock |
| `PutPairFails` | no random bytes for the slot ID, after the hash is stored |
| `InsertUnread` | `CreateProbe` inserts the row and then cannot read it back |
| `TakePair` | `GET /token/{slot}`: delete what is found, show it unless it has expired |
| `DeleteProbe`, `Restart`, `Tick` | the statement; a crash anywhere; time |

Slot IDs are unguessable and a token is put at most once, so a slot is named by its
token; whoever holds a URL may ask for it any number of times. The ghosts `filed`,
`pages`, `minted` and `lost` record what the table held, what pages showed, and why a
token cannot be shown any more.

`OneShotDisplay` is the promise of the comment in `oneshot.go`: an offer is made
once, may be withdrawn at any time, and is shown at most once, beside its probe and
within its time. `ShownAtMostOnce` says the slots implement it. The other direction,
that nothing but a crash, a failed read (of random bytes, or of the row just inserted) or
the 60 seconds keeps the current token from its page, is `CurrentTokenIsInReach`.

`Credentials` is the promise of the table beside it: a probe is only ever given a token
that none has had, and what it loses by a rotation or a deletion stays lost.
`ReplacedStaysReplaced` says the table implements it, with the tokens that were ever
filed as those used up. What the promise is worth is proved of the abstract module and
carried over: one probe for each token, and no way back for a token that was replaced.

### Exposition

Extends `ProbeLifecycle` with those who read it: the collector of a scrape, and the
administrator's list page, which passes twice over the store, for its rows and for
the counts above them. `reader` holds what each has read, `exposed` what Prometheus
has.

| action | code |
|---|---|
| `ListProbes`, `ReadClock` | `store.ListProbes`; `now`, once for a scrape and once for both passes |
| `GetRow`, `GetCount` | one `latest.Get`, in the first pass and in `countProbeFilters` |
| `StartCounts`, `Render` | between the passes; the page |
| `Expose` | `Collect` has sent its series; a probe without an entry has no `last_seen` |
| `Move` | every step of `ProbeLifecycle` other than a restart |
| `Crash` | a restart, which cuts the readers short too |

`PassesTellOfOneInstant` is what agreement of page and scrape comes down to: although
every entry is read at another moment, each pass says of a probe what was true when
the clock was read, unless its entry was dropped or replaced since. It would not
follow without stamps that advance, so it holds where no two pushes of one ID are under
way (`~Overlapping`). A push that is put between the two passes of a page does make the
header disagree with the rows; nothing in the repository promises otherwise.

### ClientAddress, Throttles, Allowance

The limits by source address, composed with how the address is found.

`ClientAddress` is `clientip.From` as an operator, and the requests it is applied to:
`Arrivals` are all pairs of an origin and the address the gateway sees, over every
chain of trusted proxies and every header a client may have written before the
proxies append to it.

`Throttles` holds both limiters, `failures` of `api.Limiter` and `buckets` of
`portal.RegisterLimiter`, each a map with room for `MaxTracked` addresses.

| action | code |
|---|---|
| `Peek` | `AuthFailureBlocked`, which stamps the entry it finds; 429 ends the push |
| `Lookup` | `ProbeByTokenHash` finds a probe or not |
| `Charge` | `AllowAuthFailure`: make or find the entry, evict the oldest if full, take |
| `Register` | `RegisterLimiter.Allow` with `evictIdleLocked` |
| `RefillFailures`, `RefillBuckets` | a whole token comes back |

`lastUsed` is kept as the order it induces, and calls of a limiter are taken to happen
at different times. A bucket is its whole tokens, and refills when it likes.

`Allowance` is what a throttle of limited memory can promise: debts are paid by time
and written off early only for an address behind which as many others as the map
holds have been seen. Both limiters implement it under different mappings
(`KnockerKeepsItsBlock`, `ActiveKeepsItsBucket`): the first counts a refused push as
being seen, since the peek stamps; the second may forget any full bucket first, which
owes nothing.

### AdminAccess

The password and the sessions. `stored` is the row `admin_password_hash`, `force` and
`fresh` are `Server.passwordHash` and `generatedPassword`, `left` is the session map
with the time each session has left, `req` the requests between their lookups.

| action | code |
|---|---|
| `Start` | `resolvePassword`: configured, stored, or generated and stored |
| `Serve(quiet)` | the warning that names a generated password, if the log level lets it through; the listeners |
| `Crash`, `Reset` | the process ends; the operator deletes the row (README.md:575) |
| `Login`, `RefuseLogin` | `handleLogin` with the right password, below and at `maxSessions`; the answer may be lost |
| `VisitLogin` | `handleLoginPage` |
| `Enter`, `CheckForm`, `Handle`, `Finish` | the lookups of `requireSession`, `requireCSRF` and the handler, and its answer |
| `Logout` | `handleLogout` |
| `Tick`, `Leave` | time; a browser is closed for good |

A password stands for its hash. An expired session stays in the map at -1 until a
lookup or a login drops it, as in the code. Ghosts record what was logged, what a
reset made void, which password a session was opened with and how long it has been
idle; `Known`, which guards `Login`, reads `log` because people log in with what they
have read.

### Pacing, Measurement

Whether a probe that does as it is told is ever refused. `Pacing` composes the
settings form with its rules in `int` arithmetic, the rounds of a probe and its token
bucket.

| action | code |
|---|---|
| `Save`, `Reset` | the settings handlers; `Accepts` is `configFromForm` with `MeasurementConfig.Validate` |
| `Restart` | a start, maybe with another `RATE_LIMIT` |
| `Arrive`, `Remove` | `Limiter.Allow`, `Limiter.Remove` |
| `Refresh`, `Begin`, `Lose`, `Tick` | the probe (external): fetch, begin a round and later push it, lose it; time |

The bucket is kept as the time it took to fill. `Wrap` is the arithmetic of `int`, at
whatever width `IntMax` gives. `Measurement` has the rules of `validate.go` for ICMP,
DNS and HTTP results, in millionths, beside what a probe reports of a round: every
count of answers, every rounding of the ratio, every order of the times.
`HonestReportsPass` and `MismatchesFail` are the two demands of the comment at
`validate.go:8`: tight enough to catch a real mismatch, loose enough for an honest
rounding.

## Runs

| run | instance | shows |
|---|---|---|
| `lifecycle` | 2 probes, 2 overlapping pushes, 2 administrators, 2 tokens, 1 tick; 6.3 M states | the invariants of the memory and of the tokens; what can move `last_seen` back |
| `lifecycle_ghost` | 1 probe, 1 push, 1 administrator | finding 1 |
| `exposition` | 1 probe, 1 push of it at a time, 1 administrator, one reader that scrapes and asks for the page, 3 clock values, fair; 690 k | scrape and page tell of one instant; the stamps that Prometheus gets only advance; an outlived entry goes |
| `dispatch` | 2 targets, 2 parameter sets, one probe with and one without `config_id`, 3 edits; 4.4 M | an up-to-date push is accepted; what else a push can be told, and when |
| `dispatch_live` | 1 target of 2 types, 2 parameter sets, 3 edits, lossy network, fair; 150 k | probes converge and report again |
| `dispatch_addressless` | 1 target without an address | finding 2 |
| `catalog` | 2 campuses, 1 building, 2 groups, 1 probe ID, 2 visitors, 2 administrators, cap 1; 2.1 M | the invariants of the catalog and of what probes are filed under; the overshoot; which deletions strand a probe |
| `registration_delete` | one of each | finding 3 |
| `handover` | 2 probes, 2 handlers, 3 tokens, slots of one tick, 4 clock values; 59 k | pages are true, nothing is lost, the slots implement `OneShotDisplay`, the table `Credentials` |
| `throttles` | 3 addresses, one of them a proxy, maps of 2, 2 pushes, headers and chains of up to 2; 530 k | who is charged, what a flood costs, both limiters implement `Allowance` |
| `admin_access` | 2 browsers, 2 requests, 2 session IDs in a map of 1, idle time of one tick, 2 starts, 2 passwords, fair; 212 k | passwords and sessions in force; who stays gets in |
| `pacing` | cycles of 2 to 4 under a `RATE_LIMIT` of 2 to 4, burst 3, 2 pushes under way, 6-bit `int`, fair; 54 k | who is throttled, which rounds end, that their results pass and false ones do not |

**Bounds.** `MaxToken` bounds creations and rotations: two let an ID be created,
deleted and created again, be rotated, or stand beside another; `handover` has three,
for two rotations of a probe that overtake each other. `MaxClock` bounds time;
`lifecycle` runs over one tick, enough for two pushes stamped apart, and in
`exposition` two ticks are enough for an entry, a later one and a clock beyond both
with a threshold of 0. Two slots of each kind are enough for a push against a push, a
clean-up against another clean-up and both against a third request. `MaxChange`
bounds edits and restarts together: three hold a removal, a change of parameters and
a re-creation. Probes do not affect each other in `ConfigDispatch` or `Exposition`, so
one of each kind is enough. `Registration` needs no bound but its sets: one building
is enough because buildings meet only through their campuses and their probes; two
administrators let one work on a copy that the other makes stale; with a cap of 1 and
one ID, two visitors are past the check together, and the theorem has every larger
number. `Throttles` has one address more than its maps hold, which is when somebody
is forgotten, and one push more than it takes to pass the peek before a charge; two
entries and two proxies give every order of trusted, foreign and malformed entries.
`AdminAccess` has a session more than its map, so that an expired session can stand in
the way of a login; two starts let one be abandoned between the hash and the warning, or a
password be reset; two requests let a logout fall under another request. `Pacing` has
cycles below, at and above each limit, a round as long as its cycle, and a form whose
round wraps to a small number in the `int` it is given; `MaxSent` is below `Burst`, as
the comment at its assumption explains. Deadlock is checked in every run.

**Fairness.** In `ProbeLifecycle` and `Exposition` each request slot is weakly fair once
its request has started: goroutines are scheduled, a handler never waits for another
one, and reading a body ends at the server's `ReadTimeout`. Nothing obliges a request to
start, so `OutlivedEntryGoes` rests on the handlers alone. In `ConfigDispatch` handlers
are weakly fair for the same reason. A probe makes the fetches that are due (at start,
after a 409, with nothing to measure), and keeps pushing although its refresh timer can
fire between any two pushes: strong fairness of `PushNamed`. Lists and verdicts are each
delivered again and again if they are sent again and again: strong fairness of `Fetched`
and `PushAnswered`, the usual assumption on a lossy network. The periodic refresh is
allowed and never relied upon. In `AdminAccess` a start that has not crashed reaches its
listeners (weak), time passes (weak), a handler that has started ends (weak), and
whoever is refused tries until an answer arrives (strong fairness of `Login` answered).
Crashes need no fairness: a crashed process has no known password, which
`LoginGetsThrough` excuses; `docker-compose.yml` starts it again (`restart:
unless-stopped`), up to `MaxStarts` times in the model. In `Pacing` time passes and the
probe begins its rounds (weak), and of pushes sent again and again some arrive (strong).

## Findings

1. **A disabled or deleted probe can keep a measurement** (`lifecycle_ghost`). A
   push that authenticated before the toggle puts after the clean-up. The comments
   at `internal/admin/probes.go:354` and `internal/latest/store.go:64` rule this
   out. While the probe is disabled nothing shows the entry; when it is enabled
   again, or its ID is reused, within the online threshold, it shows as online.
2. **A target without an address is accepted, not unknown**
   (`dispatch_addressless`): the comment at `internal/api/push.go:183` describes the
   opposite of what the allowlist it has just read does.
3. **A building can be deleted under a probe** (`registration_delete`): the count and
   the deletion are two statements, and a registration fits between them.
   `README.md:288` and the comment at `internal/store/catalog.go:253` promise a
   refusal. The probe keeps reporting under a place that the catalog does not list.
   `StrandedWereMissed`, which holds, bounds the damage: only a probe inserted between
   the two statements of that deletion is stranded.

### What the models made plain

These contradict nothing that the repository promises word for word, or contradict it
for a moment that the next push repairs, or under numbers nobody enters. They are where
the properties above had to be stated with care.

* A target that is removed and put back under a push that measures it makes the answer
  400 `invalid_target`, once: the allowlist was read in between
  (`internal/api/push.go:162`), and the list read last makes the push current.
  `internal/protocol/validate.go:32-38` and Protocol v1 section 32.7 would have it 409.
  `BlamedWasRestored` says that this is the only way.
* In the same few milliseconds a push can be accepted under parameters and a list that
  were in force one after the other, never together: the list moved away, the parameters
  were read and then edited, the list came back. `AcceptedWasInForceOrRestored` says that
  the list must have come back.
* Two pushes of one probe in flight can move `last_seen` back: the stamp is taken before
  the lock of `Put` (`internal/api/push.go:200`), which does not compare.
  `internal/latest/store.go:1` speaks of the most recent measurement.
  `OnlyOvertakenPutsRegress` says that nothing else moves it back.
* When a logout or the expiry falls between the lookups of one request
  (`internal/admin/session.go:94`), the handler panics where it reads the session, after
  its writes are done; after a rotation, the page of the new token is then never
  delivered. To the state this is a lost answer, which the models have, and no property
  is about the panic itself.
* A count and an interval whose product wraps around `int` pass the form
  (`internal/protocol/dispatch.go:114`), say 2^63-1 and 2. `RoundsDoNotOverlap` says that
  a round which outlives its cycle is too long for an `int`, and the run saves one.
* `RATE_LIMIT` is compared with the cycle only when a form is saved. A restart that
  raises it above the cycle in use, or above the default one, makes the gateway refuse
  probes that obey it; a fraction of a millisecond is cut off in the comparison.
  `PacedIsAdmitted` says this is the only way.
* With a burst of 1 any delay of a push costs the next one. The default is 3.
* A report is refused when one answer of a round rounds to none
  (`internal/protocol/validate.go:148`): with three decimals, above 2000 requests. One
  bad result costs the whole report.
* With `LOG_LEVEL=error` the generated password is stored and never printed
  (`cmd/gateway/main.go:159`); the way out is the reset.
* A creation or rotation that stops between its statement and its slot leaves a token
  nobody has seen; another rotation repairs it. A rotation whose answer is lost does
  too, after 60 s.
* An eviction of an address' failures hands it a fresh budget once as many others as
  the map holds have been seen since; a refused push counts as being seen.
* `From` reads the first `X-Forwarded-For` line only; a proxy that adds a line of its
  own instead of appending would not be heard. `ClientAddress` models proxies that
  append.

## Proofs

The eight `...Proofs` modules prove, for every value of the constants that satisfies
the named assumptions of the modules, the invariants and action properties that the
runs check on small instances. First those of `ProbeLifecycleProofs`,
`ConfigDispatchProofs` and `RegistrationProofs`:

* `LateEntries`, `LateBuckets`: `OnlyLatePushesLeaveEntries` and
  `OnlyLatePushesLeaveBuckets`. Neither is inductive. `FreshPushEnabled` adds that a
  push not marked stale belongs to a probe that is enabled now: it is what makes a
  put "current". `LifeInv` adds that an entry, or a bucket, of an outlived life has
  a clean-up pending; the statement that ends a life is the one that starts owing
  it, and each clean-up step pays only its own debt.
* `TokensRevoked`: `RevokedStaysRevoked`, from `TokenInv`: every token in the table
  or revoked has been issued, the two sets are disjoint, and no two rows share one.
* `OvertakenPuts`: `OnlyOvertakenPutsRegress`, for any overlap, from `StampInv`: entries
  and pending stamps are bounded by the clock, and a pending stamp is at least the
  entry's unless the push was overtaken. A `Put` keeps this by marking whom it overtakes.
* `TableRefinement`: the table of `ProbeLifecycle` implements `Credentials`, beside
  toggles, pushes and restarts. (TLC has checked it once on the instance of
  `lifecycle`; the run leaves it out, since it doubles the time and `handover` checks
  the same promise where a token and its row are written by separate steps.)
* `DispatchedIsAllowed`: what `DispatchTargets` returns, `Allowlist` of the same rows
  accepts.
* `NamedPushes`, `AcceptedPushes`: `BlamedWasRestored` and `AcceptedWasInForceOrRestored`,
  for any edits. `JudgeInv` follows a push between the handler's reads: unless its list has
  come back, the allowlist it read covers the list it names for as long as that list is the
  dispatched one, and if parameters and list match now it has been seen in force. An edit
  keeps this because it leaves the list alone, takes it away from the push, or is recorded
  in `restored`; the last read turns it into the verdict.
* `RefusedPushes`: `RefusedWasOvertaken`, for any edits. `MissedInv` says of each read what
  it has settled: while `missed` is false, the pair named was in force when the judgement
  began and has been ever since, so the allowlist and the parameters read are its own, and
  the list read last completes the pair.
* `CatalogClosed`: `BuildingsHaveCampus`, inductive with the types; the steps that
  matter are the insert under the foreign key, the deletion that takes the buildings
  along, and the back-fill.
* `FiledTruly`: `FiledAsEntered`, from `FiledInv`, which adds that the catalog and
  every request holding a place hold triples that were entered. `PlacedWriters`
  isolates the two reads that give a request its place; both read it whole.
* `NobodyStranded`, `NeverMove`: the two action properties of the catalog.
* `OnlyMissedStranded`: `StrandedWereMissed`. `DeletersMissed` says that whoever is
  about to delete a building has missed every probe filed under it: the count
  establishes it for all, and an insert for the newcomer. `DeleteWriters` shows that
  only the count leads to the DELETE.
* `Overshoot`: `OvershootBounded`, for every cap and every finite number of visitors.
  It counts the probes of visitors together with the visitors past the check, so an
  insert moves one from one term to the other, and the check itself re-establishes
  the bound: fewer rows than the cap, and at most all visitors past it.
* `PagesTrue`, `TokenInReach` (`TokenHandoverProofs`): `PagesAreTrue` and
  `CurrentTokenIsInReach`, from an invariant that follows each token through table,
  handler, slot and page, with at most one of the last three holding it.
  `Refinement`: `ShownAtMostOnce`; every step of the hand-over is a step of
  `OneShotDisplay` or a stutter. `NeverShownAgain` says what that is worth: from the
  steps of `OneShotDisplay` alone, no token is on two pages, or twice on one, and an
  offer that is over stays over.
* `TableRefinement`, `OneTokenEach`, `LostTokensStayLost`: `ReplacedStaysReplaced`, and
  two consequences proved of `Credentials` alone. The step that matters is
  `UpdateProbeToken`: the token a request holds is filed under no probe until its own
  statement runs (`Unfiled`), and no two requests hold one (`Held`), so the statement
  is a grant of an unused token whatever overtook it.
* `ReadersOnlyRead` (`ExpositionProofs`): `ExpoSpec` implies `Spec` of
  `ProbeLifecycle`, so what is proved of the lifecycle holds beside readers, as
  `LateBesideReaders` carries over.
* `OneInstant`, `LastSeenAdvances`: without `Overlapping`, the two properties of
  readers, on top of `SerialInv`, by which no entry is ever replaced by an older one.
  What a reader holds of a probe is bounded by the clock and by the entry, and what
  Prometheus has is at most what any reader or the store will give it.
* `FloodBounded` (`ThrottlesProofs`): `FloodInv` says that the lookups made for a
  blocked address and the requests still before theirs are together at most the
  slots, less the request whose charge blocked it; `Passed` counts them.
* `OriginCharged`: `WalkFindsOrigin` shows that `From` returns the origin for every
  header and every chain, since the entries behind the origin's are all trusted and
  its own is what its first proxy wrote.
* `GuessesImplemented`, `RegistrationsImplemented`: both refinements of `Allowance`.
  `VictimWasIdle` is the heart: the oldest of a full map has had `MaxTracked` others
  stamped since. For the failures, `StampsSeen` relates the stamps to the observation.
* `SessionsLast` (`AdminAccessProofs`): `LiveUntilEnded`, from `SessionInv`, which ties
  the time left to the idle time of each session.
* `ReadPasswordStays`, `ResetIsComplete`: from `PasswordInv`, on what the row, the
  process, the log and the void passwords can hold of each other.
* `RoundsEnd` (`PacingProofs`): `RoundsDoNotOverlap`. `RoundExact` shows that
  `ICMPRoundMS` is the length of every round that an `int` can hold, whatever its width.
* `PacedAdmitted`: from `PaceInv`. Unless the probe has been outpaced, the bucket holds
  an allowance for each push under way, and what has accrued since the round began.
* `ReportsPass`: `HonestReportsPass`. `RoundedRatio` bounds the distance of a rounded
  ratio, `RoundReported` and `AnswersReported` carry it through the rules.
* `MismatchesRefused`: `MismatchesFail`. By `RatioTellsReplies` two counts of answers
  that agree with one ratio differ by less than one, as long as twice the tolerance
  is less than what one answer makes of the ratio.

Type correctness is proved in each module (`TypeCorrect`, and `ReadersTyped` in
`ExpositionProofs`). The types of `ConfigDispatch`, `Registration` and `TokenHandover`,
which hold no bound worth a run, are proved only. Every invariant and action property of
a passing run is stated by a theorem. The assumptions used are the named ones of the
modules: finite sets where something is counted, bounds that are positive where the
code's constants are, model values outside the data, `Tolerance` at least half a
`Grain`, a default that is valid, and `MaxSent` below `Burst`.

Model-checked only: the liveness properties (`OutlivedEntryGoes`, `Converges`,
`ReportsAgain`, `LoginGetsThrough`, `RefusedIsAdmittedAgain`), since neither fairness
nor ENABLED is in the prover's reach, and the violations.

## Not modelled

* Configuration parsing, templates and static files, and JSON shapes hold no state and
  interact with nothing; the models start from decoded values.
* Display names (`UpdateCampusName`, names of probes and buildings) are read by pages
  and labels, and by no decision.
* The labels and measurement series of a scrape are functions of the rows and entries
  whose reading `Exposition` models; request counters are added to and printed.
* The steps of the schema migrations. Each is one transaction with its version row, so
  a crash leaves one of finitely many versions, and the next start goes on from it.
* The shutdown deadline of 15 s. A stop at any point is in every model with a
  `Restart` or `Crash`; which requests a particular deadline lets finish is not.
* A wall clock that is set back. The clocks of the models only advance.
* How an address is spelt (ports, brackets, IPv4 in IPv6), the allowlist of `/metrics`,
  and the bounds on versions, timestamps and lengths in a push, which refuse it
  whatever the state.

## Where to go next

* `Exposition` with two probes and two readers: the theorems hold for any number, the
  liveness only for the instance.
* The migrations as steps over versions, if one ever needs more than a transaction.
* The series of a measurement with their staleness, once a property of the dashboards
  is stated in the repository.
