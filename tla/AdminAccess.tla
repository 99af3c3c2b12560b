----------------------------- MODULE AdminAccess -----------------------------
(***************************************************************************)
(* Who gets into the management interface: the password a process accepts, *)
(* how the operator learns it, and the sessions opened with it.            *)
(*                                                                         *)
(*   start-up   cmd/gateway/main.go        run                             *)
(*   password   internal/admin/server.go   resolvePassword                 *)
(*   row        internal/store/settings.go admin_password_hash             *)
(*   sessions   internal/admin/session.go  create, get, destroy            *)
(*   requests   internal/admin/auth.go     requireSession, requireCSRF     *)
(*                                                                         *)
(* A password stands for its hash.  Session IDs are 32 random bytes: one is*)
(* issued again only when nobody holds it, which bounds the state and not  *)
(* the behaviour.  Expiry times are kept as the time left.                 *)
(***************************************************************************)
EXTENDS Integers, FiniteSets

CONSTANTS
    Password,    \* passwords a process can generate; also bounds how many
    Configured,  \* values ADMIN_PASSWORD can have
    None,
    SessionID,
    Browser,
    Req,         \* slots for concurrent requests of the interface
    MaxSessions, \* maxSessions
    TTL,         \* sessionTTL
    MaxStarts    \* bound on the number of times the gateway starts

ASSUME PasswordAssumption == Password \cap Configured = {} /\ None \notin Password \cup Configured
ASSUME SessionAssumption  == IsFiniteSet(SessionID) /\ None \notin SessionID
ASSUME BoundAssumption    == MaxSessions \in Nat \ {0} /\ TTL \in Nat /\ MaxStarts \in Nat

VARIABLES
    stored,   \* the settings row admin_password_hash, or None
    proc,     \* "down", "starting" until main has passed the warning, "serving"
    force,    \* Server.passwordHash
    fresh,    \* Server.generatedPassword, or None
    left,     \* sessionStore.sessions: the time each has left, or Gone
    cookie,   \* the cookie of each browser, or None
    here,     \* the browsers still used
    req,      \* requests in flight
    starts,
    (* Observation only: no guard reads these, but that people know what they read. *)
    log,      \* generated passwords that were logged
    voided,   \* passwords generated before the last reset
    stale,    \* the process has been running since before that reset
    opened,   \* the password each session was opened with, or None once it has ended
    idle      \* ticks since each session was last used; TTL + 1 once it has ended

password == <<stored, proc, force, fresh, starts, log, voided, stale>>
sessions == <<left, opened, idle>>
vars     == <<stored, proc, force, fresh, left, cookie, here, req, starts,
              log, voided, stale, opened, idle>>

-----------------------------------------------------------------------------
Gone    == -2   \* not in the map; a session at -1 is, until somebody looks
Expired == -1
Ended   == TTL + 1
IdleReq == [pc |-> "idle", id |-> None]

Live(id)  == left[id] >= 0
Known     == log \cup Configured
Serving   == proc = "serving"
Held(id)  == Live(id) \/ \E b \in Browser : cookie[b] = id
                      \/ \E r \in Req : req[r].id = id

\* evictLocked.
Evicted == [id \in SessionID |-> IF left[id] = Expired THEN Gone ELSE left[id]]

-----------------------------------------------------------------------------
(* The process and the password *)

\* Mutant: a start that does not look for a hash of an earlier one.
StartAnew(conf) ==
    /\ proc = "down" /\ starts < MaxStarts
    /\ \/ conf # None /\ force' = conf /\ fresh' = None /\ UNCHANGED stored
       \/ /\ conf = None
          /\ \E p \in Password \ (log \cup voided \cup {stored}) :
                stored' = p /\ force' = p /\ fresh' = p
    /\ proc' = "starting" /\ starts' = starts + 1 /\ stale' = FALSE
    /\ UNCHANGED <<sessions, cookie, here, req, log, voided>>

\* resolvePassword: the configured password, or the one whose hash is stored, or
\* a new one, whose hash is stored before anything else happens to it.
Start(conf) ==
    /\ proc = "down" /\ starts < MaxStarts
    /\ \/ conf # None /\ force' = conf /\ fresh' = None /\ UNCHANGED stored
       \/ /\ conf = None /\ stored # None
          /\ force' = stored /\ fresh' = None /\ UNCHANGED stored
       \/ /\ conf = None /\ stored = None
          /\ \E p \in Password \ (log \cup voided) :
                stored' = p /\ force' = p /\ fresh' = p
    /\ proc' = "starting" /\ starts' = starts + 1 /\ stale' = FALSE
    /\ UNCHANGED <<sessions, cookie, here, req, log, voided>>

\* The warning that names a generated password, unless LOG_LEVEL is quiet enough to
\* drop warnings; then the listeners open.
Serve(quiet) ==
    /\ proc = "starting" /\ proc' = "serving"
    /\ log' = IF fresh # None /\ ~quiet THEN log \cup {fresh} ELSE log
    /\ UNCHANGED <<stored, force, fresh, sessions, cookie, here, req, starts,
                   voided, stale>>

\* Mutant: sessions survive.
CrashKeepingSessions ==
    /\ proc # "down" /\ proc' = "down" /\ force' = None /\ fresh' = None
    /\ req' = [r \in Req |-> IdleReq]
    /\ UNCHANGED <<stored, sessions, cookie, here, starts, log, voided, stale>>

\* The process ends, in whatever way.
Crash ==
    /\ proc # "down" /\ proc' = "down" /\ force' = None /\ fresh' = None
    /\ left' = [id \in SessionID |-> Gone]
    /\ idle' = [id \in SessionID |-> Ended]
    /\ req' = [r \in Req |-> IdleReq]
    /\ opened' = [id \in SessionID |-> None]
    /\ UNCHANGED <<stored, cookie, here, starts, log, voided, stale>>

\* The documented reset: the operator deletes the row, and should restart.
Reset ==
    /\ stored # None /\ stored' = None
    /\ voided' = voided \cup {stored} \cup log
    /\ stale' = (proc # "down")
    /\ UNCHANGED <<proc, force, fresh, sessions, cookie, here, req, starts, log>>

-----------------------------------------------------------------------------
(* Sessions *)

\* Mutants: one session too many; expired sessions that stay in the map.
CreateOneMore(id) ==
    /\ Cardinality({i \in SessionID : Evicted[i] # Gone}) <= MaxSessions
    /\ left' = [Evicted EXCEPT ![id] = TTL]
CreateWithoutEviction(id) ==
    /\ Cardinality({i \in SessionID : left[i] # Gone}) < MaxSessions
    /\ left' = [left EXCEPT ![id] = TTL]

\* create, where there is room.
Create(id) ==
    /\ Cardinality({i \in SessionID : Evicted[i] # Gone}) < MaxSessions
    /\ left' = [Evicted EXCEPT ![id] = TTL]

\* handleLogin with the right password.  A session the browser had is left behind,
\* and so is the new one if the answer with its cookie is lost.
Login(b, answered) ==
    /\ Serving /\ b \in here /\ force \in Known
    /\ {id \in SessionID : ~Held(id)} # {}
    /\ LET id == CHOOSE i \in SessionID : ~Held(i)
       IN  /\ Create(id)
           /\ opened' = [opened EXCEPT ![id] = force]
           /\ idle' = [idle EXCEPT ![id] = 0]
           /\ cookie' = IF answered THEN [cookie EXCEPT ![b] = id] ELSE cookie
    /\ UNCHANGED <<password, here, req>>

\* At the cap the login is refused, once expired sessions are out.
RefuseLogin(b) ==
    /\ Serving /\ b \in here /\ force \in Known
    /\ Cardinality({i \in SessionID : Evicted[i] # Gone}) >= MaxSessions
    /\ left' = Evicted
    /\ UNCHANGED <<password, opened, idle, cookie, here, req>>

\* Mutant: slide first, then look whether it had expired.
GetSliding(id) == left' = IF left[id] = Gone THEN left ELSE [left EXCEPT ![id] = TTL]

\* get: a live session slides; one that has expired goes.
Get(id) == left' = IF Live(id) THEN [left EXCEPT ![id] = TTL]
                   ELSE IF left[id] = Expired THEN [left EXCEPT ![id] = Gone]
                   ELSE left

Use(id) == /\ Get(id)
           /\ idle' = IF idle[id] <= TTL THEN [idle EXCEPT ![id] = 0] ELSE idle
           /\ UNCHANGED opened

\* handleLoginPage asks only whether there is a session.
VisitLogin(b) ==
    /\ Serving /\ b \in here /\ cookie[b] # None
    /\ Use(cookie[b])
    /\ UNCHANGED <<password, cookie, here, req>>

\* requireSession: a request of kind "form", "page" or "logout" enters, or is sent
\* to the login page.
Enter(r, b, kind) ==
    LET id == cookie[b]
    IN  /\ Serving /\ req[r].pc = "idle" /\ b \in here /\ id # None
        /\ Use(id)
        /\ req' = IF Live(id) THEN [req EXCEPT ![r] = [pc |-> kind, id |-> id]] ELSE req
        /\ UNCHANGED <<password, cookie, here>>

\* requireCSRF: its own lookup; then a form of another session is refused.
CheckForm(r) ==
    LET id == req[r].id
    IN  /\ req[r].pc = "form"
        /\ Use(id)
        /\ \/ Live(id) /\ req' = [req EXCEPT ![r].pc = "page"]
           \/ req' = [req EXCEPT ![r] = IdleReq]
        /\ UNCHANGED <<password, cookie, here>>

\* The handler looks the session up a third time, and does not ask whether it is
\* still there.  What it does to the other components follows.
Handle(r) ==
    LET id == req[r].id
    IN  /\ req[r].pc = "page"
        /\ Use(id)
        /\ req' = [req EXCEPT ![r].pc = "work"]
        /\ UNCHANGED <<password, cookie, here>>

\* The page, redirect or log record names sess.username.  The request is answered,
\* or its goroutine panics because the session was gone by the last lookup: either
\* way nothing here is left of it.
Finish(r) ==
    /\ req[r].pc = "work"
    /\ req' = [req EXCEPT ![r] = IdleReq]
    /\ UNCHANGED <<password, sessions, cookie, here>>

\* Mutant: the cookie is all that a logout clears.
LogoutCookie(r) ==
    LET id == req[r].id
    IN  /\ req[r].pc = "logout"
        /\ idle' = [idle EXCEPT ![id] = Ended]
        /\ \E lostBy \in SUBSET Browser :
              cookie' = [b \in Browser |-> IF cookie[b] = id /\ b \notin lostBy
                                           THEN None ELSE cookie[b]]
        /\ req' = [req EXCEPT ![r] = IdleReq]
        /\ UNCHANGED <<password, left, opened, here>>

\* handleLogout.  The browser may miss the answer that clears its cookie.
Logout(r) ==
    LET id == req[r].id
    IN  /\ req[r].pc = "logout"
        /\ left' = [left EXCEPT ![id] = Gone]
        /\ idle' = [idle EXCEPT ![id] = Ended]
        /\ opened' = [opened EXCEPT ![id] = None]
        /\ \E lostBy \in SUBSET Browser :
              cookie' = [b \in Browser |-> IF cookie[b] = id /\ b \notin lostBy
                                           THEN None ELSE cookie[b]]
        /\ req' = [req EXCEPT ![r] = IdleReq]
        /\ UNCHANGED <<password, here>>

-----------------------------------------------------------------------------
(* The environment *)

Tick ==
    /\ left' = [id \in SessionID |-> IF Live(id) THEN left[id] - 1 ELSE left[id]]
    /\ idle' = [id \in SessionID |-> IF idle[id] <= TTL THEN idle[id] + 1 ELSE Ended]
    /\ opened' = [id \in SessionID |-> IF idle'[id] <= TTL THEN opened[id] ELSE None]
    /\ UNCHANGED <<password, cookie, here, req>>

\* A browser is closed for good; one of them stays.
Leave(b) ==
    /\ here # {b} /\ b \in here
    /\ here' = here \ {b} /\ cookie' = [cookie EXCEPT ![b] = None]
    /\ UNCHANGED <<password, sessions, req>>

-----------------------------------------------------------------------------
Init ==
    /\ stored = None /\ proc = "down" /\ force = None /\ fresh = None /\ starts = 0
    /\ left = [id \in SessionID |-> Gone]
    /\ cookie = [b \in Browser |-> None]
    /\ here = Browser
    /\ req = [r \in Req |-> IdleReq]
    /\ log = {} /\ voided = {} /\ stale = FALSE
    /\ opened = [id \in SessionID |-> None]
    /\ idle = [id \in SessionID |-> Ended]

Next ==
    \/ \E conf \in Configured \cup {None} : Start(conf)
    \/ Serve(TRUE) \/ Serve(FALSE) \/ Crash \/ Reset
    \/ \E b \in Browser : Login(b, TRUE) \/ Login(b, FALSE) \/ RefuseLogin(b)
                          \/ VisitLogin(b) \/ Leave(b)
    \/ \E r \in Req, b \in Browser, kind \in {"form", "page", "logout"} : Enter(r, b, kind)
    \/ \E r \in Req : CheckForm(r) \/ Handle(r) \/ Finish(r) \/ Logout(r)
    \/ Tick

Spec == Init /\ [][Next]_vars

\* main goes on; time passes; who is refused tries again, and some answer arrives.
FairSpec == /\ Spec /\ WF_vars(Serve(TRUE) \/ Serve(FALSE)) /\ WF_vars(Tick)
            /\ \A b \in Browser : SF_vars(Login(b, TRUE))
            /\ \A r \in Req : WF_vars(CheckForm(r) \/ Handle(r) \/ Finish(r) \/ Logout(r))

-----------------------------------------------------------------------------
(* Properties *)

Request == [pc : {"form", "page", "logout", "work"}, id : SessionID]

\* With maxSessions, which bounds the memory.
TypeOK ==
    /\ stored \in Password \cup {None}
    /\ proc \in {"down", "starting", "serving"}
    /\ force \in Password \cup Configured \cup {None}
    /\ fresh \in Password \cup {None}
    /\ left \in [SessionID -> -2 .. TTL]
    /\ Cardinality({id \in SessionID : left[id] # Gone}) <= MaxSessions
    /\ cookie \in [Browser -> SessionID \cup {None}]
    /\ here \in SUBSET Browser
    /\ req \in [Req -> Request \cup {IdleReq}]
    /\ starts \in 0 .. MaxStarts
    /\ log \in SUBSET Password /\ voided \in SUBSET Password
    /\ stale \in BOOLEAN
    /\ opened \in [SessionID -> Password \cup Configured \cup {None}]
    /\ idle \in [SessionID -> 0 .. Ended]

\* server.go:111: a new password "would silently invalidate the password an operator
\* already read from the logs".  One that was read is the one the process checks, over
\* restarts, starts that crash and starts with ADMIN_PASSWORD, until the row is deleted.
ReadPasswordWorks ==
    Serving /\ force \notin Configured => \A p \in log \ voided : p = force

\* README.md:575-581: after the reset and a restart no password from before works, and
\* nobody who got in with one is still in.
ResetLocksOut ==
    Serving /\ ~stale => /\ force \notin voided
                         /\ \A id \in SessionID : Live(id) => opened[id] \notin voided

\* A session lasts exactly until its logout, its restart or an idle time above
\* sessionTTL: nothing ends it sooner, an ended one is never found, and a request
\* that was on its way when it ended does not bring it back.
LiveUntilEnded == \A id \in SessionID : Live(id) <=> idle[id] <= TTL

In(b) == cookie[b] # None /\ Live(cookie[b])

\* However full the map is, whoever is left and knows the password gets in:
\* sessions that nobody uses give their places back.
LoginGetsThrough ==
    \A b \in Browser : here = {b} ~> (In(b) \/ force \notin Known)
=============================================================================
