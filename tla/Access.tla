------------------------------- MODULE Access --------------------------------
(***************************************************************************)
(* Operators' accounts, the sign-in throttle and sessions: routes.rs       *)
(* login, setup and logout, session.rs, db/mod.rs "Operators and           *)
(* sessions", and the user command of main.rs.                             *)
(*                                                                         *)
(* Every handler is a request of a browser whose database calls are steps  *)
(* of their own: other requests run between the throttle's count, the slow *)
(* verification of the password, the row that records the attempt and the  *)
(* row of the session.  A request can die between any two of them.         *)
(*                                                                         *)
(* Time passes in ticks: a failed attempt has an age and a session a time  *)
(* left, so that time needs no bound.  Attempts out of the window are      *)
(* never read again and are left out, and with them their retention; so    *)
(* are successful attempts, empty names and passwords that are too short   *)
(* (refused before anything is written) and last_login_at.                 *)
(***************************************************************************)
EXTENDS Naturals, FiniteSets

CONSTANTS
    Browsers,     \* browsers, with one request at a time each
    Addresses,    \* client addresses; behind a proxy a header says which it is
    Names,        \* user names that are typed
    Accounts,     \* those that operators give to accounts
    Passwords,    \* passwords
    MaxPerUser,   \* LOGIN_MAX_PER_USER
    MaxPerIp,     \* LOGIN_MAX_PER_IP
    Window,       \* LOGIN_WINDOW_MINUTES, in ticks
    Ttl,          \* SESSION_TTL_DAYS, in ticks
    MaxSessions,  \* bound on sessions
    MaxCommands,  \* bound on user commands
    None

ASSUME AccessAssumption ==
    /\ IsFiniteSet(Browsers) /\ Accounts \subseteq Names
    /\ MaxPerUser \in Nat \ {0} /\ MaxPerIp \in Nat \ {0}
    /\ Window \in Nat \ {0} /\ Ttl \in Nat \ {0}
    /\ MaxSessions \in Nat /\ MaxCommands \in Nat
    /\ None \notin Names \cup Passwords \cup Addresses \cup 1..MaxSessions

VARIABLES
    password,   \* users: the password of each account
    failures,   \* login_attempts: the failed ones in the window
    sessions,   \* sessions, with the password that was typed to open them
    cookie,     \* the session cookie of each browser
    request,    \* the request in progress of each browser
    opened,     \* sessions opened so far
    commands,   \* user commands so far
    ended       \* history: the tokens that were logged out

vars == <<password, failures, sessions, cookie, request, opened, commands, ended>>

Tokens == 1..MaxSessions
Idle == [stage |-> "idle", name |-> None, typed |-> None, ip |-> None, ok |-> FALSE,
         token |-> 0, excused |-> FALSE]
Stages == {"idle", "verify", "record", "create", "session", "respond"}

At(b, stage) == request[b].stage = stage
Goes(b, stage) == request' = [request EXCEPT ![b].stage = stage]
Ends(b) == request' = [request EXCEPT ![b] = Idle]

-----------------------------------------------------------------------------
(* The throttle *)

FailedAs(name) == {f \in failures : f.name = name}
FailedFrom(ip) == {f \in failures : f.ip = ip}

\* A slip: one guess too many.
LockedOutLate(name, ip) ==
    \/ Cardinality(FailedAs(name)) > MaxPerUser
    \/ Cardinality(FailedFrom(ip)) > MaxPerIp
\* login_lockout: there is a wait.  The last failure counted is in the window, so
\* what remains of it is not zero.
LockedOut(name, ip) ==
    \/ Cardinality(FailedAs(name)) >= MaxPerUser
    \/ Cardinality(FailedFrom(ip)) >= MaxPerIp

\* A row of login_attempts, with an id of its own.
Failure(name, ip) ==
    [id |-> CHOOSE i \in 1..Cardinality(failures) + 1 : \A f \in failures : f.id # i,
     name |-> name, ip |-> ip, age |-> 0]

\* record_login_attempt, in one transaction.
Recorded(b, ok) ==
    failures' = IF ok THEN failures \ FailedAs(request[b].name)
                ELSE failures \cup {Failure(request[b].name, request[b].ip)}

-----------------------------------------------------------------------------
(* Signing in *)

Typed(b, stage, name, typed, ip) ==
    request' = [request EXCEPT ![b] =
        [Idle EXCEPT !.stage = stage, !.name = name, !.typed = typed, !.ip = ip]]

\* The request arrives, from any address a client likes to give, and login_lockout
\* lets it pass.  What it refuses ends there and leaves nothing behind.
Login(b) ==
    /\ At(b, "idle")
    /\ \E name \in Names, typed \in Passwords, ip \in Addresses :
        ~LockedOut(name, ip) /\ Typed(b, "verify", name, typed, ip)
    /\ UNCHANGED <<password, failures, sessions, cookie, opened, commands, ended>>

\* verify_password; nobody has an account with the name None.
Matches(name, typed) == password[name] = typed

\* authenticate reads the hash, and spends its time on it.
Verify(b) ==
    /\ At(b, "verify")
    /\ request' = [request EXCEPT ![b].stage = "record",
                                  ![b].ok = Matches(request[b].name, request[b].typed)]
    /\ UNCHANGED <<password, failures, sessions, cookie, opened, commands, ended>>

Record(b) ==
    /\ At(b, "record")
    /\ Recorded(b, request[b].ok)
    /\ IF request[b].ok THEN Goes(b, "session") ELSE Ends(b)
    /\ UNCHANGED <<password, sessions, cookie, opened, commands, ended>>

\* create_session.
CreateSession(b) ==
    /\ At(b, "session")
    /\ opened < MaxSessions
    /\ opened' = opened + 1
    /\ sessions' = sessions \cup
           {[token |-> opened + 1, user |-> request[b].name, ttl |-> Ttl,
             typed |-> request[b].typed, excused |-> request[b].excused]}
    /\ request' = [request EXCEPT ![b] = [Idle EXCEPT !.stage = "respond",
                                                     !.token = opened + 1]]
    /\ UNCHANGED <<password, failures, cookie, commands, ended>>

\* set_cookie arrives.
Respond(b) ==
    /\ At(b, "respond")
    /\ cookie' = [cookie EXCEPT ![b] = request[b].token]
    /\ Ends(b)
    /\ UNCHANGED <<password, failures, sessions, opened, commands, ended>>

\* The client leaves, or the database refuses.
Dies(b) ==
    /\ ~At(b, "idle")
    /\ Ends(b)
    /\ UNCHANGED <<password, failures, sessions, cookie, opened, commands, ended>>

-----------------------------------------------------------------------------
(* The first account *)

\* user_count: setup is open while there is no account.
Setup(b) ==
    /\ At(b, "idle")
    /\ \A name \in Names : password[name] = None
    /\ \E name \in Accounts, typed \in Passwords : Typed(b, "create", name, typed, None)
    /\ UNCHANGED <<password, failures, sessions, cookie, opened, commands, ended>>

\* A slip: ON CONFLICT DO UPDATE.
CreateOrReplace(name, typed) == password' = [password EXCEPT ![name] = typed]
\* create_user; the name is UNIQUE.
CreateUser(name, typed) ==
    /\ password[name] = None
    /\ password' = [password EXCEPT ![name] = typed]

\* A slip: ON CONFLICT DO NOTHING.
CreateAnyway(b) ==
    /\ At(b, "create")
    /\ \/ CreateUser(request[b].name, request[b].typed)
       \/ password[request[b].name] # None /\ UNCHANGED password
    /\ Goes(b, "session")
    /\ UNCHANGED <<failures, sessions, cookie, opened, commands, ended>>

\* A name that is taken ends the request.
Create(b) ==
    /\ At(b, "create")
    /\ \/ CreateUser(request[b].name, request[b].typed) /\ Goes(b, "session")
       \/ password[request[b].name] # None /\ Ends(b) /\ UNCHANGED password
    /\ UNCHANGED <<failures, sessions, cookie, opened, commands, ended>>

-----------------------------------------------------------------------------
(* Sessions *)

\* session_user: the session is there and has not expired.
SessionUser(token) == {s \in sessions : s.token = token /\ s.ttl > 0}
\* What lets a browser see a private page; others are sent to the login page.
Operator(b) == cookie[b] # None /\ SessionUser(cookie[b]) # {}

\* A slip: only the cookie goes.
ForgetCookie(b) ==
    /\ cookie[b] # None
    /\ ended' = ended \cup {cookie[b]}
    /\ cookie' = [cookie EXCEPT ![b] = None]
    /\ UNCHANGED <<password, failures, sessions, request, opened, commands>>

\* The row goes, and then the cookie, if the answer arrives.
Logout(b) ==
    /\ cookie[b] # None
    /\ sessions' = {s \in sessions : s.token # cookie[b]}
    /\ ended' = ended \cup {cookie[b]}
    /\ cookie' \in {cookie, [cookie EXCEPT ![b] = None]}
    /\ UNCHANGED <<password, failures, request, opened, commands>>

-----------------------------------------------------------------------------
(* The user command, restarts and time *)

Command == commands < MaxCommands /\ commands' = commands + 1

AddUser(name, typed) ==
    /\ Command
    /\ CreateUser(name, typed)
    /\ UNCHANGED <<failures, sessions, cookie, request, opened, ended>>

\* set_password.  Sessions stay, and so does what a request has read by now: they
\* are excused.
Passwd(name, typed) ==
    /\ Command
    /\ password[name] # None
    /\ password' = [password EXCEPT ![name] = typed]
    /\ sessions' = {IF s.user = name THEN [s EXCEPT !.excused = TRUE] ELSE s : s \in sessions}
    /\ request' = [b \in Browsers |->
           IF request[b].name = name /\ request[b].stage \in {"record", "session"}
           THEN [request[b] EXCEPT !.excused = TRUE] ELSE request[b]]
    /\ UNCHANGED <<failures, cookie, opened, ended>>

\* A slip: the sessions that have not expired.
RestartSignsOut ==
    /\ request' = [b \in Browsers |-> Idle]
    /\ sessions' = {s \in sessions : s.ttl = 0}
    /\ UNCHANGED <<password, failures, cookie, opened, commands, ended>>

\* The server stops; recover drops the sessions that have expired.
Restart ==
    /\ request' = [b \in Browsers |-> Idle]
    /\ sessions' = {s \in sessions : s.ttl > 0}
    /\ UNCHANGED <<password, failures, cookie, opened, commands, ended>>

\* A slip: the window is a tick too long.
TickLate ==
    /\ failures' = {[f EXCEPT !.age = @ + 1] : f \in {f \in failures : f.age < Window}}
    /\ sessions' = {[s EXCEPT !.ttl = IF @ > 0 THEN @ - 1 ELSE 0] : s \in sessions}
    /\ UNCHANGED <<password, cookie, request, opened, commands, ended>>

\* A failure leaves the window; a session expires, its row stays.
Tick ==
    /\ failures' = {[f EXCEPT !.age = @ + 1] : f \in {f \in failures : f.age + 1 < Window}}
    /\ sessions' = {[s EXCEPT !.ttl = IF @ > 0 THEN @ - 1 ELSE 0] : s \in sessions}
    /\ UNCHANGED <<password, cookie, request, opened, commands, ended>>

-----------------------------------------------------------------------------
(* Specification *)

Init ==
    /\ password = [name \in Names |-> None]
    /\ failures = {}
    /\ sessions = {}
    /\ cookie = [b \in Browsers |-> None]
    /\ request = [b \in Browsers |-> Idle]
    /\ opened = 0
    /\ commands = 0
    /\ ended = {}

Request(b) ==
    \/ Login(b) \/ Verify(b) \/ Record(b)
    \/ Setup(b) \/ Create(b)
    \/ CreateSession(b) \/ Respond(b) \/ Dies(b)
    \/ Logout(b)

Next ==
    \/ \E b \in Browsers : Request(b)
    \/ \E name \in Accounts, typed \in Passwords : AddUser(name, typed) \/ Passwd(name, typed)
    \/ Restart
    \/ Tick

Spec == Init /\ [][Next]_vars

-----------------------------------------------------------------------------
(* Properties *)

TypeOK ==
    /\ password \in [Names -> Passwords \cup {None}]
    /\ \A f \in failures :
        f.name \in Names /\ f.ip \in Addresses /\ f.age \in 0..Window - 1
    /\ \A f, g \in failures : f.id = g.id => f = g
    /\ \A s \in sessions :
        /\ s.token \in 1..opened /\ s.ttl \in 0..Ttl
        /\ s.user \in Names /\ password[s.user] # None
    /\ \A s, t \in sessions : s.token = t.token => s = t
    /\ cookie \in [Browsers -> 1..opened \cup {None}]
    /\ \A b \in Browsers : request[b].stage \in Stages /\ request[b].token \in 0..opened
    /\ opened \in 0..MaxSessions /\ commands \in 0..MaxCommands
    /\ ended \subseteq 1..opened

\* Guesses that have passed the throttle and are not recorded yet.
Guessing(b) == request[b].stage \in {"verify", "record"}

\* The throttle counts before the slow verification and records after it, so several
\* requests may pass on the same count.  However they overlap, a user name and an
\* address have no more failures in the window than the limit allows, plus one for
\* each other browser.
GuessesBounded ==
    /\ \A name \in Names :
        Cardinality(FailedAs(name))
            + Cardinality({b \in Browsers : Guessing(b) /\ request[b].name = name})
          <= MaxPerUser - 1 + Cardinality(Browsers)
    /\ \A ip \in Addresses :
        Cardinality(FailedFrom(ip))
            + Cardinality({b \in Browsers : Guessing(b) /\ request[b].ip = ip})
          <= MaxPerIp - 1 + Cardinality(Browsers)

\* A password is what the user command or the creation of the account made it: an
\* account is never taken over by a second setup that counted no users either
\* (routes.rs setup), nor created twice.
NoTakeover ==
    [][\A name \in Names : password[name] # None /\ password'[name] # password[name] =>
           commands' = commands + 1]_vars

\* A session opened with a password that is not the account's any more was there, or
\* its password was verified, before the change (db/mod.rs authenticate,
\* set_password): an old password opens nothing new.
OldPasswordShut ==
    \A s \in sessions : s.typed = password[s.user] \/ s.excused

\* A browser stays signed in until its session expires or it logs out itself:
\* restarts, changes of the password and the logouts of others leave it.
StaysSignedIn ==
    [][\A b \in Browsers : Operator(b) =>
           \/ Operator(b)'
           \/ cookie[b] \in ended'
           \/ \E s \in sessions : s.token = cookie[b] /\ s.ttl = 1 /\ Tick]_vars

\* A token that was logged out opens no page, in whatever browser it still is.
LoggedOutIsOut == \A token \in ended : SessionUser(token) = {}

-----------------------------------------------------------------------------
(* The inductive invariant *)

\* The rows and the requests, field by field.
FailureType == [id : Nat \ {0}, name : Names, ip : Addresses, age : 0..Window - 1]
SessionType == [token : 1..opened, user : Names, ttl : 0..Ttl, typed : Passwords,
                excused : BOOLEAN]
RequestType == [stage : Stages, name : Names \cup {None}, typed : Passwords \cup {None},
                ip : Addresses \cup {None}, ok : BOOLEAN, token : 0..opened, excused : BOOLEAN]
Rows ==
    /\ failures \subseteq FailureType /\ IsFiniteSet(failures)
    /\ sessions \subseteq SessionType
    /\ request \in [Browsers -> RequestType]

\* A request that was found to have the right password, and no session yet.
Verified(b) == At(b, "session") \/ (At(b, "record") /\ request[b].ok)

\* What was typed is there until it is used, and what was verified is the password,
\* or was when it was verified.
RequestsSound ==
    \A b \in Browsers :
        /\ request[b].stage \in {"verify", "record", "create", "session"} =>
               request[b].name \in Names /\ request[b].typed \in Passwords
        /\ Guessing(b) => request[b].ip \in Addresses
        /\ Verified(b) =>
               /\ password[request[b].name] # None
               /\ request[b].excused \/ password[request[b].name] = request[b].typed

\* A token on its way to its browser has a session, is newer than the cookie there,
\* and nobody else has it.
Pending(b) == At(b, "respond")
TokensNew ==
    \A b \in Browsers : Pending(b) =>
        /\ \E s \in sessions : s.token = request[b].token
        /\ cookie[b] = None \/ cookie[b] < request[b].token
        /\ \A c \in Browsers : cookie[c] # request[b].token
        /\ \A c \in Browsers \ {b} : Pending(c) => request[c].token # request[b].token

\* The later a session was opened the later it expires.
NewerLasts == \A s, t \in sessions : s.token <= t.token => s.ttl <= t.ttl

EndedShut == \A s \in sessions : s.token \notin ended

IInv ==
    /\ TypeOK /\ Rows /\ RequestsSound /\ TokensNew /\ NewerLasts /\ EndedShut
    /\ OldPasswordShut /\ GuessesBounded

-----------------------------------------------------------------------------
(* What the comments say, and the code does not do *)

\* "Locked until the window has passed since the most recent failure" (db/mod.rs,
\* login_lockout): a user name that is locked out stays so for as long as it has a
\* failure in the window, the most recent one being the last to leave it.
LockedSinceMostRecent ==
    [][\A name \in Names :
           Cardinality(FailedAs(name)) >= MaxPerUser /\ FailedAs(name)' # {} =>
               Cardinality(FailedAs(name)') >= MaxPerUser]_vars

\* "Guard against a second account being created through this open endpoint"
\* (routes.rs, setup): every account but the first takes a user command.
OneAccountBySetup ==
    Cardinality({name \in Names : password[name] # None}) <= 1 + commands
=============================================================================
