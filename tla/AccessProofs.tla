---------------------------- MODULE AccessProofs -----------------------------
(***************************************************************************)
(* What signing in guarantees for any number of browsers and addresses,    *)
(* any names and passwords, any limits, windows and session lifetimes, and *)
(* however requests overlap, die, or meet a restart.                       *)
(***************************************************************************)
EXTENDS Access, FiniteSetTheorems, FunctionTheorems, TLAPS

(* The throttle's rows *)

\* Among one id more than there are rows one is free.
LEMMA FreeId ==
    ASSUME Rows
    PROVE  \E i \in 1..Cardinality(failures) + 1 : \A f \in failures : f.id # i
<1> DEFINE n == Cardinality(failures)
           ids == {f.id : f \in failures}
           id == [f \in failures |-> f.id]
<1>1. n \in Nat
  BY FS_CardinalityType DEF Rows
<1>2. IsFiniteSet(ids) /\ Cardinality(ids) <= n
  <2>1. id \in Surjection(failures, ids)
    BY DEF Surjection
  <2>2. QED
    BY <2>1, FS_Surjection DEF Rows
<1>3. Cardinality(1..n+1) = n + 1
  BY <1>1, FS_Interval
<1> HIDE DEF n, ids
<1>4. ~(1..n+1 \subseteq ids)
  <2>1. ASSUME 1..n+1 \subseteq ids PROVE FALSE
    <3>1. n + 1 <= Cardinality(ids)
      <4>1. \A T \in SUBSET ids : Cardinality(T) <= Cardinality(ids)
        BY <1>2, FS_Subset
      <4>2. QED
        BY <1>3, <2>1, <4>1
    <3>2. Cardinality(ids) \in Nat
      BY <1>2, FS_CardinalityType
    <3>3. QED
      BY <1>1, <1>2, <3>1, <3>2
  <2>2. QED
    BY <2>1
<1>5. QED
  BY <1>4 DEF n, ids

LEMMA NewFailure ==
    ASSUME Rows, NEW name \in Names, NEW ip \in Addresses
    PROVE  /\ Failure(name, ip) \in FailureType
           /\ \A f \in failures : f.id # Failure(name, ip).id
           /\ Failure(name, ip).name = name /\ Failure(name, ip).ip = ip
<1> DEFINE i == CHOOSE i \in 1..Cardinality(failures) + 1 : \A f \in failures : f.id # i
<1>1. i \in 1..Cardinality(failures) + 1 /\ \A f \in failures : f.id # i
  BY FreeId
<1>2. i \in Nat \ {0}
  BY <1>1, FS_CardinalityType DEF Rows
<1>3. Failure(name, ip) = [id |-> i, name |-> name, ip |-> ip, age |-> 0]
  BY DEF Failure
<1>4. 0 \in 0..Window - 1
  BY AccessAssumption
<1> HIDE DEF i
<1>5. QED
  BY <1>1, <1>2, <1>3, <1>4 DEF FailureType

\* A tick: every failure left is one of before, a tick older.
LEMMA Older ==
    ASSUME TypeOK, Rows,
           NEW g \in {[f EXCEPT !.age = @ + 1] : f \in {f \in failures : f.age + 1 < Window}}
    PROVE  /\ g \in FailureType
           /\ \E f \in failures : /\ g = [f EXCEPT !.age = @ + 1]
                                  /\ g.id = f.id /\ g.name = f.name /\ g.ip = f.ip
<1>1. PICK f \in failures : f.age + 1 < Window /\ g = [f EXCEPT !.age = @ + 1]
  OBVIOUS
<1>2. f \in FailureType
  BY DEF Rows
<1>3. f.age + 1 \in 0..Window - 1
  BY <1>1, <1>2, AccessAssumption DEF FailureType
<1>4. QED
  BY <1>1, <1>2, <1>3 DEF FailureType

-----------------------------------------------------------------------------
LEMMA TypeInit == Init => TypeOK /\ Rows
<1> SUFFICES ASSUME Init PROVE TypeOK /\ Rows
  OBVIOUS
<1>1. IsFiniteSet({})
  BY FS_EmptySet
<1>2. Idle \in [stage : Stages, name : Names \cup {None}, typed : Passwords \cup {None},
                ip : Addresses \cup {None}, ok : BOOLEAN, token : 0..0, excused : BOOLEAN]
  BY DEF Idle, Stages
<1>3. opened = 0 /\ commands = 0 /\ opened \in 0..MaxSessions /\ commands \in 0..MaxCommands
  BY AccessAssumption DEF Init
<1>4. request \in [Browsers -> RequestType]
  BY <1>2, <1>3 DEF Init, RequestType
<1>5. QED
  BY <1>1, <1>3, <1>4 DEF Init, TypeOK, Rows, RequestType

\* Every action keeps every variable in its type.
LEMMA TypeStep ==
    TypeOK /\ Rows /\ RequestsSound /\ TokensNew /\ [Next]_vars => TypeOK' /\ Rows'
<1> SUFFICES ASSUME TypeOK, Rows, RequestsSound, TokensNew, [Next]_vars
             PROVE  TypeOK' /\ Rows'
  OBVIOUS
<1>i. \A n \in Nat : Idle \in [stage : Stages, name : Names \cup {None},
          typed : Passwords \cup {None}, ip : Addresses \cup {None}, ok : BOOLEAN,
          token : 0..n, excused : BOOLEAN]
  BY DEF Idle, Stages
<1>o. opened \in Nat /\ opened \in 0..MaxSessions
  BY AccessAssumption DEF TypeOK
<1>r. \* Steps of a request that write nothing.
      ASSUME UNCHANGED <<password, failures, sessions, cookie, opened, commands, ended>>,
             request' \in [Browsers -> RequestType]
      PROVE  TypeOK' /\ Rows'
  BY <1>r DEF TypeOK, Rows, RequestType, FailureType, SessionType
<1>1. ASSUME NEW b \in Browsers, Login(b) PROVE TypeOK' /\ Rows'
  <2>1. PICK name \in Names, typed \in Passwords, ip \in Addresses :
            Typed(b, "verify", name, typed, ip)
    BY <1>1 DEF Login
  <2>2. request' \in [Browsers -> RequestType]
    BY <1>i, <1>o, <2>1 DEF Typed, Rows, RequestType, Stages
  <2>3. QED
    BY <1>1, <1>r, <2>2 DEF Login
<1>2. ASSUME NEW b \in Browsers, Verify(b) PROVE TypeOK' /\ Rows'
  <2>1. request' \in [Browsers -> RequestType]
    <3> DEFINE ok == Matches(request[b].name, request[b].typed)
    <3>1. ok \in BOOLEAN
      BY DEF Matches
    <3>2. request' = [request EXCEPT ![b].stage = "record", ![b].ok = ok]
      BY <1>2 DEF Verify
    <3> DEFINE r == [request[b] EXCEPT !.stage = "record", !.ok = ok]
    <3> HIDE DEF ok
    <3>3. r \in RequestType
      BY <3>1 DEF Rows, RequestType, Stages
    <3>4. request' = [request EXCEPT ![b] = r]
      BY <3>2 DEF Rows
    <3> HIDE DEF r
    <3>5. QED
      BY <3>3, <3>4 DEF Rows
  <2>2. QED
    BY <1>2, <1>r, <2>1 DEF Verify
<1>3. ASSUME NEW b \in Browsers, Record(b) PROVE TypeOK' /\ Rows'
  <2>1. request' \in [Browsers -> RequestType]
    BY <1>3, <1>i, <1>o DEF Record, Goes, Ends, Rows, RequestType, Stages
  <2>2. request[b].name \in Names /\ request[b].ip \in Addresses
    BY <1>3 DEF Record, At, RequestsSound, Guessing
  <2>3. /\ failures' \subseteq FailureType /\ IsFiniteSet(failures')
        /\ \A f, g \in failures' : f.id = g.id => f = g
    <3>1. CASE request[b].ok
      <4>1. failures' \subseteq failures
        BY <1>3, <3>1 DEF Record, Recorded
      <4>2. QED
        BY <4>1, FS_Subset DEF Rows, TypeOK
    <3>2. CASE ~request[b].ok
      <4>1. failures' = failures \cup {Failure(request[b].name, request[b].ip)}
        BY <1>3, <3>2 DEF Record, Recorded
      <4>2. QED
        BY <2>2, <4>1, NewFailure, FS_AddElement DEF Rows, TypeOK
    <3>3. QED
      BY <3>1, <3>2
  <2>4. QED
    BY <1>3, <2>1, <2>3 DEF Record, TypeOK, Rows, RequestType, FailureType, SessionType
<1>4. ASSUME NEW b \in Browsers, Setup(b) PROVE TypeOK' /\ Rows'
  <2>1. PICK name \in Names, typed \in Passwords : Typed(b, "create", name, typed, None)
    BY <1>4, AccessAssumption DEF Setup
  <2>2. request' \in [Browsers -> RequestType]
    BY <1>i, <1>o, <2>1 DEF Typed, Rows, RequestType, Stages
  <2>3. QED
    BY <1>4, <1>r, <2>2 DEF Setup
<1>5. ASSUME NEW b \in Browsers, Create(b) PROVE TypeOK' /\ Rows'
  <2>1. request' \in [Browsers -> RequestType]
    BY <1>5, <1>i, <1>o DEF Create, Goes, Ends, Rows, RequestType, Stages
  <2>2. /\ password' \in [Names -> Passwords \cup {None}]
        /\ \A name \in Names : password[name] # None => password'[name] # None
    BY <1>5, AccessAssumption DEF Create, CreateUser, At, RequestsSound, TypeOK
  <2>3. QED
    BY <1>5, <2>1, <2>2 DEF Create, TypeOK, Rows, RequestType, FailureType, SessionType
<1>6. ASSUME NEW b \in Browsers, CreateSession(b) PROVE TypeOK' /\ Rows'
  <2> DEFINE s == [token |-> opened + 1, user |-> request[b].name, ttl |-> Ttl,
                   typed |-> request[b].typed, excused |-> request[b].excused]
  <2>1. opened' = opened + 1 /\ opened' \in 0..MaxSessions
    BY <1>6, <1>o, AccessAssumption DEF CreateSession
  <2>2. /\ request[b].name \in Names /\ request[b].typed \in Passwords
        /\ password[request[b].name] # None
    BY <1>6 DEF CreateSession, At, RequestsSound, Verified
  <2>3. request[b].excused \in BOOLEAN
    BY DEF Rows, RequestType
  <2>4. 1..opened \subseteq 1..opened' /\ 0..opened \subseteq 0..opened' /\ opened + 1 \in 1..opened'
    BY <1>o, <2>1
  <2>5. s \in SessionType' /\ \A t \in sessions : t.token # s.token
    BY <1>o, <2>1, <2>2, <2>3, <2>4, AccessAssumption DEF SessionType, Rows
  <2>6. \A t \in sessions : t \in SessionType'
    BY <2>4 DEF Rows, SessionType
  <2>7. request' \in [Browsers -> RequestType']
    <3> DEFINE r == [Idle EXCEPT !.stage = "respond", !.token = opened + 1]
    <3>1. r \in RequestType'
      <4>1. opened + 1 \in 0..opened'
        BY <1>o, <2>1
      <4>2. QED
        BY <4>1 DEF Idle, RequestType, Stages
    <3>2. \A c \in Browsers : request[c] \in RequestType'
      BY <2>4 DEF Rows, RequestType
    <3>3. request' = [request EXCEPT ![b] = r] /\ request \in [Browsers -> RequestType]
      BY <1>6 DEF CreateSession, Rows
    <3> HIDE DEF r
    <3>4. QED
      BY <3>1, <3>2, <3>3
  <2>8. sessions' = sessions \cup {s} /\ s.token = opened + 1
    BY <1>6 DEF CreateSession
  <2>9. /\ sessions' \subseteq SessionType'
        /\ \A t, u \in sessions' : t.token = u.token => t = u
        /\ \A t \in sessions' : password[t.user] # None
    BY <2>2, <2>5, <2>6, <2>8 DEF TypeOK
  <2>10. Rows'
    BY <1>6, <2>7, <2>9 DEF CreateSession, Rows, FailureType
  <2>11. /\ cookie' \in [Browsers -> 1..opened' \cup {None}] /\ ended' \subseteq 1..opened'
         /\ \A c \in Browsers : request'[c].stage \in Stages /\ request'[c].token \in 0..opened'
    BY <1>6, <2>4, <2>7 DEF CreateSession, TypeOK, RequestType
  <2>12. \A t \in sessions' : /\ t.token \in 1..opened' /\ t.ttl \in 0..Ttl /\ t.user \in Names
    BY <2>9 DEF SessionType
  <2> HIDE DEF s
  <2>13. QED
    BY <1>6, <2>1, <2>9, <2>10, <2>11, <2>12 DEF CreateSession, TypeOK
<1>7. ASSUME NEW b \in Browsers, Respond(b) PROVE TypeOK' /\ Rows'
  <2>1. request[b].token \in 1..opened
    BY <1>7 DEF Respond, At, Pending, TokensNew, TypeOK
  <2>2. cookie' \in [Browsers -> 1..opened \cup {None}]
    BY <1>7, <2>1 DEF Respond, TypeOK
  <2>3. request' \in [Browsers -> RequestType]
    BY <1>7, <1>i, <1>o DEF Respond, Ends, Rows, RequestType
  <2>4. QED
    BY <1>7, <2>2, <2>3 DEF Respond, TypeOK, Rows, RequestType, FailureType, SessionType
<1>8. ASSUME NEW b \in Browsers, Dies(b) PROVE TypeOK' /\ Rows'
  <2>1. request' \in [Browsers -> RequestType]
    BY <1>8, <1>i, <1>o DEF Dies, Ends, Rows, RequestType
  <2>2. QED
    BY <1>8, <1>r, <2>1 DEF Dies
<1>9. ASSUME NEW b \in Browsers, Logout(b) PROVE TypeOK' /\ Rows'
  <2>1. cookie[b] \in 1..opened /\ cookie' \in [Browsers -> 1..opened \cup {None}]
    BY <1>9 DEF Logout, TypeOK
  <2>2. QED
    BY <1>9, <2>1 DEF Logout, TypeOK, Rows, RequestType, FailureType, SessionType
<1>10. ASSUME NEW name \in Accounts, NEW typed \in Passwords, AddUser(name, typed)
       PROVE  TypeOK' /\ Rows'
  <2>1. /\ password' \in [Names -> Passwords \cup {None}]
        /\ \A n \in Names : password[n] # None => password'[n] # None
    BY <1>10, AccessAssumption DEF AddUser, CreateUser, TypeOK
  <2>2. commands' \in 0..MaxCommands
    BY <1>10, AccessAssumption DEF AddUser, Command, TypeOK
  <2>3. QED
    BY <1>10, <2>1, <2>2 DEF AddUser, TypeOK, Rows, RequestType, FailureType, SessionType
<1>11. ASSUME NEW name \in Accounts, NEW typed \in Passwords, Passwd(name, typed)
       PROVE  TypeOK' /\ Rows'
  <2>1. /\ password' \in [Names -> Passwords \cup {None}]
        /\ \A n \in Names : password[n] # None => password'[n] # None
    BY <1>11, AccessAssumption DEF Passwd, TypeOK
  <2>2. commands' \in 0..MaxCommands
    BY <1>11, AccessAssumption DEF Passwd, Command, TypeOK
  <2>3. request' \in [Browsers -> RequestType]
    BY <1>11 DEF Passwd, Rows, RequestType
  <2> DEFINE excused(s) == IF s.user = name THEN [s EXCEPT !.excused = TRUE] ELSE s
  <2>4. \A t \in sessions' : \E s \in sessions :
            /\ t = excused(s)
            /\ t \in SessionType
            /\ t.token = s.token /\ t.user = s.user
    BY <1>11 DEF Passwd, Rows, SessionType
  <2> HIDE DEF excused
  <2>5. \A t, u \in sessions' : t.token = u.token => t = u
    BY <2>4 DEF TypeOK
  <2>6. /\ sessions' \subseteq SessionType
        /\ \A t \in sessions' : password'[t.user] # None
    BY <2>1, <2>4 DEF TypeOK
  <2>7. \A t \in sessions' : t.token \in 1..opened /\ t.ttl \in 0..Ttl /\ t.user \in Names
    BY <2>6 DEF SessionType
  <2>8. QED
    BY <1>11, <2>1, <2>2, <2>3, <2>5, <2>6, <2>7
       DEF Passwd, TypeOK, Rows, RequestType, FailureType, SessionType
<1>12. CASE Restart
  <2>1. request' \in [Browsers -> RequestType]
    BY <1>12, <1>i, <1>o DEF Restart, Rows, RequestType
  <2>2. QED
    BY <1>12, <2>1 DEF Restart, TypeOK, Rows, RequestType, FailureType, SessionType
<1>13. CASE Tick
  <2> DEFINE older(f) == [f EXCEPT !.age = @ + 1]
             left == {f \in failures : f.age + 1 < Window}
  <2>1. \A g \in failures' : g \in FailureType /\ \E f \in failures : g = older(f) /\ g.id = f.id
    BY <1>13, Older DEF Tick
  <2>2. \A f, g \in failures' : f.id = g.id => f = g
    BY <2>1 DEF TypeOK
  <2>3. IsFiniteSet(failures')
    <3>1. [f \in left |-> older(f)] \in Surjection(left, failures')
      BY <1>13 DEF Tick, Surjection
    <3>2. IsFiniteSet(left)
      BY FS_Subset DEF Rows
    <3>3. QED
      BY <3>1, <3>2, FS_Surjection
  <2>4. \A t \in sessions' : \E s \in sessions :
            /\ t = [s EXCEPT !.ttl = IF @ > 0 THEN @ - 1 ELSE 0]
            /\ t \in SessionType
            /\ t.token = s.token /\ t.user = s.user
    BY <1>13, AccessAssumption DEF Tick, Rows, SessionType
  <2>5. \A t, u \in sessions' : t.token = u.token => t = u
    BY <2>4 DEF TypeOK
  <2>6. sessions' \subseteq SessionType /\ \A t \in sessions' : password[t.user] # None
    BY <2>4 DEF TypeOK
  <2>7. \A t \in sessions' : t.token \in 1..opened /\ t.ttl \in 0..Ttl /\ t.user \in Names
    BY <2>6 DEF SessionType
  <2>8. \A f \in failures' :
            f.name \in Names /\ f.ip \in Addresses /\ f.age \in 0..Window - 1
    BY <2>1 DEF FailureType
  <2> HIDE DEF older, left
  <2>9. Rows'
    BY <1>13, <2>1, <2>3, <2>6 DEF Tick, Rows, RequestType, FailureType, SessionType
  <2>10. QED
    BY <1>13, <2>2, <2>5, <2>6, <2>7, <2>8, <2>9 DEF Tick, TypeOK
<1>14. CASE UNCHANGED vars
  BY <1>14 DEF vars, TypeOK, Rows, RequestType, FailureType, SessionType
<1>15. QED
  BY <1>1, <1>2, <1>3, <1>4, <1>5, <1>6, <1>7, <1>8, <1>9, <1>10, <1>11, <1>12, <1>13, <1>14
     DEF Next, Request

\* A password is never taken away, and only the user command changes one that is there.
LEMMA PasswordStep ==
    ASSUME TypeOK, [Next]_vars, NEW name \in Names, password[name] # None
    PROVE  /\ password'[name] # None
           /\ password'[name] # password[name] =>
                  \E n \in Accounts, typed \in Passwords : Passwd(n, typed)
<1>1. ASSUME NEW b \in Browsers, Request(b), ~Create(b) PROVE password' = password
  BY <1>1 DEF Request, Login, Verify, Record, Setup, CreateSession, Respond, Dies, Logout
<1>2. ASSUME NEW b \in Browsers, Create(b) PROVE password'[name] = password[name]
  BY <1>2 DEF Create, CreateUser, TypeOK
<1>3. ASSUME NEW n \in Accounts, NEW typed \in Passwords, AddUser(n, typed)
      PROVE  password'[name] = password[name]
  BY <1>3 DEF AddUser, CreateUser, TypeOK
<1>4. ASSUME NEW n \in Accounts, NEW typed \in Passwords, Passwd(n, typed)
      PROVE  password'[name] # None
  BY <1>4, AccessAssumption DEF Passwd, TypeOK
<1>5. Restart \/ Tick \/ UNCHANGED vars => password' = password
  BY DEF Restart, Tick, vars
<1>6. QED
  BY <1>1, <1>2, <1>3, <1>4, <1>5 DEF Next

\* What was verified stays the password, or the request is excused.
LEMMA SoundStep == TypeOK /\ Rows /\ RequestsSound /\ [Next]_vars => RequestsSound'
<1> SUFFICES ASSUME TypeOK, Rows, RequestsSound, [Next]_vars PROVE RequestsSound'
  OBVIOUS
<1> DEFINE Typing(r) == r.stage \in {"verify", "record", "create", "session"} =>
               /\ r.name \in Names /\ r.typed \in Passwords
               /\ r.stage \in {"verify", "record"} => r.ip \in Addresses
           Sound(r) == (r.stage = "session" \/ (r.stage = "record" /\ r.ok)) =>
               password'[r.name] # None /\ (r.excused \/ password'[r.name] = r.typed)
<1>g. (\A b \in Browsers : Typing(request'[b]) /\ Sound(request'[b])) => RequestsSound'
  BY DEF RequestsSound, Verified, At, Guessing
<1>t. \A b \in Browsers : Typing(request[b])
  BY DEF RequestsSound, Guessing
<1>i. Typing(Idle) /\ Sound(Idle)
  BY DEF Idle
<1>k. \* The requests that a step leaves alone, unless it changes a password.
      ASSUME ~\E n \in Accounts, typed \in Passwords : Passwd(n, typed), NEW b \in Browsers
      PROVE  Sound(request[b])
  <2>1. CASE Verified(b)
    <3>1. request[b].name \in Names /\ password[request[b].name] # None
      BY <2>1 DEF RequestsSound, Verified, At
    <3>2. password'[request[b].name] = password[request[b].name]
      BY <1>k, <3>1, PasswordStep
    <3>3. QED
      BY <2>1, <3>1, <3>2 DEF RequestsSound
  <2>2. CASE ~Verified(b)
    BY <2>2 DEF Verified, At
  <2>3. QED
    BY <2>1, <2>2
<1>r. \* A step of one browser's request.
      ASSUME ~\E n \in Accounts, typed \in Passwords : Passwd(n, typed), NEW b \in Browsers,
             NEW r, request' = [request EXCEPT ![b] = r], Typing(r), Sound(r)
      PROVE  RequestsSound'
  <2> HIDE DEF Typing, Sound
  <2>1. \A c \in Browsers : request'[c] = r \/ request'[c] = request[c]
    BY <1>r DEF Rows
  <2>2. QED
    BY <1>g, <1>k, <1>r, <1>t, <2>1
<1>n. \* No action but the user command changes passwords by hand.
      ASSUME NEW n \in Accounts, NEW typed \in Passwords, Passwd(n, typed)
      PROVE  /\ password' = [password EXCEPT ![n] = typed] /\ n \in Names /\ typed # None
             /\ request' = [b \in Browsers |->
                    IF request[b].name = n /\ request[b].stage \in {"record", "session"}
                    THEN [request[b] EXCEPT !.excused = TRUE] ELSE request[b]]
  BY <1>n, AccessAssumption DEF Passwd
<1>c. CASE \E n \in Accounts, typed \in Passwords : Passwd(n, typed)
  <2>1. PICK n \in Accounts, typed \in Passwords : Passwd(n, typed)
    BY <1>c
  <2>2. ASSUME NEW b \in Browsers PROVE Typing(request'[b]) /\ Sound(request'[b])
    <3>1. CASE request[b].name = n /\ request[b].stage \in {"record", "session"}
      <4>1. /\ request'[b].stage = request[b].stage /\ request'[b].name = n
            /\ request'[b].typed = request[b].typed /\ request'[b].ip = request[b].ip
            /\ request'[b].excused = TRUE
        BY <1>n, <2>1, <3>1 DEF Rows, RequestType
      <4>2. password'[n] # None
        BY <1>n, <2>1 DEF TypeOK
      <4>3. QED
        BY <1>t, <3>1, <4>1, <4>2
    <3>2. CASE ~(request[b].name = n /\ request[b].stage \in {"record", "session"})
      <4>1. request'[b] = request[b]
        BY <1>n, <2>1, <3>2
      <4>2. Verified(b) => password'[request[b].name] = password[request[b].name]
        BY <1>n, <2>1, <3>2 DEF TypeOK, RequestsSound, Verified, At
      <4>3. QED
        BY <1>t, <4>1, <4>2 DEF RequestsSound, Verified, At
    <3>3. QED
      BY <3>1, <3>2
  <2>3. QED
    BY <1>g, <2>2
<1>d. CASE ~\E n \in Accounts, typed \in Passwords : Passwd(n, typed)
  <2>1. ASSUME NEW b \in Browsers, Login(b) \/ Setup(b) PROVE RequestsSound'
    <3>1. PICK stage \in {"verify", "create"}, name \in Names, typed \in Passwords,
               ip \in Addresses \cup {None} :
            Typed(b, stage, name, typed, ip) /\ (stage = "verify" => ip \in Addresses)
      BY <2>1, AccessAssumption DEF Login, Setup
    <3> DEFINE r == [Idle EXCEPT !.stage = stage, !.name = name, !.typed = typed, !.ip = ip]
    <3>2. Typing(r) /\ Sound(r)
      BY <3>1 DEF Idle
    <3>3. request' = [request EXCEPT ![b] = r]
      BY <3>1 DEF Typed
    <3> HIDE DEF r, Typing, Sound
    <3>4. QED
      BY <1>d, <1>r, <3>2, <3>3
  <2>2. ASSUME NEW b \in Browsers, Verify(b) PROVE RequestsSound'
    <3> DEFINE ok == Matches(request[b].name, request[b].typed)
               r == [request[b] EXCEPT !.stage = "record", !.ok = ok]
    <3>1. ok <=> password[request[b].name] = request[b].typed
      BY DEF Matches
    <3>2. request' = [request EXCEPT ![b] = r] /\ password' = password
      BY <2>2 DEF Verify, Rows
    <3>3. /\ request[b].name \in Names /\ request[b].typed \in Passwords
          /\ request[b].ip \in Addresses
      BY <2>2 DEF Verify, At, RequestsSound, Guessing
    <3>4. /\ r.stage = "record" /\ r.ok = ok
          /\ r.name = request[b].name /\ r.typed = request[b].typed /\ r.ip = request[b].ip
      BY DEF Rows, RequestType
    <3> HIDE DEF ok, r
    <3>5. Typing(r) /\ Sound(r)
      BY <3>1, <3>2, <3>3, <3>4, AccessAssumption
    <3> HIDE DEF Typing, Sound
    <3>6. QED
      BY <1>d, <1>r, <3>2, <3>5
  <2>3. ASSUME NEW b \in Browsers, Record(b) PROVE RequestsSound'
    <3> DEFINE r == IF request[b].ok THEN [request[b] EXCEPT !.stage = "session"] ELSE Idle
    <3>1. request' = [request EXCEPT ![b] = r]
      BY <2>3 DEF Record, Goes, Ends, Rows
    <3>2. Sound(request[b]) /\ Typing(request[b]) /\ request[b].stage = "record"
      BY <1>d, <1>k, <1>t, <2>3 DEF Record, At
    <3>3. Typing(r) /\ Sound(r)
      BY <1>i, <3>2 DEF Rows, RequestType
    <3> HIDE DEF r, Typing, Sound
    <3>4. QED
      BY <1>d, <1>r, <3>1, <3>3
  <2>4. ASSUME NEW b \in Browsers, Create(b) PROVE RequestsSound'
    <3> DEFINE s == [request[b] EXCEPT !.stage = "session"]
    <3>1. /\ s.stage = "session" /\ s.name = request[b].name
          /\ s.typed = request[b].typed
          /\ request[b].name \in Names /\ request[b].typed \in Passwords
      BY <2>4 DEF Create, At, Rows, RequestType, RequestsSound
    <3>2. CASE request' = [request EXCEPT ![b] = Idle]
      <4> HIDE DEF Typing, Sound
      <4>1. QED
        BY <1>d, <1>i, <1>r, <3>2
    <3>3. CASE /\ request' = [request EXCEPT ![b] = s]
               /\ password' = [password EXCEPT ![request[b].name] = request[b].typed]
      <4>1. Typing(s) /\ Sound(s)
        BY <3>1, <3>3, AccessAssumption DEF TypeOK
      <4> HIDE DEF s, Typing, Sound
      <4>2. QED
        BY <1>d, <1>r, <3>3, <4>1
    <3>4. QED
      BY <2>4, <3>2, <3>3 DEF Create, CreateUser, Goes, Ends, Rows
  <2>5. ASSUME NEW b \in Browsers, CreateSession(b) PROVE RequestsSound'
    <3> DEFINE r == [Idle EXCEPT !.stage = "respond", !.token = opened + 1]
    <3>1. Typing(r) /\ Sound(r) /\ request' = [request EXCEPT ![b] = r]
      BY <2>5 DEF CreateSession, Idle
    <3> HIDE DEF r, Typing, Sound
    <3>2. QED
      BY <1>d, <1>r, <3>1
  <2>6. ASSUME NEW b \in Browsers, Respond(b) \/ Dies(b) PROVE RequestsSound'
    <3>1. request' = [request EXCEPT ![b] = Idle]
      BY <2>6 DEF Respond, Dies, Ends
    <3> HIDE DEF Typing, Sound
    <3>2. QED
      BY <1>d, <1>i, <1>r, <3>1
  <2>7. CASE request' = request
    <3> HIDE DEF Typing, Sound
    <3>1. QED
      BY <1>d, <1>g, <1>k, <1>t, <2>7
  <2>8. CASE Restart
    <3>1. \A b \in Browsers : request'[b] = Idle
      BY <2>8 DEF Restart
    <3> HIDE DEF Typing, Sound
    <3>2. QED
      BY <1>g, <1>i, <3>1
  <2>9. \A b \in Browsers : Logout(b) => request' = request
    BY DEF Logout
  <2>10. \A n \in Accounts, typed \in Passwords : AddUser(n, typed) => request' = request
    BY DEF AddUser
  <2>11. Tick \/ UNCHANGED vars => request' = request
    BY DEF Tick, vars
  <2>12. QED
    BY <1>d, <2>1, <2>2, <2>3, <2>4, <2>5, <2>6, <2>7, <2>8, <2>9, <2>10, <2>11
       DEF Next, Request
<1>z. QED
  BY <1>c, <1>d

\* The password command excuses the sessions that its change leaves behind.
LEMMA OldPasswordStep ==
    TypeOK /\ Rows /\ RequestsSound /\ OldPasswordShut /\ [Next]_vars => OldPasswordShut'
<1> SUFFICES ASSUME TypeOK, Rows, RequestsSound, OldPasswordShut, [Next]_vars,
                    NEW t \in sessions'
             PROVE  t.typed = password'[t.user] \/ t.excused
  BY DEF OldPasswordShut
<1>1. ASSUME NEW s \in sessions, s.user = t.user, s.typed = t.typed, s.excused = t.excused,
             ~\E n \in Accounts, typed \in Passwords : Passwd(n, typed)
      PROVE  t.typed = password'[t.user] \/ t.excused
  <2>1. password'[s.user] = password[s.user]
    BY <1>1, PasswordStep DEF TypeOK
  <2>2. QED
    BY <1>1, <2>1 DEF OldPasswordShut
<1>2. ASSUME NEW n \in Accounts, NEW typed \in Passwords, Passwd(n, typed)
      PROVE  t.typed = password'[t.user] \/ t.excused
  <2>1. PICK s \in sessions : t = IF s.user = n THEN [s EXCEPT !.excused = TRUE] ELSE s
    BY <1>2 DEF Passwd
  <2>2. s \in SessionType
    BY DEF Rows
  <2>3. CASE s.user = n
    BY <2>1, <2>2, <2>3 DEF SessionType
  <2>4. CASE s.user # n
    <3>1. password'[s.user] = password[s.user]
      BY <1>2, <2>4 DEF Passwd, TypeOK
    <3>2. QED
      BY <2>1, <2>4, <3>1 DEF OldPasswordShut
  <2>5. QED
    BY <2>3, <2>4
<1>3. ASSUME NEW b \in Browsers, CreateSession(b), t \notin sessions
      PROVE  t.typed = password'[t.user] \/ t.excused
  <2>1. /\ t.user = request[b].name /\ t.typed = request[b].typed
        /\ t.excused = request[b].excused /\ password' = password
    BY <1>3 DEF CreateSession
  <2>2. QED
    BY <1>3, <2>1 DEF CreateSession, RequestsSound, Verified
<1>4. CASE t \in sessions
  <2>1. CASE ~\E n \in Accounts, typed \in Passwords : Passwd(n, typed)
    BY <1>1, <1>4, <2>1
  <2>2. QED
    BY <1>2, <2>1
<1>5. CASE Tick
  <2>1. PICK s \in sessions : t = [s EXCEPT !.ttl = IF @ > 0 THEN @ - 1 ELSE 0]
    BY <1>5 DEF Tick
  <2>2. s.user = t.user /\ s.typed = t.typed /\ s.excused = t.excused
    BY <2>1 DEF Rows, SessionType
  <2>3. QED
    BY <1>1, <1>2, <2>2
<1>6. ASSUME NEW b \in Browsers, Request(b), ~CreateSession(b) PROVE sessions' \subseteq sessions
  BY <1>6 DEF Request, Login, Verify, Record, Setup, Create, Respond, Dies, Logout
<1>7. \A n \in Accounts, typed \in Passwords : AddUser(n, typed) => sessions' = sessions
  BY DEF AddUser
<1>8. Restart \/ UNCHANGED vars => sessions' \subseteq sessions
  BY DEF Restart, vars
<1>9. QED
  BY <1>2, <1>3, <1>4, <1>5, <1>6, <1>7, <1>8 DEF Next

(* Sessions, by token *)

\* What a step does to the sessions there are: a command marks them, time shortens
\* them, and those that were logged out, or had expired at a restart, go.
LEMMA SessionsStep ==
    ASSUME TypeOK, Rows, [Next]_vars, NEW t \in sessions'
    PROVE  \/ /\ \E b \in Browsers : CreateSession(b)
              /\ t.token = opened + 1 /\ t.ttl = Ttl
           \/ \E s \in sessions :
                  /\ s.token = t.token
                  /\ t.ttl = IF Tick /\ s.ttl > 0 THEN s.ttl - 1 ELSE s.ttl
<1>1. ASSUME NEW s \in sessions, Tick, t = [s EXCEPT !.ttl = IF @ > 0 THEN @ - 1 ELSE 0]
      PROVE  s.token = t.token /\ t.ttl = IF s.ttl > 0 THEN s.ttl - 1 ELSE s.ttl
  <2>1. s.ttl \in Nat /\ s \in SessionType
    BY AccessAssumption DEF Rows, SessionType
  <2>2. QED
    BY <1>1, <2>1 DEF SessionType
<1>2. ASSUME NEW n \in Accounts, NEW typed \in Passwords, Passwd(n, typed)
      PROVE  \E s \in sessions : s.token = t.token /\ s.ttl = t.ttl
  BY <1>2 DEF Passwd, Rows, SessionType
<1>3. ASSUME NEW b \in Browsers, CreateSession(b), t \notin sessions
      PROVE  t.token = opened + 1 /\ t.ttl = Ttl
  BY <1>3 DEF CreateSession
<1>4. ASSUME NEW b \in Browsers, Request(b), ~CreateSession(b) PROVE t \in sessions
  BY <1>4 DEF Request, Login, Verify, Record, Setup, Create, Respond, Dies, Logout
<1>5. Tick => \A b \in Browsers : ~CreateSession(b)
  BY DEF Tick, CreateSession, At, Rows, RequestType, TypeOK
<1>6. ~Tick /\ t \in sessions => \E s \in sessions : s.token = t.token /\ t.ttl = s.ttl
  OBVIOUS
<1>7. CASE Tick
  BY <1>1, <1>7 DEF Tick
<1>8. CASE ~Tick
  <2>1. Restart \/ UNCHANGED vars => t \in sessions
    BY DEF Restart, vars
  <2>2. \A n \in Accounts, typed \in Passwords : AddUser(n, typed) => t \in sessions
    BY DEF AddUser
  <2>3. QED
    BY <1>2, <1>3, <1>4, <1>6, <1>8, <2>1, <2>2 DEF Next
<1>9. QED
  BY <1>7, <1>8

\* The newest session has all its time.
LEMMA NewerStep == TypeOK /\ Rows /\ NewerLasts /\ [Next]_vars => NewerLasts'
<1> SUFFICES ASSUME TypeOK, Rows, NewerLasts, [Next]_vars,
                    NEW t \in sessions', NEW u \in sessions', t.token <= u.token
             PROVE  t.ttl <= u.ttl
  BY DEF NewerLasts
<1> DEFINE left(s) == IF Tick /\ s.ttl > 0 THEN s.ttl - 1 ELSE s.ttl
<1>1. \A s \in sessions : s.token \in 1..opened /\ s.ttl \in 0..Ttl
  BY DEF TypeOK
<1>2. opened \in Nat /\ Ttl \in Nat
  BY AccessAssumption DEF TypeOK
<1>3. CASE \E s, r \in sessions : /\ s.token = t.token /\ t.ttl = left(s)
                                  /\ r.token = u.token /\ u.ttl = left(r)
  BY <1>1, <1>2, <1>3 DEF NewerLasts
<1>4. CASE u.ttl = Ttl /\ \E s \in sessions : t.ttl = left(s)
  BY <1>1, <1>2, <1>4
<1>5. CASE t.token = opened + 1 /\ \E r \in sessions : r.token = u.token
  BY <1>1, <1>2, <1>5
<1>6. CASE t.ttl = Ttl /\ u.ttl = Ttl
  BY <1>2, <1>6
<1>7. QED
  BY <1>3, <1>4, <1>5, <1>6, SessionsStep

\* Tokens are never given out twice, so a token that was logged out stays shut.
LEMMA EndedStep == TypeOK /\ Rows /\ EndedShut /\ [Next]_vars => EndedShut'
<1> SUFFICES ASSUME TypeOK, Rows, EndedShut, [Next]_vars, NEW t \in sessions', t.token \in ended'
             PROVE  FALSE
  BY DEF EndedShut
<1>1. ASSUME NEW b \in Browsers, Logout(b) PROVE FALSE
  BY <1>1 DEF Logout, EndedShut
<1>2. ASSUME NEW b \in Browsers, Request(b), ~Logout(b) PROVE ended' = ended
  BY <1>2 DEF Request, Login, Verify, Record, Setup, Create, CreateSession, Respond, Dies
<1>3. \A n \in Accounts, typed \in Passwords :
          AddUser(n, typed) \/ Passwd(n, typed) => ended' = ended
  BY DEF AddUser, Passwd
<1>4. Restart \/ Tick \/ UNCHANGED vars => ended' = ended
  BY DEF Restart, Tick, vars
<1>5. ended' = ended
  BY <1>1, <1>2, <1>3, <1>4 DEF Next
<1>6. opened + 1 \notin ended
  BY AccessAssumption DEF TypeOK
<1>7. QED
  BY <1>5, <1>6, SessionsStep DEF EndedShut

\* The token on its way to a browser is the newest the browser will have.
LEMMA TokensStep == TypeOK /\ Rows /\ TokensNew /\ [Next]_vars => TokensNew'
<1> SUFFICES ASSUME TypeOK, Rows, TokensNew, [Next]_vars PROVE TokensNew'
  OBVIOUS
<1>o. opened \in Nat /\ \A s \in sessions : s.token \in 1..opened
  BY AccessAssumption DEF TypeOK
<1>p. \A b \in Browsers : Pending(b) => request[b].token \in 1..opened /\ request[b].token # None
  <2>1. \A n \in 1..opened : n # None
    BY AccessAssumption DEF TypeOK
  <2>2. QED
    BY <1>o, <2>1 DEF TokensNew
<1>k. \* Tokens on their way are those of before, and so are cookies and sessions.
      ASSUME cookie' = cookie,
             \A b \in Browsers : Pending(b)' => Pending(b) /\ request'[b].token = request[b].token,
             \A s \in sessions : \E t \in sessions' : t.token = s.token
      PROVE  TokensNew'
  BY <1>k DEF TokensNew
<1>r. \* A request moves on, but not to its answer.
      ASSUME NEW b \in Browsers, NEW r, request' = [request EXCEPT ![b] = r],
             r.stage # "respond"
      PROVE  \A c \in Browsers : Pending(c)' => Pending(c) /\ request'[c].token = request[c].token
  BY <1>r DEF Pending, At, Rows
<1>1. ASSUME NEW b \in Browsers, Login(b) \/ Setup(b) PROVE TokensNew'
  <2>1. PICK stage \in {"verify", "create"}, name \in Names, typed \in Passwords,
             ip \in Addresses \cup {None} : Typed(b, stage, name, typed, ip)
    BY <1>1, AccessAssumption DEF Login, Setup
  <2> DEFINE r == [Idle EXCEPT !.stage = stage, !.name = name, !.typed = typed, !.ip = ip]
  <2>2. r.stage # "respond" /\ request' = [request EXCEPT ![b] = r]
    BY <2>1 DEF Typed, Idle
  <2>3. cookie' = cookie /\ sessions' = sessions
    BY <1>1 DEF Login, Setup
  <2> HIDE DEF r
  <2>4. QED
    BY <1>k, <1>r, <2>2, <2>3
<1>2. ASSUME NEW b \in Browsers, Verify(b) PROVE TokensNew'
  <2>1. \A c \in Browsers : Pending(c)' => Pending(c) /\ request'[c].token = request[c].token
    BY <1>2 DEF Verify, Pending, At, Rows, RequestType
  <2>2. QED
    BY <1>2, <1>k, <2>1 DEF Verify
<1>3. ASSUME NEW b \in Browsers, Record(b) \/ Create(b) PROVE TokensNew'
  <2>1. request' = [request EXCEPT ![b].stage = "session"] \/ request' = [request EXCEPT ![b] = Idle]
    BY <1>3 DEF Record, Create, Goes, Ends
  <2>2. \A c \in Browsers : Pending(c)' => Pending(c) /\ request'[c].token = request[c].token
    BY <2>1 DEF Idle, Pending, At, Rows, RequestType
  <2>3. cookie' = cookie /\ sessions' = sessions
    BY <1>3 DEF Record, Create
  <2>4. QED
    BY <1>k, <2>2, <2>3
<1>4. ASSUME NEW b \in Browsers, CreateSession(b) PROVE TokensNew'
  <2> DEFINE r == [Idle EXCEPT !.stage = "respond", !.token = opened + 1]
  <2>1. /\ request' = [request EXCEPT ![b] = r] /\ r.token = opened + 1 /\ r.stage = "respond"
        /\ cookie' = cookie /\ opened < MaxSessions
    BY <1>4 DEF CreateSession, Idle
  <2> DEFINE new == [token |-> opened + 1, user |-> request[b].name, ttl |-> Ttl,
                     typed |-> request[b].typed, excused |-> request[b].excused]
  <2>2. /\ \E s \in sessions' : s.token = opened + 1
        /\ sessions \subseteq sessions'
    <3>1. new.token = opened + 1 /\ sessions' = sessions \cup {new}
      BY <1>4 DEF CreateSession
    <3> HIDE DEF new
    <3>2. QED
      BY <3>1
  <2> HIDE DEF r
  <2>3. \A c \in Browsers \ {b} : request'[c] = request[c] /\ (Pending(c)' <=> Pending(c))
    BY <2>1 DEF Pending, At, Rows
  <2>4. request'[b] = r
    BY <2>1 DEF Rows
  <2>5. \A c \in Browsers : cookie[c] \in 1..opened \cup {None}
    BY DEF TypeOK
  <2>6. opened + 1 # None
    BY <1>o, <2>1, AccessAssumption
  <2>7. cookie'[b] = None \/ cookie'[b] < request'[b].token
    BY <1>o, <2>1, <2>4, <2>5
  <2>8. \A c \in Browsers : cookie'[c] # request'[b].token
    BY <1>o, <2>1, <2>4, <2>5, <2>6
  <2>9. \A c \in Browsers \ {b} : Pending(c) => request[c].token # request'[b].token
    BY <1>o, <1>p, <2>1, <2>4
  <2>10. QED
    BY <2>1, <2>2, <2>3, <2>4, <2>7, <2>8, <2>9 DEF TokensNew
<1>5. ASSUME NEW b \in Browsers, Respond(b) PROVE TokensNew'
  <2>1. /\ request' = [request EXCEPT ![b] = Idle] /\ sessions' = sessions
        /\ cookie' = [cookie EXCEPT ![b] = request[b].token] /\ Pending(b)
    BY <1>5 DEF Respond, Ends, Pending
  <2>2. ~Pending(b)' /\ \A c \in Browsers \ {b} : /\ request'[c] = request[c]
                                                  /\ (Pending(c)' <=> Pending(c))
    BY <2>1 DEF Pending, At, Rows, Idle
  <2>3. \A c \in Browsers : cookie'[c] = IF c = b THEN request[b].token ELSE cookie[c]
    BY <2>1 DEF TypeOK
  <2>4. QED
    BY <2>1, <2>2, <2>3 DEF TokensNew
<1>6. ASSUME NEW b \in Browsers, Dies(b) PROVE TokensNew'
  <2>1. request' = [request EXCEPT ![b] = Idle] /\ Idle.stage # "respond"
    BY <1>6 DEF Dies, Ends, Idle
  <2>2. cookie' = cookie /\ sessions' = sessions
    BY <1>6 DEF Dies
  <2>3. QED
    BY <1>k, <1>r, <2>1, <2>2
<1>7. ASSUME NEW b \in Browsers, Logout(b) PROVE TokensNew'
  <2>1. /\ request' = request /\ sessions' = {s \in sessions : s.token # cookie[b]}
        /\ \A c \in Browsers : cookie'[c] \in {cookie[c], None}
    BY <1>7 DEF Logout, TypeOK
  <2>2. QED
    BY <1>p, <2>1 DEF TokensNew, Pending, At
<1>8. ASSUME NEW n \in Accounts, NEW typed \in Passwords, Passwd(n, typed) PROVE TokensNew'
  <2>1. \A c \in Browsers : Pending(c)' => Pending(c) /\ request'[c].token = request[c].token
    BY <1>8 DEF Passwd, Pending, At, Rows, RequestType
  <2>2. \A s \in sessions : \E t \in sessions' : t.token = s.token
    <3>1. ASSUME NEW s \in sessions PROVE \E t \in sessions' : t.token = s.token
      <4>1. (IF s.user = n THEN [s EXCEPT !.excused = TRUE] ELSE s) \in sessions'
        BY <1>8 DEF Passwd
      <4>2. s \in SessionType
        BY DEF Rows
      <4>3. QED
        BY <4>1, <4>2 DEF SessionType
    <3>2. QED
      BY <3>1
  <2>3. QED
    BY <1>8, <1>k, <2>1, <2>2 DEF Passwd
<1>9. ASSUME NEW n \in Accounts, NEW typed \in Passwords, AddUser(n, typed) PROVE TokensNew'
  BY <1>9, <1>k DEF AddUser, Pending, At
<1>10. CASE Restart
  BY <1>10 DEF Restart, TokensNew, Pending, At, Idle
<1>11. CASE Tick
  <2>1. ASSUME NEW s \in sessions PROVE \E t \in sessions' : t.token = s.token
    <3>1. [s EXCEPT !.ttl = IF @ > 0 THEN @ - 1 ELSE 0] \in sessions'
      BY <1>11 DEF Tick
    <3>2. s \in SessionType
      BY DEF Rows
    <3>3. QED
      BY <3>1, <3>2 DEF SessionType
  <2>2. QED
    BY <1>11, <1>k, <2>1 DEF Tick, Pending, At
<1>12. CASE UNCHANGED vars
  BY <1>12, <1>k DEF vars, Pending, At
<1>13. QED
  BY <1>1, <1>2, <1>3, <1>4, <1>5, <1>6, <1>7, <1>8, <1>9, <1>10, <1>11, <1>12
     DEF Next, Request

(* The throttle *)

\* A request that is still the same guess.
Same(b) == request'[b].name = request[b].name /\ request'[b].ip = request[b].ip

Guesses(name) == {b \in Browsers : Guessing(b) /\ request[b].name = name}
GuessesFrom(ip) == {b \in Browsers : Guessing(b) /\ request[b].ip = ip}

\* Guesses and failures can be counted.
LEMMA Counts ==
    ASSUME Rows
    PROVE  /\ Cardinality(Browsers) \in Nat
           /\ \A S \in SUBSET Browsers :
                  IsFiniteSet(S) /\ Cardinality(S) \in Nat /\ Cardinality(S) <= Cardinality(Browsers)
           /\ \A S \in SUBSET failures : IsFiniteSet(S) /\ Cardinality(S) \in Nat
<1>1. IsFiniteSet(Browsers) /\ IsFiniteSet(failures)
  BY AccessAssumption DEF Rows
<1>2. QED
  BY <1>1, FS_Subset, FS_CardinalityType

\* Arithmetic on the counts.
LEMMA Below == ASSUME NEW n \in Nat, NEW m \in Nat, ~(n >= m) PROVE n <= m - 1
OBVIOUS

LEMMA Within ==
    ASSUME NEW f \in Nat, NEW g \in Nat, NEW m \in Nat, NEW n \in Nat, f <= m, g <= n
    PROVE  f + g <= m + n
OBVIOUS

LEMMA Replaced ==
    ASSUME NEW f \in Nat, NEW g \in Nat, NEW m \in Nat, f + g <= m
    PROVE  (f + 1) + (g - 1) <= m
OBVIOUS

\* Fewer failures and fewer guesses keep within the limit.
LEMMA Fewer ==
    ASSUME Rows, Rows', GuessesBounded,
           \A name \in Names :
               /\ Cardinality(FailedAs(name)') <= Cardinality(FailedAs(name))
               /\ Guesses(name)' \subseteq Guesses(name),
           \A ip \in Addresses :
               /\ Cardinality(FailedFrom(ip)') <= Cardinality(FailedFrom(ip))
               /\ GuessesFrom(ip)' \subseteq GuessesFrom(ip)
    PROVE  GuessesBounded'
<1>1. /\ \A S \in SUBSET Browsers : IsFiniteSet(S) /\ Cardinality(S) \in Nat
      /\ \A S \in SUBSET Browsers : \A T \in SUBSET S : Cardinality(T) <= Cardinality(S)
  BY Counts, FS_Subset
<1>2. /\ \A S \in SUBSET failures : Cardinality(S) \in Nat
      /\ \A S \in SUBSET failures' : Cardinality(S) \in Nat
  <2>1. IsFiniteSet(failures) /\ IsFiniteSet(failures')
    BY DEF Rows
  <2>2. QED
    BY <2>1, FS_Subset, FS_CardinalityType
<1>3. MaxPerUser - 1 \in Nat /\ MaxPerIp - 1 \in Nat
  BY AccessAssumption
<1>4. ASSUME NEW name \in Names
      PROVE  Cardinality(FailedAs(name)') + Cardinality(Guesses(name)')
                 <= MaxPerUser - 1 + Cardinality(Browsers)
  <2>1. Cardinality(Guesses(name)') <= Cardinality(Guesses(name))
    BY <1>1 DEF Guesses
  <2>2. /\ Cardinality(FailedAs(name)) \in Nat /\ Cardinality(FailedAs(name)') \in Nat
        /\ Cardinality(Guesses(name)) \in Nat /\ Cardinality(Guesses(name)') \in Nat
        /\ Cardinality(Browsers) \in Nat
    BY <1>1, <1>2 DEF FailedAs, Guesses
  <2>3. Cardinality(FailedAs(name)) + Cardinality(Guesses(name))
            <= MaxPerUser - 1 + Cardinality(Browsers)
    BY DEF GuessesBounded, Guesses
  <2>4. QED
    BY <1>3, <2>1, <2>2, <2>3
<1>5. ASSUME NEW ip \in Addresses
      PROVE  Cardinality(FailedFrom(ip)') + Cardinality(GuessesFrom(ip)')
                 <= MaxPerIp - 1 + Cardinality(Browsers)
  <2> DEFINE room == Cardinality(Browsers)
  <2>1. Cardinality(GuessesFrom(ip)') <= Cardinality(GuessesFrom(ip))
    BY <1>1 DEF GuessesFrom
  <2>2. /\ Cardinality(FailedFrom(ip)) \in Nat /\ Cardinality(FailedFrom(ip)') \in Nat
        /\ Cardinality(GuessesFrom(ip)) \in Nat /\ Cardinality(GuessesFrom(ip)') \in Nat
        /\ room \in Nat
    BY <1>1, <1>2 DEF FailedFrom, GuessesFrom
  <2>3. Cardinality(FailedFrom(ip)) + Cardinality(GuessesFrom(ip)) <= MaxPerIp - 1 + room
    BY DEF GuessesBounded, GuessesFrom
  <2> HIDE DEF room
  <2>4. QED
    BY <1>3, <1>5, <2>1, <2>2, <2>3 DEF room
<1>6. QED
  BY <1>4, <1>5 DEF GuessesBounded, Guesses, GuessesFrom

\* A guess passes only below the limit, and one failure replaces it.
LEMMA GuessesStep ==
    TypeOK /\ Rows /\ RequestsSound /\ TokensNew /\ GuessesBounded /\ [Next]_vars => GuessesBounded'
<1> SUFFICES ASSUME TypeOK, Rows, RequestsSound, TokensNew, GuessesBounded, [Next]_vars
             PROVE  GuessesBounded'
  OBVIOUS
<1>h. Rows'
  BY TypeStep
<1>m. MaxPerUser - 1 \in Nat /\ MaxPerIp - 1 \in Nat
  BY AccessAssumption
<1>n. \* The counts, which arithmetic needs to know to be numbers.
      \A name, ip :
          /\ Cardinality(FailedAs(name)) \in Nat /\ Cardinality(FailedFrom(ip)) \in Nat
          /\ Cardinality(Guesses(name)) \in Nat /\ Cardinality(GuessesFrom(ip)) \in Nat
          /\ IsFiniteSet(FailedAs(name)) /\ IsFiniteSet(FailedFrom(ip))
          /\ IsFiniteSet(Guesses(name)) /\ IsFiniteSet(GuessesFrom(ip))
          /\ Cardinality(Browsers) \in Nat
  BY Counts DEF FailedAs, FailedFrom, Guesses, GuessesFrom
<1>k. \* No failure more, and no guess more.
      ASSUME failures' \subseteq failures,
             \A b \in Browsers : Guessing(b)' => Guessing(b) /\ Same(b)
      PROVE  GuessesBounded'
  <2>1. ASSUME NEW name \in Names
        PROVE  /\ Cardinality(FailedAs(name)') <= Cardinality(FailedAs(name))
               /\ Guesses(name)' \subseteq Guesses(name)
    <3>1. FailedAs(name)' \in SUBSET FailedAs(name)
      BY <1>k DEF FailedAs
    <3>2. QED
      BY <1>k, <1>n, <3>1, FS_Subset DEF Same, Guesses
  <2>2. ASSUME NEW ip \in Addresses
        PROVE  /\ Cardinality(FailedFrom(ip)') <= Cardinality(FailedFrom(ip))
               /\ GuessesFrom(ip)' \subseteq GuessesFrom(ip)
    <3>1. FailedFrom(ip)' \in SUBSET FailedFrom(ip)
      BY <1>k DEF FailedFrom
    <3>2. QED
      BY <1>k, <1>n, <3>1, FS_Subset DEF Same, GuessesFrom
  <2>3. QED
    BY <1>h, <2>1, <2>2, Fewer
<1>r. \* A request moves on, but not to a guess.
      ASSUME NEW b \in Browsers, NEW r, request' = [request EXCEPT ![b] = r],
             r.stage \notin {"verify", "record"}
      PROVE  \A c \in Browsers : Guessing(c)' => Guessing(c) /\ Same(c)
  BY <1>r DEF Guessing, Same, Rows
<1>1. ASSUME NEW b \in Browsers, Login(b) PROVE GuessesBounded'
  <2>1. PICK name \in Names, typed \in Passwords, from \in Addresses :
            ~LockedOut(name, from) /\ Typed(b, "verify", name, typed, from)
    BY <1>1 DEF Login
  <2>2. /\ \A c \in Browsers \ {b} : request'[c] = request[c]
        /\ request'[b].stage = "verify" /\ request'[b].name = name /\ request'[b].ip = from
        /\ ~Guessing(b) /\ failures' = failures
    BY <1>1, <2>1 DEF Login, Typed, Idle, Rows, Guessing, At
  <2>3. /\ Cardinality(FailedAs(name)) <= MaxPerUser - 1
        /\ Cardinality(FailedFrom(from)) <= MaxPerIp - 1
    <3>1. /\ ~(Cardinality(FailedAs(name)) >= MaxPerUser)
          /\ ~(Cardinality(FailedFrom(from)) >= MaxPerIp)
      BY <2>1 DEF LockedOut
    <3>2. MaxPerUser \in Nat /\ MaxPerIp \in Nat
      BY AccessAssumption
    <3>3. /\ Cardinality(FailedAs(name)) \in Nat
          /\ Cardinality(FailedFrom(from)) \in Nat
      BY <1>n
    <3>4. QED
      BY <3>1, <3>2, <3>3, Below
  <2>4. ASSUME NEW n \in Names
        PROVE  Cardinality(FailedAs(n)') + Cardinality(Guesses(n)')
                   <= MaxPerUser - 1 + Cardinality(Browsers)
    <3>1. FailedAs(n)' = FailedAs(n)
      BY <2>2 DEF FailedAs
    <3>2. CASE n = name
      <4>1. Guesses(n)' \in SUBSET Browsers
        BY DEF Guesses
      <4>2. Cardinality(Guesses(n)') \in Nat /\ Cardinality(Guesses(n)') <= Cardinality(Browsers)
        BY <4>1, Counts
      <4>3. Cardinality(FailedAs(n)) \in Nat /\ Cardinality(Browsers) \in Nat
        BY <1>n, Counts
      <4>4. Cardinality(FailedAs(n)) + Cardinality(Guesses(n)')
                <= MaxPerUser - 1 + Cardinality(Browsers)
        BY <1>m, <2>3, <3>2, <4>2, <4>3, Within
      <4>5. QED
        BY <3>1, <4>4
    <3>3. CASE n # name
      <4>1. Guesses(n)' = Guesses(n)
        BY <2>2, <3>3 DEF Guesses, Guessing
      <4>2. QED
        BY <3>1, <4>1 DEF GuessesBounded, Guesses
    <3>4. QED
      BY <3>2, <3>3
  <2>5. ASSUME NEW ip \in Addresses
        PROVE  Cardinality(FailedFrom(ip)') + Cardinality(GuessesFrom(ip)')
                   <= MaxPerIp - 1 + Cardinality(Browsers)
    <3>1. FailedFrom(ip)' = FailedFrom(ip)
      BY <2>2 DEF FailedFrom
    <3>2. CASE ip = from
      <4>1. GuessesFrom(ip)' \in SUBSET Browsers
        BY DEF GuessesFrom
      <4>2. /\ Cardinality(GuessesFrom(ip)') \in Nat
            /\ Cardinality(GuessesFrom(ip)') <= Cardinality(Browsers)
        BY <4>1, Counts
      <4>3. QED
        BY <1>m, <1>n, <2>3, <3>1, <3>2, <4>2, Within
    <3>3. CASE ip # from
      <4>1. GuessesFrom(ip)' = GuessesFrom(ip)
        BY <2>2, <3>3 DEF GuessesFrom, Guessing
      <4>2. QED
        BY <3>1, <4>1 DEF GuessesBounded, GuessesFrom
    <3>4. QED
      BY <3>2, <3>3
  <2>6. QED
    BY <2>4, <2>5 DEF GuessesBounded, Guesses, GuessesFrom
<1>2. ASSUME NEW b \in Browsers, Record(b) PROVE GuessesBounded'
  <2>1. /\ request[b].name \in Names /\ Guessing(b) /\ request[b].ip \in Addresses
        /\ \A c \in Browsers \ {b} : request'[c] = request[c]
        /\ ~Guessing(b)'
    BY <1>2 DEF Record, At, Goes, Ends, Idle, Guessing, RequestsSound, Rows, RequestType
  <2>2. CASE request[b].ok
    <3>1. failures' \subseteq failures
      BY <1>2, <2>2 DEF Record, Recorded
    <3>2. QED
      BY <1>k, <2>1, <3>1 DEF Same, Guessing
  <2>3. CASE ~request[b].ok
    <3> DEFINE new == Failure(request[b].name, request[b].ip)
    <3>1. failures' = failures \cup {new}
      BY <1>2, <2>3 DEF Record, Recorded
    <3>2. new \notin failures /\ new.name = request[b].name /\ new.ip = request[b].ip
      BY <2>1, NewFailure
    <3> HIDE DEF new
    <3>3. ASSUME NEW n \in Names
          PROVE  Cardinality(FailedAs(n)') + Cardinality(Guesses(n)')
                     <= MaxPerUser - 1 + Cardinality(Browsers)
      <4>1. CASE n = request[b].name
        <5>1. FailedAs(n)' = FailedAs(n) \cup {new} /\ new \notin FailedAs(n)
          BY <3>1, <3>2, <4>1 DEF FailedAs
        <5>2. Guesses(n)' = Guesses(n) \ {b} /\ b \in Guesses(n)
          BY <2>1, <4>1 DEF Guesses, Guessing
        <5>a. IsFiniteSet(FailedAs(n)) /\ IsFiniteSet(Guesses(n))
          BY <1>n
        <5>b. Cardinality(FailedAs(n)') = Cardinality(FailedAs(n)) + 1
          BY <5>1, <5>a, FS_AddElement
        <5>c. Cardinality(Guesses(n)') = Cardinality(Guesses(n)) - 1
          BY <5>2, <5>a, FS_RemoveElement
        <5>d. /\ Cardinality(FailedAs(n)) \in Nat /\ Cardinality(Guesses(n)) \in Nat
              /\ MaxPerUser - 1 + Cardinality(Browsers) \in Nat
          <6>1. /\ Cardinality(FailedAs(n)) \in Nat /\ Cardinality(Guesses(n)) \in Nat
                /\ Cardinality(Browsers) \in Nat
            BY <1>n, Counts
          <6>2. QED
            BY <6>1, <1>m
        <5>4. Cardinality(FailedAs(n)) + Cardinality(Guesses(n))
                  <= MaxPerUser - 1 + Cardinality(Browsers)
          BY DEF GuessesBounded, Guesses
        <5>5. QED
          BY <5>b, <5>c, <5>d, <5>4, Replaced
      <4>2. CASE n # request[b].name
        <5>1. FailedAs(n)' = FailedAs(n) /\ Guesses(n)' = Guesses(n)
          BY <2>1, <3>1, <3>2, <4>2 DEF FailedAs, Guesses, Guessing
        <5>2. QED
          BY <5>1 DEF GuessesBounded, Guesses
      <4>3. QED
        BY <4>1, <4>2
    <3>4. ASSUME NEW ip \in Addresses
          PROVE  Cardinality(FailedFrom(ip)') + Cardinality(GuessesFrom(ip)')
                     <= MaxPerIp - 1 + Cardinality(Browsers)
      <4>1. CASE ip = request[b].ip
        <5>1. FailedFrom(ip)' = FailedFrom(ip) \cup {new} /\ new \notin FailedFrom(ip)
          BY <3>1, <3>2, <4>1 DEF FailedFrom
        <5>2. GuessesFrom(ip)' = GuessesFrom(ip) \ {b} /\ b \in GuessesFrom(ip)
          BY <2>1, <4>1 DEF GuessesFrom, Guessing
        <5>a. IsFiniteSet(FailedFrom(ip)) /\ IsFiniteSet(GuessesFrom(ip))
          BY <1>n
        <5>b. Cardinality(FailedFrom(ip)') = Cardinality(FailedFrom(ip)) + 1
          BY <5>1, <5>a, FS_AddElement
        <5>c. Cardinality(GuessesFrom(ip)') = Cardinality(GuessesFrom(ip)) - 1
          BY <5>2, <5>a, FS_RemoveElement
        <5>d. /\ Cardinality(FailedFrom(ip)) \in Nat /\ Cardinality(GuessesFrom(ip)) \in Nat
              /\ MaxPerIp - 1 + Cardinality(Browsers) \in Nat
          <6>1. /\ Cardinality(FailedFrom(ip)) \in Nat /\ Cardinality(GuessesFrom(ip)) \in Nat
                /\ Cardinality(Browsers) \in Nat
            BY <1>n, Counts
          <6>2. QED
            BY <6>1, <1>m
        <5>4. Cardinality(FailedFrom(ip)) + Cardinality(GuessesFrom(ip))
                  <= MaxPerIp - 1 + Cardinality(Browsers)
          BY DEF GuessesBounded, GuessesFrom
        <5>5. QED
          BY <5>b, <5>c, <5>d, <5>4, Replaced
      <4>2. CASE ip # request[b].ip
        <5>1. FailedFrom(ip)' = FailedFrom(ip) /\ GuessesFrom(ip)' = GuessesFrom(ip)
          BY <2>1, <3>1, <3>2, <4>2 DEF FailedFrom, GuessesFrom, Guessing
        <5>2. QED
          BY <5>1 DEF GuessesBounded, GuessesFrom
      <4>3. QED
        BY <4>1, <4>2
    <3>5. QED
      BY <3>3, <3>4 DEF GuessesBounded, Guesses, GuessesFrom
  <2>4. QED
    BY <2>2, <2>3
<1>3. ASSUME NEW b \in Browsers, Verify(b) PROVE GuessesBounded'
  <2>1. \A c \in Browsers : Guessing(c)' => Guessing(c) /\ Same(c)
    BY <1>3 DEF Same, Verify, Guessing, At, Rows, RequestType
  <2>2. QED
    BY <1>3, <1>k, <2>1 DEF Verify
<1>4. ASSUME NEW b \in Browsers, Setup(b) PROVE GuessesBounded'
  <2>1. PICK name \in Names, typed \in Passwords : Typed(b, "create", name, typed, None)
    BY <1>4, AccessAssumption DEF Setup
  <2>2. /\ request' = [request EXCEPT ![b] = request'[b]]
        /\ request'[b].stage = "create" /\ failures' = failures
    BY <1>4, <2>1 DEF Setup, Typed, Idle, Rows
  <2>3. QED
    BY <1>k, <1>r, <2>2
<1>5. ASSUME NEW b \in Browsers, Create(b) \/ CreateSession(b) \/ Respond(b) \/ Dies(b)
      PROVE  GuessesBounded'
  <2> DEFINE moved(r) == request' = [request EXCEPT ![b] = r] /\ r.stage \notin {"verify", "record"}
             done == \A c \in Browsers : Guessing(c)' => Guessing(c) /\ Same(c)
  <2>1. \A r : moved(r) => done
    BY <1>r
  <2>2. moved(Idle) \/ moved([request[b] EXCEPT !.stage = "session"])
        \/ moved([Idle EXCEPT !.stage = "respond", !.token = opened + 1])
    <3>1. /\ Idle.stage = "idle"
          /\ [Idle EXCEPT !.stage = "respond", !.token = opened + 1].stage = "respond"
          /\ [request[b] EXCEPT !.stage = "session"].stage = "session"
      BY DEF Idle, Rows, RequestType
    <3>2. CASE Create(b)
      BY <3>1, <3>2 DEF Create, Goes, Ends, Rows
    <3>3. CASE CreateSession(b)
      BY <3>1, <3>3 DEF CreateSession
    <3>4. CASE Respond(b) \/ Dies(b)
      BY <3>1, <3>4 DEF Respond, Dies, Ends
    <3>5. QED
      BY <1>5, <3>2, <3>3, <3>4
  <2>3. done
    BY <2>1, <2>2
  <2>4. failures' = failures
    BY <1>5 DEF Create, CreateSession, Respond, Dies
  <2>5. QED
    BY <1>k, <2>3, <2>4
<1>6. ASSUME NEW n \in Accounts, NEW typed \in Passwords, Passwd(n, typed) PROVE GuessesBounded'
  <2>1. \A c \in Browsers : Guessing(c)' => Guessing(c) /\ Same(c)
    BY <1>6 DEF Same, Passwd, Guessing, Rows, RequestType
  <2>2. QED
    BY <1>6, <1>k, <2>1 DEF Passwd
<1>7. CASE Restart
  BY <1>7, <1>k DEF Restart, Guessing, Idle
<1>8. CASE Tick
  <2> DEFINE older(f) == [f EXCEPT !.age = @ + 1]
  <2>1. \* What is left of a part of the rows is no more than the part.
        ASSUME NEW part \in SUBSET failures, NEW later \in SUBSET failures',
               \A g \in later : \E f \in part : g = older(f)
        PROVE  Cardinality(later) <= Cardinality(part)
    <3> DEFINE left == {f \in part : older(f) \in later}
    <3>1. [f \in left |-> older(f)] \in Surjection(left, later)
      BY <2>1 DEF Surjection
    <3>2. IsFiniteSet(part) /\ IsFiniteSet(left) /\ Cardinality(left) <= Cardinality(part)
      BY FS_Subset DEF Rows
    <3> HIDE DEF left, older
    <3>3. IsFiniteSet(later) /\ Cardinality(later) <= Cardinality(left)
      BY <3>1, <3>2, FS_Surjection
    <3>4. QED
      BY <3>2, <3>3, FS_CardinalityType
  <2>2. \A g \in failures' : \E f \in failures : g = older(f) /\ g.name = f.name /\ g.ip = f.ip
    BY <1>8, Older DEF Tick
  <2>3. ASSUME NEW n \in Names
        PROVE  /\ Cardinality(FailedAs(n)') <= Cardinality(FailedAs(n))
               /\ Guesses(n)' \subseteq Guesses(n)
    <3>1. /\ FailedAs(n) \in SUBSET failures /\ FailedAs(n)' \in SUBSET failures'
          /\ \A g \in FailedAs(n)' : \E f \in FailedAs(n) : g = older(f)
      BY <2>2 DEF FailedAs
    <3>2. QED
      BY <1>8, <2>1, <3>1 DEF Tick, Guesses, Guessing
  <2>4. ASSUME NEW ip \in Addresses
        PROVE  /\ Cardinality(FailedFrom(ip)') <= Cardinality(FailedFrom(ip))
               /\ GuessesFrom(ip)' \subseteq GuessesFrom(ip)
    <3>1. /\ FailedFrom(ip) \in SUBSET failures /\ FailedFrom(ip)' \in SUBSET failures'
          /\ \A g \in FailedFrom(ip)' : \E f \in FailedFrom(ip) : g = older(f)
      BY <2>2 DEF FailedFrom
    <3>2. QED
      BY <1>8, <2>1, <3>1 DEF Tick, GuessesFrom, Guessing
  <2>5. QED
    BY <1>h, <2>3, <2>4, Fewer
<1>9. CASE UNCHANGED <<failures, request>>
  BY <1>9, <1>k DEF Same, Guessing
<1>10. \A b \in Browsers : Logout(b) => UNCHANGED <<failures, request>>
  BY DEF Logout
<1>11. \A n \in Accounts, typed \in Passwords : AddUser(n, typed) => UNCHANGED <<failures, request>>
  BY DEF AddUser
<1>12. UNCHANGED vars => UNCHANGED <<failures, request>>
  BY DEF vars
<1>13. QED
  BY <1>1, <1>2, <1>3, <1>4, <1>5, <1>6, <1>7, <1>8, <1>9, <1>10, <1>11, <1>12
     DEF Next, Request

-----------------------------------------------------------------------------
(* The theorems *)

LEMMA InvInit == Init => IInv
<1> SUFFICES ASSUME Init PROVE IInv
  OBVIOUS
<1>1. TypeOK /\ Rows
  BY TypeInit
<1>2. \A b \in Browsers : request[b] = Idle
  BY DEF Init
<1>3. RequestsSound /\ TokensNew /\ NewerLasts /\ EndedShut /\ OldPasswordShut
  BY <1>2 DEF Init, RequestsSound, Verified, TokensNew, Pending, NewerLasts, EndedShut,
              OldPasswordShut, At, Guessing, Idle
<1>4. GuessesBounded
  <2>1. \A name, ip : /\ FailedAs(name) = {} /\ FailedFrom(ip) = {}
                      /\ Guesses(name) = {} /\ GuessesFrom(ip) = {}
    BY <1>2 DEF Init, FailedAs, FailedFrom, Guesses, GuessesFrom, Guessing, Idle
  <2>2. Cardinality({}) = 0
    BY FS_EmptySet
  <2>3. /\ MaxPerUser - 1 \in Nat /\ MaxPerIp - 1 \in Nat /\ Cardinality(Browsers) \in Nat
        /\ \A ip : Cardinality(Browsers) \in Nat
    BY <1>1, Counts, AccessAssumption
  <2>4. /\ \A n \in Names : Cardinality(FailedAs(n)) + Cardinality(Guesses(n))
               <= MaxPerUser - 1 + Cardinality(Browsers)
        /\ \A ip \in Addresses : Cardinality(FailedFrom(ip)) + Cardinality(GuessesFrom(ip))
               <= MaxPerIp - 1 + Cardinality(Browsers)
    <3>1. \A name, ip : /\ Cardinality(FailedAs(name)) = 0 /\ Cardinality(FailedFrom(ip)) = 0
                        /\ Cardinality(Guesses(name)) = 0 /\ Cardinality(GuessesFrom(ip)) = 0
      BY <2>1, <2>2
    <3>2. \A m, n \in Nat : 0 + 0 <= m + n
      OBVIOUS
    <3>3. QED
      BY <2>3, <3>1, <3>2
  <2>5. QED
    BY <2>4 DEF GuessesBounded, Guesses, GuessesFrom
<1>5. QED
  BY <1>1, <1>3, <1>4 DEF IInv

LEMMA InvStep == IInv /\ [Next]_vars => IInv'
BY TypeStep, SoundStep, TokensStep, NewerStep, EndedStep, OldPasswordStep, GuessesStep DEF IInv

LEMMA Invariant == Spec => []IInv
BY InvInit, InvStep, PTL DEF Spec

\* Type correctness, for any number of browsers, accounts, sessions and commands.
THEOREM AccessTypeCorrect == Spec => []TypeOK
<1>1. IInv => TypeOK
  BY DEF IInv
<1>2. QED
  BY <1>1, Invariant, PTL

\* However requests overlap, an account and an address have no more failures and
\* guesses under way than the limit and one for each other browser.
THEOREM Throttled == Spec => []GuessesBounded
<1>1. IInv => GuessesBounded
  BY DEF IInv
<1>2. QED
  BY <1>1, Invariant, PTL

\* A session was opened with the password the account has, or the change of the
\* password came between.
THEOREM OldPasswords == Spec => []OldPasswordShut
<1>1. IInv => OldPasswordShut
  BY DEF IInv
<1>2. QED
  BY <1>1, Invariant, PTL

\* No browser is signed in with a token that was logged out.
THEOREM LoggedOut == Spec => []LoggedOutIsOut
<1>1. IInv => LoggedOutIsOut
  BY DEF IInv, EndedShut, LoggedOutIsOut, SessionUser
<1>2. QED
  BY <1>1, Invariant, PTL

\* An account changes hands by the user command only.
THEOREM Takeover == Spec => NoTakeover
<1> DEFINE Kept == \A name \in Names :
        password[name] # None /\ password'[name] # password[name] => commands' = commands + 1
<1>1. IInv /\ [Next]_vars => Kept
  BY PasswordStep DEF IInv, Passwd, Command
<1>2. IInv /\ [Next]_vars => [Kept]_vars
  BY <1>1
<1>3. QED
  BY <1>2, Invariant, PTL DEF Spec, NoTakeover

\* Nothing signs a browser out but its own logout and the end of its session: what
\* takes the place of its cookie is a session that lasts as long or longer.
THEOREM Stays == Spec => StaysSignedIn
<1> DEFINE Kept == \A b \in Browsers : Operator(b) =>
        \/ Operator(b)'
        \/ cookie[b] \in ended'
        \/ \E s \in sessions : s.token = cookie[b] /\ s.ttl = 1 /\ Tick
<1>1. IInv /\ [Next]_vars => Kept
  <2> SUFFICES ASSUME IInv, [Next]_vars, NEW b \in Browsers, Operator(b), cookie[b] \notin ended',
                      \A s \in sessions : s.token = cookie[b] => ~(s.ttl = 1 /\ Tick)
               PROVE  Operator(b)'
    OBVIOUS
  <2>t. TypeOK /\ Rows /\ TokensNew /\ NewerLasts
    BY DEF IInv
  <2>1. PICK s \in sessions : s.token = cookie[b] /\ s.ttl > 0 /\ cookie[b] # None
    BY DEF Operator, SessionUser
  <2>2. \E t \in sessions' : t.token = s.token /\ t.ttl > 0
    <3>0. s \in SessionType /\ s.ttl \in Nat
      BY <2>t DEF Rows, SessionType
    <3>1. ASSUME NEW c \in Browsers, Logout(c) PROVE s \in sessions'
      BY <2>1, <3>1 DEF Logout
    <3>2. ASSUME NEW c \in Browsers, Request(c), ~Logout(c) PROVE s \in sessions'
      BY <3>2 DEF Request, Login, Verify, Record, Setup, Create, CreateSession, Respond, Dies
    <3>3. ASSUME NEW n \in Accounts, NEW typed \in Passwords, AddUser(n, typed)
          PROVE  s \in sessions'
      BY <3>3 DEF AddUser
    <3>4. ASSUME NEW n \in Accounts, NEW typed \in Passwords, Passwd(n, typed)
          PROVE  \E t \in sessions' : t.token = s.token /\ t.ttl > 0
      <4>1. (IF s.user = n THEN [s EXCEPT !.excused = TRUE] ELSE s) \in sessions'
        BY <3>4 DEF Passwd
      <4>2. QED
        BY <2>1, <3>0, <4>1 DEF SessionType
    <3>5. CASE Tick
      <4>1. [s EXCEPT !.ttl = IF @ > 0 THEN @ - 1 ELSE 0] \in sessions' /\ s.ttl # 1
        BY <2>1, <3>5 DEF Tick
      <4>2. QED
        BY <2>1, <3>0, <4>1 DEF SessionType
    <3>6. CASE Restart \/ UNCHANGED vars
      BY <2>1, <3>6 DEF Restart, vars
    <3>7. QED
      BY <2>1, <3>1, <3>2, <3>3, <3>4, <3>5, <3>6 DEF Next
  <2>3. CASE cookie'[b] = cookie[b]
    BY <2>1, <2>2, <2>3 DEF Operator, SessionUser
  <2>4. CASE cookie'[b] # cookie[b]
    <3>1. ASSUME NEW c \in Browsers, Logout(c) PROVE FALSE
      BY <2>4, <3>1 DEF Logout, IInv, TypeOK
    <3>2. \A c \in Browsers : Request(c) /\ ~Logout(c) /\ ~Respond(c) => cookie' = cookie
      BY DEF Request, Login, Verify, Record, Setup, Create, CreateSession, Dies
    <3>3. \A n \in Accounts, typed \in Passwords :
              AddUser(n, typed) \/ Passwd(n, typed) => cookie' = cookie
      BY DEF AddUser, Passwd
    <3>4. Restart \/ Tick \/ UNCHANGED vars => cookie' = cookie
      BY DEF Restart, Tick, vars
    <3>5. PICK c \in Browsers : Respond(c)
      BY <2>4, <3>1, <3>2, <3>3, <3>4 DEF Next
    <3>6. c = b /\ cookie'[b] = request[b].token /\ Pending(b) /\ sessions' = sessions
      BY <2>4, <2>t, <3>5 DEF Respond, Pending, TypeOK
    <3>7. PICK t \in sessions : t.token = request[b].token
      BY <2>t, <3>6 DEF TokensNew
    <3>8. s.token < t.token
      BY <2>1, <2>t, <3>6, <3>7 DEF TokensNew
    <3>9. s.ttl \in Nat /\ t.ttl \in Nat /\ s.ttl <= t.ttl
      BY <2>t, <3>8, AccessAssumption DEF NewerLasts, TypeOK
    <3>10. t.token \in 1..opened /\ t.token # None
      BY <2>t, AccessAssumption DEF TypeOK
    <3>11. QED
      BY <2>1, <3>6, <3>7, <3>9, <3>10 DEF Operator, SessionUser
  <2>5. QED
    BY <2>3, <2>4
<1>2. IInv /\ [Next]_vars => [Kept]_vars
  BY <1>1
<1>3. QED
  BY <1>2, Invariant, PTL DEF Spec, StaysSignedIn
=============================================================================
