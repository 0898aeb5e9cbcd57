-------------------------- MODULE AdminAccessProofs --------------------------
(***************************************************************************)
(* For any number of accounts, passwords, tokens and requests, any TTL and *)
(* a clock that is set back as far as you like: sessions that ended stay   *)
(* ended, and access ends with the password.                               *)
(***************************************************************************)
EXTENDS AdminAccess, TLAPS

\* A token that ended has left the store.
EndedAreGone == \A t \in ended : sessions[t] = NoSession

\* Whatever was lost was lost by now.
LostInThePast ==
  /\ Elapsed \in Nat
  /\ \A n \in Names, p \in Passwords : lostAt[n][p] <= Elapsed

\* The password goes with the name, or did so until no more than TTL before e.
Covers(n, p, e) ==
  \/ users[n] = p
  \/ lostAt[n][p] # Never /\ e <= lostAt[n][p] + TTL

\* A session expires within TTL of the time its password was last good.
SessionsCovered ==
  \A t \in Tokens : Issued(t) =>
    LET s == sessions[t]
    IN  s.expiresAt <= Elapsed + TTL /\ Covers(s.username, s.password, s.expiresAt)

\* A password check under way: what the row said held just now.
ChecksCovered ==
  \A r \in Requests : request[r].pc = "hash" /\ request[r].row = request[r].password =>
    LET n == request[r].username  p == request[r].password
    IN  users[n] = p \/ lostAt[n][p] = Elapsed

AccessInv ==
  TypeOK /\ EndedAreGone /\ LostInThePast /\ SessionsCovered /\ ChecksCovered

-----------------------------------------------------------------------------
\* The four shapes of a request are told apart by their pc.
LEMMA RequestShapes ==
  ASSUME NEW q \in Request
  PROVE  /\ q.pc = "free" => q = Free
         /\ q.pc = "login" => /\ q.username \in Names /\ q.password \in Passwords
                              /\ q = Login(q.username, q.password)
         /\ q.pc = "hash" => /\ q.username \in Names /\ q.password \in Passwords
                             /\ q.row \in Passwords \cup {NoRow}
         /\ q.pc \in {"free", "login", "hash", "working"}
<1>1. CASE q = Free
  BY <1>1 DEF Free
<1>2. ASSUME NEW n \in Names, NEW p \in Passwords, q = Login(n, p)
      PROVE  /\ q.pc = "login" /\ q.username = n /\ q.password = p
  BY <1>2 DEF Login
<1>3. ASSUME NEW n \in Names, NEW p \in Passwords, NEW row \in Passwords \cup {NoRow},
             q = Hashing(Login(n, p), row)
      PROVE  /\ q.pc = "hash" /\ q.username = n /\ q.password = p /\ q.row = row
  BY <1>3 DEF Hashing, Login
<1>4. ASSUME NEW t \in Tokens, q = Working(t)
      PROVE  q.pc = "working"
  BY <1>4 DEF Working
<1>5. CASE \E n \in Names, p \in Passwords : q = Login(n, p)
  BY <1>5, <1>2
<1>6. CASE \E n \in Names, p \in Passwords, row \in Passwords \cup {NoRow} :
             q = Hashing(Login(n, p), row)
  BY <1>6, <1>3
<1>7. CASE \E t \in Tokens : q = Working(t)
  BY <1>7, <1>4
<1>8. QED
  BY <1>1, <1>5, <1>6, <1>7 DEF Request

LEMMA InitAccess == Init => AccessInv
<1> SUFFICES ASSUME Init PROVE AccessInv
  OBVIOUS
<1> USE AccessAssumption DEF Init
<1>1. TypeOK
  BY DEF TypeOK, Request, Never
<1>2. LostInThePast
  BY DEF LostInThePast, Elapsed, Never
<1>3. EndedAreGone /\ SessionsCovered
  BY DEF EndedAreGone, SessionsCovered, Issued
<1>4. ChecksCovered
  BY DEF ChecksCovered, Free
<1>5. QED
  BY <1>1, <1>2, <1>3, <1>4 DEF AccessInv

\* A change of the table: what it takes away is lost just now.
LEMMA SetRowKeeps ==
  ASSUME AccessInv, NEW n \in Names, NEW row \in Passwords \cup {NoRow}, SetRow(n, row)
  PROVE  AccessInv'
<1> USE AccessAssumption DEF SetRow, AccessInv
<1>1. TypeOK'
  BY DEF TypeOK, Elapsed
<1>2. Elapsed' = Elapsed /\ Elapsed \in Nat
  BY DEF Elapsed, LostInThePast
<1>3. \A m \in Names, p \in Passwords :
        /\ lostAt'[m][p] = lostAt[m][p] \/ lostAt'[m][p] = Elapsed
        /\ users[m] = p => users'[m] = p \/ lostAt'[m][p] = Elapsed
  BY DEF TypeOK
<1>4. LostInThePast'
  BY <1>2, <1>3 DEF LostInThePast, TypeOK
<1>5. EndedAreGone'
  BY DEF EndedAreGone
<1>6. ASSUME NEW t \in Tokens, Issued(t)'
      PROVE  (/\ sessions[t].expiresAt <= Elapsed + TTL
              /\ Covers(sessions[t].username, sessions[t].password, sessions[t].expiresAt))'
  <2> DEFINE s == sessions[t]
  <2>1. s \in Session /\ sessions' = sessions
    BY <1>6 DEF Issued, TypeOK
  <2>2. s.username \in Names /\ s.password \in Passwords /\ s.expiresAt \in Int
    BY <2>1 DEF Session
  <2>3. s.expiresAt <= Elapsed + TTL /\ Covers(s.username, s.password, s.expiresAt)
    BY <1>6 DEF SessionsCovered, Issued
  <2>4. lostAt[s.username][s.password] \in Int /\ lostAt[s.username][s.password] <= Elapsed
    BY <2>2 DEF TypeOK, LostInThePast
  <2>5. Covers(s.username, s.password, s.expiresAt)'
    <3>1. CASE users[s.username] = s.password
      BY <1>2, <1>3, <2>1, <2>2, <2>3, <3>1 DEF Covers, Never
    <3>2. CASE lostAt[s.username][s.password] # Never
               /\ s.expiresAt <= lostAt[s.username][s.password] + TTL
      BY <1>2, <1>3, <2>1, <2>2, <2>3, <2>4, <3>2 DEF Covers, Never
    <3>3. QED
      BY <2>3, <3>1, <3>2 DEF Covers
  <2>6. QED
    BY <1>2, <2>1, <2>3, <2>5
<1>7. SessionsCovered'
  BY <1>6 DEF SessionsCovered
<1>8. ChecksCovered'
  <2>1. ASSUME NEW r \in Requests, request'[r].pc = "hash", request'[r].row = request'[r].password
        PROVE  LET m == request'[r].username  p == request'[r].password
               IN  users'[m] = p \/ lostAt'[m][p] = Elapsed'
    <3>1. request[r] \in Request /\ request' = request
      BY DEF TypeOK
    <3>2. request[r].username \in Names /\ request[r].password \in Passwords
      BY <2>1, <3>1, RequestShapes
    <3>3. QED
      BY <1>2, <1>3, <2>1, <3>1, <3>2 DEF ChecksCovered
  <2>2. QED
    BY <2>1 DEF ChecksCovered
<1>9. QED
  BY <1>1, <1>4, <1>5, <1>7, <1>8

\* The table and the clock stand still: only sessions, requests and ended change.
LEMMA ServerStepKeeps ==
  ASSUME AccessInv, UNCHANGED <<users, now, back, lostAt>>, TypeOK', EndedAreGone',
         \A t \in Tokens : Issued(t)' =>
           \/ Issued(t) /\ sessions'[t] = sessions[t]
           \/ /\ sessions'[t].expiresAt <= Elapsed + TTL
              /\ Covers(sessions'[t].username, sessions'[t].password, sessions'[t].expiresAt),
         \A r \in Requests :
           \/ request'[r] = request[r]
           \/ request'[r].pc # "hash"
           \/ users[request'[r].username] = request'[r].row
  PROVE  AccessInv'
<1>1. LostInThePast' /\ Elapsed' = Elapsed
  BY DEF AccessInv, LostInThePast, Elapsed
<1>2. SessionsCovered'
  BY <1>1 DEF AccessInv, SessionsCovered, Covers, Issued
<1>3. ChecksCovered'
  BY <1>1 DEF AccessInv, ChecksCovered
<1>4. QED
  BY <1>1, <1>2, <1>3 DEF AccessInv

\* The clock moves, with no check under way.
LEMMA ClockStepKeeps ==
  ASSUME AccessInv, LoopFree, UNCHANGED <<users, sessions, request, lostAt, ended>>,
         now' \in Int, back' \in Nat, Elapsed' \in Nat, Elapsed <= Elapsed'
  PROVE  AccessInv'
<1>1. TypeOK' /\ EndedAreGone'
  BY DEF AccessInv, TypeOK, EndedAreGone
<1>2. LostInThePast'
  BY DEF AccessInv, TypeOK, LostInThePast
<1>3. SessionsCovered'
  <2>1. ASSUME NEW t \in Tokens, Issued(t)
        PROVE  sessions[t].expiresAt <= Elapsed' + TTL
    <3>1. sessions[t].expiresAt \in Int
      BY <2>1 DEF AccessInv, TypeOK, Issued, Session
    <3>2. sessions[t].expiresAt <= Elapsed + TTL /\ Elapsed \in Nat
      BY <2>1 DEF AccessInv, SessionsCovered, LostInThePast
    <3>3. QED
      BY <3>1, <3>2, AccessAssumption
  <2>2. QED
    BY <2>1 DEF AccessInv, SessionsCovered, Covers, Issued
<1>4. ChecksCovered'
  BY DEF ChecksCovered, LoopFree
<1>5. QED
  BY <1>1, <1>2, <1>3, <1>4 DEF AccessInv

LEMMA StepKeepsAccess == AccessInv /\ [Next]_vars => AccessInv'
<1> SUFFICES ASSUME AccessInv, [Next]_vars PROVE AccessInv'
  OBVIOUS
<1> USE AccessAssumption
<1>1. ASSUME NEW n \in Names, NEW p \in Passwords, CreateUser(n, p) \/ SetPassword(n, p)
      PROVE  AccessInv'
  <2>1. Strip[n] \in Names
    OBVIOUS
  <2>2. QED
    BY <1>1, <2>1, SetRowKeeps DEF CreateUser, SetPassword
<1>2. ASSUME NEW n \in Names, DeleteUser(n) PROVE AccessInv'
  BY <1>2, SetRowKeeps DEF DeleteUser
<1>3. ASSUME NEW r \in Requests, NEW n \in Names, NEW p \in Passwords, BeginLogin(r, n, p)
      PROVE  AccessInv'
  <2> USE <1>3 DEF BeginLogin
  <2>1. Login(n, p) \in Request /\ Login(n, p).pc # "hash"
    BY DEF Request, Login
  <2>2. TypeOK' /\ EndedAreGone'
    BY <2>1 DEF AccessInv, TypeOK, EndedAreGone
  <2>3. \A q \in Requests : request'[q] = request[q] \/ request'[q].pc # "hash"
    BY <2>1 DEF AccessInv, TypeOK
  <2>4. QED
    BY <2>2, <2>3, ServerStepKeeps DEF Issued
<1>4. ASSUME NEW r \in Requests, ReadRow(r) PROVE AccessInv'
  <2> USE <1>4 DEF ReadRow
  <2> DEFINE q == request[r]
             h == Hashing(q, users[q.username])
  <2>1. q \in Request /\ q.username \in Names /\ q.password \in Passwords
        /\ q = Login(q.username, q.password)
    BY RequestShapes DEF AccessInv, TypeOK
  <2>2. users[q.username] \in Passwords \cup {NoRow}
    BY <2>1 DEF AccessInv, TypeOK
  <2>3. h \in Request
    BY <2>1, <2>2 DEF Request
  <2>4. users[h.username] = h.row
    BY DEF Hashing
  <2>5. TypeOK' /\ EndedAreGone'
    BY <2>3 DEF AccessInv, TypeOK, EndedAreGone
  <2>6. \A x \in Requests : request'[x] = request[x] \/ users[request'[x].username] = request'[x].row
    BY <2>4 DEF AccessInv, TypeOK
  <2>7. QED
    BY <2>5, <2>6, ServerStepKeeps DEF Issued
<1>5. ASSUME NEW r \in Requests, IssueToken(r) PROVE AccessInv'
  <2> USE <1>5 DEF IssueToken
  <2> DEFINE q == request[r]
             s == [username |-> q.username, expiresAt |-> now + TTL, password |-> q.password]
  <2>1. PICK t \in Tokens \ ended : sessions' = [sessions EXCEPT ![t] = s]
    OBVIOUS
  <2>2. q \in Request /\ q.username \in Names /\ q.password \in Passwords
    BY RequestShapes DEF AccessInv, TypeOK
  <2>3. s \in Session
    BY <2>2 DEF AccessInv, TypeOK, Session
  <2>4. Free \in Request /\ Free.pc # "hash"
    BY DEF Request, Free
  <2>5. TypeOK' /\ EndedAreGone'
    BY <2>1, <2>3, <2>4 DEF AccessInv, TypeOK, EndedAreGone
  <2>6. now + TTL <= Elapsed + TTL /\ Elapsed \in Nat
    BY DEF AccessInv, TypeOK, Elapsed, LostInThePast
  <2>7. Covers(q.username, q.password, now + TTL)
    BY <2>2, <2>6 DEF AccessInv, ChecksCovered, Covers, Never
  <2>8. ASSUME NEW x \in Tokens, Issued(x)'
        PROVE  \/ Issued(x) /\ sessions'[x] = sessions[x]
               \/ sessions'[x] = s
    BY <2>1, <2>8 DEF AccessInv, TypeOK, Issued
  <2>9. s.username = q.username /\ s.password = q.password /\ s.expiresAt = now + TTL
    OBVIOUS
  <2>10. \A x \in Requests : request'[x] = request[x] \/ request'[x].pc # "hash"
    BY <2>4 DEF AccessInv, TypeOK
  <2> HIDE DEF s, q
  <2>11. QED
    BY <2>5, <2>6, <2>7, <2>8, <2>9, <2>10, ServerStepKeeps
<1>6. ASSUME NEW r \in Requests, RefuseLogin(r) \/ Finish(r) PROVE AccessInv'
  <2>1. Free \in Request /\ Free.pc # "hash"
    BY DEF Request, Free
  <2>2. request' = [request EXCEPT ![r] = Free]
        /\ UNCHANGED <<users, sessions, now, back, lostAt, ended>>
    BY <1>6 DEF RefuseLogin, Finish
  <2>3. TypeOK' /\ EndedAreGone'
    BY <2>1, <2>2 DEF AccessInv, TypeOK, EndedAreGone
  <2>4. \A x \in Requests : request'[x] = request[x] \/ request'[x].pc # "hash"
    BY <2>1, <2>2 DEF AccessInv, TypeOK
  <2>5. QED
    BY <2>2, <2>3, <2>4, ServerStepKeeps DEF Issued
<1>7. ASSUME NEW r \in Requests, NEW t \in Tokens, Admit(r, t) PROVE AccessInv'
  <2> USE <1>7 DEF Admit
  <2>1. Working(t) \in Request /\ Working(t).pc # "hash"
    BY DEF Request, Working
  <2>2. TypeOK' /\ EndedAreGone'
    BY <2>1 DEF AccessInv, TypeOK, EndedAreGone
  <2>3. \A x \in Requests : request'[x] = request[x] \/ request'[x].pc # "hash"
    BY <2>1 DEF AccessInv, TypeOK
  <2>4. QED
    BY <2>2, <2>3, ServerStepKeeps DEF Issued
<1>8. ASSUME NEW t \in Tokens, RefuseExpired(t) \/ Logout(t) PROVE AccessInv'
  <2>1. /\ sessions' = [sessions EXCEPT ![t] = NoSession]
        /\ ended' = ended \cup {t}
        /\ UNCHANGED <<users, request, now, back, lostAt>>
    BY <1>8 DEF RefuseExpired, Logout
  <2>2. TypeOK' /\ EndedAreGone'
    BY <2>1 DEF AccessInv, TypeOK, EndedAreGone
  <2>3. \A x \in Tokens : Issued(x)' => Issued(x) /\ sessions'[x] = sessions[x]
    BY <2>1 DEF AccessInv, TypeOK, Issued
  <2>4. QED
    BY <2>1, <2>2, <2>3, ServerStepKeeps
<1>9. ASSUME Restart PROVE AccessInv'
  <2> USE <1>9 DEF Restart
  <2>1. Free \in Request /\ Free.pc # "hash"
    BY DEF Request, Free
  <2>2. TypeOK'
    BY <2>1 DEF AccessInv, TypeOK
  <2>3. EndedAreGone' /\ \A x \in Tokens : ~Issued(x)'
    BY DEF AccessInv, TypeOK, EndedAreGone, Issued
  <2>4. \A x \in Requests : request'[x].pc # "hash"
    BY <2>1
  <2>5. QED
    BY <2>2, <2>3, <2>4, ServerStepKeeps
<1>10. CASE Tick
  BY <1>10, ClockStepKeeps DEF Tick, AccessInv, TypeOK, LostInThePast, Elapsed
<1>11. CASE SetBack
  BY <1>11, ClockStepKeeps DEF SetBack, AccessInv, TypeOK, LostInThePast, Elapsed
<1>12. CASE UNCHANGED vars
  BY <1>12 DEF vars, AccessInv, TypeOK, EndedAreGone, LostInThePast, SessionsCovered, ChecksCovered,
               Covers, Issued, Elapsed
<1>13. QED
  BY <1>1, <1>2, <1>3, <1>4, <1>5, <1>6, <1>7, <1>8, <1>9, <1>10, <1>11, <1>12 DEF Next

-----------------------------------------------------------------------------
\* Only Admit admits, and only by the token it is about.
LEMMA AdmissionIsAdmit ==
  ASSUME TypeOK, [Next]_vars, NEW r \in Requests, NEW t \in Tokens, Admits(r, t)
  PROVE  Issued(t) /\ sessions[t].expiresAt >= now
<1> USE DEF Admits
<1>1. /\ Free # Working(t)
      /\ \A n, p : Login(n, p) # Working(t)
      /\ \A q, row : Hashing(q, row) # Working(t)
  <2>1. Working(t).pc = "working" /\ Free.pc = "free"
    BY DEF Working, Free
  <2>2. \A n, p : Login(n, p).pc = "login"
    BY DEF Login
  <2>3. \A q, row : Hashing(q, row).pc = "hash"
    BY DEF Hashing
  <2>4. QED
    BY <2>1, <2>2, <2>3
<1>2. request' # request
  OBVIOUS
<1>3. ASSUME NEW r0 \in Requests, NEW t0 \in Tokens, Admit(r0, t0)
      PROVE  Issued(t) /\ sessions[t].expiresAt >= now
  <2>1. r0 = r
    BY <1>3 DEF Admit, TypeOK
  <2>2. Working(t0) = Working(t)
    BY <1>3, <2>1 DEF Admit, TypeOK
  <2>3. t0 = t
    BY <2>2 DEF Working
  <2>4. QED
    BY <1>3, <2>3 DEF Admit
<1>4. ASSUME NEW r0 \in Requests, NEW q, request' = [request EXCEPT ![r0] = q], q # Working(t)
      PROVE  FALSE
  BY <1>4 DEF TypeOK
<1>5. \A r0 \in Requests :
        /\ ~ReadRow(r0) /\ ~IssueToken(r0) /\ ~RefuseLogin(r0) /\ ~Finish(r0)
        /\ \A n \in Names, p \in Passwords : ~BeginLogin(r0, n, p)
  BY <1>1, <1>4 DEF ReadRow, IssueToken, RefuseLogin, Finish, BeginLogin
<1>6. ~Restart
  BY <1>1 DEF Restart
<1>7. QED
  BY <1>2, <1>3, <1>5, <1>6
     DEF Next, vars, CreateUser, SetPassword, DeleteUser, SetRow, RefuseExpired, Logout, Tick, SetBack

THEOREM AccessInvariant == Spec => []AccessInv
<1>1. Init => AccessInv
  BY InitAccess
<1>2. AccessInv /\ [Next]_vars => AccessInv'
  BY StepKeepsAccess
<1>3. QED
  BY <1>1, <1>2, PTL DEF Spec

\* A token that ended never admits anyone again (lookup, revoke: sessions.py:31-41).
THEOREM SessionsEndForGood == Spec => EndedForGood
<1>1. AccessInv /\ [Next]_vars =>
        [\A r \in Requests, t \in Tokens : Admits(r, t) => t \notin ended]_vars
  BY AdmissionIsAdmit DEF AccessInv, EndedAreGone, Issued
<1>2. QED
  BY <1>1, AccessInvariant, PTL DEF Spec, EndedForGood

\* An account that is deleted, or has another password, keeps nobody in for longer
\* than TTL and what the clock was set back (sessions.py:26-38).
THEOREM AccessFollowsThePassword == Spec => AccessEndsWithThePassword
<1> DEFINE InTime(t) ==
      LET s == sessions[t]
      IN  \/ users[s.username] = s.password
          \/ /\ lostAt[s.username][s.password] # Never
             /\ Elapsed - lostAt[s.username][s.password] <= TTL + back
<1>1. ASSUME AccessInv, NEW t \in Tokens, Issued(t), sessions[t].expiresAt >= now
      PROVE  InTime(t)
  <2> DEFINE s == sessions[t]
  <2>1. s \in Session
    BY <1>1 DEF AccessInv, TypeOK, Issued
  <2>2. s.username \in Names /\ s.password \in Passwords /\ s.expiresAt \in Int
    BY <2>1 DEF Session
  <2>3. lostAt[s.username][s.password] \in Int /\ now \in Int /\ back \in Nat
    BY <1>1, <2>2 DEF AccessInv, TypeOK
  <2>4. Covers(s.username, s.password, s.expiresAt)
    BY <1>1 DEF AccessInv, SessionsCovered
  <2>5. QED
    BY <1>1, <2>2, <2>3, <2>4, AccessAssumption DEF Covers, Elapsed
<1>2. AccessInv /\ [Next]_vars => [\A r \in Requests, t \in Tokens : Admits(r, t) => InTime(t)]_vars
  BY <1>1, AdmissionIsAdmit DEF AccessInv
<1>3. QED
  BY <1>2, AccessInvariant, PTL DEF Spec, AccessEndsWithThePassword
=============================================================================
