----------------------------- MODULE AdminAccess -----------------------------
(***************************************************************************)
(* Admin accounts and sessions: the users table that the server reads and  *)
(* the command-line tool changes (auth_store.py, manage_users.py), the     *)
(* sessions in the server's memory (sessions.py), and what api.py does     *)
(* with both at login, at logout and before every admin operation.         *)
(*                                                                         *)
(* Expiry is by the wall clock, which may be set back.  Checking a         *)
(* password and issuing the token is one stretch without an await: nothing *)
(* else of the server runs, but the tool is another process and may change *)
(* the row in between.  It takes well under a tick of this clock.          *)
(***************************************************************************)
EXTENDS Integers

CONSTANTS
  Names,       \* usernames as typed
  Strip,       \* [Names -> Names]: str.strip
  Blank,       \* what is left of a username of spaces
  Passwords,
  LongEnough,  \* the passwords of MIN_PASSWORD_LENGTH and more
  Tokens,
  Requests,    \* bound on the requests under way at a time
  TTL,         \* DEFAULT_TTL
  MaxTime,     \* bound on the time that passes
  MaxBack,     \* bound on how far the clock is set back, in all
  NoRow, NoSession

VARIABLES
  users,    \* the table: [Names -> a password, hashed, or NoRow]
  sessions, \* SessionStore._sessions: [Tokens -> Session or NoSession]
  request,  \* [Requests -> the request under way]
  now,      \* the wall clock
  back,     \* history: by how much it was set back so far
  lostAt,   \* history: when a name and a password last ceased to go together
  ended     \* history: tokens revoked, refused after expiry or lost in a restart

vars == <<users, sessions, request, now, back, lostAt, ended>>

Session == [username : Names, expiresAt : Int, password : Passwords]

Free == [pc |-> "free"]
Login(name, password) == [pc |-> "login", username |-> name, password |-> password]
Hashing(login, row) == [pc |-> "hash", username |-> login.username,
                        password |-> login.password, row |-> row]
Working(token) == [pc |-> "working", token |-> token]

Request ==
  {Free}
  \cup {Login(n, p) : n \in Names, p \in Passwords}
  \cup {Hashing(Login(n, p), row) : n \in Names, p \in Passwords, row \in Passwords \cup {NoRow}}
  \cup {Working(t) : t \in Tokens}

ASSUME AccessAssumption ==
  /\ Strip \in [Names -> Names] /\ Blank \in Names
  /\ LongEnough \subseteq Passwords
  /\ TTL \in Nat /\ MaxBack \in Nat
  /\ NoRow \notin Passwords
  /\ NoSession \notin Session

\* The time that has really passed: a step back is made good here.
Elapsed == now + back

Issued(t) == sessions[t] # NoSession

\* Time before the first event, for what never was.
Never == -1

TypeOK ==
  /\ users \in [Names -> Passwords \cup {NoRow}]
  /\ sessions \in [Tokens -> Session \cup {NoSession}]
  /\ request \in [Requests -> Request]
  /\ now \in Int /\ back \in Nat
  /\ lostAt \in [Names -> [Passwords -> Int]]
  /\ ended \subseteq Tokens

Init ==
  /\ users = [n \in Names |-> NoRow]
  /\ sessions = [t \in Tokens |-> NoSession]
  /\ request = [r \in Requests |-> Free]
  /\ now = 0 /\ back = 0
  /\ lostAt = [n \in Names |-> [p \in Passwords |-> Never]]
  /\ ended = {}

-----------------------------------------------------------------------------
(* The command-line tool: one statement each.                              *)

SetRow(name, row) ==
  /\ users' = [users EXCEPT ![name] = row]
  /\ lostAt' = IF users[name] \in Passwords \ {row}
               THEN [lostAt EXCEPT ![name][users[name]] = Elapsed] ELSE lostAt
  /\ UNCHANGED <<sessions, request, now, back, ended>>

\* create: the name is stripped, and must be new.
CreateUser(name, password) ==
  /\ Strip[name] # Blank /\ password \in LongEnough
  /\ users[Strip[name]] = NoRow
  /\ SetRow(Strip[name], password)

\* reset-password and delete take the name as it is.
SetPassword(name, password) ==
  /\ password \in LongEnough
  /\ users[name] # NoRow
  /\ SetRow(name, password)

DeleteUser(name) ==
  /\ users[name] # NoRow
  /\ SetRow(name, NoRow)

-----------------------------------------------------------------------------
(* The server.                                                             *)

\* The event loop is not taken by a password check.
LoopFree == \A r \in Requests : request[r].pc # "hash"

\* A login has arrived and its body is awaited.
BeginLogin(r, name, password) ==
  /\ LoopFree /\ request[r] = Free
  /\ request' = [request EXCEPT ![r] = Login(name, password)]
  /\ UNCHANGED <<users, sessions, now, back, lostAt, ended>>

\* verify reads the row.
ReadRow(r) ==
  /\ LoopFree /\ request[r].pc = "login"
  /\ request' = [request EXCEPT ![r] = Hashing(@, users[@.username])]
  /\ UNCHANGED <<users, sessions, now, back, lostAt, ended>>

\* The hash is as in the row, and a token is issued that never was before.
IssueToken(r) ==
  /\ request[r].pc = "hash" /\ request[r].row = request[r].password
  /\ \E t \in Tokens \ ended :
       /\ ~Issued(t)
       /\ sessions' = [sessions EXCEPT ![t] =
            [username |-> request[r].username, expiresAt |-> now + TTL,
             password |-> request[r].password]]
  /\ request' = [request EXCEPT ![r] = Free]
  /\ UNCHANGED <<users, now, back, lostAt, ended>>

\* 401: no row, or another password.
RefuseLogin(r) ==
  /\ request[r].pc = "hash" /\ request[r].row # request[r].password
  /\ request' = [request EXCEPT ![r] = Free]
  /\ UNCHANGED <<users, sessions, now, back, lostAt, ended>>

\* Mutant: a session lives on for as long as it is used.
Admit_Slides(r, t) ==
  /\ LoopFree /\ request[r] = Free
  /\ Issued(t) /\ sessions[t].expiresAt >= now
  /\ request' = [request EXCEPT ![r] = Working(t)]
  /\ sessions' = [sessions EXCEPT ![t].expiresAt = now + TTL]
  /\ UNCHANGED <<users, now, back, lostAt, ended>>

\* require_admin lets an operation begin; what it awaits comes after.
Admit(r, t) ==
  /\ LoopFree /\ request[r] = Free
  /\ Issued(t) /\ sessions[t].expiresAt >= now
  /\ request' = [request EXCEPT ![r] = Working(t)]
  /\ UNCHANGED <<users, sessions, now, back, lostAt, ended>>

\* Mutant: an expired session is refused and stays where it is.
RefuseExpired_Kept(t) ==
  /\ LoopFree
  /\ Issued(t) /\ sessions[t].expiresAt < now
  /\ ended' = ended \cup {t}
  /\ UNCHANGED <<users, sessions, request, now, back, lostAt>>

\* require_admin refuses a session that has expired, and lookup deletes it.
RefuseExpired(t) ==
  /\ LoopFree
  /\ Issued(t) /\ sessions[t].expiresAt < now
  /\ sessions' = [sessions EXCEPT ![t] = NoSession]
  /\ ended' = ended \cup {t}
  /\ UNCHANGED <<users, request, now, back, lostAt>>

\* admin_logout: no session is needed, and an unknown token is as good.
Logout(t) ==
  /\ LoopFree
  /\ Issued(t)
  /\ sessions' = [sessions EXCEPT ![t] = NoSession]
  /\ ended' = ended \cup {t}
  /\ UNCHANGED <<users, request, now, back, lostAt>>

\* The operation is done, whatever has become of the session meanwhile.
Finish(r) ==
  /\ LoopFree /\ request[r].pc = "working"
  /\ request' = [request EXCEPT ![r] = Free]
  /\ UNCHANGED <<users, sessions, now, back, lostAt, ended>>

\* The process ends, at any point, and begins anew: sessions are gone.
Restart ==
  /\ sessions' = [t \in Tokens |-> NoSession]
  /\ request' = [r \in Requests |-> Free]
  /\ ended' = ended \cup {t \in Tokens : Issued(t)}
  /\ UNCHANGED <<users, now, back, lostAt>>

Tick ==
  /\ LoopFree /\ Elapsed < MaxTime
  /\ now' = now + 1
  /\ UNCHANGED <<users, sessions, request, back, lostAt, ended>>

\* The wall clock is corrected.
SetBack ==
  /\ LoopFree /\ back < MaxBack
  /\ now' = now - 1 /\ back' = back + 1
  /\ UNCHANGED <<users, sessions, request, lostAt, ended>>

Next ==
  \/ \E n \in Names :
       \/ \E p \in Passwords : CreateUser(n, p) \/ SetPassword(n, p)
       \/ DeleteUser(n)
  \/ \E r \in Requests :
       \/ \E n \in Names, p \in Passwords : BeginLogin(r, n, p)
       \/ ReadRow(r) \/ IssueToken(r) \/ RefuseLogin(r) \/ Finish(r)
       \/ \E t \in Tokens : Admit(r, t)
  \/ \E t \in Tokens : RefuseExpired(t) \/ Logout(t)
  \/ Restart
  \/ Tick \/ SetBack

Spec == Init /\ [][Next]_vars

-----------------------------------------------------------------------------
(* Properties.                                                             *)

\* r begins an operation with token t in this step.
Admits(r, t) == request'[r] = Working(t) /\ request[r] # Working(t)

\* A token that was logged out, refused as expired or lost in a restart never
\* opens anything again, not even if the clock is set back to before its expiry
\* (lookup and revoke, sessions.py:31-41).
EndedForGood ==
  [][\A r \in Requests, t \in Tokens : Admits(r, t) => t \notin ended]_vars

\* Who is admitted has logged in with a password that is the account's still, or
\* was so no longer ago than a session lasts: deleting an account or resetting its
\* password shuts its sessions out after TTL, and what the clock was set back, at
\* the latest (sessions.py:26-38, auth_store.py:46-73).
AccessEndsWithThePassword ==
  [][\A r \in Requests, t \in Tokens : Admits(r, t) =>
       LET s == sessions[t]
       IN  \/ users[s.username] = s.password
           \/ /\ lostAt[s.username][s.password] # Never
              /\ Elapsed - lostAt[s.username][s.password] <= TTL + back
    ]_vars
=============================================================================
