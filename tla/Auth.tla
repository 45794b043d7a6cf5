-------------------------------- MODULE Auth --------------------------------
(***************************************************************************)
(* The web application's accounts: AuthService over the tables auth_users  *)
(* and auth_refresh_tokens (PostgreSQL) and the SessionStore (Redis).      *)
(*                                                                         *)
(* A task is the coroutine of one request. Each of its steps is one        *)
(* statement or Redis command and what follows it up to the next await:    *)
(* there is no transaction around them, and other requests run in between. *)
(* Passwords are right and usernames well formed, or nothing happens. The  *)
(* session and the refresh token that a task issues are named after it.    *)
(***************************************************************************)
EXTENDS Naturals, FiniteSets

CONSTANTS Tasks, Users,
          None,          \* no session, no token, no task
          IndexMayLapse, \* may a session set expire between SADD and EXPIRE?
          MaxFaults      \* bound: requests that break off

ASSUME AuthAssumption ==
    /\ None \notin Tasks
    /\ IndexMayLapse \in BOOLEAN
    /\ MaxFaults \in Nat

VARIABLES role,     \* auth_users: "none", "user" or "deleted"
          session,  \* live keys session:<id>
          index,    \* members of user_sessions:<username>
          covered,  \* sessions whose SET came before the set's last EXPIRE
          token,    \* auth_refresh_tokens: "none", "valid", "expired" or "revoked"
          req,      \* a task's request
          pc,       \* the statement it awaits, or its outcome
          found,    \* the session ids it has read
          held,     \* history: what its user's clients held when a deletion started
          late,     \* history: was its account deleted when it started?
          faults

vars == <<role, session, index, covered, token, req, pc, found, held, late, faults>>
stores == <<role, session, index, covered, token>>

NoRequest == [kind |-> "none", user |-> None, session |-> None, token |-> None]

Ended == {"ok", "refused", "error"}
Issuing(t) == req[t].kind \in {"login", "refresh"}

\* What a client was given in a response (_set_auth_cookies).
Issued(u) == {t \in Tasks : pc[t] = "ok" /\ Issuing(t) /\ req[t].user = u}

\* LOGIN_BLOCKED_ROLES
CanLogin(u) == role[u] = "user"
Exists(u) == role[u] # "none"
-----------------------------------------------------------------------------
(* Requests *)

\* The requests the API takes, with the cookies its clients can have; the user
\* of a session or token is the one it was issued to.
Requests ==
    UNION {
        [kind : {"register", "login"}, user : {u}, session : {None}, token : {None}]
        \cup [kind : {"refresh"}, user : {u}, session : {None}, token : Issued(u)]
        \cup [kind : {"logout"}, user : {u}, session : Issued(u), token : Issued(u) \cup {None}]
        \cup [kind : {"logout"}, user : {u}, session : {None}, token : Issued(u)]
        \cup [kind : {"me", "delete"}, user : {u}, session : Issued(u), token : {None}]
        : u \in Users}

FirstStep(r) ==
    CASE r.kind = "register" -> "user_exists"
      [] r.kind = "login" -> "authenticate"
      [] r.kind = "refresh" -> "validate"
      [] r.kind = "logout" -> IF r.session = None THEN "revoke" ELSE "get_session"
      [] OTHER -> "require_session"

Arrive(t) ==
    /\ pc[t] = "new"
    /\ \E r \in Requests :
          /\ req' = [req EXCEPT ![t] = r]
          /\ pc' = [pc EXCEPT ![t] = FirstStep(r)]
          /\ held' = [held EXCEPT ![t] = IF r.kind = "delete" THEN Issued(r.user) ELSE {}]
          /\ late' = [late EXCEPT ![t] = role[r.user] = "deleted"]
    /\ UNCHANGED <<stores, found, faults>>

\* Task t is done with the statement `at` and goes on to `to`.
Step(t, at, to) ==
    /\ pc[t] = at
    /\ pc' = [pc EXCEPT ![t] = to]
    /\ UNCHANGED <<req, held, late, faults>>

\* The same for a statement that changes nothing.
Look(t, at, to) == Step(t, at, to) /\ UNCHANGED <<stores, found>>

User(t) == req[t].user
-----------------------------------------------------------------------------
(* register *)

\* AuthService.register's own check, then the one register_user makes again.
UserExists(t) == Look(t, "user_exists", IF Exists(User(t)) THEN "refused" ELSE "register_user")
RegisterUser(t) == Look(t, "register_user", IF Exists(User(t)) THEN "refused" ELSE "insert_user")

\* Mutant: the insertion takes an existing row over.
InsertUserMutant(t) ==
    /\ Step(t, "insert_user", "get_created")
    /\ role' = [role EXCEPT ![User(t)] = "user"]
    /\ UNCHANGED <<session, index, covered, token, found>>

\* INSERT: the primary key lets one of two racing registrations through, the
\* other request fails with an exception nobody turns into an AuthError.
InsertUser(t) ==
    /\ Step(t, "insert_user", IF Exists(User(t)) THEN "error" ELSE "get_created")
    /\ role' = [role EXCEPT ![User(t)] = IF Exists(User(t)) THEN @ ELSE "user"]
    /\ UNCHANGED <<session, index, covered, token, found>>

GetCreated(t) == Look(t, "get_created", IF Exists(User(t)) THEN "ok" ELSE "error")
-----------------------------------------------------------------------------
(* login and refresh *)

Authenticate(t) == Look(t, "authenticate", IF CanLogin(User(t)) THEN "set" ELSE "refused")

Validate(t) ==
    Look(t, "validate", IF token[req[t].token] = "valid" THEN "get_user" ELSE "refused")

\* Mutant: the account's role is not looked at.
GetUserMutant(t) == Look(t, "get_user", IF Exists(User(t)) THEN "revoke" ELSE "refused")

GetUser(t) == Look(t, "get_user", IF CanLogin(User(t)) THEN "revoke" ELSE "refused")

\* revoke, for refresh and for logout.
Revoke(t) ==
    /\ Step(t, "revoke", IF req[t].kind = "refresh" THEN "set" ELSE "ok")
    /\ token' = [token EXCEPT ![req[t].token] = "revoked"]
    /\ UNCHANGED <<role, session, index, covered, found>>

\* Mutant: no fresh id, the session is stored under the one of the request.
SetSessionMutant(t) ==
    /\ Step(t, "set", "sadd")
    /\ session' = session \cup {req[t].token}
    /\ UNCHANGED <<role, index, covered, token, found>>

\* _issue_tokens: SessionStore.create's three commands, then the token.
SetSession(t) ==
    /\ Step(t, "set", "sadd")
    /\ session' = session \cup {t}
    /\ UNCHANGED <<role, index, covered, token, found>>

\* Mutant: the session is not entered into its user's set.
AddToIndexMutant(t) == Look(t, "sadd", "expire")

AddToIndex(t) ==
    /\ Step(t, "sadd", "expire")
    /\ index' = [index EXCEPT ![User(t)] = @ \cup {t}]
    /\ UNCHANGED <<role, session, covered, token, found>>

\* EXPIRE does nothing for a set that is not there. Sessions and their set
\* have the same time to live, so the set now outlives all of them.
ExtendIndex(t) ==
    /\ Step(t, "expire", "insert_token")
    /\ covered' = [covered EXCEPT ![User(t)] =
           IF index[User(t)] = {} THEN @ ELSE {s \in session : User(s) = User(t)}]
    /\ UNCHANGED <<role, session, index, token, found>>

InsertToken(t) ==
    /\ Step(t, "insert_token", "ok")
    /\ token' = [token EXCEPT ![t] = "valid"]
    /\ UNCHANGED <<role, session, index, covered, found>>
-----------------------------------------------------------------------------
(* logout: SessionStore.delete, then revoke *)

GetSession(t) ==
    Look(t, "get_session", IF req[t].session \in session THEN "srem" ELSE "del_session")

RemoveFromIndex(t) ==
    /\ Step(t, "srem", "del_session")
    /\ index' = [index EXCEPT ![User(t)] = @ \ {req[t].session}]
    /\ UNCHANGED <<role, session, covered, token, found>>

\* Mutant: only the set forgets the session.
DeleteSessionMutant(t) ==
    Look(t, "del_session", IF req[t].token = None THEN "ok" ELSE "revoke")

DeleteSession(t) ==
    /\ Step(t, "del_session", IF req[t].token = None THEN "ok" ELSE "revoke")
    /\ session' = session \ {req[t].session}
    /\ UNCHANGED <<role, index, covered, token, found>>
-----------------------------------------------------------------------------
(* require_api_user, me and delete_account *)

RequireSession(t) ==
    Look(t, "require_session", IF req[t].session \in session THEN "require_user" ELSE "refused")

RequireUser(t) ==
    Look(t, "require_user",
         IF ~CanLogin(User(t)) THEN "refused"
         ELSE IF req[t].kind = "me" THEN "ok" ELSE "soft_delete")

\* set_role looks first, then updates.
SoftDelete(t) == Look(t, "soft_delete", IF Exists(User(t)) THEN "update_role" ELSE "error")

UpdateRole(t) ==
    /\ Step(t, "update_role", "revoke_all")
    /\ role' = [role EXCEPT ![User(t)] = IF Exists(User(t)) THEN "deleted" ELSE @]
    /\ UNCHANGED <<session, index, covered, token, found>>

\* UPDATE ... WHERE username = $1 AND revoked_at IS NULL
RevokeAll(t) ==
    /\ Step(t, "revoke_all", "smembers")
    /\ token' = [k \in Tasks |-> IF token[k] # "none" /\ User(k) = User(t)
                                 THEN "revoked" ELSE token[k]]
    /\ UNCHANGED <<role, session, index, covered, found>>

Members(t) ==
    /\ Step(t, "smembers", IF index[User(t)] = {} THEN "del_index" ELSE "del_sessions")
    /\ found' = [found EXCEPT ![t] = index[User(t)]]
    /\ UNCHANGED stores

DeleteSessions(t) ==
    /\ Step(t, "del_sessions", "del_index")
    /\ session' = session \ found[t]
    /\ found' = [found EXCEPT ![t] = {}]
    /\ UNCHANGED <<role, index, covered, token>>

DeleteIndex(t) ==
    /\ Step(t, "del_index", "ok")
    /\ index' = [index EXCEPT ![User(t)] = {}]
    /\ covered' = [covered EXCEPT ![User(t)] = {}]
    /\ UNCHANGED <<role, session, token, found>>
-----------------------------------------------------------------------------
(* The environment *)

\* A statement fails, the client goes away, or the application ends: the
\* coroutine stops where it is.
BreakOff(t) ==
    /\ pc[t] \notin Ended \cup {"new"}
    /\ faults < MaxFaults
    /\ faults' = faults + 1
    /\ pc' = [pc EXCEPT ![t] = "error"]
    /\ found' = [found EXCEPT ![t] = {}]
    /\ UNCHANGED <<stores, req, held, late>>

ExpireSession(s) ==
    /\ s \in session
    /\ session' = session \ {s}
    /\ UNCHANGED <<role, index, covered, token, req, pc, found, held, late, faults>>

\* A set expires no earlier than the sessions its last EXPIRE came after.
ExpireIndex(u) ==
    /\ index[u] # {}
    /\ covered[u] # {} /\ covered[u] \cap session = {}
    /\ IndexMayLapse \/ \A t \in Tasks : pc[t] = "expire" => User(t) # u
    /\ index' = [index EXCEPT ![u] = {}]
    /\ covered' = [covered EXCEPT ![u] = {}]
    /\ UNCHANGED <<role, session, token, req, pc, found, held, late, faults>>

ExpireToken(k) ==
    /\ token[k] = "valid"
    /\ token' = [token EXCEPT ![k] = "expired"]
    /\ UNCHANGED <<role, session, index, covered, req, pc, found, held, late, faults>>
-----------------------------------------------------------------------------
Init ==
    /\ role \in [Users -> {"none", "user"}]
    /\ session = {}
    /\ index = [u \in Users |-> {}]
    /\ covered = [u \in Users |-> {}]
    /\ token = [t \in Tasks |-> "none"]
    /\ req = [t \in Tasks |-> NoRequest]
    /\ pc = [t \in Tasks |-> "new"]
    /\ found = [t \in Tasks |-> {}]
    /\ held = [t \in Tasks |-> {}]
    /\ late = [t \in Tasks |-> FALSE]
    /\ faults = 0

Next ==
    \/ \E t \in Tasks :
          \/ Arrive(t) \/ BreakOff(t)
          \/ UserExists(t) \/ RegisterUser(t) \/ InsertUser(t) \/ GetCreated(t)
          \/ Authenticate(t) \/ Validate(t) \/ GetUser(t) \/ Revoke(t)
          \/ SetSession(t) \/ AddToIndex(t) \/ ExtendIndex(t) \/ InsertToken(t)
          \/ GetSession(t) \/ RemoveFromIndex(t) \/ DeleteSession(t)
          \/ RequireSession(t) \/ RequireUser(t) \/ SoftDelete(t) \/ UpdateRole(t)
          \/ RevokeAll(t) \/ Members(t) \/ DeleteSessions(t) \/ DeleteIndex(t)
          \/ ExpireSession(t) \/ ExpireToken(t)
    \/ \E u \in Users : ExpireIndex(u)

Spec == Init /\ [][Next]_vars
-----------------------------------------------------------------------------
Steps == {"user_exists", "register_user", "insert_user", "get_created", "authenticate",
          "validate", "get_user", "revoke", "set", "sadd", "expire", "insert_token",
          "get_session", "srem", "del_session", "require_session", "require_user",
          "soft_delete", "update_role", "revoke_all", "smembers", "del_sessions", "del_index"}

\* Every variable has its type; sessions and tokens in the stores, and those a
\* request names, were issued by a login or refresh of the user they are for.
TypeOK ==
    /\ role \in [Users -> {"none", "user", "deleted"}]
    /\ session \subseteq Tasks
    /\ index \in [Users -> SUBSET Tasks] /\ covered \in [Users -> SUBSET Tasks]
    /\ token \in [Tasks -> {"none", "valid", "expired", "revoked"}]
    /\ pc \in [Tasks -> Steps \cup Ended \cup {"new"}]
    /\ found \in [Tasks -> SUBSET Tasks]
    /\ held \in [Tasks -> SUBSET Tasks] /\ late \in [Tasks -> BOOLEAN]
    /\ faults \in 0 .. MaxFaults
    /\ \A t \in Tasks : pc[t] # "new" => User(t) \in Users
    /\ \A s \in session : Issuing(s)
    /\ \A t \in Tasks : token[t] # "none" => Issuing(t)
    /\ \A u \in Users : \A s \in index[u] : Issuing(s) /\ User(s) = u

\* A username is given away once: however many requests to register it race
\* past the two checks, and also after the account is deleted, one succeeds.
RegisteredOnce ==
    \A t, u \in Tasks :
        /\ req[t].kind = "register" /\ pc[t] = "ok"
        /\ req[u].kind = "register" /\ pc[u] = "ok"
        /\ User(t) = User(u)
        => t = u

\* A request that starts when the account is deleted already gets nothing, with
\* whatever session or token: also one that a racing login was issued after
\* delete_account had revoked everything, or one a broken-off deletion left.
NothingForDeleted ==
    \A t \in Tasks :
        pc[t] = "ok" /\ req[t].kind \in {"login", "refresh", "me", "delete"}
            => ~late[t]

\* Somebody's logout has taken s out of its user's set and not deleted it yet,
\* or never will.
HalfLoggedOut(s) ==
    \E t \in Tasks : /\ req[t].kind = "logout" /\ req[t].session = s
                     /\ pc[t] \in {"del_session", "error"}

\* When delete_account returns, every session and refresh token that its
\* user's clients held when it began is dead: revoke_all_for_user and
\* delete_all_for_user find them all, whatever other requests do meanwhile. (A
\* session half logged out is not found; it dies with the logout or its time.)
DeleteEndsSessions ==
    \A t \in Tasks : pc[t] = "ok" /\ req[t].kind = "delete" =>
        \A s \in held[t] :
            /\ s \notin session \/ HalfLoggedOut(s)
            /\ token[s] = "revoked"

\* When logout returns, its session and token are dead and stay so, however
\* logins, refreshes and deletions of the same user interleave with it.
LogoutEnds ==
    \A t \in Tasks : pc[t] = "ok" /\ req[t].kind = "logout" =>
        /\ req[t].session # None => req[t].session \notin session
        /\ req[t].token # None => token[req[t].token] = "revoked"
=============================================================================
