----------------------------- MODULE Auth_proofs -----------------------------
(* Proofs about the requests of module Auth, for any tasks and users. *)
EXTENDS Auth, TLAPS

Kinds == {"none", "register", "login", "refresh", "logout", "me", "delete"}
Cookie == Tasks \cup {None}

\* The statements that the requests of a kind go through.
OnRoute(kind, at) ==
    \/ kind = "none" /\ at = "new"
    \/ kind = "register" /\ at \in {"user_exists", "register_user", "insert_user", "get_created"}
    \/ kind = "login" /\ at = "authenticate"
    \/ kind = "refresh" /\ at \in {"validate", "get_user", "revoke"}
    \/ kind \in {"login", "refresh"} /\ at \in {"set", "sadd", "expire", "insert_token"}
    \/ kind = "logout" /\ at \in {"get_session", "srem", "del_session", "revoke"}
    \/ kind \in {"me", "delete"} /\ at \in {"require_session", "require_user"}
    \/ kind = "delete" /\ at \in {"soft_delete", "update_role", "revoke_all", "smembers",
                                  "del_sessions", "del_index"}

\* A request is well formed and awaits a statement of its kind.
RequestShape ==
    /\ req \in [Tasks -> [kind : Kinds, user : Users \cup {None}, session : Cookie, token : Cookie]]
    /\ \A t \in Tasks :
          /\ OnRoute(req[t].kind, pc[t]) \/ (pc[t] \in Ended /\ req[t].kind # "none")
          /\ req[t].kind = "refresh" => req[t].token # None
          /\ req[t].kind = "logout" => req[t].session # None \/ req[t].token # None
          /\ pc[t] \in {"get_session", "srem", "del_session"} => req[t].session # None
          /\ pc[t] = "revoke" => req[t].token # None

\* The cookies of a request come from a finished login or refresh.
CookiesIssued ==
    \A t \in Tasks : \A s \in {req[t].session, req[t].token} \ {None} :
        pc[s] = "ok" /\ Issuing(s)

\* A request that came after the deletion is stopped at its look at the role.
LateIsStopped ==
    \A t \in Tasks : late[t] =>
        /\ pc[t] # "new" /\ role[User(t)] = "deleted"
        /\ req[t].kind \in {"login", "refresh", "me", "delete"} =>
              pc[t] \in {"authenticate", "validate", "get_user", "require_session",
                         "require_user", "refused", "error"}

\* Registration: the row is there before the request reads it back, and only
\* one request has inserted it.
Registering(t) == req[t].kind = "register" /\ pc[t] \in {"get_created", "ok"}

OneRegisters ==
    /\ \A t \in Tasks : Registering(t) => Exists(User(t))
    /\ \A t, u \in Tasks : Registering(t) /\ Registering(u) /\ User(t) = User(u) => t = u

\* Logout: its session is dead from the deletion on, its token from the revocation.
LoggingOut ==
    \A t \in Tasks : req[t].kind = "logout" =>
        /\ pc[t] \in {"revoke", "ok"} /\ req[t].session # None => req[t].session \notin session
        /\ pc[t] = "ok" /\ req[t].token # None => token[req[t].token] = "revoked"

AuthInv ==
    /\ TypeOK
    /\ RequestShape
    /\ CookiesIssued
    /\ LateIsStopped
    /\ OneRegisters
    /\ LoggingOut
-----------------------------------------------------------------------------
(* What delete_account relies on *)

\* Another's or its own deletion has still to find this session.
Loose(s) == s \in session /\ ~HalfLoggedOut(s)

\* Sessions that a deletion may have to find: its user's clients hold them and
\* the account lives, or they held them when a deletion began in its lifetime.
Tracked(s) ==
    /\ Issuing(s) /\ pc[s] = "ok"
    /\ role[User(s)] # "deleted" \/ \E t \in Tasks : ~late[t] /\ s \in held[t]

InIndex(s) == s \in index[User(s)] /\ s \in covered[User(s)]

\* A deletion holds sessions of its user that were given out,
HeldIssued ==
    \A t \in Tasks : \A s \in held[t] :
        req[t].kind = "delete" /\ pc[t] # "new" /\ s \in Issued(User(t))

\* and whoever was given a session has a token too.
TokensThere == \A s \in Tasks : Issuing(s) /\ pc[s] = "ok" => token[s] # "none"

\* A deletion marks the account before it ends anything,
DeletedFirst ==
    \A t \in Tasks : req[t].kind = "delete" =>
        /\ pc[t] = "update_role" => Exists(User(t))
        /\ pc[t] \in {"revoke_all", "smembers", "del_sessions", "del_index", "ok"} =>
               role[User(t)] = "deleted"

\* and the tokens before the sessions.
TokensRevoked ==
    \A t \in Tasks :
        req[t].kind = "delete" /\ pc[t] \in {"smembers", "del_sessions", "del_index", "ok"} =>
            \A s \in held[t] : token[s] = "revoked"

\* While the account lives no session gets lost on its way into the set, and
\* the set outlives it.
Entered ==
    \A s \in Tasks : Issuing(s) /\ role[User(s)] # "deleted" =>
        /\ pc[s] = "expire" => s \in index[User(s)]
        /\ pc[s] = "insert_token" /\ s \in session => InIndex(s)

\* What a deletion has to find is there to be found,
Findable == \A s \in Tasks : Tracked(s) /\ Loose(s) => InIndex(s)

\* and a deletion that has read the set has found it.
FoundAll ==
    \A d, t \in Tasks : req[d].kind = "delete" /\ User(d) = User(t) /\ ~late[t] =>
        \A s \in held[t] : Loose(s) =>
            /\ pc[d] = "del_sessions" => s \in found[d]
            /\ pc[d] \notin {"del_index", "ok"}

DeleteInv ==
    /\ HeldIssued
    /\ TokensThere
    /\ DeletedFirst
    /\ TokensRevoked
    /\ Entered
    /\ Findable
    /\ FoundAll
-----------------------------------------------------------------------------
\* A statement of task t, which goes on to `to`.
Statement(t) ==
    \/ UserExists(t) \/ RegisterUser(t) \/ InsertUser(t) \/ GetCreated(t)
    \/ Authenticate(t) \/ Validate(t) \/ GetUser(t) \/ Revoke(t)
    \/ SetSession(t) \/ AddToIndex(t) \/ ExtendIndex(t) \/ InsertToken(t)
    \/ GetSession(t) \/ RemoveFromIndex(t) \/ DeleteSession(t)
    \/ RequireSession(t) \/ RequireUser(t) \/ SoftDelete(t) \/ UpdateRole(t)
    \/ RevokeAll(t) \/ Members(t) \/ DeleteSessions(t) \/ DeleteIndex(t)
    \/ BreakOff(t)

\* What all statements have in common: the request goes on to another
\* statement of its kind or ends,
Goes(t, to) ==
    /\ pc[t] \notin Ended \cup {"new"}
    /\ pc' = [pc EXCEPT ![t] = to]
    /\ UNCHANGED <<req, held, late>>
    /\ OnRoute(req[t].kind, to) \/ to \in Ended
    /\ to \in {"get_session", "srem", "del_session"} => req[t].session # None
    /\ to = "revoke" => req[t].token # None

\* no account disappears, no deleted one comes back, and a look at the role
\* stops a late request,
KeepsRoles(t, to) ==
    /\ role' \in [Users -> {"none", "user", "deleted"}]
    /\ \A u \in Users : Exists(u) => Exists(u)'
    /\ \A u \in Users : role[u] = "deleted" => role'[u] = "deleted"
    /\ late[t] /\ req[t].kind \in {"login", "refresh", "me", "delete"} =>
           to \in {"authenticate", "validate", "get_user", "require_session",
                   "require_user", "refused", "error"}
    /\ req[t].kind = "register" /\ to \in {"get_created", "ok"} =>
           /\ Registering(t) \/ ~Exists(User(t))
           /\ Exists(User(t))'

\* and a session or token that was given out and is dead stays dead.
KeepsDead(t, to) ==
    /\ \A s \in Tasks : pc[s] = "ok" /\ s \notin session => s \notin session'
    /\ \A k \in Tasks : pc[k] = "ok" /\ token[k] = "revoked" => token'[k] = "revoked"
    /\ req[t].kind = "logout" =>
           /\ to \in {"revoke", "ok"} /\ req[t].session # None => req[t].session \notin session'
           /\ to = "ok" /\ req[t].token # None => token'[req[t].token] = "revoked"

\* The statements of a request keep to its route.
LEMMA StatementGoes ==
    ASSUME AuthInv, NEW t \in Tasks, Statement(t)
    PROVE  \E to \in Steps \cup Ended : Goes(t, to) /\ KeepsRoles(t, to) /\ KeepsDead(t, to)
<1>0. /\ pc[t] # "new" => User(t) \in Users
      /\ req[t].session \in Cookie /\ req[t].token \in Cookie
      /\ pc[t] \in Steps \cup Ended \cup {"new"}
      /\ role \in [Users -> {"none", "user", "deleted"}]
      /\ token \in [Tasks -> {"none", "valid", "expired", "revoked"}]
    BY DEF AuthInv, TypeOK, RequestShape
<1> USE DEF Goes, KeepsRoles, KeepsDead, AuthInv, RequestShape, LateIsStopped, LoggingOut,
            Registering, OneRegisters, OnRoute, Steps, Ended, Look, Step, stores, Exists,
            CanLogin, User, Cookie
<1>1. CASE UserExists(t) \/ RegisterUser(t) \/ GetCreated(t)
    BY <1>0, <1>1 DEF UserExists, RegisterUser, GetCreated
<1>2. CASE InsertUser(t)
    BY <1>0, <1>2 DEF InsertUser
<1>3. CASE Authenticate(t) \/ Validate(t) \/ GetUser(t)
    BY <1>0, <1>3 DEF Authenticate, Validate, GetUser
<1>4. CASE Revoke(t)
    BY <1>0, <1>4 DEF Revoke
<1>5. CASE SetSession(t) \/ AddToIndex(t) \/ ExtendIndex(t) \/ InsertToken(t)
    BY <1>0, <1>5 DEF SetSession, AddToIndex, ExtendIndex, InsertToken
<1>6. CASE GetSession(t) \/ RemoveFromIndex(t) \/ DeleteSession(t)
    BY <1>0, <1>6 DEF GetSession, RemoveFromIndex, DeleteSession
<1>7. CASE RequireSession(t) \/ RequireUser(t) \/ SoftDelete(t)
    BY <1>0, <1>7 DEF RequireSession, RequireUser, SoftDelete
<1>8. CASE UpdateRole(t)
    BY <1>0, <1>8 DEF UpdateRole
<1>9. CASE RevokeAll(t) \/ Members(t) \/ DeleteSessions(t) \/ DeleteIndex(t)
    BY <1>0, <1>9 DEF RevokeAll, Members, DeleteSessions, DeleteIndex
<1>10. CASE BreakOff(t)
    BY <1>0, <1>10 DEF BreakOff
<1> QED
    BY <1>1, <1>2, <1>3, <1>4, <1>5, <1>6, <1>7, <1>8, <1>9, <1>10 DEF Statement

\* So a statement keeps every part of AuthInv but the types.
LEMMA StatementKeeps ==
    ASSUME AuthInv, NEW t \in Tasks, Statement(t)
    PROVE  RequestShape' /\ CookiesIssued' /\ LateIsStopped' /\ OneRegisters' /\ LoggingOut'
<1>1. PICK to \in Steps \cup Ended : Goes(t, to) /\ KeepsRoles(t, to) /\ KeepsDead(t, to)
    BY StatementGoes
<1>2. /\ pc \in [Tasks -> Steps \cup Ended \cup {"new"}]
      /\ \A s \in Tasks : pc[s] # "new" => User(s) \in Users
      /\ \A s \in Tasks : pc'[s] = IF s = t THEN to ELSE pc[s]
      /\ req' = req /\ late' = late
    BY <1>1 DEF AuthInv, TypeOK, Goes
<1>3. to # "new"
    BY DEF Steps, Ended
<1>4. RequestShape'
    <2>1. ASSUME NEW r \in Tasks, r # t
          PROVE  pc'[r] = pc[r]
        BY <2>1, <1>2
    <2>2. pc'[t] = to /\ req[t].kind # "none"
        BY <1>1, <1>2 DEF AuthInv, RequestShape, Goes, OnRoute, Ended
    <2> QED
        BY <1>1, <1>2, <2>1, <2>2 DEF AuthInv, RequestShape, Goes
<1>5. CookiesIssued'
    <2> SUFFICES ASSUME NEW r \in Tasks, NEW s \in {req[r].session, req[r].token} \ {None}
                 PROVE  pc'[s] = "ok" /\ Issuing(s)'
        BY <1>2 DEF CookiesIssued
    <2>1. pc[s] = "ok" /\ Issuing(s) /\ s \in Tasks
        BY DEF AuthInv, CookiesIssued, RequestShape, Cookie
    <2> QED
        BY <2>1, <1>1, <1>2 DEF Goes, Ended, Issuing
<1>6. LateIsStopped'
    <2> SUFFICES ASSUME NEW r \in Tasks, late[r]
                 PROVE  /\ pc'[r] # "new" /\ role'[User(r)] = "deleted"
                        /\ req[r].kind \in {"login", "refresh", "me", "delete"} =>
                              pc'[r] \in {"authenticate", "validate", "get_user",
                                  "require_session", "require_user", "refused", "error"}
        BY <1>2 DEF LateIsStopped, User
    <2> QED
        BY <1>1, <1>2, <1>3 DEF AuthInv, LateIsStopped, KeepsRoles
<1>7. OneRegisters'
    <2>1. \A r \in Tasks : Registering(r)' => Registering(r) \/ (r = t /\ ~Exists(User(r)))
        BY <1>1, <1>2 DEF Registering, KeepsRoles
    <2>2. \A r \in Tasks : Registering(r)' => Exists(User(r))'
        BY <1>1, <1>2 DEF Registering, KeepsRoles, AuthInv, OneRegisters, User
    <2>3. \A r, u \in Tasks : (Registering(r) /\ Registering(u) /\ User(r) = User(u))' => r = u
        BY <2>1, <1>2 DEF AuthInv, OneRegisters, User
    <2> QED
        BY <2>2, <2>3 DEF OneRegisters
<1>8. LoggingOut'
    <2> SUFFICES ASSUME NEW r \in Tasks, req[r].kind = "logout"
                 PROVE  /\ pc'[r] \in {"revoke", "ok"} /\ req[r].session # None =>
                               req[r].session \notin session'
                        /\ pc'[r] = "ok" /\ req[r].token # None =>
                               token'[req[r].token] = "revoked"
        BY <1>2 DEF LoggingOut
    <2>1. CASE r = t
        BY <2>1, <1>1, <1>2 DEF KeepsDead
    <2>2. CASE r # t
        <3>1. pc'[r] = pc[r]
            BY <2>2, <1>2
        <3>2. \A s \in {req[r].session, req[r].token} \ {None} : s \in Tasks /\ pc[s] = "ok"
            BY DEF AuthInv, CookiesIssued, RequestShape, Cookie
        <3> QED
            BY <3>1, <3>2, <1>1 DEF KeepsDead, AuthInv, LoggingOut
    <2> QED
        BY <2>1, <2>2
<1> QED
    BY <1>4, <1>5, <1>6, <1>7, <1>8

\* A statement writes what its variables hold, under the user it is for.
LEMMA StatementTypes ==
    ASSUME AuthInv, NEW t \in Tasks, Statement(t)
    PROVE  TypeOK'
<1>1. PICK to \in Steps \cup Ended : Goes(t, to) /\ KeepsRoles(t, to)
    BY StatementGoes
<1>2. /\ TypeOK
      /\ pc[t] # "new" /\ User(t) \in Users
      /\ req' = req
    BY <1>1 DEF AuthInv, TypeOK, Goes
<1>3. /\ pc' \in [Tasks -> Steps \cup Ended \cup {"new"}]
      /\ held' \in [Tasks -> SUBSET Tasks] /\ late' \in [Tasks -> BOOLEAN]
      /\ role' \in [Users -> {"none", "user", "deleted"}]
      /\ \A s \in Tasks : pc'[s] # "new" => User(s)' \in Users
    BY <1>1, <1>2 DEF TypeOK, Goes, KeepsRoles, User
<1>4. faults' \in 0 .. MaxFaults
    BY <1>2, AuthAssumption DEF TypeOK, Statement, UserExists, RegisterUser, InsertUser,
       GetCreated, Authenticate, Validate, GetUser, Revoke, SetSession, AddToIndex,
       ExtendIndex, InsertToken, GetSession, RemoveFromIndex, DeleteSession, RequireSession,
       RequireUser, SoftDelete, UpdateRole, RevokeAll, Members, DeleteSessions, DeleteIndex,
       BreakOff, Look, Step
<1> DEFINE StoresTyped ==
        /\ session \subseteq Tasks
        /\ index \in [Users -> SUBSET Tasks] /\ covered \in [Users -> SUBSET Tasks]
        /\ token \in [Tasks -> {"none", "valid", "expired", "revoked"}]
        /\ found \in [Tasks -> SUBSET Tasks]
        /\ \A s \in session : Issuing(s)
        /\ \A k \in Tasks : token[k] # "none" => Issuing(k)
        /\ \A u \in Users : \A s \in index[u] : Issuing(s) /\ User(s) = u
<1> SUFFICES StoresTyped'
    BY <1>3, <1>4 DEF TypeOK
<1>5. StoresTyped
    BY <1>2 DEF TypeOK
<1>6. req[t].session \in Cookie /\ req[t].token \in Cookie
    BY DEF AuthInv, RequestShape
<1>7. ASSUME UNCHANGED <<session, index, covered, token, found>>
      PROVE  StoresTyped'
    BY <1>2, <1>5, <1>7 DEF Issuing, User
<1>8. CASE \/ UserExists(t) \/ RegisterUser(t) \/ InsertUser(t) \/ GetCreated(t)
           \/ Authenticate(t) \/ Validate(t) \/ GetUser(t) \/ GetSession(t)
           \/ RequireSession(t) \/ RequireUser(t) \/ SoftDelete(t) \/ UpdateRole(t)
    <2> UNCHANGED <<session, index, covered, token, found>>
        BY <1>8 DEF UserExists, RegisterUser, InsertUser, GetCreated, Authenticate, Validate,
           GetUser, GetSession, RequireSession, RequireUser, SoftDelete, UpdateRole, Look, stores
    <2> QED
        BY <1>7
<1>9. CASE Revoke(t)
    <2>1. pc[t] = "revoke" /\ req[t].token # None
        BY <1>9 DEF Revoke, Step, AuthInv, RequestShape
    <2>2. Issuing(req[t].token)
        BY <2>1 DEF AuthInv, CookiesIssued
    <2> QED
        BY <1>9, <1>2, <1>5, <1>6, <2>1, <2>2 DEF Revoke, Issuing, User, Cookie
<1>10. CASE SetSession(t) \/ AddToIndex(t) \/ ExtendIndex(t) \/ InsertToken(t)
    <2>1. Issuing(t)
        BY <1>10 DEF SetSession, AddToIndex, ExtendIndex, InsertToken, Step, AuthInv,
           RequestShape, OnRoute, Ended, Issuing
    <2> QED
        BY <1>10, <1>2, <1>5, <2>1
           DEF SetSession, AddToIndex, ExtendIndex, InsertToken, Issuing, User
<1>11. CASE RemoveFromIndex(t) \/ DeleteSession(t)
    BY <1>11, <1>2, <1>5 DEF RemoveFromIndex, DeleteSession, Issuing, User
<1>12. CASE RevokeAll(t)
    BY <1>12, <1>2, <1>5 DEF RevokeAll, Issuing, User
<1>13. CASE Members(t) \/ DeleteSessions(t) \/ DeleteIndex(t)
    BY <1>13, <1>2, <1>5 DEF Members, DeleteSessions, DeleteIndex, stores, Issuing, User
<1>14. CASE BreakOff(t)
    BY <1>14, <1>2, <1>5 DEF BreakOff, stores, Issuing, User
<1> QED
    BY <1>8, <1>9, <1>10, <1>11, <1>12, <1>13, <1>14 DEF Statement

\* A session, a set of sessions or a token expires: nothing dead comes back.
LEMMA ExpiryKeeps ==
    ASSUME AuthInv,
           \/ \E t \in Tasks : ExpireSession(t) \/ ExpireToken(t)
           \/ \E u \in Users : ExpireIndex(u)
    PROVE  AuthInv'
<1>1. /\ UNCHANGED <<role, req, pc, found, held, late, faults>>
      /\ session' \subseteq session
      /\ \A u \in Users : index'[u] \subseteq index[u]
      /\ index' \in [Users -> SUBSET Tasks] /\ covered' \in [Users -> SUBSET Tasks]
      /\ token' \in [Tasks -> {"none", "valid", "expired", "revoked"}]
      /\ \A k \in Tasks : token'[k] # "none" => token[k] # "none"
      /\ \A k \in Tasks : token[k] = "revoked" => token'[k] = "revoked"
    BY DEF ExpireSession, ExpireToken, ExpireIndex, AuthInv, TypeOK
<1>2. TypeOK'
    BY <1>1 DEF AuthInv, TypeOK, Issuing, User
<1>3. RequestShape' /\ CookiesIssued' /\ LateIsStopped' /\ OneRegisters'
    BY <1>1 DEF AuthInv, RequestShape, CookiesIssued, LateIsStopped, OneRegisters,
       Registering, Issuing, User, Exists
<1>4. LoggingOut'
    BY <1>1 DEF AuthInv, RequestShape, LoggingOut, Cookie
<1> QED
    BY <1>2, <1>3, <1>4 DEF AuthInv

\* A new request has the cookies of its user's finished logins and refreshes.
LEMMA ArriveKeeps ==
    ASSUME AuthInv, NEW t \in Tasks, Arrive(t)
    PROVE  AuthInv'
<1>1. PICK r \in Requests :
          /\ req' = [req EXCEPT ![t] = r]
          /\ pc' = [pc EXCEPT ![t] = FirstStep(r)]
          /\ held' = [held EXCEPT ![t] = IF r.kind = "delete" THEN Issued(r.user) ELSE {}]
          /\ late' = [late EXCEPT ![t] = role[r.user] = "deleted"]
    BY DEF Arrive
<1>2. /\ r \in [kind : Kinds \ {"none"}, user : Users, session : Cookie, token : Cookie]
      /\ r.kind = "refresh" => r.token # None
      /\ r.kind = "logout" => r.session # None \/ r.token # None
      /\ r.kind \in {"me", "delete"} => r.session # None
      /\ \A s \in {r.session, r.token} \ {None} : s \in Issued(r.user)
    BY AuthAssumption DEF Requests, Kinds, Cookie, Issued
<1>3. /\ UNCHANGED <<stores, found, faults>>
      /\ pc[t] = "new"
      /\ req[t].kind = "none"
    BY DEF Arrive, AuthInv, RequestShape, OnRoute, Ended
<1>4. /\ FirstStep(r) \in Steps
      /\ OnRoute(r.kind, FirstStep(r))
      /\ FirstStep(r) = "get_session" => r.session # None
      /\ FirstStep(r) = "revoke" => r.token # None /\ r.session = None
      /\ FirstStep(r) \notin {"srem", "del_session", "new", "get_created"}
      /\ r.kind \in {"login", "refresh", "me", "delete"} =>
             FirstStep(r) \in {"authenticate", "validate", "require_session"}
    BY <1>2 DEF FirstStep, OnRoute, Steps, Kinds
<1>5. /\ \A s \in Tasks : pc'[s] = IF s = t THEN FirstStep(r) ELSE pc[s]
      /\ \A s \in Tasks : req'[s] = IF s = t THEN r ELSE req[s]
      /\ \A s \in Tasks : late'[s] = IF s = t THEN role[r.user] = "deleted" ELSE late[s]
      /\ late' \in [Tasks -> BOOLEAN]
      /\ held' \in [Tasks -> SUBSET Tasks]
      /\ pc' \in [Tasks -> Steps \cup Ended \cup {"new"}]
      /\ req' \in [Tasks -> [kind : Kinds, user : Users \cup {None},
                             session : Cookie, token : Cookie]]
    BY <1>1, <1>2, <1>4 DEF AuthInv, TypeOK, RequestShape, Issued, Kinds
<1>6. \A s \in Tasks : Issuing(s) => s # t /\ Issuing(s)' /\ User(s)' = User(s)
    BY <1>3, <1>5 DEF Issuing, User
<1>7. TypeOK'
    BY <1>2, <1>3, <1>5, <1>6 DEF AuthInv, TypeOK, stores, User
<1>8. RequestShape'
    BY <1>2, <1>4, <1>5 DEF AuthInv, RequestShape, Kinds
<1>9. CookiesIssued'
    <2> SUFFICES ASSUME NEW q \in Tasks, NEW s \in {req'[q].session, req'[q].token} \ {None}
                 PROVE  (pc[s] = "ok" /\ Issuing(s))'
        BY DEF CookiesIssued
    <2>1. s \in Tasks /\ pc[s] = "ok" /\ Issuing(s)
        BY <1>2, <1>5 DEF AuthInv, CookiesIssued, RequestShape, Cookie, Issued
    <2> QED
        BY <2>1, <1>3, <1>5, <1>6
<1>10. LateIsStopped'
    BY <1>2, <1>3, <1>4, <1>5 DEF AuthInv, LateIsStopped, stores, User
<1>11. OneRegisters'
    <2>1. \A q \in Tasks : Registering(q)' => q # t /\ Registering(q) /\ User(q)' = User(q)
        BY <1>4, <1>5 DEF Registering, User, Steps
    <2> QED
        BY <2>1, <1>3 DEF AuthInv, OneRegisters, stores, Exists
<1>12. LoggingOut'
    BY <1>3, <1>4, <1>5 DEF AuthInv, LoggingOut, stores, Steps
<1> QED
    BY <1>7, <1>8, <1>9, <1>10, <1>11, <1>12 DEF AuthInv
-----------------------------------------------------------------------------
(* The sessions and tokens of a deleted account *)

\* The statements that a deletion reaches once it is let through.
LEMMA DeleteRoute ==
    ASSUME AuthInv, NEW t \in Tasks, Statement(t), req[t].kind = "delete"
    PROVE  \/ pc'[t] \in {"require_user", "refused", "error", "soft_delete"}
           \/ pc'[t] = "update_role" /\ Exists(User(t)) /\ role' = role
           \/ UpdateRole(t) \/ RevokeAll(t) \/ Members(t) \/ DeleteSessions(t) \/ DeleteIndex(t)
<1>1. /\ OnRoute("delete", pc[t]) \/ pc[t] \in Ended
      /\ pc \in [Tasks -> Steps \cup Ended \cup {"new"}]
    BY DEF AuthInv, TypeOK, RequestShape
<1>2. CASE \/ UserExists(t) \/ RegisterUser(t) \/ InsertUser(t) \/ GetCreated(t)
           \/ Authenticate(t) \/ Validate(t) \/ GetUser(t) \/ Revoke(t)
           \/ SetSession(t) \/ AddToIndex(t) \/ ExtendIndex(t) \/ InsertToken(t)
           \/ GetSession(t) \/ RemoveFromIndex(t) \/ DeleteSession(t)
    BY <1>1, <1>2 DEF OnRoute, Ended, Look, Step, UserExists, RegisterUser, InsertUser, GetCreated,
       Authenticate, Validate, GetUser, Revoke, SetSession, AddToIndex, ExtendIndex, InsertToken,
       GetSession, RemoveFromIndex, DeleteSession
<1>3. CASE RequireSession(t) \/ RequireUser(t) \/ SoftDelete(t) \/ BreakOff(t)
    BY <1>1, <1>3 DEF RequireSession, RequireUser, SoftDelete, BreakOff, Look, Step, stores
<1> QED
    BY <1>2, <1>3 DEF Statement

\* The statements that enter what a login or refresh issues.
LEMMA IssueRoute ==
    ASSUME AuthInv, NEW t \in Tasks, Statement(t), Issuing(t)
    PROVE  \/ pc'[t] \notin {"expire", "insert_token", "ok"}
           \/ AddToIndex(t) \/ ExtendIndex(t) \/ InsertToken(t)
<1>1. /\ OnRoute(req[t].kind, pc[t]) \/ pc[t] \in Ended
      /\ pc \in [Tasks -> Steps \cup Ended \cup {"new"}]
      /\ req[t].kind \in {"login", "refresh"}
    BY DEF AuthInv, TypeOK, RequestShape, Issuing
<1>2. CASE \/ UserExists(t) \/ RegisterUser(t) \/ InsertUser(t) \/ GetCreated(t)
           \/ GetSession(t) \/ RemoveFromIndex(t) \/ DeleteSession(t)
           \/ RequireSession(t) \/ RequireUser(t) \/ SoftDelete(t) \/ UpdateRole(t)
           \/ RevokeAll(t) \/ Members(t) \/ DeleteSessions(t) \/ DeleteIndex(t)
    BY <1>1, <1>2 DEF OnRoute, Ended, Look, Step, UserExists, RegisterUser, InsertUser, GetCreated,
       GetSession, RemoveFromIndex, DeleteSession, RequireSession, RequireUser, SoftDelete,
       UpdateRole, RevokeAll, Members, DeleteSessions, DeleteIndex
<1>3. CASE Authenticate(t) \/ Validate(t) \/ GetUser(t) \/ Revoke(t) \/ SetSession(t) \/ BreakOff(t)
    BY <1>1, <1>3 DEF OnRoute, Ended, Authenticate, Validate, GetUser, Revoke, SetSession, BreakOff,
       Look, Step
<1> QED
    BY <1>2, <1>3 DEF Statement

\* Who takes a session out of its user's set, or shortens the set's life: a
\* logout of that session or a deletion of that user.
Loses(t, u, s) ==
    /\ s \in index[u] /\ s \notin index'[u] =>
          \/ pc[t] = "srem" /\ req[t].session = s /\ pc'[t] = "del_session"
          \/ pc[t] = "del_index" /\ User(t) = u
    /\ s \in covered[u] \cap session /\ s \notin covered'[u] /\ User(s) = u =>
          pc[t] = "del_index" /\ User(t) = u

\* What a statement leaves alone in the stores.
LEMMA StatementStores ==
    ASSUME AuthInv, NEW t \in Tasks, Statement(t)
    PROVE  /\ \A u \in Users : \A s \in Tasks : Loses(t, u, s)
           /\ \A r \in Tasks : r # t => found'[r] = found[r]
           /\ \A k \in Tasks : token[k] # "none" => token'[k] # "none"
           /\ \A s \in Tasks : s # t /\ s \in session' => s \in session
<1>1. /\ index \in [Users -> SUBSET Tasks] /\ covered \in [Users -> SUBSET Tasks]
      /\ token \in [Tasks -> {"none", "valid", "expired", "revoked"}]
      /\ found \in [Tasks -> SUBSET Tasks]
      /\ pc \in [Tasks -> Steps \cup Ended \cup {"new"}]
      /\ pc[t] # "new" => User(t) \in Users
    BY DEF AuthInv, TypeOK
<1>2. ASSUME UNCHANGED <<session, index, covered, token, found>>
      PROVE  /\ \A u \in Users : \A s \in Tasks : Loses(t, u, s)
             /\ \A r \in Tasks : r # t => found'[r] = found[r]
             /\ \A k \in Tasks : token[k] # "none" => token'[k] # "none"
             /\ \A s \in Tasks : s # t /\ s \in session' => s \in session
    BY <1>2 DEF Loses
<1>3. CASE \/ UserExists(t) \/ RegisterUser(t) \/ InsertUser(t) \/ GetCreated(t)
           \/ Authenticate(t) \/ Validate(t) \/ GetUser(t) \/ GetSession(t)
           \/ RequireSession(t) \/ RequireUser(t) \/ SoftDelete(t) \/ UpdateRole(t)
    <2> UNCHANGED <<session, index, covered, token, found>>
        BY <1>3 DEF UserExists, RegisterUser, InsertUser, GetCreated, Authenticate, Validate,
           GetUser, GetSession, RequireSession, RequireUser, SoftDelete, UpdateRole, Look, stores
    <2> QED
        BY <1>2
<1>4. CASE Revoke(t) \/ InsertToken(t) \/ RevokeAll(t)
    BY <1>1, <1>4 DEF Revoke, InsertToken, RevokeAll, Loses
<1>5. CASE SetSession(t) \/ DeleteSession(t) \/ Members(t) \/ DeleteSessions(t) \/ BreakOff(t)
    BY <1>1, <1>5 DEF SetSession, DeleteSession, Members, DeleteSessions, BreakOff, stores, Loses
<1>6. CASE AddToIndex(t) \/ ExtendIndex(t)
    BY <1>1, <1>6 DEF AddToIndex, ExtendIndex, Loses
<1>7. CASE RemoveFromIndex(t)
    BY <1>1, <1>7 DEF RemoveFromIndex, Step, Loses
<1>8. CASE DeleteIndex(t)
    BY <1>1, <1>8 DEF DeleteIndex, Step, Loses
<1> QED
    BY <1>3, <1>4, <1>5, <1>6, <1>7, <1>8 DEF Statement

\* A session that is dead or half logged out stays so.
LEMMA LooseBefore ==
    ASSUME AuthInv, NEW t \in Tasks, Statement(t), NEW s \in Tasks, pc[s] = "ok", Loose(s)'
    PROVE  Loose(s)
<1>1. PICK to \in Steps \cup Ended : Goes(t, to) /\ KeepsDead(t, to)
    BY StatementGoes
<1>2. s \in session /\ pc \in [Tasks -> Steps \cup Ended \cup {"new"}]
    BY <1>1 DEF KeepsDead, Loose, AuthInv, TypeOK
<1>3. ASSUME NEW r \in Tasks, req[r].kind = "logout", req[r].session = s,
             pc[r] \in {"del_session", "error"}
      PROVE  FALSE
    <2>1. pc'[r] \notin {"del_session", "error"}
        BY <1>1, <1>3 DEF Loose, HalfLoggedOut, Goes
    <2>2. r = t /\ pc[t] = "del_session"
        BY <1>1, <1>2, <1>3, <2>1 DEF Goes, Ended
    <2>3. DeleteSession(t)
        BY <2>1, <2>2, <1>2 DEF Statement, Look, Step, UserExists, RegisterUser, InsertUser,
           GetCreated, Authenticate, Validate, GetUser, Revoke, SetSession, AddToIndex,
           ExtendIndex, InsertToken, GetSession, RemoveFromIndex, RequireSession, RequireUser,
           SoftDelete, UpdateRole, RevokeAll, Members, DeleteSessions, DeleteIndex, BreakOff
    <2> QED
        BY <2>2, <2>3, <1>3 DEF DeleteSession, Loose
<1> QED
    BY <1>2, <1>3 DEF Loose, HalfLoggedOut

\* A statement of a request keeps all of DeleteInv.
LEMMA StatementDeletes ==
    ASSUME AuthInv, DeleteInv, NEW t \in Tasks, Statement(t)
    PROVE  DeleteInv'
<1>1. PICK to \in Steps \cup Ended : Goes(t, to) /\ KeepsRoles(t, to) /\ KeepsDead(t, to)
    BY StatementGoes
<1>2. /\ pc \in [Tasks -> Steps \cup Ended \cup {"new"}]
      /\ \A s \in Tasks : pc[s] # "new" => User(s) \in Users
      /\ \A s \in Tasks : pc'[s] = IF s = t THEN to ELSE pc[s]
      /\ req' = req /\ late' = late /\ held' = held
      /\ pc[t] \notin Ended \cup {"new"} /\ to # "new"
      /\ held \in [Tasks -> SUBSET Tasks]
    BY <1>1 DEF AuthInv, TypeOK, Goes, Steps, Ended
<1>3. \A s \in Tasks : pc[s] = "ok" => s # t /\ pc'[s] = "ok"
    BY <1>2 DEF Ended
<1>4. \A s \in Tasks : User(s)' = User(s) /\ (Issuing(s)' <=> Issuing(s))
    BY <1>2 DEF User, Issuing
<1>5. ASSUME NEW s \in Tasks, pc[s] # "new", role'[User(s)] # "deleted"
      PROVE  role[User(s)] # "deleted"
    BY <1>1, <1>2, <1>5 DEF KeepsRoles
<1>6. ASSUME NEW r \in Tasks, NEW s \in held[r]
      PROVE  /\ s \in Tasks /\ Issuing(s) /\ pc[s] = "ok" /\ User(s) = User(r)
             /\ pc[r] # "new" /\ req[r].kind = "delete"
    BY <1>6 DEF DeleteInv, HeldIssued, Issued, User
<1>7. HeldIssued'
    BY <1>2, <1>3, <1>4, <1>6 DEF HeldIssued, Issued, User
<1>8. TokensThere'
    <2> SUFFICES ASSUME NEW s \in Tasks, Issuing(s), pc'[s] = "ok"
                 PROVE  token'[s] # "none"
        BY <1>4 DEF TokensThere
    <2>1. CASE s # t
        BY <2>1, <1>2, StatementStores DEF DeleteInv, TokensThere
    <2>2. CASE s = t
        <3>1. InsertToken(t)
            BY <2>2, IssueRoute, <1>2 DEF AddToIndex, ExtendIndex, Step
        <3> QED
            BY <2>2, <3>1 DEF InsertToken, AuthInv, TypeOK
    <2> QED
        BY <2>1, <2>2
<1>9. DeletedFirst'
    <2> SUFFICES ASSUME NEW r \in Tasks, req[r].kind = "delete"
                 PROVE  /\ pc'[r] = "update_role" => Exists(User(r))'
                        /\ pc'[r] \in {"revoke_all", "smembers", "del_sessions", "del_index", "ok"}
                               => role'[User(r)] = "deleted"
        BY <1>2, <1>4 DEF DeletedFirst
    <2>0. pc[r] # "new" /\ User(r) \in Users
        BY <1>2 DEF AuthInv, RequestShape, OnRoute, Ended
    <2>1. CASE r # t
        BY <2>0, <2>1, <1>1, <1>2, <1>4 DEF DeleteInv, DeletedFirst, KeepsRoles, Exists
    <2>2. CASE r = t
        <3>1. CASE UpdateRole(t)
            BY <2>0, <2>2, <3>1, <1>2 DEF UpdateRole, Step, DeleteInv, DeletedFirst, AuthInv, TypeOK
        <3>2. CASE RevokeAll(t) \/ Members(t) \/ DeleteSessions(t) \/ DeleteIndex(t)
            <4>1. pc[t] \in {"revoke_all", "smembers", "del_sessions", "del_index"} /\ role' = role
                BY <3>2 DEF RevokeAll, Members, DeleteSessions, DeleteIndex, Step, stores
            <4>2. pc'[t] # "update_role"
                BY <3>2, <1>2 DEF RevokeAll, Members, DeleteSessions, DeleteIndex, Step
            <4> QED
                BY <2>2, <4>1, <4>2 DEF DeleteInv, DeletedFirst
        <3>3. CASE pc'[t] = "update_role" /\ Exists(User(t)) /\ role' = role
            BY <2>2, <3>3, <1>4 DEF Exists
        <3> QED
            BY <2>2, <3>1, <3>2, <3>3, DeleteRoute
    <2> QED
        BY <2>1, <2>2
<1>10. TokensRevoked'
    <2> SUFFICES ASSUME NEW r \in Tasks, req[r].kind = "delete",
                        pc'[r] \in {"smembers", "del_sessions", "del_index", "ok"},
                        NEW s \in held[r]
                 PROVE  token'[s] = "revoked"
        BY <1>2 DEF TokensRevoked
    <2>1. CASE pc[r] \in {"smembers", "del_sessions", "del_index", "ok"}
        BY <2>1, <1>1, <1>6 DEF DeleteInv, TokensRevoked, KeepsDead
    <2>2. CASE pc[r] \notin {"smembers", "del_sessions", "del_index", "ok"}
        <3>1. r = t
            BY <2>2, <1>2
        <3>2. RevokeAll(t)
            BY <2>2, <3>1, DeleteRoute, <1>2 DEF UpdateRole, Members, DeleteSessions,
               DeleteIndex, Step
        <3>3. token[s] # "none" /\ User(s) = User(t) /\ s \in Tasks
            BY <3>1, <1>6 DEF DeleteInv, TokensThere
        <3> QED
            BY <3>2, <3>3 DEF RevokeAll
    <2> QED
        BY <2>1, <2>2
<1>11. ASSUME NEW s \in Tasks, pc[s] # "new", Issuing(s), role[User(s)] # "deleted"
       PROVE  ~(pc[t] = "del_index" /\ User(t) = User(s))
    <2>1. pc[t] = "del_index" => req[t].kind = "delete"
        BY DEF AuthInv, RequestShape, OnRoute, Ended
    <2> QED
        BY <2>1, <1>11 DEF DeleteInv, DeletedFirst
<1>12. Entered'
    <2> SUFFICES ASSUME NEW s \in Tasks, Issuing(s), role'[User(s)] # "deleted"
                 PROVE  /\ pc'[s] = "expire" => s \in index'[User(s)]
                        /\ pc'[s] = "insert_token" /\ s \in session' =>
                               s \in index'[User(s)] /\ s \in covered'[User(s)]
        BY <1>4 DEF Entered, InIndex
    <2>0. pc[s] # "new" /\ User(s) \in Users
        BY <1>2 DEF AuthInv, RequestShape, OnRoute, Ended, Issuing
    <2>1. role[User(s)] # "deleted"
        BY <2>0, <1>5
    <2>2. CASE s # t
        <3>1. pc'[s] = pc[s] /\ (s \in session' => s \in session) /\ Loses(t, User(s), s)
            BY <2>0, <2>2, <1>2, StatementStores
        <3>2. pc[s] \in {"expire", "insert_token"} => ~(pc[t] = "srem" /\ req[t].session = s)
            BY AuthAssumption DEF AuthInv, CookiesIssued
        <3> QED
            BY <2>0, <2>1, <3>1, <3>2, <1>11 DEF DeleteInv, Entered, InIndex, Loses
    <2>3. CASE s = t
        <3>0. index \in [Users -> SUBSET Tasks] /\ covered \in [Users -> SUBSET Tasks]
            BY DEF AuthInv, TypeOK
        <3>1. CASE AddToIndex(t)
            BY <2>0, <2>3, <3>0, <3>1, <1>2 DEF AddToIndex, Step
        <3>2. CASE ExtendIndex(t)
            BY <2>0, <2>1, <2>3, <3>0, <3>2, <1>2 DEF ExtendIndex, Step, DeleteInv, Entered
        <3>3. CASE InsertToken(t)
            BY <2>3, <3>3, <1>2 DEF InsertToken, Step
        <3>4. CASE pc'[t] \notin {"expire", "insert_token", "ok"}
            BY <2>3, <3>4
        <3> QED
            BY <2>3, <3>1, <3>2, <3>3, <3>4, IssueRoute
    <2> QED
        BY <2>2, <2>3
<1>13. Findable'
    <2> SUFFICES ASSUME NEW s \in Tasks, Tracked(s)', Loose(s)'
                 PROVE  s \in index'[User(s)] /\ s \in covered'[User(s)]
        BY <1>4 DEF Findable, InIndex
    <2>0. /\ Issuing(s) /\ pc'[s] = "ok"
          /\ role'[User(s)] # "deleted" \/ \E r \in Tasks : ~late[r] /\ s \in held[r]
          /\ pc[s] # "new" /\ User(s) \in Users
        BY <1>2, <1>4 DEF Tracked, AuthInv, RequestShape, OnRoute, Ended, Issuing
    <2>1. CASE pc[s] = "ok"
        <3>1. Tracked(s)
            BY <2>0, <2>1, <1>5 DEF Tracked
        <3>2. Loose(s) /\ s \in session
            BY <2>1, LooseBefore DEF Loose
        <3>3. InIndex(s)
            BY <3>1, <3>2 DEF DeleteInv, Findable
        <3>4. ~(pc[t] = "srem" /\ req[t].session = s /\ pc'[t] = "del_session")
            <4> SUFFICES ASSUME pc[t] = "srem", req[t].session = s, pc'[t] = "del_session"
                         PROVE  FALSE
                OBVIOUS
            <4>1. req[t].kind = "logout"
                BY DEF AuthInv, RequestShape, OnRoute, Ended
            <4> QED
                BY <4>1, <1>2 DEF Loose, HalfLoggedOut
        <3>5. ~(pc[t] = "del_index" /\ User(t) = User(s))
            <4>1. CASE role[User(s)] # "deleted"
                BY <4>1, <2>0, <1>11
            <4>2. ASSUME NEW r \in Tasks, ~late[r], s \in held[r]
                  PROVE  ~(pc[t] = "del_index" /\ User(t) = User(s))
                <5>1. pc[t] = "del_index" => req[t].kind = "delete"
                    BY DEF AuthInv, RequestShape, OnRoute, Ended
                <5> QED
                    BY <5>1, <4>2, <1>6, <3>2 DEF DeleteInv, FoundAll
            <4> QED
                BY <3>1, <4>1, <4>2 DEF Tracked
        <3>6. Loses(t, User(s), s)
            BY <2>0, StatementStores
        <3> QED
            BY <3>2, <3>3, <3>4, <3>5, <3>6 DEF InIndex, Loses
    <2>2. CASE pc[s] # "ok"
        <3>1. s = t /\ InsertToken(t)
            BY <2>0, <2>2, <1>2, IssueRoute DEF AddToIndex, ExtendIndex, Step
        <3>2. pc[s] = "insert_token" /\ UNCHANGED <<role, session, index, covered>>
            BY <3>1 DEF InsertToken, Step
        <3>3. role[User(s)] # "deleted"
            BY <2>0, <2>2, <3>2, <1>6
        <3> QED
            BY <2>0, <3>2, <3>3 DEF DeleteInv, Entered, InIndex, Loose
    <2> QED
        BY <2>1, <2>2
<1>14. FoundAll'
    <2> SUFFICES ASSUME NEW d \in Tasks, NEW r \in Tasks, req[d].kind = "delete",
                        User(d) = User(r), ~late[r], NEW s \in held[r], Loose(s)'
                 PROVE  /\ pc'[d] = "del_sessions" => s \in found'[d]
                        /\ pc'[d] \notin {"del_index", "ok"}
        BY <1>2, <1>4 DEF FoundAll
    <2>1. Loose(s) /\ s \in Tasks
        BY <1>6, LooseBefore
    <2>2. CASE d # t
        BY <2>1, <2>2, <1>2, StatementStores DEF DeleteInv, FoundAll
    <2>3. CASE d = t
        <3>0. InIndex(s) /\ User(s) = User(t)
            BY <2>1, <2>3, <1>6 DEF DeleteInv, Findable, Tracked
        <3>1. CASE Members(t)
            BY <2>3, <3>0, <3>1, <1>2 DEF Members, Step, InIndex, AuthInv, TypeOK
        <3>2. CASE DeleteSessions(t)
            <4>1. s \in found[t]
                BY <2>1, <2>3, <3>2 DEF DeleteSessions, Step, DeleteInv, FoundAll
            <4> QED
                BY <3>2, <4>1 DEF DeleteSessions, Loose
        <3>3. CASE DeleteIndex(t)
            BY <2>1, <2>3, <3>3 DEF DeleteIndex, Step, DeleteInv, FoundAll
        <3>4. CASE UpdateRole(t) \/ RevokeAll(t)
            BY <2>3, <3>4, <1>2 DEF UpdateRole, RevokeAll, Step
        <3> QED
            BY <2>3, <3>1, <3>2, <3>3, <3>4, DeleteRoute
    <2> QED
        BY <2>2, <2>3
<1> QED
    BY <1>7, <1>8, <1>9, <1>10, <1>12, <1>13, <1>14 DEF DeleteInv

\* A new request: a deletion that starts while the account lives holds only
\* sessions that are in the set.
LEMMA ArriveDeletes ==
    ASSUME AuthInv, DeleteInv, NEW t \in Tasks, Arrive(t)
    PROVE  DeleteInv'
<1>1. PICK r \in Requests :
          /\ req' = [req EXCEPT ![t] = r]
          /\ pc' = [pc EXCEPT ![t] = FirstStep(r)]
          /\ held' = [held EXCEPT ![t] = IF r.kind = "delete" THEN Issued(r.user) ELSE {}]
          /\ late' = [late EXCEPT ![t] = role[r.user] = "deleted"]
    BY DEF Arrive
<1>2. /\ UNCHANGED <<stores, found, faults>>
      /\ pc[t] = "new"
      /\ req[t].kind = "none"
    BY DEF Arrive, AuthInv, RequestShape, OnRoute, Ended
<1>3. FirstStep(r) \in {"user_exists", "authenticate", "validate", "revoke", "get_session",
                        "require_session"}
    BY DEF FirstStep
<1>4. /\ pc \in [Tasks -> Steps \cup Ended \cup {"new"}]
      /\ held \in [Tasks -> SUBSET Tasks]
      /\ \A s \in Tasks : pc'[s] = IF s = t THEN FirstStep(r) ELSE pc[s]
      /\ \A s \in Tasks : req'[s] = IF s = t THEN r ELSE req[s]
      /\ \A s \in Tasks : late'[s] = IF s = t THEN role[r.user] = "deleted" ELSE late[s]
      /\ \A s \in Tasks : held'[s] = IF s = t THEN (IF r.kind = "delete" THEN Issued(r.user) ELSE {})
                                     ELSE held[s]
    BY <1>1 DEF AuthInv, TypeOK, RequestShape
<1>5. \A s \in Tasks : s # t => User(s)' = User(s) /\ (Issuing(s)' <=> Issuing(s))
    BY <1>4 DEF User, Issuing
<1>6. \A s \in Tasks : pc[s] = "ok" => s # t
    BY <1>2
<1>7. ASSUME NEW s \in Tasks
      PROVE  Loose(s)' <=> Loose(s)
    BY <1>2, <1>3, <1>4 DEF Loose, HalfLoggedOut, stores
<1>8. ASSUME NEW q \in Tasks, NEW s \in held[q]
      PROVE  s \in Tasks /\ Issuing(s) /\ pc[s] = "ok" /\ User(s) = User(q) /\ q # t
    BY <1>2, <1>8 DEF DeleteInv, HeldIssued, Issued, User
<1>9. ASSUME NEW q \in Tasks, NEW s \in held'[q]
      PROVE  /\ s \in Tasks /\ Issuing(s) /\ pc[s] = "ok" /\ s # t
             /\ User(s) = User(q)'
             /\ req'[q].kind = "delete" /\ pc'[q] # "new"
    <2>1. CASE q # t
        BY <2>1, <1>4, <1>5, <1>6, <1>8 DEF DeleteInv, HeldIssued
    <2>2. CASE q = t
        <3>1. r.kind = "delete" /\ s \in Issued(r.user)
            BY <2>2, <1>9, <1>4
        <3>2. s \in Tasks /\ Issuing(s) /\ pc[s] = "ok" /\ User(s) = r.user
            BY <3>1 DEF Issued, User
        <3>3. req'[t] = r /\ pc'[t] = FirstStep(r) /\ User(t)' = r.user
            BY <1>4 DEF User
        <3> QED
            BY <2>2, <3>1, <3>2, <3>3, <1>3, <1>6
    <2> QED
        BY <2>1, <2>2
<1>10. HeldIssued'
    BY <1>4, <1>5, <1>9 DEF HeldIssued, Issued, User
<1>11. TokensThere' /\ DeletedFirst'
    BY <1>2, <1>3, <1>4, <1>5 DEF DeleteInv, TokensThere, DeletedFirst, stores, Exists
<1>12. TokensRevoked'
    BY <1>2, <1>3, <1>4 DEF DeleteInv, TokensRevoked, stores
<1>13. Entered'
    BY <1>2, <1>3, <1>4, <1>5 DEF DeleteInv, Entered, InIndex, stores
<1>14. ASSUME NEW s \in Tasks, Tracked(s)'
       PROVE  s # t /\ Tracked(s)
    <2>1. s # t /\ Issuing(s) /\ pc[s] = "ok"
        BY <1>3, <1>4, <1>5, <1>14 DEF Tracked
    <2>2. ASSUME NEW q \in Tasks, ~late'[q], s \in held'[q]
          PROVE  Tracked(s)
        <3>1. CASE q # t
            BY <2>1, <2>2, <3>1, <1>4 DEF Tracked
        <3>2. CASE q = t
            <4>1. role[r.user] # "deleted" /\ s \in Issued(r.user)
                BY <2>2, <3>2, <1>4
            <4> QED
                BY <2>1, <4>1 DEF Tracked, Issued, User
        <3> QED
            BY <3>1, <3>2
    <2> QED
        BY <2>1, <2>2, <1>2, <1>5, <1>14 DEF Tracked, stores
<1>15. Findable'
    BY <1>2, <1>5, <1>7, <1>14 DEF DeleteInv, Findable, InIndex, stores
<1>16. FoundAll'
    <2> SUFFICES ASSUME NEW d \in Tasks, NEW q \in Tasks, req'[d].kind = "delete",
                        User(d)' = User(q)', ~late'[q], NEW s \in held'[q], Loose(s)'
                 PROVE  /\ pc'[d] = "del_sessions" => s \in found'[d]
                        /\ pc'[d] \notin {"del_index", "ok"}
        BY DEF FoundAll
    <2>1. CASE d = t
        BY <2>1, <1>3, <1>4
    <2>2. CASE d # t /\ q # t
        BY <2>2, <1>2, <1>4, <1>5, <1>7, <1>9 DEF DeleteInv, FoundAll
    <2>3. CASE d # t /\ q = t
        <3>1. role[User(d)] # "deleted" /\ req[d].kind = "delete"
            BY <2>3, <1>4, <1>5 DEF User
        <3> QED
            BY <2>3, <3>1, <1>4 DEF DeleteInv, DeletedFirst
    <2> QED
        BY <2>1, <2>2, <2>3
<1> QED
    BY <1>10, <1>11, <1>12, <1>13, <1>15, <1>16 DEF DeleteInv

\* A set that expires has no live session of an account left in it.
LEMMA ExpiryDeletes ==
    ASSUME IndexMayLapse = FALSE, AuthInv, DeleteInv,
           \/ \E t \in Tasks : ExpireSession(t) \/ ExpireToken(t)
           \/ \E u \in Users : ExpireIndex(u)
    PROVE  DeleteInv'
<1>1. /\ UNCHANGED <<role, req, pc, found, held, late, faults>>
      /\ session' \subseteq session
      /\ token' \in [Tasks -> {"none", "valid", "expired", "revoked"}]
      /\ \A k \in Tasks : token[k] # "none" => token'[k] # "none"
      /\ \A k \in Tasks : token[k] = "revoked" => token'[k] = "revoked"
    BY DEF ExpireSession, ExpireToken, ExpireIndex, AuthInv, TypeOK
<1>2. ASSUME NEW s \in Tasks, User(s) \in Users
      PROVE  /\ s \in session /\ InIndex(s) => InIndex(s)'
             /\ pc[s] = "expire" /\ s \in index[User(s)] => s \in index'[User(s)]
    <2>0. index \in [Users -> SUBSET Tasks] /\ covered \in [Users -> SUBSET Tasks]
        BY DEF AuthInv, TypeOK
    <2>1. CASE \E t \in Tasks : ExpireSession(t) \/ ExpireToken(t)
        BY <2>1 DEF ExpireSession, ExpireToken, InIndex, User
    <2>2. CASE \E u \in Users : ExpireIndex(u)
        <3>1. PICK u \in Users : ExpireIndex(u)
            BY <2>2
        <3>2. CASE u = User(s)
            BY <1>2, <2>0, <3>1, <3>2 DEF ExpireIndex, InIndex
        <3>3. CASE u # User(s)
            BY <1>2, <2>0, <3>1, <3>3 DEF ExpireIndex, InIndex, User
        <3> QED
            BY <3>2, <3>3
    <2> QED
        BY <2>1, <2>2
<1>3. \A s \in Tasks : Loose(s)' => Loose(s) /\ s \in session
    BY <1>1 DEF Loose, HalfLoggedOut
<1>4. \A s \in Tasks : Issuing(s) => User(s) \in Users
    BY DEF AuthInv, TypeOK, RequestShape, OnRoute, Ended, Issuing
<1>5. HeldIssued'
    BY <1>1 DEF DeleteInv, HeldIssued, Issued, Issuing, User
<1>6. TokensThere' /\ DeletedFirst'
    BY <1>1 DEF DeleteInv, TokensThere, DeletedFirst, Issuing, User, Exists
<1>7. TokensRevoked'
    <2>1. \A t \in Tasks : \A s \in held[t] : s \in Tasks
        BY DEF AuthInv, TypeOK
    <2> QED
        BY <1>1, <2>1 DEF DeleteInv, TokensRevoked
<1>8. Entered'
    BY <1>1, <1>2, <1>4 DEF DeleteInv, Entered, Issuing, User
<1>9. Findable'
    <2> SUFFICES ASSUME NEW s \in Tasks, Tracked(s)', Loose(s)'
                 PROVE  InIndex(s)'
        BY DEF Findable
    <2>1. Tracked(s) /\ Issuing(s)
        BY <1>1 DEF Tracked, Issuing, User
    <2> QED
        BY <2>1, <1>2, <1>3, <1>4 DEF DeleteInv, Findable
<1>10. FoundAll'
    <2>1. \A t \in Tasks : \A s \in held[t] : s \in Tasks
        BY DEF AuthInv, TypeOK
    <2> QED
        BY <1>1, <1>3, <2>1 DEF DeleteInv, FoundAll, User
<1> QED
    BY <1>5, <1>6, <1>7, <1>8, <1>9, <1>10 DEF DeleteInv
-----------------------------------------------------------------------------
\* AuthInv is an invariant: the statements, arrivals and expiries are all steps.
THEOREM AuthInvariant == Spec => []AuthInv
<1>1. Init => AuthInv
    <2> SUFFICES ASSUME Init PROVE AuthInv
        OBVIOUS
    <2>1. TypeOK
        BY AuthAssumption DEF Init, TypeOK
    <2>2. \A t \in Tasks : req[t] = NoRequest /\ pc[t] = "new" /\ late[t] = FALSE
        BY DEF Init
    <2>3. RequestShape
        BY <2>2 DEF Init, RequestShape, NoRequest, Kinds, Cookie, OnRoute
    <2> QED
        BY <2>1, <2>2, <2>3 DEF AuthInv, CookiesIssued, LateIsStopped, OneRegisters,
           Registering, LoggingOut, NoRequest
<1>2. AuthInv /\ [Next]_vars => AuthInv'
    <2> SUFFICES ASSUME AuthInv, [Next]_vars PROVE AuthInv'
        OBVIOUS
    <2>1. ASSUME NEW t \in Tasks, Statement(t) PROVE AuthInv'
        BY <2>1, StatementKeeps, StatementTypes DEF AuthInv
    <2>2. ASSUME NEW t \in Tasks, Arrive(t) PROVE AuthInv'
        BY <2>2, ArriveKeeps
    <2>3. CASE \/ \E t \in Tasks : ExpireSession(t) \/ ExpireToken(t)
               \/ \E u \in Users : ExpireIndex(u)
        BY <2>3, ExpiryKeeps
    <2>4. CASE UNCHANGED vars
        BY <2>4 DEF vars, AuthInv, TypeOK, RequestShape, CookiesIssued, LateIsStopped,
           OneRegisters, Registering, LoggingOut, Issuing, User, Exists
    <2> QED
        BY <2>1, <2>2, <2>3, <2>4 DEF Next, Statement
<1> QED
    BY <1>1, <1>2, PTL DEF Spec

\* Every variable keeps its type, and sessions and tokens belong to the user
\* whose login or refresh issued them, for any tasks and users.
THEOREM AuthTypeCorrect == Spec => []TypeOK
<1>1. AuthInv => TypeOK
    BY DEF AuthInv
<1> QED
    BY <1>1, AuthInvariant, PTL

\* Of any number of requests to register a username one succeeds.
THEOREM AtMostOneRegisters == Spec => []RegisteredOnce
<1>1. AuthInv => RegisteredOnce
    BY DEF AuthInv, OneRegisters, Registering, RegisteredOnce
<1> QED
    BY <1>1, AuthInvariant, PTL

\* No request that starts after its account is deleted gets anything.
THEOREM DeletedGetNothing == Spec => []NothingForDeleted
<1>1. AuthInv => NothingForDeleted
    BY DEF AuthInv, LateIsStopped, NothingForDeleted
<1> QED
    BY <1>1, AuthInvariant, PTL

\* A logout that returned has ended its session and token for good.
THEOREM LogoutIsFinal == Spec => []LogoutEnds
<1>1. AuthInv => LogoutEnds
    BY DEF AuthInv, LoggingOut, LogoutEnds
<1> QED
    BY <1>1, AuthInvariant, PTL

\* Unless a set of sessions expires between the SADD and the EXPIRE of a login,
\* delete_account leaves no session and no token that its user's clients held,
\* for any number of requests and whatever breaks off.
THEOREM DeletionIsComplete ==
    ASSUME IndexMayLapse = FALSE
    PROVE  Spec => []DeleteEndsSessions
<1>1. Init => DeleteInv
    BY DEF Init, DeleteInv, HeldIssued, TokensThere, DeletedFirst, TokensRevoked, Entered,
       Findable, Tracked, FoundAll, NoRequest, Issuing
<1>2. AuthInv /\ DeleteInv /\ [Next]_vars => DeleteInv'
    <2> SUFFICES ASSUME AuthInv, DeleteInv, [Next]_vars PROVE DeleteInv'
        OBVIOUS
    <2>1. ASSUME NEW t \in Tasks, Statement(t) PROVE DeleteInv'
        BY <2>1, StatementDeletes
    <2>2. ASSUME NEW t \in Tasks, Arrive(t) PROVE DeleteInv'
        BY <2>2, ArriveDeletes
    <2>3. CASE \/ \E t \in Tasks : ExpireSession(t) \/ ExpireToken(t)
               \/ \E u \in Users : ExpireIndex(u)
        BY <2>3, ExpiryDeletes
    <2>4. CASE UNCHANGED vars
        BY <2>4 DEF vars, DeleteInv, HeldIssued, TokensThere, DeletedFirst, TokensRevoked,
           Entered, Findable, Tracked, FoundAll, Loose, HalfLoggedOut, InIndex, Issued, Issuing,
           User, Exists
    <2> QED
        BY <2>1, <2>2, <2>3, <2>4 DEF Next, Statement
<1>3. AuthInv /\ DeleteInv => DeleteEndsSessions
    <2> SUFFICES ASSUME AuthInv, DeleteInv, NEW t \in Tasks, pc[t] = "ok", req[t].kind = "delete",
                        NEW s \in held[t]
                 PROVE  (s \notin session \/ HalfLoggedOut(s)) /\ token[s] = "revoked"
        BY DEF DeleteEndsSessions
    <2>1. ~late[t]
        BY DEF AuthInv, LateIsStopped
    <2> QED
        BY <2>1 DEF DeleteInv, FoundAll, TokensRevoked, Loose
<1> QED
    BY <1>1, <1>2, <1>3, AuthInvariant, PTL DEF Spec
=============================================================================
