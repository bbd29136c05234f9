------------------------------ MODULE Sessions ------------------------------
(***************************************************************************)
(* Sessions: the sessions table, login, refresh-token rotation, the access *)
(* check in front of every guarded route, logout and account deletion.     *)
(*                                                                         *)
(* As in VaultItems a request is a process that runs one SQL statement per *)
(* step.  An access token and its refresh token are always minted together *)
(* and stored together, so a pair of them is one number, drawn in order;   *)
(* only its hash is stored, and a client presents a pair it was given.     *)
(* A session row keeps the number of the login that inserted it as its id. *)
(***************************************************************************)
EXTENDS Naturals

CONSTANTS User,        \* account ids
          Req,         \* slots for requests in flight
          AccessTTL,   \* lifetime of an access token
          RefreshTTL,  \* lifetime of a refresh token
          MaxPairs,    \* bound: token pairs minted
          MaxTime,     \* bound: end of the clock
          None         \* no row, no argument

ASSUME TTLAssumption ==
    /\ AccessTTL \in Nat /\ RefreshTTL \in Nat
    /\ MaxPairs \in Nat /\ MaxTime \in Nat

VARIABLES now,        \* the server's clock
          users,      \* ids of the rows of table users
          session,    \* table sessions: id -> row, or None
          minted,     \* number of pairs drawn so far
          token,      \* history: what each pair was issued for
          loggedOut,  \* history: pairs whose logout deleted by their hash
          req         \* the requests in flight

vars == <<now, users, session, minted, token, loggedOut, req>>

Pair == 1..MaxPairs

Row   == [user : User, pair : Pair, accessExp : Nat, refreshExp : Nat]
Token == [user : User, login : Pair, parent : Pair \cup {0}, issued : Nat]

ASSUME NoneAssumption == /\ None \notin User \cup Row \cup Token
                         /\ None \notin Nat

Stages == {"idle", "password", "insert", "lookup", "rotate", "auth", "use",
           "logout", "revokeAll", "deleteUser"}

\* next: the guarded handler behind the access check.  at: the time of the last
\* check the request passed.
Request == [pc : Stages, next : Stages, pair : Pair \cup {0},
            user : User \cup {None}, id : Pair \cup {0}, at : Nat]

Idle == [pc |-> "idle", next |-> "idle", pair |-> 0, user |-> None, id |-> 0,
         at |-> 0]

\* The one type invariant.
TypeOK ==
    /\ now \in Nat
    /\ users \subseteq User
    /\ session \in [Pair -> Row \cup {None}]
    /\ minted \in 0..MaxPairs
    /\ token \in [Pair -> Token \cup {None}]
    /\ loggedOut \subseteq Pair
    /\ req \in [Req -> Request]

Init ==
    /\ now = 0
    /\ users = User
    /\ session = [s \in Pair |-> None]
    /\ minted = 0
    /\ token = [p \in Pair |-> None]
    /\ loggedOut = {}
    /\ req = [r \in Req |-> Idle]

(***************************************************************************)
(* Rows and statements.                                                    *)
(***************************************************************************)
MNewRow(u, p, t) == [user |-> u, pair |-> p, accessExp |-> t + AccessTTL,
                     refreshExp |-> None]

NewRow(u, p, t) == [user |-> u, pair |-> p, accessExp |-> t + AccessTTL,
                    refreshExp |-> t + RefreshTTL]

Issued(u, login, parent) ==
    [user |-> u, login |-> login, parent |-> parent, issued |-> now]

\* SELECT ... WHERE access_token_hash = p, or refresh_token_hash = p
Holds(s, p) == session[s] # None /\ session[s].pair = p

Live(p) == \E s \in Pair : Holds(s, p)

\* DELETE FROM sessions WHERE user_id = u
WithoutUser(u) ==
    [s \in Pair |-> IF session[s] # None /\ session[s].user = u THEN None
                    ELSE session[s]]

(***************************************************************************)
(* The client sends.                                                       *)
(***************************************************************************)
Send(r, pc, next, p, u) ==
    /\ req[r].pc = "idle"
    /\ req' = [req EXCEPT ![r] = [pc |-> pc, next |-> next, pair |-> p,
                                  user |-> u, id |-> 0, at |-> 0]]
    /\ UNCHANGED <<now, users, session, minted, token, loggedOut>>

SendLogin(r)   == \E u \in User : Send(r, "password", "idle", 0, u)

\* Any pair handed out so far, current or long superseded.
SendRefresh(r) == \E p \in 1..minted : Send(r, "lookup", "idle", p, None)

SendGuarded(r) ==
    \E p \in 1..minted, next \in {"use", "logout", "revokeAll"} :
        Send(r, "auth", next, p, None)

(***************************************************************************)
(* The handlers, one action per statement.                                 *)
(***************************************************************************)
Step(r, pc, u, id) ==
    req' = [req EXCEPT ![r] = [pc |-> pc, next |-> req[r].next,
                               pair |-> req[r].pair, user |-> u, id |-> id,
                               at |-> now]]

\* The request is answered: 2xx, 401 or 500 as its comment says.  What a browser
\* does with the cookies of an answer is not part of this module.
Answer(r) == req' = [req EXCEPT ![r] = Idle]

\* PostLogin (or the last read of PostLoginMfa): the user row is read, and the
\* password verified against what was read: no row and a wrong password are 401.
PostLogin(r) ==
    /\ req[r].pc = "password"
    /\ \/ /\ req[r].user \in users
          /\ Step(r, "insert", req[r].user, 0)
       \/ Answer(r)
    /\ UNCHANGED <<now, users, session, minted, token, loggedOut>>

MCreateSessionPair(r) ==
    /\ req[r].pc = "insert"
    /\ minted < MaxPairs
    /\ \E t \in req[r].at..now :
          session' = [session EXCEPT
                         ![minted + 1] = NewRow(req[r].user, minted + 1, t)]
    /\ minted' = minted + 1
    /\ token' = [token EXCEPT
                    ![minted + 1] = Issued(req[r].user, minted + 1, 0)]
    /\ Answer(r)
    /\ UNCHANGED <<now, users, loggedOut>>

\* The INSERT of a login, refused by the foreign key when the account is gone.
\* The expiries count from the time read before the statement runs.
CreateSessionPair(r) ==
    /\ req[r].pc = "insert"
    /\ \/ /\ req[r].user \in users
          /\ minted < MaxPairs
          /\ \E t \in req[r].at..now :
                session' = [session EXCEPT
                               ![minted + 1] = NewRow(req[r].user, minted + 1, t)]
          /\ minted' = minted + 1
          /\ token' = [token EXCEPT
                          ![minted + 1] = Issued(req[r].user, minted + 1, 0)]
          /\ Answer(r)
       \/ /\ req[r].user \notin users
          /\ Answer(r)
          /\ UNCHANGED <<session, minted, token>>
    /\ UNCHANGED <<now, users, loggedOut>>

\* RefreshSession, first statement: the row by its refresh hash, and its expiry.
GetByRefreshHash(r) ==
    LET fresh(s) == Holds(s, req[r].pair) /\ now <= session[s].refreshExp IN
    /\ req[r].pc = "lookup"
    /\ \/ \E s \in Pair : /\ fresh(s)
                          /\ Step(r, "rotate", session[s].user, s)
       \/ /\ \A s \in Pair : ~fresh(s)
          /\ Answer(r)
    /\ UNCHANGED <<now, users, session, minted, token, loggedOut>>

MRotateInserting(r) ==
    /\ req[r].pc = "rotate"
    /\ session[req[r].id] # None
    /\ minted < MaxPairs
    /\ session' = [session EXCEPT
                      ![minted + 1] = NewRow(req[r].user, minted + 1, now)]
    /\ minted' = minted + 1
    /\ token' = [token EXCEPT
                    ![minted + 1] = Issued(req[r].user, token[req[r].pair].login,
                                           req[r].pair)]
    /\ Answer(r)
    /\ UNCHANGED <<now, users, loggedOut>>

MRotateSaving(r) ==
    /\ req[r].pc = "rotate"
    /\ req[r].user \in users
    /\ minted < MaxPairs
    /\ session' = [session EXCEPT
                      ![req[r].id] = NewRow(req[r].user, minted + 1, now)]
    /\ minted' = minted + 1
    /\ token' = [token EXCEPT
                    ![minted + 1] = Issued(req[r].user, token[req[r].pair].login,
                                           req[r].pair)]
    /\ Answer(r)
    /\ UNCHANGED <<now, users, loggedOut>>

\* RefreshSession, second statement: UPDATE ... WHERE id, whatever the row holds
\* by now.  No row is an internal error, not an invalid session.
RotateTokens(r) ==
    LET s == req[r].id
        u == session[s].user IN
    /\ req[r].pc = "rotate"
    /\ \/ /\ session[s] # None
          /\ minted < MaxPairs
          /\ \E t \in req[r].at..now :
                session' = [session EXCEPT ![s] = NewRow(u, minted + 1, t)]
          /\ minted' = minted + 1
          /\ token' = [token EXCEPT
                          ![minted + 1] = Issued(u, token[req[r].pair].login,
                                                 req[r].pair)]
          /\ Answer(r)
       \/ /\ session[s] = None
          /\ Answer(r)
          /\ UNCHANGED <<session, minted, token>>
    /\ UNCHANGED <<now, users, loggedOut>>

MAccessValid(s, p) == Holds(s, p) /\ now <= session[s].refreshExp

\* ValidateAccess: the row by its access hash, and its expiry.
AccessValid(s, p) == Holds(s, p) /\ now <= session[s].accessExp

\* The middleware of every guarded route; the handler runs in later steps.
SessionAuth(r) ==
    /\ req[r].pc = "auth"
    /\ \/ \E s \in Pair : /\ AccessValid(s, req[r].pair)
                          /\ Step(r, req[r].next, session[s].user, s)
       \/ /\ \A s \in Pair : ~AccessValid(s, req[r].pair)
          /\ Answer(r)
    /\ UNCHANGED <<now, users, session, minted, token, loggedOut>>

\* A guarded handler that leaves the sessions alone (items, sync, activity, 2fa).
Use(r) ==
    /\ req[r].pc = "use"
    /\ Answer(r)
    /\ UNCHANGED <<now, users, session, minted, token, loggedOut>>

MPostLogout(r) ==
    /\ req[r].pc = "logout"
    /\ loggedOut' = loggedOut \cup {req[r].pair}
    /\ Answer(r)
    /\ UNCHANGED <<now, users, session, minted, token>>

\* DELETE by access hash.  A failure is logged and answered 204 all the same.
PostLogout(r) ==
    /\ req[r].pc = "logout"
    /\ \/ /\ session' = [s \in Pair |-> IF Holds(s, req[r].pair) THEN None
                                        ELSE session[s]]
          /\ loggedOut' = loggedOut \cup {req[r].pair}
       \/ UNCHANGED <<session, loggedOut>>
    /\ Answer(r)
    /\ UNCHANGED <<now, users, minted, token>>

\* DeleteUser, first statement; a failure is logged and the handler goes on.
RevokeAllSessions(r) ==
    /\ req[r].pc = "revokeAll"
    /\ \/ session' = WithoutUser(req[r].user)
       \/ UNCHANGED session
    /\ Step(r, "deleteUser", req[r].user, req[r].id)
    /\ UNCHANGED <<now, users, minted, token, loggedOut>>

MDeleteUser(r) ==
    /\ req[r].pc = "deleteUser"
    /\ users' = users \ {req[r].user}
    /\ Answer(r)
    /\ UNCHANGED <<now, session, minted, token, loggedOut>>

\* DeleteUser, second statement: DELETE FROM users, ON DELETE CASCADE.  No row
\* left to delete is no error.
DeleteUser(r) ==
    /\ req[r].pc = "deleteUser"
    /\ users' = users \ {req[r].user}
    /\ session' = WithoutUser(req[r].user)
    /\ Answer(r)
    /\ UNCHANGED <<now, minted, token, loggedOut>>

\* A failing statement is answered 500, except where the handlers above go on.
StatementFails(r) ==
    /\ req[r].pc \in {"password", "insert", "lookup", "rotate", "auth", "use",
                      "deleteUser"}
    /\ Answer(r)
    /\ UNCHANGED <<now, users, session, minted, token, loggedOut>>

\* The request is lost with the server (a restart) or its context is cancelled
\* (the client goes away).  The table survives either way.
Lose(r) ==
    /\ req[r].pc # "idle"
    /\ req' = [req EXCEPT ![r] = Idle]
    /\ UNCHANGED <<now, users, session, minted, token, loggedOut>>

Tick ==
    /\ now < MaxTime
    /\ now' = now + 1
    /\ UNCHANGED <<users, session, minted, token, loggedOut, req>>

Client(r) == SendLogin(r) \/ SendRefresh(r) \/ SendGuarded(r)

Server(r) ==
    \/ PostLogin(r) \/ CreateSessionPair(r) \/ GetByRefreshHash(r)
    \/ RotateTokens(r) \/ SessionAuth(r) \/ Use(r) \/ PostLogout(r)
    \/ RevokeAllSessions(r) \/ DeleteUser(r) \/ StatementFails(r)

Next ==
    \/ Tick
    \/ \E r \in Req : Client(r) \/ Server(r) \/ Lose(r)

Spec == Init /\ [][Next]_vars

(***************************************************************************)
(* Properties.                                                             *)
(***************************************************************************)

\* No session outlives its account, whatever order logins, refreshes and the two
\* statements of DeleteUser run in, and also when revoking the sessions failed.
SessionsOwned == \A s \in Pair : session[s] # None => session[s].user \in users

\* A pair that was exchanged for another, or logged out by its hash, is accepted
\* by nothing again, although RotateTokens finds its row by id and not by hash.
RevokedForGood ==
    /\ \A p \in Pair : token[p] # None /\ token[p].parent # 0 => ~Live(token[p].parent)
    /\ \A p \in loggedOut : ~Live(p)

\* A login leads to at most one live pair at any time, held by the row that login
\* inserted, however many refreshes of one token race.
OneSessionPerLogin ==
    \A s \in Pair : session[s] # None =>
        /\ token[session[s].pair] # None
        /\ token[session[s].pair].login = s
        /\ token[session[s].pair].user = session[s].user

\* A request that passed sessionAuth acts for the account whose password was
\* verified when its token was issued, and passed within the token's lifetime.
\* A token past its refresh lifetime is never exchanged.
GrantsJustified ==
    \A r \in Req :
        LET q == req[r] IN
        /\ q.pc \in {"use", "logout", "revokeAll", "rotate"} =>
              /\ token[q.pair] # None
              /\ token[q.pair].user = q.user
        /\ q.pc \in {"use", "logout", "revokeAll"} =>
              q.at <= token[q.pair].issued + AccessTTL
        /\ q.pc = "rotate" => q.at <= token[q.pair].issued + RefreshTTL

\* A session that is gone never comes back: a rotation whose row was deleted
\* between its two statements does not recreate it.
GoneForGood ==
    [][\A s \in Pair : s <= minted /\ session[s] = None => session'[s] = None]_vars

\* "logout and account deletion revoke immediately": once a logout has deleted by
\* its hash, nothing is live of the login it ended.
LogoutEndsSession ==
    \A p \in loggedOut, s \in Pair : session[s] # None => token[p].login # s

=============================================================================
