--------------------------- MODULE BrowserSession ---------------------------
(***************************************************************************)
(* The browser's side of a session: the cookies all its tabs share,        *)
(* fetchWithAuth, which answers a 401 by one refresh and one retry, and    *)
(* the refresh that the calls of a tab share while it is in flight.        *)
(*                                                                         *)
(* Module Sessions lets a client present any token at any time; here the   *)
(* client is the program's own, so the order of its requests matters: a    *)
(* request carries the cookies of the moment it is sent, and an answer     *)
(* changes the cookies at the moment it arrives.  Answers arrive in any    *)
(* order, or never.                                                        *)
(*                                                                         *)
(* As in Sessions a pair of tokens is one number.  Both cookies are always *)
(* set and cleared together, so the jar holds a pair, or 0.  An access     *)
(* cookie past its Max-Age is not sent: that is answered 401 just like the *)
(* expired token in it, which the jar keeps here.  Refresh tokens do not   *)
(* expire here (they do in Sessions).                                      *)
(***************************************************************************)
EXTENDS Integers

CONSTANTS Tab,       \* tabs of one browser
          Call,      \* API calls that may run at a time
          MaxCalls,  \* bound on the calls begun
          MaxPairs,  \* room for every pair those calls can mint
          None

ASSUME BrowserAssumption ==
    /\ MaxCalls \in Nat /\ MaxPairs \in Nat /\ MaxPairs > 2 * MaxCalls
    /\ None \notin Tab \cup Call

VARIABLES session,  \* table sessions: id -> pair it holds, or 0
          minted,   \* pairs drawn so far
          stale,    \* ids of rows past their access_expires_at
          jar,      \* the cookies
          call,     \* the calls: requests, answers and waiting callers
          refresh,  \* the refresh each call started, if any
          flight,   \* refreshInFlight of each tab: the call that started it
          begun,    \* calls begun
          spoilt    \* history: an answer got lost, or tabs refreshed together

server == <<session, minted, stale>>
vars   == <<session, minted, stale, jar, call, refresh, flight, begun, spoilt>>

Pair == 1..MaxPairs

\* Routes behind sessionAuth; the login routes and the refresh are not.  DELETE
\* /api/user is left out, which no component of the UI calls.
GuardedRoute == {"use", "logout"}
Route        == GuardedRoute \cup {"login"}

Keep  == -1   \* an answer without Set-Cookie
Clear == 0    \* clearAuthCookies

Cookie    == 0..MaxPairs
SetCookie == Keep..MaxPairs
Status    == {0, 200, 401, 500}

\* cookie: what the request carries; status and set: what its answer carries;
\* on: the call whose refresh this one waits for.
CallState ==
    [pc : {"idle", "sent", "logout", "answer", "waiting"}, tab : Tab \cup {None},
     route : Route \cup {None}, cookie : Cookie, retried : BOOLEAN,
     status : Status, set : SetCookie, on : Call \cup {None}]

RefreshState ==
    [pc : {"idle", "lookup", "rotate", "answer"}, cookie : Cookie, id : Cookie,
     ok : BOOLEAN, set : SetCookie]

\* The one type invariant.
TypeOK ==
    /\ session \in [Pair -> Cookie]
    /\ minted \in Cookie /\ stale \subseteq Pair /\ jar \in Cookie
    /\ call \in [Call -> CallState]
    /\ refresh \in [Call -> RefreshState]
    /\ flight \in [Tab -> Call \cup {None}]
    /\ begun \in 0..MaxCalls /\ spoilt \in BOOLEAN

Settled == [pc |-> "idle", tab |-> None, route |-> None, cookie |-> 0,
            retried |-> FALSE, status |-> 0, set |-> Keep, on |-> None]

NoRefresh == [pc |-> "idle", cookie |-> 0, id |-> 0, ok |-> FALSE, set |-> Keep]

\* The browser comes with the session of an earlier login.
Init ==
    /\ session = [s \in Pair |-> IF s = 1 THEN 1 ELSE 0]
    /\ minted = 1 /\ stale = {} /\ jar = 1
    /\ call = [c \in Call |-> Settled]
    /\ refresh = [c \in Call |-> NoRefresh]
    /\ flight = [t \in Tab |-> None]
    /\ begun = 0 /\ spoilt = FALSE

Live(p) == \E s \in Pair : p # 0 /\ session[s] = p

\* The jar after an answer.
Cookies(set) == IF set = Keep THEN jar ELSE set

(***************************************************************************)
(* The calls of a tab: fetch and the handlers behind it.                   *)
(***************************************************************************)
Sent(t, route, cookies, retried) ==
    [Settled EXCEPT !.pc = "sent", !.tab = t, !.route = route,
                    !.cookie = cookies, !.retried = retried]

Begin(c, t, route) ==
    /\ call[c] = Settled /\ begun < MaxCalls
    /\ begun' = begun + 1
    /\ call' = [call EXCEPT ![c] = Sent(t, route, jar, FALSE)]
    /\ UNCHANGED <<server, jar, refresh, flight, spoilt>>

Answered(c, status, set) ==
    [call EXCEPT ![c].pc = "answer", ![c].status = status, ![c].set = set]

AccessValid(p) == \E s \in Pair \ stale : p # 0 /\ session[s] = p

\* sessionAuth; a logout goes on with a statement of its own, and any other handler
\* answers, with 401 when it refuses a TOTP or recovery code.
SessionAuth(c) ==
    /\ call[c].pc = "sent" /\ call[c].route \in GuardedRoute
    /\ \/ /\ ~AccessValid(call[c].cookie)
          /\ call' = Answered(c, 401, Keep)
       \/ /\ AccessValid(call[c].cookie) /\ call[c].route = "logout"
          /\ call' = [call EXCEPT ![c].pc = "logout"]
       \/ /\ AccessValid(call[c].cookie) /\ call[c].route = "use"
          /\ \E status \in {200, 401} : call' = Answered(c, status, Keep)
    /\ UNCHANGED <<server, jar, refresh, flight, begun, spoilt>>

\* DELETE by access hash; the cookies are cleared even when it fails.
PostLogout(c) ==
    /\ call[c].pc = "logout"
    /\ \/ /\ session' = [s \in Pair |-> IF session[s] = call[c].cookie THEN 0
                                        ELSE session[s]]
          /\ stale' = {s \in stale : session'[s] # 0}
       \/ UNCHANGED <<session, stale>>
    /\ call' = Answered(c, 200, Clear)
    /\ UNCHANGED <<minted, jar, refresh, flight, begun, spoilt>>

\* A login with the right password (or second factor), and any other.
PostLogin(c) ==
    /\ call[c].pc = "sent" /\ call[c].route = "login"
    /\ \/ /\ minted' = minted + 1
          /\ session' = [session EXCEPT ![minted'] = minted']
          /\ call' = Answered(c, 200, minted')
       \/ /\ call' = Answered(c, 401, Keep)
          /\ UNCHANGED <<session, minted>>
    /\ UNCHANGED <<stale, jar, refresh, flight, begun, spoilt>>

\* A failing statement, or a request that never reaches the server: the call
\* ends in an error and nothing has changed.
StatementFails(c) ==
    /\ call[c].pc = "sent"
    /\ call' = Answered(c, 500, Keep)
    /\ UNCHANGED <<server, jar, refresh, flight, begun, spoilt>>

(***************************************************************************)
(* fetchWithAuth and refreshSession.                                       *)
(***************************************************************************)
\* The refreshes of other tabs know nothing of this one.
Overlap(t) == \E u \in Tab \ {t} : flight[u] # None

MRefreshSession(c) ==
    /\ refresh' = [refresh EXCEPT ![c] = [NoRefresh EXCEPT !.pc = "lookup", !.cookie = jar]]
    /\ flight' = [flight EXCEPT ![call[c].tab] = c]
    /\ call' = [call EXCEPT ![c].pc = "waiting", ![c].on = c]
    /\ spoilt' = (spoilt \/ Overlap(call[c].tab))

\* The caller waits for the refresh of its tab, starting one if there is none.
RefreshSession(c) ==
    LET t == call[c].tab IN
    IF flight[t] = None
    THEN /\ refresh' = [refresh EXCEPT ![c] = [NoRefresh EXCEPT !.pc = "lookup",
                                                               !.cookie = jar]]
         /\ flight' = [flight EXCEPT ![t] = c]
         /\ call' = [call EXCEPT ![c].pc = "waiting", ![c].on = c]
         /\ spoilt' = (spoilt \/ Overlap(t))
    ELSE /\ call' = [call EXCEPT ![c].pc = "waiting", ![c].on = flight[t]]
         /\ UNCHANGED <<refresh, flight, spoilt>>

MRetries(c) == call[c].status = 401

Retries(c) == call[c].status = 401 /\ ~call[c].retried

\* An answer arrives: its cookies are stored; a first 401 leads to a refresh,
\* the 401 of a mistyped login password too; the call is over otherwise.
Deliver(c) ==
    /\ call[c].pc = "answer"
    /\ jar' = Cookies(call[c].set)
    /\ \/ Retries(c) /\ RefreshSession(c)
       \/ /\ ~Retries(c)
          /\ call' = [call EXCEPT ![c] = Settled]
          /\ UNCHANGED <<refresh, flight, spoilt>>
    /\ UNCHANGED <<server, begun>>

(***************************************************************************)
(* PostAuthRefresh: two statements.                                        *)
(***************************************************************************)
RefreshAnswered(c, ok, set) ==
    [refresh EXCEPT ![c].pc = "answer", ![c].ok = ok, ![c].set = set]

\* No cookie is 401; a cookie no row matches is 401 and cleared.
GetByRefreshHash(c) ==
    /\ refresh[c].pc = "lookup"
    /\ \/ \E s \in Pair :
             /\ refresh[c].cookie # 0 /\ session[s] = refresh[c].cookie
             /\ refresh' = [refresh EXCEPT ![c].pc = "rotate", ![c].id = s]
       \/ /\ ~Live(refresh[c].cookie)
          /\ refresh' = RefreshAnswered(c, FALSE,
                           IF refresh[c].cookie = 0 THEN Keep ELSE Clear)
    /\ UNCHANGED <<server, jar, call, flight, begun, spoilt>>

\* UPDATE by id; a row deleted meanwhile is a 500.
RotateTokens(c) ==
    LET s == refresh[c].id IN
    /\ refresh[c].pc = "rotate"
    /\ \/ /\ session[s] # 0
          /\ minted' = minted + 1
          /\ session' = [session EXCEPT ![s] = minted']
          /\ stale' = stale \ {s}
          /\ refresh' = RefreshAnswered(c, TRUE, minted')
       \/ /\ session[s] = 0
          /\ refresh' = RefreshAnswered(c, FALSE, Keep)
          /\ UNCHANGED server
    /\ UNCHANGED <<jar, call, flight, begun, spoilt>>

RefreshFails(c) ==
    /\ refresh[c].pc \in {"lookup", "rotate"}
    /\ refresh' = RefreshAnswered(c, FALSE, Keep)
    /\ UNCHANGED <<server, jar, call, flight, begun, spoilt>>

MWaiters(c) == {d \in Call : call[d].on = c} \cap {c}

\* The callers that share the promise of one refresh.
Waiters(c) == {d \in Call : call[d].on = c}

\* The promise settles, refreshInFlight is cleared, and every caller goes on: its
\* request is sent again, or it is left with its 401.
Resumed(c, again, cookies) ==
    [d \in Call |-> IF d \notin Waiters(c) THEN call[d]
                    ELSE IF again THEN Sent(call[d].tab, call[d].route, cookies, TRUE)
                    ELSE Settled]

EndRefresh(c, again, cookies) ==
    /\ jar' = cookies
    /\ call' = Resumed(c, again, cookies)
    /\ refresh' = [refresh EXCEPT ![c] = NoRefresh]
    /\ flight' = [flight EXCEPT ![call[c].tab] = None]
    /\ UNCHANGED <<server, begun>>

DeliverRefresh(c) ==
    /\ refresh[c].pc = "answer"
    /\ EndRefresh(c, refresh[c].ok, Cookies(refresh[c].set))
    /\ UNCHANGED spoilt

(***************************************************************************)
(* The network and the clock.                                              *)
(***************************************************************************)
\* The answer is lost, with its cookies: fetch rejects, and so does the call.
Lose(c) ==
    /\ call[c].pc = "answer"
    /\ call' = [call EXCEPT ![c] = Settled]
    /\ spoilt' = TRUE
    /\ UNCHANGED <<server, jar, refresh, flight, begun>>

LoseRefresh(c) ==
    /\ refresh[c].pc = "answer"
    /\ EndRefresh(c, FALSE, jar)
    /\ spoilt' = TRUE

Expire(s) ==
    /\ session[s] # 0 /\ s \notin stale
    /\ stale' = stale \cup {s}
    /\ UNCHANGED <<session, minted, jar, call, refresh, flight, begun, spoilt>>

Serve(c) ==
    \/ SessionAuth(c) \/ PostLogout(c) \/ PostLogin(c) \/ StatementFails(c)
    \/ GetByRefreshHash(c) \/ RotateTokens(c) \/ RefreshFails(c)

Arrive(c) == Deliver(c) \/ DeliverRefresh(c) \/ Lose(c) \/ LoseRefresh(c)

Next ==
    \/ \E c \in Call :
          \/ \E t \in Tab, route \in Route : Begin(c, t, route)
          \/ Serve(c) \/ Arrive(c)
    \/ \E s \in Pair : Expire(s)

\* The server runs every handler to its end (no handler waits for another), and
\* fetch settles: an answer arrives or the request fails.  Nobody has to call,
\* and no token has to expire.
Fairness == \A c \in Call : WF_vars(Serve(c)) /\ WF_vars(Arrive(c))

Spec == Init /\ [][Next]_vars /\ Fairness

(***************************************************************************)
(* Properties.                                                             *)
(***************************************************************************)
\* With nothing in flight, cookies that are left are good: the pair in the jar is
\* the one its session holds, so the next refresh succeeds.  It is the shared
\* refresh that makes this true: the loser of two rotations would otherwise
\* leave a dead pair.  Losing an answer, and refreshes of two tabs at a time,
\* which share nothing, do just that and are excepted.
JarCurrent ==
    /\ ~spoilt
    /\ \A c \in Call : call[c] = Settled /\ refresh[c] = NoRefresh
    /\ jar # 0
    => Live(jar)

\* A caller that waits for refreshInFlight waits for a refresh of its own tab that
\* is really under way: no caller joins a promise that has settled, and none is
\* left behind when one settles.
WaitersServed ==
    \A c \in Call : call[c].pc = "waiting" =>
        \E d \in Call : /\ call[c].on = d /\ refresh[d].pc # "idle"
                        /\ flight[call[c].tab] = d

\* The steps of a call up to its end, if nothing sets it back: those of its
\* request, of the refresh it may wait for, and of its retry.
Left == [idle |-> 0, answer |-> 1, logout |-> 2, sent |-> 3, rotate |-> 2, lookup |-> 3]

Steps(c) ==
    LET q == call[c] IN
    IF q.pc = "waiting" THEN Left["sent"] + Left[refresh[q.on].pc]
    ELSE IF q.pc = "idle" \/ q.retried THEN Left[q.pc]
    ELSE 2 * Left["sent"] + Left[q.pc]

\* Nothing sets a call back, neither its own 401s nor the refreshes other calls
\* start, and every step of the server or the network brings some call nearer to
\* its end: a call costs nine of them at most, retry and refresh included.
NeverSetBack ==
    [][/\ \A c \in Call : call[c] # Settled => Steps(c)' <= Steps(c)
       /\ (\E c \in Call : Serve(c) \/ Arrive(c)) => \E c \in Call : Steps(c)' < Steps(c)
      ]_vars

\* Every API call comes to an end, through the wait for a refresh another call
\* started, its failure, and the retry (fetchWithAuth retries once).
CallsSettle == \A c \in Call : call[c] # Settled ~> call[c] = Settled

=============================================================================
