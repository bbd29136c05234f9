--------------------------- MODULE SessionsProofs ---------------------------
(***************************************************************************)
(* Proofs about Sessions, for any number of accounts, requests, pairs and  *)
(* any lifetimes.                                                          *)
(***************************************************************************)
EXTENDS Sessions, TLAPS

USE TTLAssumption, NoneAssumption DEF Pair

(***************************************************************************)
(* The inductive invariant.                                                *)
(***************************************************************************)

\* Exactly the pairs drawn so far have a history, and every pair that occurs
\* anywhere was drawn.
Drawn ==
    /\ \A p \in Pair : token[p] # None <=> p <= minted
    /\ \A p \in Pair : token[p] # None => /\ token[p].parent <= minted
                                          /\ token[p].issued <= now
    /\ \A p \in loggedOut : p <= minted
    /\ \A s \in Pair : session[s] # None => s <= minted /\ session[s].pair <= minted

\* A row expires no later than its pair's issue time allows.
Expiring ==
    \A s \in Pair : session[s] # None =>
        /\ session[s].accessExp <= token[session[s].pair].issued + AccessTTL
        /\ session[s].refreshExp <= token[session[s].pair].issued + RefreshTTL

\* What a request in flight knows stays true: it concerns its pair's history and
\* not the row, which may change or go at any moment.
Good(q) ==
    /\ q.at <= now
    /\ q.pc \in {"lookup", "rotate", "auth", "use", "logout", "revokeAll"} =>
          q.pair \in 1..minted
    /\ q.pc \in {"use", "logout", "revokeAll", "rotate"} =>
          /\ token[q.pair].user = q.user
          /\ token[q.pair].login = q.id
    /\ q.pc \in {"insert", "deleteUser"} => q.user \in User
    /\ q.pc \in {"use", "logout", "revokeAll"} =>
          q.at <= token[q.pair].issued + AccessTTL
    /\ q.pc = "rotate" => q.at <= token[q.pair].issued + RefreshTTL
    /\ q.pc = "auth" => q.next \in {"use", "logout", "revokeAll"}

AllGood == \A r \in Req : Good(req[r])

DataInv == /\ Drawn /\ Expiring
           /\ SessionsOwned /\ RevokedForGood /\ OneSessionPerLogin

IInv == TypeOK /\ DataInv /\ AllGood

\* An idle request claims nothing.
LEMMA IdleGood == ASSUME TypeOK PROVE Idle \in Request /\ Good(Idle)
  BY DEF Idle, Request, Stages, Good, TypeOK

\* The invariant holds at first.
LEMMA InvInit == Init => IInv
<1> SUFFICES ASSUME Init PROVE IInv
  OBVIOUS
<1>1. Idle \in Request
  BY DEF Idle, Request, Stages
<1>2. TypeOK
  BY <1>1 DEF Init, TypeOK
<1>3. AllGood
  BY <1>2, IdleGood DEF Init, AllGood
<1>4. DataInv
  BY DEF Init, DataInv, Drawn, Expiring, SessionsOwned, RevokedForGood,
         OneSessionPerLogin, Live, Holds
<1> QED
  BY <1>2, <1>3, <1>4 DEF IInv

(***************************************************************************)
(* What a request knows survives every step that keeps the histories.      *)
(***************************************************************************)
Keeps == /\ now' \in Nat /\ now <= now' /\ minted' \in Nat /\ minted <= minted'
         /\ \A p \in 1..minted : token'[p] = token[p]

\* What a request knows of its row survives the steps of the others.
LEMMA GoodStable ==
    ASSUME TypeOK, Keeps, NEW q \in Request, Good(q)
    PROVE  Good(q)'
  BY DEF TypeOK, Keeps, Good, Request

\* One request moves to q, the others keep what they know.
LEMMA RequestMoves ==
    ASSUME IInv, Keeps, NEW r \in Req, NEW q \in Request, Good(q),
           req' = [req EXCEPT ![r] = q]
    PROVE  req' \in [Req -> Request] /\ AllGood'
<1>1. req' \in [Req -> Request]
  BY DEF IInv, TypeOK
<1>2. ASSUME NEW x \in Req PROVE Good(req[x])'
  <2>1. req'[x] \in Request /\ Good(req'[x])
    BY DEF IInv, AllGood, TypeOK
  <2> QED
    BY <2>1, GoodStable DEF IInv, Good, Keeps, TypeOK, Request
<1> QED
  BY <1>1, <1>2 DEF AllGood

Tables == <<now, users, session, minted, token, loggedOut>>

\* A step that only moves a request.
LEMMA Frame ==
    ASSUME IInv, UNCHANGED Tables, NEW r \in Req, NEW q \in Request, Good(q),
           req' = [req EXCEPT ![r] = q]
    PROVE  IInv'
<1>1. Keeps
  BY DEF Keeps, Tables, IInv, TypeOK
<1>2. req' \in [Req -> Request] /\ AllGood'
  BY <1>1, RequestMoves
<1>3. TypeOK'
  BY <1>2 DEF IInv, TypeOK, Tables
<1>4. DataInv'
  BY DEF IInv, DataInv, Drawn, Expiring, SessionsOwned, RevokedForGood,
         OneSessionPerLogin, Live, Holds, Tables
<1> QED
  BY <1>2, <1>3, <1>4 DEF IInv

\* A step that only removes rows and accounts: the rows left are unchanged and
\* their accounts stay, and a pair logged out has no row left.
LEMMA Removal ==
    ASSUME IInv, UNCHANGED <<now, minted, token>>,
           users' \subseteq users, loggedOut' \subseteq 1..minted,
           session' \in [Pair -> Row \cup {None}],
           \A s \in Pair : session'[s] # None =>
               session'[s] = session[s] /\ session[s].user \in users',
           \A p \in loggedOut' : ~Live(p)',
           NEW r \in Req, NEW q \in Request, Good(q), req' = [req EXCEPT ![r] = q]
    PROVE  IInv'
<1>1. Keeps
  BY DEF Keeps, IInv, TypeOK
<1>2. req' \in [Req -> Request] /\ AllGood'
  BY <1>1, RequestMoves
<1>3. TypeOK'
  BY <1>2 DEF IInv, TypeOK
<1>4. Drawn' /\ Expiring' /\ SessionsOwned' /\ OneSessionPerLogin'
  BY DEF IInv, DataInv, Drawn, Expiring, SessionsOwned, OneSessionPerLogin, TypeOK
<1>5. RevokedForGood'
  BY DEF IInv, DataInv, RevokedForGood, Live, Holds, TypeOK
<1> QED
  BY <1>2, <1>3, <1>4, <1>5 DEF IInv, DataInv

(***************************************************************************)
(* A step that mints a pair: the row of login s, new or existing, gets it. *)
(***************************************************************************)
LEMMA Minting ==
    ASSUME IInv, minted < MaxPairs, NEW s \in Pair, NEW u \in users,
           NEW parent \in 0..minted, NEW t \in Nat, t <= now,
           \/ s = minted + 1 /\ parent = 0
           \/ /\ session[s] # None
              /\ parent \in Pair /\ token[parent].login = s,
           session' = [session EXCEPT ![s] = NewRow(u, minted + 1, t)],
           minted' = minted + 1,
           token' = [token EXCEPT ![minted + 1] = Issued(u, s, parent)],
           UNCHANGED <<now, users, loggedOut>>,
           NEW r \in Req, req' = [req EXCEPT ![r] = Idle]
    PROVE  IInv'
<1> DEFINE n == minted + 1
<1>0. /\ minted \in Nat /\ n \in Pair /\ s <= n /\ now \in Nat
      /\ u \in User /\ session \in [Pair -> Row \cup {None}]
      /\ token \in [Pair -> Token \cup {None}] /\ s \in 1..n
  BY DEF IInv, TypeOK, DataInv, Drawn
<1>n. minted \in Nat /\ minted' = minted + 1 /\ n = minted + 1
  BY <1>0
<1>1. Keeps
  BY <1>0 DEF Keeps
<1>2. req' \in [Req -> Request] /\ AllGood'
  BY <1>1, RequestMoves, IdleGood DEF IInv
<1>3. NewRow(u, n, t) \in Row /\ Issued(u, s, parent) \in Token
  <2>1. t + AccessTTL \in Nat /\ t + RefreshTTL \in Nat /\ parent \in Pair \cup {0}
    BY <1>0, TTLAssumption DEF Pair
  <2> HIDE DEF n
  <2>2. NewRow(u, n, t) \in Row
    BY <1>0, <2>1 DEF NewRow, Row
  <2>3. Issued(u, s, parent) \in Token
    BY <1>0, <2>1 DEF Issued, Token
  <2> QED
    BY <2>2, <2>3
<1>4. /\ session'[s] = NewRow(u, n, t) /\ session'[s] # None
      /\ \A x \in Pair \ {s} : session'[x] = session[x]
      /\ token'[n] = Issued(u, s, parent) /\ token'[n] # None
      /\ \A p \in Pair \ {n} : token'[p] = token[p]
  BY <1>0, <1>3
<1>5. TypeOK'
  BY <1>0, <1>2, <1>3 DEF IInv, TypeOK
<1>6. /\ NewRow(u, n, t).pair = n /\ NewRow(u, n, t).user = u
      /\ NewRow(u, n, t).accessExp = t + AccessTTL
      /\ NewRow(u, n, t).refreshExp = t + RefreshTTL
      /\ Issued(u, s, parent).user = u /\ Issued(u, s, parent).login = s
      /\ Issued(u, s, parent).parent = parent /\ Issued(u, s, parent).issued = now
  BY DEF NewRow, Issued
<1>7. Drawn'
  <2>0. \A p \in Pair : p <= minted' <=> p <= minted \/ p = n
    BY <1>0
  <2>1. \A p \in Pair : token'[p] # None <=> p <= minted'
    BY <1>4, <2>0 DEF IInv, DataInv, Drawn
  <2>2. ASSUME NEW p \in Pair, token'[p] # None
        PROVE  token'[p].parent <= minted' /\ token'[p].issued <= now'
    <3>1. CASE p = n
      BY <1>0, <1>4, <1>6, <3>1
    <3>2. CASE p # n
      <4>1. /\ token[p] \in Token
            /\ token[p].parent <= minted /\ token[p].issued <= now
        BY <1>0, <1>4, <2>2, <3>2 DEF IInv, DataInv, Drawn
      <4>2. token[p].parent \in Nat /\ token'[p] = token[p] /\ now' = now
        BY <1>4, <3>2, <4>1 DEF Token, Pair
      <4> QED
        BY <1>0, <1>n, <4>1, <4>2
    <3> QED
      BY <3>1, <3>2
  <2>3. \A p \in loggedOut' : p <= minted'
    BY <1>0 DEF IInv, DataInv, Drawn, TypeOK
  <2>4. ASSUME NEW x \in Pair, session'[x] # None
        PROVE  x <= minted' /\ session'[x].pair <= minted'
    <3>1. CASE x = s
      BY <1>0, <1>4, <1>6, <3>1
    <3>2. CASE x # s
      <4>1. session'[x] = session[x]
        BY <1>4, <3>2
      <4>2. x <= minted /\ session[x].pair <= minted
        BY <2>4, <4>1 DEF IInv, DataInv, Drawn
      <4>3. session[x].pair \in Nat /\ x \in Nat
        <5>1. session[x] \in Row
          BY <1>0, <2>4, <4>1
        <5> QED
          BY <5>1 DEF Row, Pair
      <4> QED
        BY <1>n, <4>1, <4>2, <4>3
    <3> QED
      BY <3>1, <3>2
  <2> QED
    BY <2>1, <2>2, <2>3, <2>4 DEF Drawn
<1>8. \A x \in Pair \ {s} : session[x] # None => session[x].pair \in Pair \ {n}
  <2> TAKE x \in Pair \ {s}
  <2> HAVE session[x] # None
  <2>1. session[x].pair \in Pair /\ session[x].pair <= minted
    BY <1>0 DEF IInv, DataInv, Drawn, Row
  <2>2. session[x].pair \in Nat
    BY <2>1 DEF Pair
  <2>3. session[x].pair # n
    BY <1>n, <2>1, <2>2
  <2> QED
    BY <2>1, <2>3
<1>9. Expiring'
  <2> SUFFICES ASSUME NEW x \in Pair, session'[x] # None
               PROVE  /\ session'[x].accessExp <= token'[session'[x].pair].issued + AccessTTL
                      /\ session'[x].refreshExp <= token'[session'[x].pair].issued + RefreshTTL
    BY DEF Expiring
  <2>1. CASE x = s
    <3>1. /\ session'[x].accessExp = t + AccessTTL
          /\ session'[x].refreshExp = t + RefreshTTL
          /\ token'[session'[x].pair].issued = now
      BY <1>4, <1>6, <2>1
    <3>2. /\ t \in Nat /\ now \in Nat /\ t <= now
          /\ AccessTTL \in Nat /\ RefreshTTL \in Nat
      BY <1>0, TTLAssumption
    <3>3. t + AccessTTL <= now + AccessTTL /\ t + RefreshTTL <= now + RefreshTTL
      BY <3>2
    <3> QED
      BY <3>1, <3>3
  <2>2. CASE x # s
    <3>1. session'[x] = session[x] /\ token'[session[x].pair] = token[session[x].pair]
      BY <1>4, <1>8, <2>2
    <3>2. /\ session[x].accessExp <= token[session[x].pair].issued + AccessTTL
          /\ session[x].refreshExp <= token[session[x].pair].issued + RefreshTTL
      BY <3>1 DEF IInv, DataInv, Expiring
    <3> QED
      BY <3>1, <3>2
  <2> QED
    BY <2>1, <2>2
<1>10. SessionsOwned'
  BY <1>4, <1>6 DEF IInv, DataInv, SessionsOwned
<1>11. OneSessionPerLogin'
  BY <1>4, <1>6, <1>8 DEF IInv, DataInv, OneSessionPerLogin
<1>12. \A p \in Pair \ {n} : Live(p)' => Live(p)
  BY <1>4, <1>6 DEF Live, Holds
<1>13. parent # 0 => ~Live(parent)'
  <2> SUFFICES ASSUME parent # 0, NEW x \in Pair, session'[x] # None,
                      session'[x].pair = parent
               PROVE  FALSE
    BY DEF Live, Holds
  <2>1. x # s
    BY <1>0, <1>4, <1>6
  <2>2. token[parent].login = x
    BY <1>4, <2>1 DEF IInv, DataInv, OneSessionPerLogin
  <2> QED
    BY <2>1, <2>2
<1>14. RevokedForGood'
  <2>1. ASSUME NEW p \in Pair, token'[p] # None, token'[p].parent # 0,
               NEW x \in Pair, session'[x] # None,
               session'[x].pair = token'[p].parent
        PROVE  FALSE
    <3>1. CASE p = n
      BY <1>4, <1>6, <1>13, <2>1, <3>1 DEF Live, Holds
    <3>2. CASE p # n
      <4>1. token'[p] = token[p] /\ token[p].parent \in Pair \ {n}
        BY <1>0, <1>4, <2>1, <3>2 DEF IInv, DataInv, Drawn, Token
      <4>2. ~Live(token[p].parent)
        BY <2>1, <4>1 DEF IInv, DataInv, RevokedForGood
      <4> QED
        BY <1>4, <1>6, <2>1, <4>1, <4>2 DEF Live, Holds
    <3> QED
      BY <3>1, <3>2
  <2>2. ASSUME NEW p \in loggedOut' PROVE ~Live(p)'
    <3>1. p \in Pair \ {n} /\ ~Live(p)
      BY <1>0, <2>2 DEF IInv, TypeOK, DataInv, Drawn, RevokedForGood
    <3> QED
      BY <1>12, <3>1
  <2> QED
    BY <2>1, <2>2 DEF RevokedForGood, Live, Holds
<1> QED
  BY <1>2, <1>5, <1>7, <1>9, <1>10, <1>11, <1>14 DEF IInv, DataInv

(***************************************************************************)
(* Every step preserves the invariant.                                     *)
(***************************************************************************)
LEMMA InvStep == IInv /\ [Next]_vars => IInv'
<1> SUFFICES ASSUME IInv, [Next]_vars PROVE IInv'
  OBVIOUS
<1>0. /\ TypeOK /\ Idle \in Request /\ Good(Idle)
      /\ \A r \in Req : req[r] \in Request /\ Good(req[r])
  BY IdleGood DEF IInv, TypeOK, AllGood
<1>1. CASE Tick
  <2>1. Keeps
    BY <1>0, <1>1 DEF Tick, Keeps, TypeOK
  <2>2. AllGood'
    <3> SUFFICES ASSUME NEW r \in Req PROVE Good(req[r])'
      BY DEF AllGood
    <3>1. Good(req[r]) /\ req[r] \in Request
      BY <1>0
    <3> QED
      BY <1>1, <2>1, <3>1, <1>0 DEF Good, Keeps, TypeOK, Tick, Request
  <2>3. TypeOK'
    BY <1>0, <1>1 DEF TypeOK, Tick
  <2>4. Drawn'
    BY <1>0, <1>1 DEF Tick, IInv, DataInv, Drawn, TypeOK, Token
  <2>5. Expiring' /\ SessionsOwned' /\ RevokedForGood' /\ OneSessionPerLogin'
    BY <1>1 DEF Tick, IInv, DataInv, Expiring, SessionsOwned, RevokedForGood,
                OneSessionPerLogin, Live, Holds
  <2> QED
    BY <2>2, <2>3, <2>4, <2>5 DEF IInv, DataInv
<1>2. ASSUME NEW r \in Req, Client(r) PROVE IInv'
  <2>1. ASSUME NEW pc \in {"password", "lookup", "auth"}, NEW next \in Stages,
               NEW p \in 0..minted, NEW u \in User \cup {None},
               Send(r, pc, next, p, u),
               pc # "password" => p # 0,
               pc = "auth" => next \in {"use", "logout", "revokeAll"}
        PROVE  IInv'
    <3> DEFINE q == [pc |-> pc, next |-> next, pair |-> p, user |-> u, id |-> 0,
                     at |-> 0]
    <3>1. q \in Request
      BY <1>0 DEF Request, Stages, TypeOK
    <3>2. Good(q)
      BY <1>0, <2>1 DEF Good, TypeOK
    <3>3. UNCHANGED Tables /\ req' = [req EXCEPT ![r] = q]
      BY <2>1 DEF Send, Tables
    <3> HIDE DEF q
    <3> QED
      BY <3>1, <3>2, <3>3, Frame
  <2>2. /\ {"idle", "use", "logout", "revokeAll"} \subseteq Stages
        /\ \A p \in 1..minted : p \in 0..minted /\ p # 0
        /\ 0 \in 0..minted
    BY <1>0 DEF Stages, TypeOK
  <2>3. CASE SendLogin(r)
    <3>1. PICK u \in User : Send(r, "password", "idle", 0, u)
      BY <2>3 DEF SendLogin
    <3> QED
      BY <2>1, <2>2, <3>1
  <2>4. CASE SendRefresh(r)
    <3>1. PICK p \in 1..minted : Send(r, "lookup", "idle", p, None)
      BY <2>4 DEF SendRefresh
    <3> QED
      BY <2>1, <2>2, <3>1
  <2>5. CASE SendGuarded(r)
    <3>1. PICK p \in 1..minted, next \in {"use", "logout", "revokeAll"} :
              Send(r, "auth", next, p, None)
      BY <2>5 DEF SendGuarded
    <3> QED
      BY <2>1, <2>2, <3>1
  <2> QED
    BY <1>2, <2>3, <2>4, <2>5 DEF Client
<1>3. ASSUME NEW r \in Req, UNCHANGED Tables, Answer(r) PROVE IInv'
  BY <1>0, <1>3, Frame DEF Answer
<1>4. ASSUME NEW r \in Req, PostLogin(r) PROVE IInv'
  <2>1. CASE Step(r, "insert", req[r].user, 0) /\ req[r].user \in users
    <3> DEFINE q == [pc |-> "insert", next |-> req[r].next, pair |-> req[r].pair,
                     user |-> req[r].user, id |-> 0, at |-> now]
    <3>1. q \in Request /\ Good(q)
      BY <1>0, <2>1 DEF Request, Stages, Good, TypeOK
    <3>2. UNCHANGED Tables /\ req' = [req EXCEPT ![r] = q]
      BY <1>4, <2>1 DEF PostLogin, Step, Tables
    <3> HIDE DEF q
    <3> QED
      BY <3>1, <3>2, Frame
  <2> QED
    BY <1>3, <1>4, <2>1 DEF PostLogin, Tables
<1>5. ASSUME NEW r \in Req, GetByRefreshHash(r) PROVE IInv'
  <2>1. ASSUME NEW s \in Pair, Holds(s, req[r].pair), now <= session[s].refreshExp,
               Step(r, "rotate", session[s].user, s)
        PROVE  IInv'
    <3> DEFINE q == [pc |-> "rotate", next |-> req[r].next, pair |-> req[r].pair,
                     user |-> session[s].user, id |-> s, at |-> now]
    <3>1. session[s] \in Row /\ q \in Request
      BY <1>0, <2>1 DEF Request, Stages, TypeOK, Holds, Row
    <3>2. Good(q)
      <4>1. session[s] # None /\ session[s].pair = req[r].pair
        BY <2>1 DEF Holds
      <4>2. /\ token[req[r].pair].login = s /\ token[req[r].pair].user = session[s].user
            /\ session[s].refreshExp <= token[req[r].pair].issued + RefreshTTL
        BY <4>1 DEF IInv, DataInv, OneSessionPerLogin, Expiring
      <4>3. req[r].pair \in 1..minted
        BY <1>0, <1>5 DEF GetByRefreshHash, Good
      <4>4. token[req[r].pair] # None
        BY <4>1 DEF IInv, DataInv, OneSessionPerLogin
      <4>5. req[r].pair \in Pair /\ token[req[r].pair] \in Token
        BY <1>0, <3>1, <4>1, <4>4 DEF TypeOK, Row
      <4>6. /\ now \in Nat /\ session[s].refreshExp \in Nat /\ RefreshTTL \in Nat
            /\ token[req[r].pair].issued \in Nat
        BY <1>0, <3>1, <4>5, TTLAssumption DEF TypeOK, Row, Token
      <4>7. now <= now /\ now <= token[req[r].pair].issued + RefreshTTL
        BY <2>1, <4>2, <4>6
      <4> QED
        BY <4>2, <4>3, <4>7 DEF Good
    <3>3. UNCHANGED Tables /\ req' = [req EXCEPT ![r] = q]
      BY <1>5, <2>1 DEF GetByRefreshHash, Step, Tables
    <3> HIDE DEF q
    <3> QED
      BY <3>1, <3>2, <3>3, Frame
  <2> QED
    BY <1>3, <1>5, <2>1 DEF GetByRefreshHash, Tables
<1>6. ASSUME NEW r \in Req, SessionAuth(r) PROVE IInv'
  <2>1. ASSUME NEW s \in Pair, AccessValid(s, req[r].pair),
               Step(r, req[r].next, session[s].user, s)
        PROVE  IInv'
    <3> DEFINE q == [pc |-> req[r].next, next |-> req[r].next, pair |-> req[r].pair,
                     user |-> session[s].user, id |-> s, at |-> now]
    <3>1. session[s] \in Row /\ q \in Request
      BY <1>0, <2>1 DEF Request, TypeOK, AccessValid, Holds, Row
    <3>2. Good(q)
      <4>1. /\ req[r].pair \in 1..minted
            /\ req[r].next \in {"use", "logout", "revokeAll"}
        BY <1>0, <1>6 DEF SessionAuth, Good
      <4>2. /\ session[s].pair = req[r].pair /\ now <= session[s].accessExp
            /\ token[req[r].pair] \in Token
            /\ token[req[r].pair].user = session[s].user
            /\ token[req[r].pair].login = s
            /\ session[s].accessExp <= token[req[r].pair].issued + AccessTTL
        <5>1. session[s] # None /\ session[s].pair = req[r].pair
              /\ now <= session[s].accessExp
          BY <2>1 DEF AccessValid, Holds
        <5>2. token[req[r].pair] # None /\ token[req[r].pair].user = session[s].user
              /\ token[req[r].pair].login = s
          BY <5>1 DEF IInv, DataInv, OneSessionPerLogin
        <5>3. session[s].accessExp <= token[req[r].pair].issued + AccessTTL
          BY <5>1 DEF IInv, DataInv, Expiring
        <5>4. req[r].pair \in Pair
          BY <1>0, <4>1 DEF TypeOK
        <5>5. token[req[r].pair] \in Token
          BY <1>0, <5>2, <5>4 DEF TypeOK
        <5> QED
          BY <5>1, <5>2, <5>3, <5>5
      <4>3. now <= token[req[r].pair].issued + AccessTTL
        <5>1. /\ now \in Nat /\ session[s].accessExp \in Nat
              /\ token[req[r].pair].issued \in Nat
          BY <1>0, <3>1, <4>2 DEF TypeOK, Row, Token
        <5> QED
          BY <4>2, <5>1, TTLAssumption
      <4> QED
        BY <1>0, <4>1, <4>2, <4>3 DEF Good, TypeOK
    <3>3. UNCHANGED Tables /\ req' = [req EXCEPT ![r] = q]
      BY <1>6, <2>1 DEF SessionAuth, Step, Tables
    <3> HIDE DEF q
    <3> QED
      BY <3>1, <3>2, <3>3, Frame
  <2> QED
    BY <1>3, <1>6, <2>1 DEF SessionAuth, Tables
<1>7. ASSUME NEW r \in Req, CreateSessionPair(r) PROVE IInv'
  <2>1. CASE req[r].user \in users
    <3>1. PICK t \in req[r].at..now :
              session' = [session EXCEPT
                             ![minted + 1] = NewRow(req[r].user, minted + 1, t)]
      BY <1>7, <2>1 DEF CreateSessionPair
    <3>2. t \in Nat /\ t <= now /\ minted < MaxPairs /\ minted + 1 \in Pair
          /\ 0 \in 0..minted
      BY <1>0, <1>7, <2>1 DEF CreateSessionPair, TypeOK, Request
    <3> QED
      BY <1>7, <2>1, <3>1, <3>2, Minting DEF CreateSessionPair, Answer
  <2>2. CASE req[r].user \notin users
    BY <1>3, <1>7, <2>2 DEF CreateSessionPair, Tables
  <2> QED
    BY <2>1, <2>2
<1>8. ASSUME NEW r \in Req, RotateTokens(r) PROVE IInv'
  <2> DEFINE s == req[r].id
             u == session[s].user
             parent == req[r].pair
  <2>1. CASE session[s] # None
    <3>0. /\ parent \in 1..minted /\ parent \in 0..minted /\ parent \in Pair
          /\ token[parent].login = s
      BY <1>0, <1>8 DEF RotateTokens, Good, TypeOK
    <3>1. s \in Pair
      <4>1. token[parent] \in Token
        BY <1>0, <3>0 DEF TypeOK, IInv, DataInv, Drawn
      <4> QED
        BY <3>0, <4>1 DEF Token
    <3>2. PICK t \in req[r].at..now :
              session' = [session EXCEPT ![s] = NewRow(u, minted + 1, t)]
      BY <1>8, <2>1 DEF RotateTokens
    <3>3. t \in Nat /\ t <= now /\ minted < MaxPairs
      BY <1>0, <1>8, <2>1 DEF RotateTokens, TypeOK, Request
    <3>4. u \in users
      BY <2>1, <3>1 DEF IInv, DataInv, SessionsOwned
    <3>5. /\ minted' = minted + 1
          /\ token' = [token EXCEPT ![minted + 1] = Issued(u, s, parent)]
          /\ UNCHANGED <<now, users, loggedOut>>
          /\ req' = [req EXCEPT ![r] = Idle]
      BY <1>8, <2>1, <3>0 DEF RotateTokens, Answer
    <3> HIDE DEF s, u, parent
    <3> QED
      BY <2>1, <3>0, <3>1, <3>2, <3>3, <3>4, <3>5, Minting
  <2>2. CASE session[s] = None
    BY <1>3, <1>8, <2>2 DEF RotateTokens, Tables
  <2> QED
    BY <2>1, <2>2
<1>9. ASSUME NEW r \in Req, PostLogout(r) PROVE IInv'
  <2>1. CASE UNCHANGED Tables
    BY <1>3, <1>9, <2>1 DEF PostLogout
  <2>2. CASE ~UNCHANGED Tables
    <3>1. /\ session' = [s \in Pair |-> IF Holds(s, req[r].pair) THEN None
                                        ELSE session[s]]
          /\ loggedOut' = loggedOut \cup {req[r].pair}
          /\ UNCHANGED <<now, users, minted, token>>
          /\ req' = [req EXCEPT ![r] = Idle]
      BY <1>9, <2>2 DEF PostLogout, Tables, Answer
    <3>2. req[r].pair \in 1..minted
      BY <1>0, <1>9 DEF PostLogout, Good
    <3>3. loggedOut' \subseteq 1..minted
      <4>1. loggedOut \subseteq 1..minted
        BY <1>0 DEF IInv, DataInv, Drawn, TypeOK
      <4> QED
        BY <3>1, <3>2, <4>1
    <3>4. /\ session' \in [Pair -> Row \cup {None}]
          /\ \A s \in Pair : session'[s] # None => session'[s] = session[s]
          /\ \A s \in Pair : session'[s] # None => session[s].user \in users'
      BY <1>0, <3>1 DEF TypeOK, IInv, DataInv, SessionsOwned
    <3>5. \A p \in loggedOut' : ~Live(p)'
      BY <3>1, <3>4 DEF IInv, DataInv, RevokedForGood, Live, Holds
    <3> QED
      BY <1>0, <3>1, <3>3, <3>4, <3>5, Removal
  <2> QED
    BY <2>1, <2>2
<1>11. ASSUME NEW r \in Req, RevokeAllSessions(r) PROVE IInv'
  <2> DEFINE q == [pc |-> "deleteUser", next |-> req[r].next, pair |-> req[r].pair,
                   user |-> req[r].user, id |-> req[r].id, at |-> now]
  <2>1. q \in Request /\ Good(q)
    <3>1. token[req[r].pair] \in Token /\ token[req[r].pair].user = req[r].user
      BY <1>0, <1>11 DEF RevokeAllSessions, Good, TypeOK, IInv, DataInv, Drawn
    <3>2. req[r] \in Request /\ now \in Nat /\ req[r].user \in User
      BY <1>0, <3>1 DEF TypeOK, Token
    <3>3. q \in Request
      BY <3>2 DEF Request, Stages
    <3>4. q.pc = "deleteUser" /\ q.at = now /\ q.user = req[r].user
      OBVIOUS
    <3> HIDE DEF q
    <3> QED
      BY <3>2, <3>3, <3>4 DEF Good
  <2>2. /\ UNCHANGED <<now, users, minted, token, loggedOut>>
        /\ req' = [req EXCEPT ![r] = q]
        /\ session' = WithoutUser(req[r].user) \/ session' = session
    BY <1>11 DEF RevokeAllSessions, Step
  <2> HIDE DEF q
  <2>3. /\ session' \in [Pair -> Row \cup {None}]
        /\ \A s \in Pair : session'[s] # None => session'[s] = session[s]
        /\ \A s \in Pair : session'[s] # None => session[s].user \in users'
    BY <1>0, <2>2 DEF TypeOK, WithoutUser, IInv, DataInv, SessionsOwned
  <2>4. loggedOut' \subseteq 1..minted
    BY <1>0, <2>2 DEF IInv, DataInv, Drawn, TypeOK
  <2>5. \A p \in loggedOut' : ~Live(p)'
    BY <2>2, <2>3 DEF IInv, DataInv, RevokedForGood, Live, Holds
  <2> QED
    BY <2>1, <2>2, <2>3, <2>4, <2>5, Removal
<1>12. ASSUME NEW r \in Req, DeleteUser(r) PROVE IInv'
  <2>1. /\ UNCHANGED <<now, minted, token, loggedOut>>
        /\ users' = users \ {req[r].user}
        /\ session' = WithoutUser(req[r].user)
        /\ req' = [req EXCEPT ![r] = Idle]
    BY <1>12 DEF DeleteUser, Answer
  <2>2. /\ session' \in [Pair -> Row \cup {None}]
        /\ \A s \in Pair : session'[s] # None => session'[s] = session[s]
        /\ \A s \in Pair : session'[s] # None => session[s].user \in users'
    BY <1>0, <2>1 DEF TypeOK, WithoutUser, IInv, DataInv, SessionsOwned
  <2>3. loggedOut' \subseteq 1..minted
    BY <1>0, <2>1 DEF IInv, DataInv, Drawn, TypeOK
  <2>4. \A p \in loggedOut' : ~Live(p)'
    BY <2>1, <2>2 DEF IInv, DataInv, RevokedForGood, Live, Holds
  <2> QED
    BY <1>0, <2>1, <2>2, <2>3, <2>4, Removal
<1>13. ASSUME NEW r \in Req, Use(r) \/ StatementFails(r) \/ Lose(r) PROVE IInv'
  BY <1>3, <1>13 DEF Use, StatementFails, Lose, Answer, Tables
<1>14. CASE UNCHANGED vars
  <2>1. AllGood'
    <3> SUFFICES ASSUME NEW r \in Req PROVE Good(req[r])'
      BY DEF AllGood
    <3> QED
      BY <1>0, <1>14 DEF vars, Good
  <2>2. TypeOK' /\ DataInv'
    BY <1>14 DEF vars, IInv, TypeOK, DataInv, Drawn, Expiring, SessionsOwned,
                 RevokedForGood, OneSessionPerLogin, Live, Holds
  <2> QED
    BY <2>1, <2>2 DEF IInv
<1> QED
  BY <1>1, <1>2, <1>4, <1>5, <1>6, <1>7, <1>8, <1>9, <1>11, <1>12, <1>13, <1>14
     DEF Next, Server

(***************************************************************************)
(* The theorems.                                                           *)
(***************************************************************************)

\* Every reachable state satisfies the inductive invariant.
THEOREM Invariance == Spec => []IInv
  BY InvInit, InvStep, PTL DEF Spec

\* The tables, the histories and the requests are well formed.
THEOREM TypeCorrect == Spec => []TypeOK
<1>1. IInv => TypeOK
  BY DEF IInv
<1> QED
  BY <1>1, Invariance, PTL

\* No session outlives its account.
THEOREM SessionsOwnedAlways == Spec => []SessionsOwned
<1>1. IInv => SessionsOwned
  BY DEF IInv, DataInv
<1> QED
  BY <1>1, Invariance, PTL

\* A pair that was exchanged or logged out is never accepted again.
THEOREM RevokedForGoodAlways == Spec => []RevokedForGood
<1>1. IInv => RevokedForGood
  BY DEF IInv, DataInv
<1> QED
  BY <1>1, Invariance, PTL

\* A login leads to at most one live pair, of the same account.
THEOREM OneSessionPerLoginAlways == Spec => []OneSessionPerLogin
<1>1. IInv => OneSessionPerLogin
  BY DEF IInv, DataInv
<1> QED
  BY <1>1, Invariance, PTL

\* What sessionAuth and RefreshSession let through was issued to the account they
\* act for, and has not expired.
THEOREM GrantsJustifiedAlways == Spec => []GrantsJustified
<1>1. IInv => GrantsJustified
  <2> SUFFICES ASSUME IInv, NEW r \in Req,
                      req[r].pc \in {"use", "logout", "revokeAll", "rotate"}
               PROVE  /\ token[req[r].pair] # None
                      /\ token[req[r].pair].user = req[r].user
                      /\ req[r].pc \in {"use", "logout", "revokeAll"} =>
                            req[r].at <= token[req[r].pair].issued + AccessTTL
                      /\ req[r].pc = "rotate" =>
                            req[r].at <= token[req[r].pair].issued + RefreshTTL
    BY DEF GrantsJustified
  <2>1. Good(req[r]) /\ req[r].pair \in 1..minted /\ minted \in 0..MaxPairs
    BY DEF IInv, AllGood, Good, TypeOK
  <2>2. token[req[r].pair] # None
    BY <2>1 DEF IInv, DataInv, Drawn
  <2> QED
    BY <2>1, <2>2 DEF Good
<1> QED
  BY <1>1, Invariance, PTL

\* No step recreates a session that is gone.
THEOREM GoneForGoodAlways == Spec => GoneForGood
<1> DEFINE Stays == \A s \in Pair : s <= minted /\ session[s] = None => session'[s] = None
<1>1. IInv /\ [Next]_vars => [Stays]_vars
  <2> SUFFICES ASSUME IInv, Next, NEW s \in Pair, s <= minted, session[s] = None
               PROVE  session'[s] = None
    BY DEF vars
  <2>0. TypeOK /\ minted \in Nat
    BY DEF IInv, TypeOK
  <2>1. CASE UNCHANGED session
    BY <2>1
  <2>2. ASSUME NEW r \in Req, CreateSessionPair(r) PROVE session'[s] = None
    BY <2>0, <2>2 DEF CreateSessionPair, TypeOK
  <2>3. ASSUME NEW r \in Req, RotateTokens(r) PROVE session'[s] = None
    BY <2>0, <2>3 DEF RotateTokens, TypeOK
  <2>4. ASSUME NEW r \in Req, PostLogout(r) \/ RevokeAllSessions(r) \/ DeleteUser(r)
        PROVE  session'[s] = None
    BY <2>4 DEF PostLogout, RevokeAllSessions, DeleteUser, WithoutUser
  <2> QED
    BY <2>1, <2>2, <2>3, <2>4 DEF Next, Tick, Client, SendLogin, SendRefresh,
       SendGuarded, Send, Server, PostLogin, GetByRefreshHash, SessionAuth, Use,
       StatementFails, Lose
<1> QED
  BY <1>1, Invariance, PTL DEF Spec, GoneForGood

=============================================================================
