------------------------ MODULE BrowserSessionProofs ------------------------
(***************************************************************************)
(* The cookies of a browser, for any number of tabs and calls.             *)
(*                                                                         *)
(* The pair in the jar is the one its session holds, or an answer is on    *)
(* its way that replaces it: the cleared cookies of the logout that        *)
(* deleted the session, or the new pair of the refresh that rotated it.    *)
(* What makes this inductive is that a pair still on its way is known to   *)
(* nobody: no request can carry it, so nothing can end the session it is   *)
(* for before it arrives; and that only one refresh runs at a time, so the *)
(* row a refresh has looked up still holds the pair it was looked up by,   *)
(* or is gone.                                                             *)
(***************************************************************************)
EXTENDS BrowserSession, FiniteSetTheorems, TLAPS

(***************************************************************************)
(* The invariant.                                                          *)
(***************************************************************************)
\* A call that is under way belongs to a tab; only a waiting one is on a refresh.
CallsOK ==
    \A c \in Call : /\ call[c].pc # "idle" => call[c].tab \in Tab
                    /\ call[c].on # None => call[c].pc = "waiting"
                    /\ call[c].pc \in {"sent", "logout"} => call[c].set = Keep
                    /\ call[c].pc = "answer" /\ call[c].status = 401 => call[c].set = Keep

Running(c) == refresh[c].pc # "idle"

\* refreshInFlight of a tab is the refresh one of its callers started.
FlightsOK ==
    /\ \A c \in Call : Running(c) => /\ call[c].pc = "waiting" /\ call[c].on = c
                                     /\ flight[call[c].tab] = c
    /\ \A t \in Tab : flight[t] # None => Running(flight[t]) /\ call[flight[t]].tab = t

\* No pair, and no row, is numbered beyond the pairs drawn.
Drawn ==
    /\ jar <= minted
    /\ \A s \in Pair : session[s] <= minted /\ (s > minted => session[s] = 0)
    /\ \A c \in Call : /\ call[c].cookie <= minted /\ call[c].set <= minted
                       /\ refresh[c].cookie <= minted /\ refresh[c].set <= minted
                       /\ refresh[c].id <= minted

\* Calls that may still log in, and calls that may still refresh.
CanLogin(q) ==
    /\ q.route = "login"
    /\ \/ q.pc \in {"sent", "waiting"}
       \/ q.pc = "answer" /\ q.status = 401 /\ ~q.retried

CanRetry(q) == q.pc \in {"sent", "logout", "answer"} /\ ~q.retried

MayLogin   == {c \in Call : CanLogin(call[c])}
MayRefresh == {c \in Call : CanRetry(call[c]) \/ refresh[c].pc \in {"lookup", "rotate"}}

\* Two pairs a call: the budget of MaxPairs.
Budget ==
    /\ IsFiniteSet(MayLogin) /\ IsFiniteSet(MayRefresh)
    /\ minted + Cardinality(MayLogin) + Cardinality(MayRefresh) <= 1 + 2 * begun

\* Pairs on their way to the browser.
CallBrings(c)    == call[c].pc = "answer" /\ call[c].set > 0
RefreshBrings(c) == refresh[c].pc = "answer" /\ refresh[c].set > 0

\* Nothing but the answer that brings it knows the pair p.
Unknown(p) ==
    /\ p # jar
    /\ \A d \in Call : p # call[d].cookie /\ p # refresh[d].cookie

\* One refresh at a time, and its row is as it was looked up, or gone.
OneRefresh ==
    /\ \A c, d \in Call : Running(c) /\ Running(d) => c = d
    /\ \A c \in Call : refresh[c].pc = "rotate" =>
          refresh[c].id \in Pair /\ session[refresh[c].id] \in {0, refresh[c].cookie}

\* A pair on its way is good, unknown, and comes once.
Fresh ==
    /\ \A c \in Call : /\ CallBrings(c) => Live(call[c].set) /\ Unknown(call[c].set)
                       /\ RefreshBrings(c) => Live(refresh[c].set) /\ Unknown(refresh[c].set)
    /\ \A c, d \in Call :
          /\ CallBrings(c) /\ RefreshBrings(d) => call[c].set # refresh[d].set
          /\ CallBrings(c) /\ CallBrings(d) /\ call[c].set = call[d].set => c = d

\* The pair in the jar is good, or about to be replaced.
JarOK ==
    jar # 0 =>
        \/ Live(jar)
        \/ \E c \in Call : call[c].pc = "answer" /\ call[c].set = Clear /\ call[c].cookie = jar
        \/ \E c \in Call : RefreshBrings(c) /\ refresh[c].cookie = jar

Unspoilt == OneRefresh /\ Fresh /\ JarOK

IInv == TypeOK /\ CallsOK /\ FlightsOK /\ Drawn /\ Budget /\ (~spoilt => Unspoilt)

(***************************************************************************)
(* One call, or one refresh, moves.                                        *)
(***************************************************************************)
\* The call c is replaced by q.
LEMMA CallSet ==
    ASSUME TypeOK, NEW c \in Call, NEW q \in CallState, call' = [call EXCEPT ![c] = q]
    PROVE  /\ call' \in [Call -> CallState] /\ call'[c] = q
           /\ \A d \in Call : d # c => call'[d] = call[d]
  BY DEF TypeOK

\* The refresh of c is replaced by r.
LEMMA RefreshSet ==
    ASSUME TypeOK, NEW c \in Call, NEW r \in RefreshState, refresh' = [refresh EXCEPT ![c] = r]
    PROVE  /\ refresh' \in [Call -> RefreshState] /\ refresh'[c] = r
           /\ \A d \in Call : d # c => refresh'[d] = refresh[d]
  BY DEF TypeOK

\* Pairs are numbers.
LEMMA Numbers ==
    ASSUME TypeOK
    PROVE  /\ minted \in Nat /\ jar \in Nat /\ MaxPairs \in Nat
           /\ \A s \in Pair : s \in Nat /\ session[s] \in Nat
           /\ \A c \in Call : /\ call[c].cookie \in Nat /\ call[c].set \in Int
                              /\ refresh[c].cookie \in Nat /\ refresh[c].set \in Int
                              /\ refresh[c].id \in Nat
  <1>1. MaxPairs \in Nat
    BY BrowserAssumption
  <1>2. \A c \in Call : call[c] \in CallState /\ refresh[c] \in RefreshState
    BY DEF TypeOK
  <1>3. \A c \in Call : call[c].cookie \in Nat /\ call[c].set \in Int
    BY <1>1, <1>2 DEF CallState, Keep, Cookie, SetCookie
  <1>4. \A c \in Call : refresh[c].cookie \in Nat /\ refresh[c].set \in Int /\ refresh[c].id \in Nat
    BY <1>1, <1>2 DEF RefreshState, Keep, Cookie, SetCookie
  <1> QED
    BY <1>1, <1>3, <1>4 DEF TypeOK, Pair, Cookie

\* The server is as it was: what is good stays good.
LEMMA LiveSame == ASSUME session' = session PROVE \A p : Live(p)' <=> Live(p)
  BY DEF Live

\* The pairs on their way, except x, are as good and as unknown as before.
LEMMA FreshKept ==
    ASSUME TypeOK, Fresh, NEW x,
           \A p : p # 0 /\ p # x /\ Live(p) /\ Unknown(p) => Live(p)' /\ Unknown(p)',
           \A d \in Call : CallBrings(d)' =>
               CallBrings(d) /\ call'[d].set = call[d].set /\ call[d].set # x,
           \A d \in Call : RefreshBrings(d)' =>
               RefreshBrings(d) /\ refresh'[d].set = refresh[d].set /\ refresh[d].set # x
    PROVE  Fresh'
  <1>1. \A d \in Call : (CallBrings(d) => call[d].set # 0) /\ (RefreshBrings(d) => refresh[d].set # 0)
    BY Numbers DEF CallBrings, RefreshBrings
  <1>2. ASSUME NEW d \in Call, CallBrings(d)' PROVE Live(call[d].set)' /\ Unknown(call[d].set)'
    <2>1. PICK p : p = call[d].set
      OBVIOUS
    <2>2. Live(p)' /\ Unknown(p)'
      BY <1>1, <1>2, <2>1 DEF Fresh
    <2> QED
      BY <1>2, <2>1, <2>2
  <1>3. ASSUME NEW d \in Call, RefreshBrings(d)' PROVE Live(refresh[d].set)' /\ Unknown(refresh[d].set)'
    <2>1. PICK p : p = refresh[d].set
      OBVIOUS
    <2>2. Live(p)' /\ Unknown(p)'
      BY <1>1, <1>3, <2>1 DEF Fresh
    <2> QED
      BY <1>3, <2>1, <2>2
  <1> QED
    BY <1>2, <1>3 DEF Fresh

\* A call that runs no refresh moves: the flights are as they were.
LEMMA FlightsKept ==
    ASSUME TypeOK, FlightsOK, NEW c \in Call, ~Running(c), UNCHANGED <<refresh, flight>>,
           \A d \in Call : d # c => call'[d] = call[d]
    PROVE  FlightsOK'
  <1>1. \A t \in Tab : flight[t] # None => flight[t] \in Call /\ flight[t] # c
    BY DEF FlightsOK, TypeOK
  <1>2. ASSUME NEW d \in Call, Running(d)
        PROVE  call'[d].pc = "waiting" /\ call'[d].on = d /\ flight'[call'[d].tab] = d
    BY <1>2 DEF FlightsOK
  <1>3. ASSUME NEW t \in Tab, flight[t] # None
        PROVE  Running(flight[t]) /\ call'[flight[t]].tab = t
    BY <1>1, <1>3 DEF FlightsOK
  <1> QED
    BY <1>2, <1>3 DEF FlightsOK, Running

\* A state q of call c that carries and brings no pair but the one in the jar.
Harmless(c, q) ==
    /\ q.pc # "idle" => q.tab \in Tab
    /\ q.on # None => q.pc = "waiting"
    /\ q.pc \in {"sent", "logout"} => q.set = Keep
    /\ q.pc = "answer" /\ q.status = 401 => q.set = Keep
    /\ q.cookie \in {0, jar, call[c].cookie} /\ q.set <= 0

\* A step of one call that leaves the server, the jar and the refreshes alone.
LEMMA CallStep ==
    ASSUME IInv, NEW c \in Call, NEW q \in CallState, ~Running(c), Harmless(c, q),
           call' = [call EXCEPT ![c] = q],
           UNCHANGED <<server, jar, refresh, flight>>,
           \/ spoilt' = TRUE
           \/ spoilt' = spoilt /\ ~(call[c].pc = "answer" /\ call[c].set = Clear),
           begun' \in 0..MaxCalls, Budget'
    PROVE  IInv'
  <1>t. TypeOK /\ CallsOK /\ FlightsOK /\ Drawn
    BY DEF IInv
  <1>1. /\ call' \in [Call -> CallState] /\ call'[c] = q
        /\ \A d \in Call : d # c => call'[d] = call[d]
    BY <1>t, CallSet
  <1>2. TypeOK'
    BY <1>t, <1>1 DEF TypeOK, server
  <1>3. CallsOK'
    BY <1>t, <1>1 DEF CallsOK, Harmless
  <1>4. FlightsOK'
    BY <1>t, <1>1, FlightsKept
  <1>5. Drawn'
    <2>1. q.cookie <= minted /\ q.set <= minted
      <3>1. q.set \in Int
        BY BrowserAssumption DEF CallState, Keep, SetCookie
      <3> QED
        BY <1>t, <3>1, Numbers DEF Drawn, Harmless
    <2> QED
      BY <1>t, <1>1, <2>1 DEF Drawn, server
  <1>6. ASSUME ~spoilt' PROVE Unspoilt'
    <2>1. OneRefresh /\ Fresh /\ JarOK
      BY <1>6 DEF IInv, Unspoilt
    <2>2. OneRefresh'
      BY <2>1 DEF OneRefresh, Running, server
    <2>3. \A p : Live(p)' <=> Live(p)
      BY LiveSame DEF server
    <2>4. \A p : p # 0 /\ Unknown(p) => Unknown(p)'
      BY <1>1 DEF Unknown, Harmless
    <2>5. \A d \in Call : /\ CallBrings(d)' => d # c /\ CallBrings(d) /\ call'[d] = call[d]
                          /\ RefreshBrings(d)' <=> RefreshBrings(d)
      <3>1. q.set \in Int
        BY BrowserAssumption DEF CallState, Keep, SetCookie
      <3> QED
        BY <1>1, <3>1 DEF CallBrings, RefreshBrings, Harmless
    <2>6. \A d \in Call : (CallBrings(d) => call[d].set # 0) /\ (RefreshBrings(d) => refresh[d].set # 0)
      BY <1>t, Numbers DEF CallBrings, RefreshBrings
    <2>7. Fresh'
      BY <1>t, <2>1, <2>3, <2>4, <2>5, <2>6, FreshKept
    <2>8. JarOK'
      <3>1. CASE jar = 0
        BY <3>1 DEF JarOK
      <3>2. CASE Live(jar)
        BY <2>3, <3>2 DEF JarOK
      <3>3. CASE \E d \in Call : call[d].pc = "answer" /\ call[d].set = Clear /\ call[d].cookie = jar
        BY <1>1, <1>6, <3>3 DEF JarOK
      <3>4. CASE \E d \in Call : RefreshBrings(d) /\ refresh[d].cookie = jar
        BY <2>5, <3>4 DEF JarOK
      <3> QED
        BY <2>1, <3>1, <3>2, <3>3, <3>4 DEF JarOK
    <2> QED
      BY <2>2, <2>7, <2>8 DEF Unspoilt
  <1> QED
    BY <1>2, <1>3, <1>4, <1>5, <1>6 DEF IInv

(***************************************************************************)
(* The budget of pairs.                                                    *)
(***************************************************************************)
\* Nothing more may be drawn than before.
LEMMA BudgetKept ==
    ASSUME IInv, MayLogin' \subseteq MayLogin, MayRefresh' \subseteq MayRefresh,
           UNCHANGED <<minted, begun>>
    PROVE  Budget'
  <1> DEFINE A == MayLogin
             B == MayRefresh
  <1>1. IsFiniteSet(A) /\ IsFiniteSet(B) /\ minted + Cardinality(A) + Cardinality(B) <= 1 + 2 * begun
    BY DEF IInv, Budget
  <1>2. PICK a, b : a = MayLogin' /\ b = MayRefresh'
    OBVIOUS
  <1>3. a \subseteq A /\ b \subseteq B
    BY <1>2
  <1>4. /\ IsFiniteSet(a) /\ Cardinality(a) <= Cardinality(A)
        /\ IsFiniteSet(b) /\ Cardinality(b) <= Cardinality(B)
    BY <1>1, <1>3, FS_Subset
  <1>5. /\ Cardinality(a) \in Nat /\ Cardinality(A) \in Nat
        /\ Cardinality(b) \in Nat /\ Cardinality(B) \in Nat
    BY <1>1, <1>4, FS_CardinalityType
  <1>6. minted \in Int /\ begun \in Int
    BY Numbers, BrowserAssumption DEF IInv, TypeOK
  <1> HIDE DEF A, B
  <1>7. minted + Cardinality(a) + Cardinality(b) <= 1 + 2 * begun
    BY <1>1, <1>4, <1>5, <1>6
  <1> QED
    BY <1>2, <1>4, <1>7 DEF Budget

\* c draws a pair, and may not again as long as it stays out of the set it was in.
LEMMA BudgetSpent ==
    ASSUME IInv, NEW c \in Call, MayLogin' \subseteq MayLogin, MayRefresh' \subseteq MayRefresh,
           \/ c \in MayLogin /\ c \notin MayLogin'
           \/ c \in MayRefresh /\ c \notin MayRefresh',
           begun' = begun, minted' = minted + 1
    PROVE  Budget'
  <1> DEFINE A == MayLogin
             B == MayRefresh
  <1>1. IsFiniteSet(A) /\ IsFiniteSet(B) /\ minted + Cardinality(A) + Cardinality(B) <= 1 + 2 * begun
    BY DEF IInv, Budget
  <1>2. PICK a, b : a = MayLogin' /\ b = MayRefresh'
    OBVIOUS
  <1>3. a \subseteq A /\ b \subseteq B
    BY <1>2
  <1>4. /\ IsFiniteSet(a) /\ Cardinality(a) <= Cardinality(A)
        /\ IsFiniteSet(b) /\ Cardinality(b) <= Cardinality(B)
    BY <1>1, <1>3, FS_Subset
  <1>5. /\ Cardinality(a) \in Nat /\ Cardinality(A) \in Nat
        /\ Cardinality(b) \in Nat /\ Cardinality(B) \in Nat
    BY <1>1, <1>4, FS_CardinalityType
  <1>6. minted \in Int /\ begun \in Int
    BY Numbers, BrowserAssumption DEF IInv, TypeOK
  <1>7. Cardinality(a) < Cardinality(A) \/ Cardinality(b) < Cardinality(B)
    <2>1. CASE c \in A /\ c \notin a
      <3>1. Cardinality(a) # Cardinality(A)
        BY <1>1, <1>3, <2>1, FS_Subset
      <3> QED
        BY <1>4, <1>5, <3>1
    <2>2. CASE c \in B /\ c \notin b
      <3>1. Cardinality(b) # Cardinality(B)
        BY <1>1, <1>3, <2>2, FS_Subset
      <3> QED
        BY <1>4, <1>5, <3>1
    <2> QED
      BY <1>2, <2>1, <2>2
  <1> HIDE DEF A, B
  <1>8. (minted + 1) + Cardinality(a) + Cardinality(b) <= 1 + 2 * begun
    BY <1>1, <1>4, <1>5, <1>6, <1>7
  <1> QED
    BY <1>2, <1>4, <1>8 DEF Budget

\* A call that may draw a pair finds room for it.
LEMMA Room ==
    ASSUME IInv, NEW c \in Call, c \in MayLogin \/ c \in MayRefresh
    PROVE  minted + 1 \in Pair
  <1>1. /\ IsFiniteSet(MayLogin) /\ IsFiniteSet(MayRefresh)
        /\ minted + Cardinality(MayLogin) + Cardinality(MayRefresh) <= 1 + 2 * begun
    BY DEF IInv, Budget
  <1>2. Cardinality(MayLogin) \in Nat /\ Cardinality(MayRefresh) \in Nat
    BY <1>1, FS_CardinalityType
  <1>3. Cardinality(MayLogin) # 0 \/ Cardinality(MayRefresh) # 0
    BY <1>1, FS_EmptySet
  <1>4. /\ minted \in Nat /\ begun \in 0..MaxCalls /\ MaxCalls \in Nat
        /\ MaxPairs \in Nat /\ MaxPairs > 2 * MaxCalls
    BY Numbers, BrowserAssumption DEF IInv, TypeOK
  <1>5. minted + 1 <= 1 + 2 * begun
    BY <1>1, <1>2, <1>3, <1>4
  <1> QED
    BY <1>4, <1>5 DEF Pair

\* A call that moves on without a chance it did not have before.
LEMMA CallBudget ==
    ASSUME IInv, NEW c \in Call, NEW q \in CallState, call' = [call EXCEPT ![c] = q],
           CanLogin(q) => CanLogin(call[c]), CanRetry(q) => CanRetry(call[c]),
           UNCHANGED <<refresh, minted, begun>>
    PROVE  Budget'
  <1>1. call'[c] = q /\ \A d \in Call : d # c => call'[d] = call[d]
    BY CallSet DEF IInv
  <1>2. MayLogin' \subseteq MayLogin
    BY <1>1 DEF MayLogin
  <1>3. MayRefresh' \subseteq MayRefresh
    BY <1>1 DEF MayRefresh
  <1> QED
    BY <1>2, <1>3, BudgetKept

\* A new call may draw two pairs.
LEMMA BudgetBegun ==
    ASSUME IInv, NEW c \in Call, MayLogin' \subseteq MayLogin \cup {c},
           MayRefresh' \subseteq MayRefresh \cup {c},
           minted' = minted, begun' = begun + 1
    PROVE  Budget'
  <1> DEFINE A == MayLogin
             B == MayRefresh
             Ac == MayLogin \cup {c}
             Bc == MayRefresh \cup {c}
  <1>1. IsFiniteSet(A) /\ IsFiniteSet(B) /\ minted + Cardinality(A) + Cardinality(B) <= 1 + 2 * begun
    BY DEF IInv, Budget
  <1>2. PICK a, b : a = MayLogin' /\ b = MayRefresh'
    OBVIOUS
  <1>3. a \subseteq Ac /\ b \subseteq Bc
    BY <1>2
  <1>4. /\ IsFiniteSet(Ac) /\ (Cardinality(Ac) = Cardinality(A) \/ Cardinality(Ac) = Cardinality(A) + 1)
        /\ IsFiniteSet(Bc) /\ (Cardinality(Bc) = Cardinality(B) \/ Cardinality(Bc) = Cardinality(B) + 1)
    BY <1>1, FS_AddElement
  <1>5. /\ IsFiniteSet(a) /\ Cardinality(a) <= Cardinality(Ac)
        /\ IsFiniteSet(b) /\ Cardinality(b) <= Cardinality(Bc)
    BY <1>3, <1>4, FS_Subset
  <1>6. /\ Cardinality(a) \in Nat /\ Cardinality(A) \in Nat /\ Cardinality(Ac) \in Nat
        /\ Cardinality(b) \in Nat /\ Cardinality(B) \in Nat /\ Cardinality(Bc) \in Nat
    BY <1>1, <1>4, <1>5, FS_CardinalityType
  <1>7. minted \in Int /\ begun \in Int
    BY Numbers, BrowserAssumption DEF IInv, TypeOK
  <1> HIDE DEF A, B, Ac, Bc
  <1>8. minted + Cardinality(a) + Cardinality(b) <= 1 + 2 * (begun + 1)
    BY <1>1, <1>4, <1>5, <1>6, <1>7
  <1> QED
    BY <1>2, <1>5, <1>8 DEF Budget

(***************************************************************************)
(* The calls.                                                              *)
(***************************************************************************)
\* What is needed of a call that waits for no refresh.
LEMMA NotWaiting ==
    ASSUME IInv, NEW c \in Call, call[c].pc # "waiting"
    PROVE  /\ ~Running(c) /\ call[c] \in CallState /\ call[c].on = None
           /\ call[c].pc # "idle" => call[c].tab \in Tab
  BY DEF IInv, FlightsOK, CallsOK, TypeOK

\* A call that is over.
LEMMA SettledCall ==
    /\ Settled \in CallState /\ Settled.pc = "idle" /\ Settled.on = None
    /\ Settled.cookie = 0 /\ Settled.set = Keep
    /\ ~CanLogin(Settled) /\ ~CanRetry(Settled)
  <1>1. Keep \in SetCookie /\ 0 \in Cookie /\ 0 \in Status
    BY BrowserAssumption DEF Keep, SetCookie, Cookie, Status
  <1>2. Settled \in CallState
    BY <1>1 DEF Settled, CallState
  <1> QED
    BY <1>2 DEF Settled, CanLogin, CanRetry

\* A call whose answer is on its way.
AnsweredAs(c, status, set) == [call[c] EXCEPT !.pc = "answer", !.status = status, !.set = set]

\* Answered replaces the call c alone, and keeps its cookie, tab and route.
LEMMA AnsweredCall ==
    ASSUME TypeOK, NEW c \in Call, NEW status \in Status, NEW set \in SetCookie
    PROVE  LET q == AnsweredAs(c, status, set) IN
           /\ q \in CallState /\ Answered(c, status, set) = [call EXCEPT ![c] = q]
           /\ q.pc = "answer" /\ q.status = status /\ q.set = set
           /\ q.tab = call[c].tab /\ q.route = call[c].route /\ q.cookie = call[c].cookie
           /\ q.retried = call[c].retried /\ q.on = call[c].on
  <1>1. call[c] \in CallState /\ call \in [Call -> CallState]
    BY DEF TypeOK
  <1>2. AnsweredAs(c, status, set) \in CallState
    BY <1>1 DEF CallState, AnsweredAs
  <1>3. Answered(c, status, set) = [call EXCEPT ![c] = AnsweredAs(c, status, set)]
    BY <1>1 DEF Answered, AnsweredAs, CallState
  <1> QED
    BY <1>1, <1>2, <1>3 DEF AnsweredAs, CallState

\* A new call carries the cookies of the jar and may draw two pairs.
LEMMA BeginOK ==
    ASSUME IInv, NEW c \in Call, NEW t \in Tab, NEW route \in Route, Begin(c, t, route)
    PROVE  IInv'
  <1>1. call[c].pc = "idle" /\ ~Running(c)
    BY NotWaiting DEF Begin, Settled
  <1>2. jar \in Cookie
    BY DEF IInv, TypeOK
  <1>3. PICK q : q = Sent(t, route, jar, FALSE)
    OBVIOUS
  <1>q. /\ q \in CallState /\ q.pc = "sent" /\ q.tab = t
        /\ q.on = None /\ q.cookie = jar /\ q.set = Keep
    BY <1>2, <1>3, SettledCall DEF Sent, Settled, CallState
  <1>4. call' = [call EXCEPT ![c] = q]
    BY <1>3 DEF Begin
  <1>5. call'[c] = q /\ \A d \in Call : d # c => call'[d] = call[d]
    BY <1>q, <1>4, CallSet DEF IInv
  <1>6. MayLogin' \subseteq MayLogin \cup {c}
    BY <1>5 DEF MayLogin
  <1>7. MayRefresh' \subseteq MayRefresh \cup {c}
    BY <1>5 DEF MayRefresh, Begin
  <1>8. Budget'
    BY <1>6, <1>7, BudgetBegun DEF Begin, server
  <1>9. begun' \in 0..MaxCalls /\ Keep <= 0
    BY BrowserAssumption DEF Begin, IInv, TypeOK, Keep
  <1>10. Harmless(c, q)
    BY <1>q, <1>9 DEF Harmless
  <1> QED
    BY <1>q, <1>1, <1>4, <1>8, <1>9, <1>10, CallStep DEF Begin

\* An answer without a pair.
LEMMA AnsweredOK ==
    ASSUME IInv, NEW c \in Call, NEW status \in Status, NEW set \in {Keep, Clear},
           call[c].pc \in {"sent", "logout"}, call' = Answered(c, status, set),
           status = 401 => set = Keep /\ call[c].pc = "sent",
           UNCHANGED <<server, jar, refresh, flight, begun, spoilt>>
    PROVE  IInv'
  <1>1. ~Running(c) /\ call[c].on = None /\ call[c].tab \in Tab
    BY NotWaiting
  <1>2. set \in SetCookie /\ set <= 0
    BY BrowserAssumption DEF Keep, Clear, SetCookie
  <1>3. PICK q \in CallState :
          /\ call' = [call EXCEPT ![c] = q]
          /\ q.pc = "answer" /\ q.status = status /\ q.set = set
          /\ q.tab = call[c].tab /\ q.route = call[c].route /\ q.cookie = call[c].cookie
          /\ q.retried = call[c].retried /\ q.on = call[c].on
    BY <1>2, AnsweredCall DEF IInv
  <1>4. CanLogin(q) => CanLogin(call[c])
    <2>1. CanLogin(q) => q.status = 401 /\ q.route = "login"
      BY <1>3 DEF CanLogin
    <2>2. q.status = 401 => call[c].pc = "sent"
      BY <1>3
    <2>3. call[c].pc = "sent" /\ call[c].route = "login" => CanLogin(call[c])
      BY DEF CanLogin
    <2> QED
      BY <1>3, <2>1, <2>2, <2>3
  <1>5. CanRetry(q) => CanRetry(call[c])
    BY <1>3 DEF CanRetry
  <1>6. Budget'
    <2>1. UNCHANGED <<refresh, minted, begun>> /\ call' = [call EXCEPT ![c] = q]
      BY <1>3 DEF server
    <2> QED
      BY <1>4, <1>5, <2>1, CallBudget
  <1>7. begun' \in 0..MaxCalls
    BY DEF IInv, TypeOK
  <1>8. Harmless(c, q)
    <2>1. q.status = 401 => q.set = Keep
      BY <1>3
    <2>2. q.set <= 0
      BY <1>2, <1>3
    <2> QED
      BY <1>1, <1>3, <2>1, <2>2 DEF Harmless
  <1> QED
    BY <1>1, <1>3, <1>6, <1>7, <1>8, CallStep

\* sessionAuth answers without cookies, or lets a logout go on.
LEMMA SessionAuthOK == ASSUME IInv, NEW c \in Call, SessionAuth(c) PROVE IInv'
  <1>1. UNCHANGED <<server, jar, refresh, flight, begun, spoilt>> /\ call[c].pc = "sent"
    BY DEF SessionAuth
  <1>2. CASE call' = Answered(c, 401, Keep) \/ call' = Answered(c, 200, Keep)
    BY <1>1, <1>2, AnsweredOK DEF Status
  <1>3. CASE call' = [call EXCEPT ![c].pc = "logout"] /\ call[c].route = "logout"
    <2>1. ~Running(c) /\ call[c] \in CallState /\ call[c].on = None /\ call[c].tab \in Tab
      BY <1>1, NotWaiting
    <2>2. [call[c] EXCEPT !.pc = "logout"] \in CallState
      BY <2>1 DEF CallState
    <2>3. PICK q \in CallState : q = [call[c] EXCEPT !.pc = "logout"]
      BY <2>2
    <2>4. /\ q.pc = "logout" /\ q.status = call[c].status /\ q.set = call[c].set
          /\ q.on = call[c].on /\ q.tab = call[c].tab /\ q.cookie = call[c].cookie
          /\ q.route = call[c].route /\ q.retried = call[c].retried
      BY <2>1, <2>3 DEF CallState
    <2>5. call' = [call EXCEPT ![c] = q]
      BY <1>3, <2>3
    <2>6. CanLogin(q) => CanLogin(call[c])
      BY <2>4 DEF CanLogin
    <2>7. CanRetry(q) => CanRetry(call[c])
      BY <1>1, <2>4 DEF CanRetry
    <2>8. Budget'
      BY <1>1, <2>5, <2>6, <2>7, CallBudget DEF server
    <2>9. q.set = Keep /\ q.set <= 0
      BY <1>1, <2>4 DEF IInv, CallsOK, Keep
    <2>10. begun' \in 0..MaxCalls
      BY <1>1 DEF IInv, TypeOK
    <2>11. Harmless(c, q)
      BY <2>1, <2>4, <2>9 DEF Harmless
    <2> QED
      BY <1>1, <2>1, <2>5, <2>8, <2>10, <2>11, CallStep
  <1> QED
    BY <1>2, <1>3 DEF SessionAuth

\* A failing statement is answered without cookies.
LEMMA StatementFailsOK == ASSUME IInv, NEW c \in Call, StatementFails(c) PROVE IInv'
  BY AnsweredOK DEF StatementFails, Status

\* The answer got lost.
LEMMA LoseOK == ASSUME IInv, NEW c \in Call, Lose(c) PROVE IInv'
  <1>1. ~Running(c)
    BY NotWaiting DEF Lose
  <1>2. PICK q \in CallState : q = Settled
    BY SettledCall
  <1>3. call' = [call EXCEPT ![c] = q]
    BY <1>2 DEF Lose
  <1>4. Budget'
    BY <1>2, <1>3, SettledCall, CallBudget DEF Lose, server
  <1>5. begun' \in 0..MaxCalls /\ Keep <= 0
    BY DEF Lose, IInv, TypeOK, Keep
  <1>6. Harmless(c, q)
    BY <1>2, <1>5, SettledCall DEF Harmless
  <1> QED
    BY <1>1, <1>3, <1>4, <1>5, <1>6, CallStep DEF Lose

\* A new row for a new pair takes no other pair's place.
LEMMA LiveGrows ==
    ASSUME TypeOK, Drawn, NEW m \in Pair, m = minted + 1, session' = [session EXCEPT ![m] = m]
    PROVE  /\ session' \in [Pair -> Cookie] /\ session'[m] = m /\ m # 0
           /\ \A s \in Pair : s # m => session'[s] = session[s]
           /\ Live(m)' /\ \A p : Live(p) => Live(p)'
  <1>1. session \in [Pair -> Cookie] /\ m \in Cookie /\ m # 0
    BY BrowserAssumption DEF TypeOK, Pair, Cookie
  <1>2. /\ session' \in [Pair -> Cookie] /\ session'[m] = m
        /\ \A s \in Pair : s # m => session'[s] = session[s]
    BY <1>1
  <1>3. session[m] = 0
    BY Numbers DEF Drawn
  <1> QED
    BY <1>1, <1>2, <1>3 DEF Live

\* A login brings a pair nobody knows.
LEMMA LoggedInOK ==
    ASSUME IInv, NEW c \in Call, call[c].pc = "sent", call[c].route = "login",
           minted' = minted + 1, session' = [session EXCEPT ![minted'] = minted'],
           call' = Answered(c, 200, minted'),
           UNCHANGED <<stale, jar, refresh, flight, begun, spoilt>>
    PROVE  IInv'
  <1>t. TypeOK /\ CallsOK /\ FlightsOK /\ Drawn
    BY DEF IInv
  <1>1. c \in MayLogin
    BY DEF MayLogin, CanLogin
  <1>2. PICK m \in Pair : m = minted + 1
    BY <1>1, Room
  <1>3. m \in SetCookie /\ m \in Cookie /\ m > minted /\ m > 0 /\ m <= m
    BY <1>t, <1>2, Numbers DEF SetCookie, Cookie, Pair, Keep
  <1>4. /\ session' \in [Pair -> Cookie] /\ session'[m] = m /\ m # 0
        /\ \A s \in Pair : s # m => session'[s] = session[s]
        /\ Live(m)' /\ \A p : Live(p) => Live(p)'
    BY <1>t, <1>2, LiveGrows
  <1>5. ~Running(c) /\ call[c].on = None /\ call[c].tab \in Tab
    BY NotWaiting
  <1>s. PICK ok \in Status : ok = 200 /\ ok # 401
    BY DEF Status
  <1>6. PICK q \in CallState :
          /\ call' = [call EXCEPT ![c] = q]
          /\ q.pc = "answer" /\ q.status = ok /\ q.set = m
          /\ q.tab = call[c].tab /\ q.cookie = call[c].cookie /\ q.on = call[c].on
          /\ q.retried = call[c].retried
    BY <1>t, <1>s, <1>2, <1>3, AnsweredCall
  <1>7. /\ call' \in [Call -> CallState] /\ call'[c] = q
        /\ \A d \in Call : d # c => call'[d] = call[d]
    BY <1>t, <1>6, CallSet
  <1>8. TypeOK'
    BY <1>t, <1>2, <1>3, <1>4, <1>7 DEF TypeOK
  <1>9. CallsOK'
    <2>1. q.status # 401
      BY <1>s, <1>6
    <2> QED
      BY <1>t, <1>5, <1>6, <1>7, <2>1 DEF CallsOK
  <1>10. FlightsOK'
    BY <1>t, <1>5, <1>7, FlightsKept
  <1>11. minted' = m /\ \A x \in Int : x <= minted => x <= m /\ x # m
    BY <1>t, <1>2, Numbers
  <1>12. Drawn'
    <2>1. jar <= m
      BY <1>t, <1>11, Numbers DEF Drawn
    <2>2. \A s \in Pair : session'[s] <= m /\ (s > m => session'[s] = 0)
      BY <1>t, <1>2, <1>3, <1>4, Numbers DEF Drawn
    <2>3. \A d \in Call : /\ refresh[d].cookie <= m /\ refresh[d].set <= m /\ refresh[d].id <= m
                          /\ call[d].cookie <= m /\ call[d].set <= m
      BY <1>t, <1>11, Numbers DEF Drawn
    <2>4. q.cookie <= m /\ q.set <= m
      BY <1>3, <1>6, <2>3
    <2> QED
      BY <1>7, <1>11, <2>1, <2>2, <2>3, <2>4 DEF Drawn
  <1>13. Budget'
    <2>1. ~CanLogin(q)
      BY <1>s, <1>6 DEF CanLogin
    <2>2. CanRetry(q) => CanRetry(call[c])
      BY <1>6 DEF CanRetry
    <2>3. MayLogin' \subseteq MayLogin /\ c \notin MayLogin'
      BY <1>7, <2>1 DEF MayLogin
    <2>4. MayRefresh' \subseteq MayRefresh
      BY <1>7, <2>2 DEF MayRefresh
    <2> QED
      BY <1>1, <2>3, <2>4, BudgetSpent
  <1>14. ASSUME ~spoilt' PROVE Unspoilt'
    <2>1. OneRefresh /\ Fresh /\ JarOK
      BY <1>14 DEF IInv, Unspoilt
    <2>2. OneRefresh'
      <3>1. \A d \in Call : refresh[d].id # m
        BY <1>t, <1>11, Numbers DEF Drawn
      <3> QED
        BY <1>4, <2>1, <3>1 DEF OneRefresh, Running
    <2>3. Unknown(m)'
      BY <1>t, <1>6, <1>7, <1>11, Numbers DEF Unknown, Drawn
    <2>4. \A p : Unknown(p) => Unknown(p)'
      BY <1>6, <1>7 DEF Unknown
    <2>5. Fresh'
      <3>1. ASSUME NEW d \in Call, d # c, CallBrings(d)'
            PROVE  Live(call[d].set)' /\ Unknown(call[d].set)' /\ call'[d].set # m
        <4>1. PICK p : p = call[d].set
          OBVIOUS
        <4>2. CallBrings(d) /\ call'[d].set = p
          BY <1>7, <3>1, <4>1 DEF CallBrings
        <4>3. Live(p)' /\ Unknown(p)'
          BY <1>4, <2>1, <2>4, <4>1, <4>2 DEF Fresh
        <4>4. p # m
          BY <1>t, <1>11, <4>1, Numbers DEF Drawn
        <4> QED
          BY <4>2, <4>3, <4>4
      <3>2. ASSUME NEW d \in Call, RefreshBrings(d)'
            PROVE  Live(refresh[d].set)' /\ Unknown(refresh[d].set)' /\ refresh'[d].set # m
        <4>1. PICK p : p = refresh[d].set
          OBVIOUS
        <4>2. RefreshBrings(d) /\ refresh'[d].set = p
          BY <3>2, <4>1 DEF RefreshBrings
        <4>3. Live(p)' /\ Unknown(p)'
          BY <1>4, <2>1, <2>4, <4>1, <4>2 DEF Fresh
        <4>4. p # m
          BY <1>t, <1>11, <4>1, Numbers DEF Drawn
        <4> QED
          BY <4>2, <4>3, <4>4
      <3>3. Live(call[c].set)' /\ Unknown(call[c].set)'
        BY <1>4, <1>6, <1>7, <2>3
      <3>4. \A d \in Call : /\ d # c => CallBrings(d)' = CallBrings(d)
                            /\ RefreshBrings(d)' = RefreshBrings(d)
        BY <1>7 DEF CallBrings, RefreshBrings
      <3>5. call'[c].set = m
        BY <1>6, <1>7
      <3> QED
        BY <1>7, <2>1, <3>1, <3>2, <3>3, <3>4, <3>5 DEF Fresh
    <2>6. JarOK'
      <3>1. CASE Live(jar)
        <4>1. PICK p : p = jar
          OBVIOUS
        <4>2. Live(p)'
          BY <1>4, <3>1, <4>1
        <4> QED
          BY <4>1, <4>2 DEF JarOK
      <3>2. CASE \E d \in Call : call[d].pc = "answer" /\ call[d].set = Clear /\ call[d].cookie = jar
        BY <1>7, <3>2 DEF JarOK
      <3>3. CASE \E d \in Call : RefreshBrings(d) /\ refresh[d].cookie = jar
        BY <3>3 DEF JarOK, RefreshBrings
      <3> QED
        BY <2>1, <3>1, <3>2, <3>3 DEF JarOK
    <2> QED
      BY <2>2, <2>5, <2>6 DEF Unspoilt
  <1> QED
    BY <1>8, <1>9, <1>10, <1>12, <1>13, <1>14 DEF IInv

\* A login is refused or draws a pair.
LEMMA PostLoginOK == ASSUME IInv, NEW c \in Call, PostLogin(c) PROVE IInv'
  <1>1. CASE call' = Answered(c, 401, Keep) /\ UNCHANGED <<session, minted>>
    BY <1>1, AnsweredOK DEF PostLogin, Status, server
  <1> QED
    BY <1>1, LoggedInOK DEF PostLogin

\* The DELETE of a logout ends the session of the pair it carries; the answer
\* that clears the cookies is on its way.
LEMMA LoggedOutOK ==
    ASSUME IInv, NEW c \in Call, call[c].pc = "logout",
           session' = [s \in Pair |-> IF session[s] = call[c].cookie THEN 0 ELSE session[s]],
           stale' \subseteq stale, call' = Answered(c, 200, Clear),
           UNCHANGED <<minted, jar, refresh, flight, begun, spoilt>>
    PROVE  IInv'
  <1>t. TypeOK /\ CallsOK /\ FlightsOK /\ Drawn
    BY DEF IInv
  <1>1. ~Running(c) /\ call[c].on = None /\ call[c].tab \in Tab
    BY NotWaiting
  <1>2. PICK ok \in Status : ok = 200 /\ ok # 401
    BY DEF Status
  <1>3. Clear \in SetCookie /\ Clear <= 0
    BY BrowserAssumption DEF Clear, SetCookie, Keep
  <1>4. PICK q \in CallState :
          /\ call' = [call EXCEPT ![c] = q]
          /\ q.pc = "answer" /\ q.status = ok /\ q.set = Clear
          /\ q.tab = call[c].tab /\ q.cookie = call[c].cookie /\ q.on = call[c].on
          /\ q.retried = call[c].retried
    BY <1>t, <1>2, <1>3, AnsweredCall
  <1>5. /\ call' \in [Call -> CallState] /\ call'[c] = q
        /\ \A d \in Call : d # c => call'[d] = call[d]
    BY <1>t, <1>4, CallSet
  <1>6. /\ session' \in [Pair -> Cookie]
        /\ \A s \in Pair : \/ session'[s] = session[s] /\ session[s] # call[c].cookie
                           \/ session'[s] = 0
    <2>1. 0 \in Cookie
      BY BrowserAssumption DEF Cookie
    <2> QED
      BY <1>t, <2>1 DEF TypeOK
  <1>7. \A p : p # call[c].cookie /\ Live(p) => Live(p)'
    BY DEF Live
  <1>8. TypeOK'
    BY <1>t, <1>5, <1>6 DEF TypeOK
  <1>9. CallsOK'
    <2>1. q.status # 401
      BY <1>2, <1>4
    <2> QED
      BY <1>t, <1>1, <1>4, <1>5, <2>1 DEF CallsOK
  <1>10. FlightsOK'
    BY <1>t, <1>1, <1>5, FlightsKept
  <1>11. Drawn'
    <2>1. Clear <= minted /\ 0 <= minted
      BY <1>t, Numbers DEF Clear
    <2>2. \A s \in Pair : session'[s] <= minted /\ (s > minted => session'[s] = 0)
      BY <1>t, <1>6, <2>1 DEF Drawn
    <2> QED
      BY <1>t, <1>4, <1>5, <2>1, <2>2 DEF Drawn
  <1>12. Budget'
    <2>1. ~CanLogin(q)
      BY <1>2, <1>4 DEF CanLogin
    <2>2. CanRetry(q) => CanRetry(call[c])
      BY <1>4 DEF CanRetry
    <2> QED
      BY <1>4, <2>1, <2>2, CallBudget
  <1>13. ASSUME ~spoilt' PROVE Unspoilt'
    <2>1. OneRefresh /\ Fresh /\ JarOK
      BY <1>13 DEF IInv, Unspoilt
    <2>2. OneRefresh'
      BY <1>6, <2>1 DEF OneRefresh, Running
    <2>3. \A p : Unknown(p) => Unknown(p)' /\ p # call[c].cookie
      BY <1>4, <1>5 DEF Unknown
    <2>4. ~CallBrings(c)'
      BY <1>4, <1>5 DEF CallBrings, Clear
    <2>5. Fresh'
      <3>1. \A p : p # 0 /\ p # 0 /\ Live(p) /\ Unknown(p) => Live(p)' /\ Unknown(p)'
        BY <1>7, <2>3
      <3>2. \A d \in Call : CallBrings(d)' =>
               CallBrings(d) /\ call'[d].set = call[d].set /\ call[d].set # 0
        BY <1>t, <1>5, <2>4, Numbers DEF CallBrings
      <3>3. \A d \in Call : RefreshBrings(d)' =>
               RefreshBrings(d) /\ refresh'[d].set = refresh[d].set /\ refresh[d].set # 0
        BY <1>t, Numbers DEF RefreshBrings
      <3> QED
        BY <1>t, <2>1, <3>1, <3>2, <3>3, FreshKept
    <2>6. JarOK'
      <3>1. CASE Live(jar) /\ jar # call[c].cookie
        <4>1. PICK p : p = jar
          OBVIOUS
        <4>2. Live(p)'
          BY <1>7, <3>1, <4>1
        <4> QED
          BY <4>1, <4>2 DEF JarOK
      <3>2. CASE jar = call[c].cookie
        BY <1>4, <1>5, <3>2 DEF JarOK
      <3>3. CASE \E d \in Call : call[d].pc = "answer" /\ call[d].set = Clear /\ call[d].cookie = jar
        BY <1>5, <3>3 DEF JarOK
      <3>4. CASE \E d \in Call : RefreshBrings(d) /\ refresh[d].cookie = jar
        BY <3>4 DEF JarOK, RefreshBrings
      <3> QED
        BY <2>1, <3>1, <3>2, <3>3, <3>4 DEF JarOK
    <2> QED
      BY <2>2, <2>5, <2>6 DEF Unspoilt
  <1> QED
    BY <1>8, <1>9, <1>10, <1>11, <1>12, <1>13 DEF IInv

\* A logout clears the cookies, whether its DELETE succeeds or not.
LEMMA PostLogoutOK == ASSUME IInv, NEW c \in Call, PostLogout(c) PROVE IInv'
  <1>1. CASE UNCHANGED <<session, stale>>
    BY <1>1, AnsweredOK DEF PostLogout, Status, server
  <1> QED
    BY <1>1, LoggedOutOK DEF PostLogout

\* The cookies of an answer arrive and the call is over.
LEMMA DeliveredOK ==
    ASSUME IInv, NEW c \in Call, call[c].pc = "answer", jar' = Cookies(call[c].set),
           call' = [call EXCEPT ![c] = Settled],
           UNCHANGED <<server, refresh, flight, begun, spoilt>>
    PROVE  IInv'
  <1>t. TypeOK /\ CallsOK /\ FlightsOK /\ Drawn
    BY DEF IInv
  <1>1. ~Running(c)
    BY NotWaiting
  <1>2. PICK q \in CallState : q = Settled
    BY SettledCall
  <1>3. call' = [call EXCEPT ![c] = q]
    BY <1>2
  <1>4. Budget'
    BY <1>2, <1>3, SettledCall, CallBudget DEF server
  <1>5. begun' \in 0..MaxCalls /\ Keep <= 0
    BY <1>t DEF TypeOK, Keep
  <1>6. CASE call[c].set = Keep
    <2>1. Harmless(c, q)
      BY <1>2, <1>5, SettledCall DEF Harmless
    <2>2. jar' = jar /\ call[c].set # Clear
      BY <1>6 DEF Cookies, Keep, Clear
    <2> QED
      BY <1>1, <1>3, <1>4, <1>5, <2>1, <2>2, CallStep
  <1>7. CASE call[c].set # Keep
    <2>1. PICK x \in Cookie : x = call[c].set
      <3>1. call[c].set \in SetCookie
        BY <1>t DEF TypeOK, CallState
      <3> QED
        BY <1>7, <3>1, BrowserAssumption DEF SetCookie, Cookie, Keep
    <2>2. jar' = x
      BY <1>7, <2>1 DEF Cookies
    <2>3. /\ call' \in [Call -> CallState] /\ call'[c] = q
          /\ \A d \in Call : d # c => call'[d] = call[d]
      BY <1>t, <1>3, CallSet
    <2>4. /\ q.pc = "idle" /\ q.on = None /\ q.cookie = 0 /\ q.set = Keep
      BY <1>2, SettledCall
    <2>5. TypeOK'
      BY <1>t, <2>2, <2>3 DEF TypeOK, server
    <2>6. CallsOK'
      BY <1>t, <2>3, <2>4 DEF CallsOK
    <2>7. FlightsOK'
      BY <1>t, <1>1, <2>3, FlightsKept
    <2>8. Drawn'
      <3>1. Keep <= minted /\ 0 <= minted /\ x <= minted
        BY <1>t, <2>1, Numbers DEF Drawn, Keep
      <3> QED
        BY <1>t, <2>2, <2>3, <2>4, <3>1 DEF Drawn, server
    <2>9. ASSUME ~spoilt' PROVE Unspoilt'
      <3>1. OneRefresh /\ Fresh /\ JarOK
        BY <2>9 DEF IInv, Unspoilt
      <3>2. OneRefresh'
        BY <3>1 DEF OneRefresh, Running, server
      <3>3. \A p : Live(p)' <=> Live(p)
        BY LiveSame DEF server
      <3>4. \A p : p # 0 /\ p # x /\ Live(p) /\ Unknown(p) => Live(p)' /\ Unknown(p)'
        BY <2>2, <2>3, <2>4, <3>3 DEF Unknown
      <3>5. x # 0 => CallBrings(c)
        BY <2>1, BrowserAssumption DEF CallBrings, Cookie
      <3>6. \A d \in Call : (CallBrings(d) => call[d].set # 0) /\ (RefreshBrings(d) => refresh[d].set # 0)
        BY <1>t, Numbers DEF CallBrings, RefreshBrings
      <3>7. ~CallBrings(c)'
        BY <2>3, <2>4 DEF CallBrings
      <3>8. \A d \in Call : CallBrings(d)' =>
               CallBrings(d) /\ call'[d].set = call[d].set /\ call[d].set # x
        <4>1. \A d \in Call : CallBrings(d)' => d # c /\ CallBrings(d) /\ call'[d].set = call[d].set
          BY <2>3, <3>7 DEF CallBrings
        <4> QED
          BY <2>1, <3>1, <3>5, <3>6, <4>1 DEF Fresh
      <3>9. \A d \in Call : RefreshBrings(d)' =>
               RefreshBrings(d) /\ refresh'[d].set = refresh[d].set /\ refresh[d].set # x
        <4>1. \A d \in Call : RefreshBrings(d)' => RefreshBrings(d) /\ refresh'[d].set = refresh[d].set
          BY DEF RefreshBrings
        <4> QED
          BY <2>1, <3>1, <3>5, <3>6, <4>1 DEF Fresh
      <3>10. Fresh'
        BY <1>t, <3>1, <3>4, <3>8, <3>9, FreshKept
      <3>11. JarOK'
        <4>1. x # 0 => Live(x)
          BY <2>1, <3>1, <3>5 DEF Fresh
        <4>2. x # 0 => Live(x)'
          BY <3>3, <4>1
        <4> QED
          BY <2>2, <4>2 DEF JarOK
      <3> QED
        BY <3>2, <3>10, <3>11 DEF Unspoilt
    <2> QED
      BY <1>4, <2>5, <2>6, <2>7, <2>8, <2>9 DEF IInv
  <1> QED
    BY <1>6, <1>7

\* A caller that waits for the refresh of d.
WaitingAs(c, d) == [call[c] EXCEPT !.pc = "waiting", !.on = d]
Waiting(c, d)   == [call EXCEPT ![c].pc = "waiting", ![c].on = d]

\* A call whose first answer was a 401 waits, and has used up its one retry.
LEMMA WaitingCall ==
    ASSUME TypeOK, NEW c \in Call, NEW d \in Call, Retries(c), call[c].pc = "answer",
           NEW q, q = WaitingAs(c, d)
    PROVE  /\ q \in CallState /\ Waiting(c, d) = [call EXCEPT ![c] = q]
           /\ q.pc = "waiting" /\ q.on = d /\ q.tab = call[c].tab
           /\ q.cookie = call[c].cookie /\ q.set = call[c].set
           /\ CanLogin(q) => CanLogin(call[c])
           /\ ~CanRetry(q) /\ CanRetry(call[c])
  <1>1. call[c] \in CallState /\ call \in [Call -> CallState]
    BY DEF TypeOK
  <1>2. q \in CallState
    BY <1>1 DEF CallState, WaitingAs
  <1>3. /\ q.pc = "waiting" /\ q.on = d /\ q.tab = call[c].tab /\ q.route = call[c].route
        /\ q.cookie = call[c].cookie /\ q.set = call[c].set
    BY <1>1 DEF CallState, WaitingAs
  <1>4. Waiting(c, d) = [call EXCEPT ![c] = q]
    BY <1>1 DEF CallState, Waiting, WaitingAs
  <1>5. CanLogin(q) => CanLogin(call[c])
    BY <1>3 DEF CanLogin, Retries
  <1>6. ~CanRetry(q) /\ CanRetry(call[c])
    BY <1>3 DEF CanRetry, Retries
  <1> QED
    BY <1>2, <1>3, <1>4, <1>5, <1>6

\* A caller joins the refresh of its tab.
LEMMA JoinOK ==
    ASSUME IInv, NEW c \in Call, call[c].pc = "answer", Retries(c), jar' = jar,
           flight[call[c].tab] # None,
           call' = [call EXCEPT ![c].pc = "waiting", ![c].on = flight[call[c].tab]],
           UNCHANGED <<server, refresh, flight, begun, spoilt>>
    PROVE  IInv'
  <1>1. ~Running(c) /\ call[c].tab \in Tab
    BY NotWaiting
  <1>2. PICK d \in Call : d = flight[call[c].tab]
    BY <1>1 DEF IInv, TypeOK
  <1>3. PICK q : q = WaitingAs(c, d)
    OBVIOUS
  <1>4. /\ q \in CallState /\ q.pc = "waiting" /\ q.on = d /\ q.tab = call[c].tab
        /\ q.cookie = call[c].cookie /\ q.set = call[c].set /\ call' = [call EXCEPT ![c] = q]
        /\ (CanLogin(q) => CanLogin(call[c])) /\ ~CanRetry(q)
    <2>1. TypeOK /\ call' = Waiting(c, d)
      BY <1>2 DEF IInv, Waiting
    <2>2. /\ q \in CallState /\ Waiting(c, d) = [call EXCEPT ![c] = q]
          /\ q.pc = "waiting" /\ q.on = d /\ q.tab = call[c].tab
          /\ q.cookie = call[c].cookie /\ q.set = call[c].set
          /\ CanLogin(q) => CanLogin(call[c])
          /\ ~CanRetry(q) /\ CanRetry(call[c])
      BY <1>3, <2>1, WaitingCall
    <2> QED
      BY <2>1, <2>2
  <1>5. call[c].set = Keep
    BY DEF IInv, CallsOK, Retries
  <1>6. Keep <= 0 /\ Keep # Clear /\ begun' \in 0..MaxCalls
    BY DEF Keep, Clear, IInv, TypeOK
  <1>7. Harmless(c, q)
    BY <1>1, <1>4, <1>5, <1>6 DEF Harmless
  <1>8. Budget'
    BY <1>4, CallBudget DEF server
  <1> QED
    BY <1>1, <1>4, <1>5, <1>6, <1>7, <1>8, CallStep

\* A caller starts the refresh of its tab.
LEMMA StartOK ==
    ASSUME IInv, NEW c \in Call, call[c].pc = "answer", Retries(c), jar' = jar,
           flight[call[c].tab] = None,
           refresh' = [refresh EXCEPT ![c] = [NoRefresh EXCEPT !.pc = "lookup", !.cookie = jar]],
           flight' = [flight EXCEPT ![call[c].tab] = c],
           call' = [call EXCEPT ![c].pc = "waiting", ![c].on = c],
           spoilt' = (spoilt \/ Overlap(call[c].tab)), UNCHANGED <<server, begun>>
    PROVE  IInv'
  <1>t. TypeOK /\ CallsOK /\ FlightsOK /\ Drawn
    BY DEF IInv
  <1>1. ~Running(c) /\ call[c].tab \in Tab
    BY NotWaiting
  <1>2. PICK t \in Tab : t = call[c].tab
    BY <1>1
  <1>3. PICK q : q = WaitingAs(c, c)
    OBVIOUS
  <1>4. /\ q \in CallState /\ q.pc = "waiting" /\ q.on = c /\ q.tab = t
        /\ q.cookie = call[c].cookie /\ q.set = call[c].set /\ call' = [call EXCEPT ![c] = q]
        /\ (CanLogin(q) => CanLogin(call[c])) /\ ~CanRetry(q) /\ CanRetry(call[c])
    <2>1. call' = Waiting(c, c)
      BY DEF Waiting
    <2>2. /\ q \in CallState /\ Waiting(c, c) = [call EXCEPT ![c] = q]
          /\ q.pc = "waiting" /\ q.on = c /\ q.tab = call[c].tab
          /\ q.cookie = call[c].cookie /\ q.set = call[c].set
          /\ CanLogin(q) => CanLogin(call[c])
          /\ ~CanRetry(q) /\ CanRetry(call[c])
      BY <1>t, <1>3, WaitingCall
    <2> QED
      BY <1>2, <2>1, <2>2
  <1>5. /\ call' \in [Call -> CallState] /\ call'[c] = q
        /\ \A d \in Call : d # c => call'[d] = call[d]
    BY <1>t, <1>4, CallSet
  <1>6. PICK r \in RefreshState :
          /\ refresh' = [refresh EXCEPT ![c] = r] /\ r.pc = "lookup" /\ r.cookie = jar
          /\ r.set = Keep /\ r.id = 0
    <2>1. Keep \in SetCookie /\ 0 \in Cookie /\ jar \in Cookie
      BY <1>t, BrowserAssumption DEF Keep, SetCookie, Cookie, TypeOK
    <2> DEFINE r == [NoRefresh EXCEPT !.pc = "lookup", !.cookie = jar]
    <2>2. r \in RefreshState /\ r.pc = "lookup" /\ r.cookie = jar /\ r.set = Keep /\ r.id = 0
      BY <2>1 DEF NoRefresh, RefreshState
    <2>3. refresh' = [refresh EXCEPT ![c] = r]
      OBVIOUS
    <2> HIDE DEF r
    <2> QED
      BY <2>2, <2>3
  <1>7. /\ refresh' \in [Call -> RefreshState] /\ refresh'[c] = r
        /\ \A d \in Call : d # c => refresh'[d] = refresh[d]
    BY <1>t, <1>6, RefreshSet
  <1>8. /\ flight' \in [Tab -> Call \cup {None}] /\ flight'[t] = c
        /\ \A u \in Tab : u # t => flight'[u] = flight[u]
    BY <1>t, <1>2 DEF TypeOK
  <1>9. TypeOK'
    BY <1>t, <1>5, <1>7, <1>8 DEF TypeOK, server
  <1>10. CallsOK'
    BY <1>t, <1>4, <1>5 DEF CallsOK
  <1>11. \A d \in Call : Running(d)' <=> d = c \/ Running(d)
    BY <1>6, <1>7 DEF Running
  <1>12. FlightsOK'
    <2>1. c # None
      BY BrowserAssumption
    <2>2. ASSUME NEW d \in Call, d # c, Running(d)
          PROVE  call'[d].pc = "waiting" /\ call'[d].on = d /\ flight'[call'[d].tab] = d
      <3>1. /\ call[d].pc = "waiting" /\ call[d].on = d /\ flight[call[d].tab] = d
            /\ call[d].tab \in Tab /\ d # None
        BY <1>t, <2>2, BrowserAssumption DEF FlightsOK, CallsOK
      <3>2. call[d].tab # t
        BY <1>2, <3>1
      <3> QED
        BY <1>5, <1>8, <2>2, <3>1, <3>2
    <2>3. ASSUME NEW u \in Tab, u # t, flight[u] # None
          PROVE  flight[u] \in Call /\ flight[u] # c /\ Running(flight[u]) /\ call[flight[u]].tab = u
      BY <1>t, <1>1, <2>3 DEF FlightsOK, TypeOK
    <2>4. ASSUME NEW u \in Tab, flight'[u] # None
          PROVE  refresh'[flight'[u]].pc # "idle" /\ call'[flight'[u]].tab = u
      <3>1. CASE u = t
        BY <1>4, <1>5, <1>6, <1>7, <1>8, <3>1
      <3>2. CASE u # t
        BY <1>5, <1>7, <1>8, <2>3, <2>4, <3>2 DEF Running
      <3> QED
        BY <3>1, <3>2
    <2>5. ASSUME NEW d \in Call, refresh'[d].pc # "idle"
          PROVE  call'[d].pc = "waiting" /\ call'[d].on = d /\ flight'[call'[d].tab] = d
      <3>1. CASE d = c
        BY <1>4, <1>5, <1>8, <3>1
      <3>2. CASE d # c
        BY <1>7, <2>2, <2>5, <3>2 DEF Running
      <3> QED
        BY <3>1, <3>2
    <2> QED
      BY <2>4, <2>5 DEF FlightsOK, Running
  <1>13. Drawn'
    <2>1. Keep <= minted /\ 0 <= minted
      BY <1>t, Numbers DEF Keep
    <2>2. \A d \in Call : call'[d].cookie <= minted /\ call'[d].set <= minted
      BY <1>t, <1>4, <1>5 DEF Drawn
    <2>3. r.cookie <= minted /\ r.set <= minted /\ r.id <= minted
      BY <1>t, <1>6, <2>1 DEF Drawn
    <2>4. \A d \in Call : /\ refresh'[d].cookie <= minted /\ refresh'[d].set <= minted
                          /\ refresh'[d].id <= minted
      BY <1>t, <1>7, <2>3 DEF Drawn
    <2> QED
      BY <1>t, <2>2, <2>4 DEF Drawn, server
  <1>14. Budget'
    <2>1. MayLogin' \subseteq MayLogin
      BY <1>4, <1>5 DEF MayLogin
    <2>2. MayRefresh' \subseteq MayRefresh
      BY <1>4, <1>5, <1>7 DEF MayRefresh
    <2> QED
      BY <2>1, <2>2, BudgetKept DEF server
  <1>15. ASSUME ~spoilt' PROVE Unspoilt'
    <2>1. ~spoilt /\ OneRefresh /\ Fresh /\ JarOK
      BY <1>15 DEF IInv, Unspoilt
    <2>2. \A d \in Call : ~Running(d)
      <3> SUFFICES ASSUME NEW d \in Call, Running(d) PROVE FALSE
        OBVIOUS
      <3>1. call[d].tab \in Tab /\ flight[call[d].tab] = d /\ d # None
        BY <1>t, BrowserAssumption DEF FlightsOK, CallsOK
      <3>2. call[d].tab # t
        BY <1>2, <3>1
      <3> QED
        BY <1>2, <1>15, <3>1, <3>2 DEF Overlap
    <2>3. OneRefresh'
      BY <1>6, <1>7, <1>11, <2>2 DEF OneRefresh, Running, server
    <2>4. \A p : Live(p)' <=> Live(p)
      BY LiveSame DEF server
    <2>5. \A p : Unknown(p) => Unknown(p)'
      BY <1>4, <1>5, <1>6, <1>7 DEF Unknown
    <2>6. \A d \in Call : ~RefreshBrings(d) /\ ~RefreshBrings(d)'
      BY <1>6, <1>7, <2>2 DEF Running, RefreshBrings
    <2>7. \A d \in Call : CallBrings(d)' => CallBrings(d) /\ call'[d].set = call[d].set
                                            /\ call[d].set # 0
      BY <1>t, <1>4, <1>5, Numbers DEF CallBrings
    <2>8. Fresh'
      BY <1>t, <2>1, <2>4, <2>5, <2>6, <2>7, FreshKept
    <2>9. JarOK'
      <3>1. call[c].set = Keep /\ Keep # Clear
        BY <1>t DEF CallsOK, Retries, Keep, Clear
      <3>2. CASE Live(jar)
        BY <2>4, <3>2 DEF JarOK
      <3>3. CASE \E d \in Call : call[d].pc = "answer" /\ call[d].set = Clear /\ call[d].cookie = jar
        BY <1>5, <3>1, <3>3 DEF JarOK
      <3> QED
        BY <2>1, <2>6, <3>2, <3>3 DEF JarOK
    <2> QED
      BY <2>3, <2>8, <2>9 DEF Unspoilt
  <1> QED
    BY <1>9, <1>10, <1>12, <1>13, <1>14, <1>15 DEF IInv

\* fetchWithAuth, at the arrival of an answer: over, joins a refresh, or starts one.
LEMMA DeliverOK == ASSUME IInv, NEW c \in Call, Deliver(c) PROVE IInv'
  <1>1. CASE ~Retries(c)
    BY <1>1, DeliveredOK DEF Deliver
  <1>2. CASE Retries(c)
    <2>1. jar' = jar
      BY <1>2 DEF Deliver, Retries, Cookies, IInv, CallsOK
    <2>2. CASE flight[call[c].tab] = None
      BY <1>2, <2>1, <2>2, StartOK DEF Deliver, RefreshSession
    <2>3. CASE flight[call[c].tab] # None
      BY <1>2, <2>1, <2>3, JoinOK DEF Deliver, RefreshSession
    <2> QED
      BY <2>2, <2>3
  <1> QED
    BY <1>1, <1>2

(***************************************************************************)
(* The refreshes.                                                          *)
(***************************************************************************)
\* A refresh that runs is the only thing its caller does.
LEMMA Runs ==
    ASSUME IInv, NEW c \in Call, refresh[c].pc # "idle"
    PROVE  /\ Running(c) /\ refresh[c] \in RefreshState /\ call[c].pc = "waiting"
           /\ call[c].on = c /\ call[c].tab \in Tab /\ flight[call[c].tab] = c
           /\ c # None /\ ~CanRetry(call[c])
  BY BrowserAssumption DEF IInv, FlightsOK, CallsOK, TypeOK, Running, CanRetry

\* A refresh that goes on and brings no pair.
RefreshHarmless(c, r) ==
    /\ r.pc \in {"rotate", "answer"} /\ r.cookie = refresh[c].cookie
    /\ r.set <= minted /\ r.id <= minted
    /\ r.pc = "answer" => r.set <= 0
    /\ r.pc = "rotate" => r.id \in Pair /\ session[r.id] \in {0, r.cookie}

\* A step of one refresh that leaves the server and the calls alone.
LEMMA RefreshStep ==
    ASSUME IInv, NEW c \in Call, NEW r \in RefreshState, refresh[c].pc \in {"lookup", "rotate"},
           RefreshHarmless(c, r), refresh' = [refresh EXCEPT ![c] = r],
           UNCHANGED <<server, jar, call, flight, begun, spoilt>>
    PROVE  IInv'
  <1>t. TypeOK /\ CallsOK /\ FlightsOK /\ Drawn
    BY DEF IInv
  <1>1. /\ refresh' \in [Call -> RefreshState] /\ refresh'[c] = r
        /\ \A d \in Call : d # c => refresh'[d] = refresh[d]
    BY <1>t, RefreshSet
  <1>2. \A d \in Call : Running(d)' <=> Running(d)
    BY <1>1 DEF Running, RefreshHarmless
  <1>3. TypeOK'
    BY <1>t, <1>1 DEF TypeOK, server
  <1>4. CallsOK'
    BY <1>t DEF CallsOK
  <1>5. FlightsOK'
    <2>1. \A t \in Tab : flight[t] # None => flight[t] \in Call
      BY <1>t DEF TypeOK
    <2> QED
      BY <1>t, <1>2, <2>1 DEF FlightsOK, Running
  <1>6. Drawn'
    <2>1. r.set \in Int
      BY BrowserAssumption DEF RefreshState, Keep, SetCookie
    <2>2. r.cookie <= minted /\ r.set <= minted /\ r.id <= minted
      BY <1>t, <2>1, Numbers DEF Drawn, RefreshHarmless
    <2> QED
      BY <1>t, <1>1, <2>2 DEF Drawn, server
  <1>7. Budget'
    <2>1. MayLogin' \subseteq MayLogin
      BY DEF MayLogin
    <2>2. MayRefresh' \subseteq MayRefresh
      BY <1>1 DEF MayRefresh
    <2> QED
      BY <2>1, <2>2, BudgetKept DEF server
  <1>8. ASSUME ~spoilt' PROVE Unspoilt'
    <2>1. OneRefresh /\ Fresh /\ JarOK
      BY <1>8 DEF IInv, Unspoilt
    <2>2. OneRefresh'
      <3>1. \A a, b \in Call : Running(a)' /\ Running(b)' => a = b
        BY <1>2, <2>1 DEF OneRefresh
      <3>2. \A d \in Call : refresh'[d].pc = "rotate" =>
              refresh'[d].id \in Pair /\ session[refresh'[d].id] \in {0, refresh'[d].cookie}
        BY <1>1, <2>1 DEF OneRefresh, RefreshHarmless
      <3> QED
        BY <3>1, <3>2 DEF OneRefresh, server
    <2>3. \A p : Live(p)' <=> Live(p)
      BY LiveSame DEF server
    <2>4. \A p : Unknown(p) => Unknown(p)'
      BY <1>1 DEF Unknown, RefreshHarmless
    <2>5. \A d \in Call : RefreshBrings(d)' <=> d # c /\ RefreshBrings(d)
      <3>1. r.set \in Int
        BY BrowserAssumption DEF RefreshState, Keep, SetCookie
      <3> QED
        BY <1>1, <3>1 DEF RefreshBrings, RefreshHarmless
    <2>6. \A d \in Call : (CallBrings(d) => call[d].set # 0) /\ (RefreshBrings(d) => refresh[d].set # 0)
      BY <1>t, Numbers DEF CallBrings, RefreshBrings
    <2>7. Fresh'
      <3>1. \A d \in Call : CallBrings(d)' => CallBrings(d)
        BY DEF CallBrings
      <3> QED
        BY <1>t, <1>1, <2>1, <2>3, <2>4, <2>5, <2>6, <3>1, FreshKept
    <2>8. JarOK'
      <3>1. CASE jar = 0
        BY <3>1 DEF JarOK
      <3>2. CASE Live(jar)
        BY <2>3, <3>2 DEF JarOK
      <3>3. CASE \E d \in Call : call[d].pc = "answer" /\ call[d].set = Clear /\ call[d].cookie = jar
        BY <3>3 DEF JarOK
      <3>4. CASE \E d \in Call : RefreshBrings(d) /\ refresh[d].cookie = jar
        <4>1. ~RefreshBrings(c)
          BY DEF RefreshBrings
        <4> QED
          BY <1>1, <2>5, <3>4, <4>1 DEF JarOK
      <3> QED
        BY <2>1, <3>1, <3>2, <3>3, <3>4 DEF JarOK
    <2> QED
      BY <2>2, <2>7, <2>8 DEF Unspoilt
  <1> QED
    BY <1>3, <1>4, <1>5, <1>6, <1>7, <1>8 DEF IInv

\* A refresh whose answer is on its way.
RefreshAs(c, ok, set) == [refresh[c] EXCEPT !.pc = "answer", !.ok = ok, !.set = set]

\* A refresh that is refused, or fails.
LEMMA RefusedOK ==
    ASSUME IInv, NEW c \in Call, NEW set \in {Keep, Clear}, refresh[c].pc \in {"lookup", "rotate"},
           refresh' = RefreshAnswered(c, FALSE, set),
           UNCHANGED <<server, jar, call, flight, begun, spoilt>>
    PROVE  IInv'
  <1>1. refresh[c] \in RefreshState /\ refresh \in [Call -> RefreshState]
    BY DEF IInv, TypeOK
  <1>2. set \in SetCookie /\ set <= 0
    BY BrowserAssumption DEF SetCookie, Keep, Clear
  <1>3. PICK r : r = RefreshAs(c, FALSE, set)
    OBVIOUS
  <1>4. r \in RefreshState
    BY <1>1, <1>2, <1>3 DEF RefreshState, RefreshAs
  <1>5. /\ r \in RefreshState /\ refresh' = [refresh EXCEPT ![c] = r]
        /\ r.pc = "answer" /\ r.set = set /\ r.cookie = refresh[c].cookie
        /\ r.id = refresh[c].id
    BY <1>1, <1>3, <1>4 DEF RefreshAnswered, RefreshAs, RefreshState
  <1>6. RefreshHarmless(c, r)
    <2>1. refresh[c].id <= minted /\ set <= minted
      BY <1>2, Numbers DEF IInv, Drawn, Keep, Clear
    <2> QED
      BY <1>2, <1>5, <2>1 DEF RefreshHarmless
  <1> QED
    BY <1>5, <1>6, RefreshStep

\* The lookup finds the row of the cookie, or refuses.
LEMMA GetByRefreshHashOK == ASSUME IInv, NEW c \in Call, GetByRefreshHash(c) PROVE IInv'
  <1>t. TypeOK /\ Drawn
    BY DEF IInv
  <1>1. ASSUME NEW s \in Pair, refresh[c].cookie # 0, session[s] = refresh[c].cookie,
               refresh' = [refresh EXCEPT ![c].pc = "rotate", ![c].id = s]
        PROVE  IInv'
    <2>1. s \in Cookie /\ refresh[c] \in RefreshState /\ refresh \in [Call -> RefreshState]
      BY <1>t, BrowserAssumption DEF Pair, Cookie, TypeOK
    <2>2. PICK r : r = [refresh[c] EXCEPT !.pc = "rotate", !.id = s]
      OBVIOUS
    <2>3. r \in RefreshState
      BY <2>1, <2>2 DEF RefreshState
    <2>4. /\ r.pc = "rotate" /\ r.cookie = refresh[c].cookie /\ r.id = s /\ r.set = refresh[c].set
      BY <2>1, <2>2 DEF RefreshState
    <2>5. refresh' = [refresh EXCEPT ![c] = r]
      BY <1>1, <2>1, <2>2 DEF RefreshState
    <2>6. RefreshHarmless(c, r)
      <3>1. s <= minted
        <4>1. s \in Nat /\ minted \in Nat /\ session[s] # 0
          BY <1>t, <1>1, Numbers
        <4> QED
          BY <1>t, <4>1 DEF Drawn
      <3>2. refresh[c].set <= minted
        BY <1>t DEF Drawn
      <3> QED
        BY <1>1, <2>4, <3>1, <3>2 DEF RefreshHarmless
    <2> QED
      BY <2>3, <2>5, <2>6, RefreshStep DEF GetByRefreshHash
  <1>2. ASSUME NEW set \in {Keep, Clear}, refresh' = RefreshAnswered(c, FALSE, set) PROVE IInv'
    BY <1>2, RefusedOK DEF GetByRefreshHash
  <1> QED
    BY <1>1, <1>2 DEF GetByRefreshHash

\* A failing statement of a refresh is answered without cookies.
LEMMA RefreshFailsOK == ASSUME IInv, NEW c \in Call, RefreshFails(c) PROVE IInv'
  BY RefusedOK DEF RefreshFails

\* The row of the refresh takes a new pair.
LEMMA RotatedOK ==
    ASSUME IInv, NEW c \in Call, refresh[c].pc = "rotate", session[refresh[c].id] # 0,
           minted' = minted + 1, session' = [session EXCEPT ![refresh[c].id] = minted'],
           stale' = stale \ {refresh[c].id}, refresh' = RefreshAnswered(c, TRUE, minted'),
           UNCHANGED <<jar, call, flight, begun, spoilt>>
    PROVE  IInv'
  <1>t. TypeOK /\ CallsOK /\ FlightsOK /\ Drawn
    BY DEF IInv
  <1>r. Running(c) /\ ~CanRetry(call[c])
    BY Runs
  <1>1. c \in MayRefresh
    BY DEF MayRefresh
  <1>2. PICK m \in Pair : m = minted + 1
    BY <1>1, Room
  <1>3. minted' = m /\ m > minted /\ m \in Cookie /\ m \in SetCookie /\ m # 0 /\ m > 0
    BY <1>t, <1>2, Numbers, BrowserAssumption DEF Cookie, SetCookie, Keep, Pair
  <1>4. refresh[c] \in RefreshState /\ refresh \in [Call -> RefreshState]
    BY <1>t DEF TypeOK
  <1>5. PICK r : r = RefreshAs(c, TRUE, m)
    OBVIOUS
  <1>6. r \in RefreshState
    BY <1>3, <1>4, <1>5 DEF RefreshState, RefreshAs
  <1>7. /\ refresh' = [refresh EXCEPT ![c] = r]
        /\ r.pc = "answer" /\ r.set = m /\ r.cookie = refresh[c].cookie
        /\ r.id = refresh[c].id
    <2>1. refresh' = RefreshAnswered(c, TRUE, m)
      BY <1>3
    <2> QED
      BY <1>4, <1>5, <1>6, <2>1 DEF RefreshAnswered, RefreshAs, RefreshState
  <1>8. /\ refresh' \in [Call -> RefreshState] /\ refresh'[c] = r
        /\ \A d \in Call : d # c => refresh'[d] = refresh[d]
    BY <1>t, <1>6, <1>7, RefreshSet
  <1>9. PICK id \in Cookie : id = refresh[c].id
    BY <1>4 DEF RefreshState
  <1>10. /\ session' \in [Pair -> Cookie] /\ (id \in Pair => session'[id] = m)
         /\ \A s \in Pair : s # id => session'[s] = session[s]
    BY <1>t, <1>3, <1>9 DEF TypeOK
  <1>11. TypeOK'
    BY <1>t, <1>3, <1>8, <1>10 DEF TypeOK
  <1>12. CallsOK'
    BY <1>t DEF CallsOK
  <1>13. \A d \in Call : Running(d)' <=> Running(d)
    BY <1>r, <1>7, <1>8 DEF Running
  <1>14. FlightsOK'
    <2>1. \A t \in Tab : flight[t] # None => flight[t] \in Call
      BY <1>t DEF TypeOK
    <2> QED
      BY <1>t, <1>13, <2>1 DEF FlightsOK, Running
  <1>15. Drawn'
    <2>1. minted \in Int /\ m \in Int /\ id \in Int /\ m = minted + 1
      BY <1>t, <1>2, <1>9, Numbers
    <2>2. \A n \in Int : n <= minted => n <= m
      BY <2>1
    <2>3. jar <= m
      BY <1>t, <2>2, Numbers DEF Drawn
    <2>4. \A s \in Pair : session'[s] <= m /\ (s > m => session'[s] = 0)
      <3> SUFFICES ASSUME NEW s \in Pair PROVE session'[s] <= m /\ (s > m => session'[s] = 0)
        OBVIOUS
      <3>1. s \in Int /\ session[s] \in Int
        BY <1>t, Numbers
      <3>2. CASE s = id
        BY <1>t, <1>9, <1>10, <2>1, <3>1, <3>2 DEF Drawn
      <3>3. CASE s # id
        BY <1>t, <1>10, <2>1, <2>2, <3>1, <3>3 DEF Drawn
      <3> QED
        BY <3>2, <3>3
    <2>5. \A d \in Call : /\ call[d].cookie <= m /\ call[d].set <= m
                          /\ refresh[d].cookie <= m /\ refresh[d].set <= m /\ refresh[d].id <= m
      BY <1>t, <2>2, Numbers DEF Drawn
    <2>6. \A d \in Call : refresh'[d].cookie <= m /\ refresh'[d].set <= m /\ refresh'[d].id <= m
      <3>1. m <= m
        BY <2>1
      <3>2. r.cookie <= m /\ r.set <= m /\ r.id <= m
        BY <1>7, <2>5, <3>1
      <3> QED
        BY <1>8, <2>5, <3>2
    <2> QED
      BY <1>3, <2>3, <2>4, <2>5, <2>6 DEF Drawn
  <1>16. Budget'
    <2>1. MayLogin' \subseteq MayLogin
      BY DEF MayLogin
    <2>2. MayRefresh' \subseteq MayRefresh
      BY <1>7, <1>8 DEF MayRefresh
    <2>3. c \notin MayRefresh'
      BY <1>r, <1>7, <1>8 DEF MayRefresh
    <2> QED
      BY <1>1, <2>1, <2>2, <2>3, BudgetSpent
  <1>17. ASSUME ~spoilt' PROVE Unspoilt'
    <2>1. OneRefresh /\ Fresh /\ JarOK
      BY <1>17 DEF IInv, Unspoilt
    <2>2. id \in Pair /\ session[id] = refresh[c].cookie
      BY <1>9, <2>1 DEF OneRefresh
    <2>3. \A d \in Call : Running(d) => d = c
      BY <1>r, <2>1 DEF OneRefresh
    <2>4. OneRefresh'
      <3>1. \A d \in Call : Running(d)' => d = c
        BY <1>13, <2>3
      <3>2. \A d \in Call : refresh'[d].pc # "rotate"
        BY <1>7, <1>8, <2>3 DEF Running
      <3> QED
        BY <3>1, <3>2 DEF OneRefresh
    <2>5. \A p : p # refresh[c].cookie /\ Live(p) => Live(p)'
      BY <1>10, <2>2 DEF Live
    <2>k. jar' = jar /\ call' = call /\ \A d \in Call : refresh'[d].cookie = refresh[d].cookie
      BY <1>7, <1>8
    <2>6. \A p : Unknown(p) => Unknown(p)' /\ p # refresh[c].cookie
      BY <2>k DEF Unknown
    <2>7. Live(m)'
      BY <1>3, <1>10, <2>2 DEF Live
    <2>8. Unknown(m)'
      <3>1. /\ m # jar
            /\ \A d \in Call : m # call[d].cookie /\ m # refresh[d].cookie /\ m # call[d].set
        <4>1. minted \in Int /\ m = minted + 1
          BY <1>t, <1>2, Numbers
        <4>2. \A n \in Int : n <= minted => m # n
          BY <4>1
        <4> QED
          BY <1>t, <4>2, Numbers DEF Drawn
      <3> QED
        BY <2>k, <3>1 DEF Unknown
    <2>9. \A d \in Call : RefreshBrings(d)' => d = c
      BY <1>8, <2>3 DEF RefreshBrings, Running
    <2>10. \A d \in Call : CallBrings(d)' => CallBrings(d) /\ Live(call[d].set)' /\ Unknown(call[d].set)'
      <3> SUFFICES ASSUME NEW d \in Call, CallBrings(d)'
                   PROVE  CallBrings(d) /\ Live(call[d].set)' /\ Unknown(call[d].set)'
        OBVIOUS
      <3>1. CallBrings(d)
        BY DEF CallBrings
      <3>2. PICK p : p = call[d].set
        OBVIOUS
      <3>3. Live(p)' /\ Unknown(p)'
        BY <2>1, <2>5, <2>6, <3>1, <3>2 DEF Fresh
      <3> QED
        BY <3>1, <3>2, <3>3
    <2>11. \A d \in Call : call[d].set # m
      <3>1. minted \in Int /\ m = minted + 1
        BY <1>t, <1>2, Numbers
      <3>2. \A n \in Int : n <= minted => m # n
        BY <3>1
      <3> QED
        BY <1>t, <3>2, Numbers DEF Drawn
    <2>12. Fresh'
      <3>1. \A d \in Call : RefreshBrings(d)' => refresh'[d].set = m
        BY <1>7, <1>8, <2>9
      <3>2. \A a, b \in Call :
              /\ CallBrings(a)' /\ RefreshBrings(b)' => call'[a].set # refresh'[b].set
              /\ CallBrings(a)' /\ CallBrings(b)' /\ call'[a].set = call'[b].set => a = b
        <4>1. \A a, b \in Call : CallBrings(a)' /\ CallBrings(b)' /\ call[a].set = call[b].set => a = b
          BY <2>1, <2>10 DEF Fresh
        <4> QED
          BY <2>11, <3>1, <4>1
      <3>3. ASSUME NEW d \in Call, RefreshBrings(d)'
            PROVE  Live(refresh[d].set)' /\ Unknown(refresh[d].set)'
        BY <2>7, <2>8, <3>1, <3>3 DEF Live, Unknown
      <3> QED
        BY <2>10, <3>2, <3>3 DEF Fresh
    <2>13. JarOK'
      <3>1. CASE Live(jar) /\ jar # refresh[c].cookie
        <4>1. PICK p : p = jar
          OBVIOUS
        <4>2. Live(p)'
          BY <2>5, <3>1, <4>1
        <4> QED
          BY <4>1, <4>2 DEF JarOK
      <3>2. CASE jar = refresh[c].cookie
        BY <1>3, <1>7, <1>8, <3>2 DEF JarOK, RefreshBrings
      <3>3. CASE \E d \in Call : call[d].pc = "answer" /\ call[d].set = Clear /\ call[d].cookie = jar
        BY <3>3 DEF JarOK
      <3>4. \A d \in Call : ~RefreshBrings(d)
        BY <2>3 DEF RefreshBrings, Running
      <3> QED
        BY <2>1, <3>1, <3>2, <3>3, <3>4 DEF JarOK
    <2> QED
      BY <2>4, <2>12, <2>13 DEF Unspoilt
  <1> QED
    BY <1>11, <1>12, <1>14, <1>15, <1>16, <1>17 DEF IInv

\* The UPDATE finds its row, or the row is gone.
LEMMA RotateTokensOK == ASSUME IInv, NEW c \in Call, RotateTokens(c) PROVE IInv'
  <1>1. CASE session[refresh[c].id] = 0
    BY <1>1, RefusedOK DEF RotateTokens
  <1>2. CASE session[refresh[c].id] # 0
    BY <1>2, RotatedOK DEF RotateTokens
  <1> QED
    BY <1>1, <1>2

\* What a caller of the refresh does next: q is its request again, or its end.
Resumes(d, q, x) ==
    /\ q \in CallState /\ q.pc \in {"idle", "sent"} /\ (q.pc # "idle" => q.tab \in Tab)
    /\ q.cookie \in {0, x} /\ q.set = Keep /\ q.on = None
    /\ ~CanRetry(q) /\ (CanLogin(q) => CanLogin(call[d]))

\* Every caller of the refresh goes on, and nobody else moves.
LEMMA ResumedCalls ==
    ASSUME IInv, NEW c \in Call, c # None, NEW again \in BOOLEAN, NEW x \in Cookie,
           call' = Resumed(c, again, x)
    PROVE  /\ \A d \in Call : call[d].on # c => call'[d] = call[d]
           /\ \A d \in Call : call[d].on = c => Resumes(d, call'[d], x)
           /\ call' \in [Call -> CallState]
  <1>1. \A d \in Call : call[d].on # c => call'[d] = call[d]
    BY DEF Resumed, Waiters
  <1>2. ASSUME NEW d \in Call, call[d].on = c PROVE Resumes(d, call'[d], x)
    <2>1. call[d] \in CallState /\ call[d].pc = "waiting" /\ call[d].tab \in Tab
      BY <1>2 DEF IInv, TypeOK, CallsOK
    <2>2. call[d].tab \in Tab \cup {None} /\ call[d].route \in Route \cup {None}
      BY <2>1 DEF CallState
    <2>3. CASE again
      <3>1. PICK q : q = Sent(call[d].tab, call[d].route, x, TRUE)
        OBVIOUS
      <3>2. call'[d] = q
        BY <1>2, <2>3, <3>1 DEF Resumed, Waiters
      <3>3. /\ q \in CallState /\ q.pc = "sent" /\ q.tab = call[d].tab /\ q.cookie = x
            /\ q.set = Keep /\ q.on = None /\ q.route = call[d].route /\ ~CanRetry(q)
        BY <2>2, <3>1, SettledCall DEF Sent, Settled, CallState, CanRetry
      <3>4. CanLogin(q) => CanLogin(call[d])
        BY <2>1, <3>3 DEF CanLogin
      <3>5. Resumes(d, q, x)
        BY <2>1, <3>3, <3>4 DEF Resumes
      <3> QED
        BY <3>2, <3>5
    <2>4. CASE ~again
      <3>1. call'[d] = Settled
        BY <1>2, <2>4 DEF Resumed, Waiters
      <3>2. Resumes(d, Settled, x)
        BY SettledCall DEF Resumes
      <3> QED
        BY <3>1, <3>2
    <2> QED
      BY <2>3, <2>4
  <1>3. \A d \in Call : call'[d] \in CallState
    BY <1>1, <1>2 DEF Resumes, IInv, TypeOK
  <1>4. call' = [d \in Call |-> call'[d]]
    BY DEF Resumed
  <1> QED
    BY <1>1, <1>2, <1>3, <1>4

\* The answer of a refresh arrives with the cookies x, or is lost.
LEMMA EndRefreshOK ==
    ASSUME IInv, NEW c \in Call, refresh[c].pc = "answer", NEW again \in BOOLEAN,
           NEW x \in Cookie, x <= minted, EndRefresh(c, again, x),
           \/ spoilt' = TRUE
           \/ spoilt' = spoilt /\ x = Cookies(refresh[c].set)
    PROVE  IInv'
  <1>t. TypeOK /\ CallsOK /\ FlightsOK /\ Drawn
    BY DEF IInv
  <1>1. /\ Running(c) /\ call[c].pc = "waiting" /\ call[c].on = c
        /\ call[c].tab \in Tab /\ flight[call[c].tab] = c /\ c # None
    BY Runs
  <1>2. PICK t \in Tab : t = call[c].tab
    BY <1>1
  <1>3. /\ \A d \in Call : call[d].on # c => call'[d] = call[d]
        /\ \A d \in Call : call[d].on = c => Resumes(d, call'[d], x)
        /\ call' \in [Call -> CallState]
    BY <1>1, ResumedCalls DEF EndRefresh
  <1>4. PICK r \in RefreshState : /\ refresh' = [refresh EXCEPT ![c] = r]
                                  /\ r.pc = "idle" /\ r.cookie = 0 /\ r.set = Keep /\ r.id = 0
    <2>1. Keep \in SetCookie /\ 0 \in Cookie
      BY BrowserAssumption DEF Keep, SetCookie, Cookie
    <2>2. /\ NoRefresh \in RefreshState /\ NoRefresh.pc = "idle" /\ NoRefresh.cookie = 0
          /\ NoRefresh.set = Keep /\ NoRefresh.id = 0
      BY <2>1 DEF NoRefresh, RefreshState
    <2> QED
      BY <2>2 DEF EndRefresh
  <1>5. /\ refresh' \in [Call -> RefreshState] /\ refresh'[c] = r
        /\ \A d \in Call : d # c => refresh'[d] = refresh[d]
    BY <1>t, <1>4, RefreshSet
  <1>6. /\ flight' \in [Tab -> Call \cup {None}] /\ flight'[t] = None
        /\ \A u \in Tab : u # t => flight'[u] = flight[u]
    BY <1>t, <1>2 DEF TypeOK, EndRefresh
  <1>7. jar' = x /\ UNCHANGED <<server, begun>>
    BY DEF EndRefresh
  <1>8. TypeOK'
    <2>1. spoilt' \in BOOLEAN
      BY <1>t DEF TypeOK
    <2> QED
      BY <1>t, <1>3, <1>5, <1>6, <1>7, <2>1 DEF TypeOK, server
  <1>9. CallsOK'
    BY <1>t, <1>3 DEF CallsOK, Resumes
  <1>10. \A d \in Call : Running(d)' <=> d # c /\ Running(d)
    BY <1>4, <1>5 DEF Running
  <1>11. FlightsOK'
    <2>1. ASSUME NEW d \in Call, d # c, Running(d)
          PROVE  call'[d].pc = "waiting" /\ call'[d].on = d /\ flight'[call'[d].tab] = d
      <3>1. /\ call[d].pc = "waiting" /\ call[d].on = d /\ flight[call[d].tab] = d
            /\ call[d].tab \in Tab
        BY <1>t, <2>1 DEF FlightsOK, CallsOK
      <3>2. call[d].tab # t
        BY <1>1, <1>2, <2>1, <3>1
      <3> QED
        BY <1>3, <1>6, <2>1, <3>1, <3>2
    <2>2. ASSUME NEW u \in Tab, u # t, flight[u] # None
          PROVE  refresh'[flight[u]].pc # "idle" /\ call'[flight[u]].tab = u
      <3>1. /\ flight[u] \in Call /\ Running(flight[u]) /\ call[flight[u]].tab = u
        BY <1>t, <2>2 DEF FlightsOK, TypeOK
      <3>2. flight[u] # c
        BY <1>2, <2>2, <3>1
      <3>3. call[flight[u]].on = flight[u]
        BY <1>t, <3>1 DEF FlightsOK
      <3> QED
        BY <1>3, <1>5, <3>1, <3>2, <3>3 DEF Running
    <2>3. ASSUME NEW u \in Tab, flight'[u] # None
          PROVE  refresh'[flight'[u]].pc # "idle" /\ call'[flight'[u]].tab = u
      BY <1>6, <2>2, <2>3
    <2>4. ASSUME NEW d \in Call, refresh'[d].pc # "idle"
          PROVE  call'[d].pc = "waiting" /\ call'[d].on = d /\ flight'[call'[d].tab] = d
      BY <1>10, <2>1, <2>4 DEF Running
    <2> QED
      BY <2>3, <2>4 DEF FlightsOK, Running
  <1>12. Drawn'
    <2>1. Keep <= minted /\ 0 <= minted
      BY <1>t, Numbers DEF Keep
    <2>2. \A d \in Call : call'[d].cookie <= minted /\ call'[d].set <= minted
      BY <1>t, <1>3, <2>1 DEF Drawn, Resumes
    <2>3. \A d \in Call : /\ refresh'[d].cookie <= minted /\ refresh'[d].set <= minted
                          /\ refresh'[d].id <= minted
      BY <1>t, <1>4, <1>5, <2>1 DEF Drawn
    <2> QED
      BY <1>t, <1>7, <2>2, <2>3 DEF Drawn, server
  <1>13. Budget'
    <2>1. MayLogin' \subseteq MayLogin
      BY <1>3 DEF MayLogin, Resumes
    <2>2. MayRefresh' \subseteq MayRefresh
      <3>1. \A d \in Call : CanRetry(call[d])' => CanRetry(call[d])
        BY <1>3 DEF Resumes
      <3>2. \A d \in Call : refresh'[d].pc \in {"lookup", "rotate"} => refresh[d].pc \in {"lookup", "rotate"}
        BY <1>4, <1>5
      <3> QED
        BY <3>1, <3>2 DEF MayRefresh
    <2> QED
      BY <1>7, <2>1, <2>2, BudgetKept DEF server
  <1>14. ASSUME ~spoilt' PROVE Unspoilt'
    <2>1. OneRefresh /\ Fresh /\ JarOK /\ x = Cookies(refresh[c].set)
      BY <1>14 DEF IInv, Unspoilt
    <2>2. \A d \in Call : ~Running(d)'
      BY <1>1, <1>10, <2>1 DEF OneRefresh
    <2>3. OneRefresh'
      BY <2>2 DEF OneRefresh, Running
    <2>4. \A p : Live(p)' <=> Live(p)
      BY <1>7, LiveSame DEF server
    <2>5. \A p : p # 0 /\ p # x /\ Unknown(p) => Unknown(p)'
      BY <1>3, <1>4, <1>5, <1>7 DEF Unknown, Resumes
    <2>6. \A d \in Call : ~RefreshBrings(d)'
      BY <2>2 DEF RefreshBrings, Running
    <2>7. \A d \in Call : call[d].pc = "answer" => call[d].on # c
      BY <1>t, <1>1 DEF CallsOK
    <2>8. \A d \in Call : CallBrings(d) => call[d].set # x
      <3>1. CASE refresh[c].set = Keep
        <4>1. x = jar
          BY <2>1, <3>1 DEF Cookies
        <4> QED
          BY <2>1, <4>1 DEF Fresh, Unknown
      <3>2. CASE refresh[c].set # Keep
        <4>1. x = refresh[c].set
          BY <2>1, <3>2 DEF Cookies
        <4>2. CASE x = 0
          BY <1>t, <4>2, Numbers DEF CallBrings
        <4>3. CASE x # 0
          <5>1. RefreshBrings(c)
            BY <4>1, <4>3, BrowserAssumption DEF RefreshBrings, Cookie
          <5> QED
            BY <2>1, <4>1, <5>1 DEF Fresh
        <4> QED
          BY <4>2, <4>3
      <3> QED
        BY <3>1, <3>2
    <2>9. \A d \in Call : CallBrings(d)' =>
             CallBrings(d) /\ call'[d].set = call[d].set /\ call[d].set # x
      <3>1. \A d \in Call : CallBrings(d)' => call[d].on # c
        BY <1>3 DEF CallBrings, Resumes
      <3> QED
        BY <1>3, <2>8, <3>1 DEF CallBrings
    <2>10. Fresh'
      BY <1>t, <2>1, <2>4, <2>5, <2>6, <2>9, FreshKept
    <2>11. JarOK'
      <3>1. CASE refresh[c].set # Keep
        <4>1. x = refresh[c].set
          BY <2>1, <3>1 DEF Cookies
        <4>2. x # 0 => RefreshBrings(c)
          BY <4>1, BrowserAssumption DEF RefreshBrings, Cookie
        <4>3. x # 0 => Live(x)'
          BY <2>1, <2>4, <4>1, <4>2 DEF Fresh
        <4> QED
          BY <1>7, <4>3 DEF JarOK
      <3>2. CASE refresh[c].set = Keep
        <4>1. x = jar
          BY <2>1, <3>2 DEF Cookies
        <4>2. \A d \in Call : ~RefreshBrings(d)
          <5>1. \A d \in Call : RefreshBrings(d) => d = c
            BY <1>1, <2>1 DEF OneRefresh, RefreshBrings, Running
          <5>2. ~RefreshBrings(c)
            BY <3>2 DEF RefreshBrings, Keep
          <5> QED
            BY <5>1, <5>2
        <4>3. CASE Live(jar)
          BY <1>7, <2>4, <4>1, <4>3 DEF JarOK
        <4>4. CASE \E d \in Call : call[d].pc = "answer" /\ call[d].set = Clear /\ call[d].cookie = jar
          BY <1>3, <1>7, <2>7, <4>1, <4>4 DEF JarOK
        <4>5. CASE jar = 0
          BY <1>7, <4>1, <4>5 DEF JarOK
        <4> QED
          BY <2>1, <4>2, <4>3, <4>4, <4>5 DEF JarOK
      <3> QED
        BY <3>1, <3>2
    <2> QED
      BY <2>3, <2>10, <2>11 DEF Unspoilt
  <1> QED
    BY <1>8, <1>9, <1>11, <1>12, <1>13, <1>14 DEF IInv

\* The answer of a refresh arrives.
LEMMA DeliverRefreshOK == ASSUME IInv, NEW c \in Call, DeliverRefresh(c) PROVE IInv'
  <1>1. refresh[c] \in RefreshState /\ jar \in Cookie /\ jar <= minted /\ refresh[c].set <= minted
    BY DEF IInv, TypeOK, Drawn
  <1>2. PICK x \in Cookie : x = Cookies(refresh[c].set) /\ x <= minted
    <2>1. refresh[c].set \in SetCookie
      BY <1>1 DEF RefreshState
    <2>2. refresh[c].set # Keep => refresh[c].set \in Cookie
      BY <2>1, BrowserAssumption DEF SetCookie, Cookie, Keep
    <2> QED
      BY <1>1, <2>2 DEF Cookies
  <1>3. refresh[c].ok \in BOOLEAN
    BY <1>1 DEF RefreshState
  <1>4. PICK again \in BOOLEAN : EndRefresh(c, again, x)
    BY <1>2, <1>3 DEF DeliverRefresh
  <1> QED
    BY <1>2, <1>4, EndRefreshOK DEF DeliverRefresh

\* The answer of a refresh is lost.
LEMMA LoseRefreshOK == ASSUME IInv, NEW c \in Call, LoseRefresh(c) PROVE IInv'
  <1>1. jar \in Cookie /\ jar <= minted
    BY DEF IInv, TypeOK, Drawn
  <1>2. PICK again \in BOOLEAN : EndRefresh(c, again, jar)
    BY DEF LoseRefresh
  <1> QED
    BY <1>1, <1>2, EndRefreshOK DEF LoseRefresh

\* A step that touches nothing but the clock.
LEMMA OnlyStale ==
    ASSUME IInv, stale' \subseteq Pair,
           UNCHANGED <<session, minted, jar, call, refresh, flight, begun, spoilt>>
    PROVE  IInv'
  <1>1. TypeOK'
    BY DEF IInv, TypeOK
  <1>2. CallsOK' /\ FlightsOK' /\ Drawn'
    BY DEF IInv, CallsOK, FlightsOK, Running, Drawn
  <1>3. Budget'
    BY DEF IInv, Budget, MayLogin, MayRefresh
  <1>4. ASSUME ~spoilt' PROVE Unspoilt'
    BY <1>4 DEF IInv, Unspoilt, OneRefresh, Fresh, JarOK, Running, CallBrings, RefreshBrings,
                Live, Unknown
  <1> QED
    BY <1>1, <1>2, <1>3, <1>4 DEF IInv

(***************************************************************************)
(* The theorems.                                                           *)
(***************************************************************************)
LEMMA InvInit == Init => IInv
  <1> SUFFICES ASSUME Init PROVE IInv
    OBVIOUS
  <1>1. 0 \in Cookie /\ 1 \in Cookie /\ 1 \in Pair /\ Keep \in SetCookie /\ 0 \in 0..MaxCalls
    BY BrowserAssumption DEF Cookie, Pair, SetCookie, Keep
  <1>2. /\ \A c \in Call : call[c] = Settled /\ refresh[c] = NoRefresh
        /\ \A t \in Tab : flight[t] = None
    BY DEF Init
  <1>3. NoRefresh \in RefreshState /\ NoRefresh.pc = "idle" /\ NoRefresh.cookie = 0
        /\ NoRefresh.set = Keep /\ NoRefresh.id = 0
    BY <1>1 DEF NoRefresh, RefreshState
  <1>4. TypeOK
    <2>1. session \in [Pair -> Cookie]
      BY <1>1 DEF Init
    <2>2. call \in [Call -> CallState] /\ refresh \in [Call -> RefreshState]
      BY <1>3, SettledCall DEF Init
    <2>3. flight \in [Tab -> Call \cup {None}]
      BY DEF Init
    <2> QED
      BY <1>1, <2>1, <2>2, <2>3 DEF TypeOK, Init
  <1>5. CallsOK
    BY <1>2, SettledCall DEF CallsOK
  <1>6. FlightsOK
    BY <1>2, <1>3 DEF FlightsOK, Running
  <1>7. Drawn
    <2>1. Keep <= 1 /\ 0 <= 1 /\ 1 <= 1
      BY DEF Keep
    <2>2. \A s \in Pair : session[s] <= 1 /\ (s > 1 => session[s] = 0)
      BY DEF Init, Pair
    <2> QED
      BY <1>2, <1>3, <2>1, <2>2, SettledCall DEF Drawn, Init
  <1>8. Budget
    <2>1. MayLogin = {} /\ MayRefresh = {}
      BY <1>2, <1>3, SettledCall DEF MayLogin, MayRefresh
    <2> QED
      BY <2>1, FS_EmptySet DEF Budget, Init
  <1>9. Unspoilt
    <2>1. \A c \in Call : ~Running(c) /\ refresh[c].pc # "rotate" /\ ~CallBrings(c) /\ ~RefreshBrings(c)
      BY <1>2, <1>3, SettledCall DEF Running, CallBrings, RefreshBrings
    <2>2. Live(jar)
      BY <1>1 DEF Live, Init
    <2> QED
      BY <2>1, <2>2 DEF Unspoilt, OneRefresh, Fresh, JarOK
  <1> QED
    BY <1>4, <1>5, <1>6, <1>7, <1>8, <1>9 DEF IInv

\* Every step keeps the invariant.
LEMMA InvStep == IInv /\ [Next]_vars => IInv'
  <1> SUFFICES ASSUME IInv, [Next]_vars PROVE IInv'
    OBVIOUS
  <1>1. ASSUME NEW c \in Call, NEW t \in Tab, NEW route \in Route, Begin(c, t, route) PROVE IInv'
    BY <1>1, BeginOK
  <1>2. ASSUME NEW c \in Call, Serve(c) PROVE IInv'
    BY <1>2, SessionAuthOK, PostLogoutOK, PostLoginOK, StatementFailsOK, GetByRefreshHashOK,
       RotateTokensOK, RefreshFailsOK DEF Serve
  <1>3. ASSUME NEW c \in Call, Arrive(c) PROVE IInv'
    BY <1>3, DeliverOK, DeliverRefreshOK, LoseOK, LoseRefreshOK DEF Arrive
  <1>4. ASSUME NEW s \in Pair, Expire(s) PROVE IInv'
    <2>1. stale' \subseteq Pair
      BY <1>4 DEF Expire, IInv, TypeOK
    <2> QED
      BY <1>4, <2>1, OnlyStale DEF Expire
  <1>5. CASE UNCHANGED vars
    <2>1. stale' \subseteq Pair
      BY <1>5 DEF vars, IInv, TypeOK
    <2> QED
      BY <1>5, <2>1, OnlyStale DEF vars
  <1> QED
    BY <1>1, <1>2, <1>3, <1>4, <1>5 DEF Next

\* The invariant holds in every state, whatever the tabs, the calls and their bound.
THEOREM Invariance == Spec => []IInv
  BY InvInit, InvStep, PTL DEF Spec

\* Every variable keeps its type.  In particular the pairs that logins and refreshes
\* draw never outgrow MaxPairs: fetchWithAuth sends a call twice and refreshes for it
\* once, so a call draws two at most.
THEOREM BrowserSessionType == Spec => []TypeOK
  <1>1. IInv => TypeOK
    BY DEF IInv
  <1> QED
    BY <1>1, Invariance, PTL

\* With nothing in flight the pair left in the jar is the one its session holds, for
\* any number of tabs and of calls that share a refresh: neither a logout nor a
\* rotation leaves dead cookies behind, unless an answer was lost or two tabs
\* refreshed at a time.
THEOREM JarCurrentAlways == Spec => []JarCurrent
  <1>1. IInv => JarCurrent
    <2> SUFFICES ASSUME IInv, ~spoilt, jar # 0,
                        \A c \in Call : call[c] = Settled /\ refresh[c] = NoRefresh
                 PROVE  Live(jar)
      BY DEF JarCurrent
    <2>1. \A c \in Call : call[c].pc = "idle" /\ ~RefreshBrings(c)
      BY SettledCall DEF RefreshBrings, NoRefresh
    <2> QED
      BY <2>1 DEF IInv, Unspoilt, JarOK
  <1> QED
    BY <1>1, Invariance, PTL

(***************************************************************************)
(* The callers of a shared refresh, and the steps left to a call.          *)
(***************************************************************************)
\* The steps left to a call in state q whose refresh, if it waits for one, is at p.
Cost(q, p) ==
    IF q.pc = "waiting" THEN Left["sent"] + Left[p]
    ELSE IF q.pc = "idle" \/ q.retried THEN Left[q.pc]
    ELSE 2 * Left["sent"] + Left[q.pc]

\* The cost of every state a call can be in.
LEMMA CostTable ==
    ASSUME NEW q, NEW p
    PROVE  /\ q.pc = "idle" => Cost(q, p) = 0
           /\ q.pc = "answer" => Cost(q, p) = IF q.retried THEN 1 ELSE 7
           /\ q.pc = "logout" => Cost(q, p) = IF q.retried THEN 2 ELSE 8
           /\ q.pc = "sent" => Cost(q, p) = IF q.retried THEN 3 ELSE 9
           /\ q.pc = "waiting" => /\ p = "answer" => Cost(q, p) = 4
                                  /\ p = "rotate" => Cost(q, p) = 5
                                  /\ p = "lookup" => Cost(q, p) = 6
  <1>1. /\ Left["idle"] = 0 /\ Left["answer"] = 1 /\ Left["logout"] = 2 /\ Left["sent"] = 3
        /\ Left["rotate"] = 2 /\ Left["lookup"] = 3
    BY DEF Left
  <1>2. q.pc = "idle" => Cost(q, p) = 0
    BY <1>1 DEF Cost
  <1>3. q.pc = "answer" => Cost(q, p) = IF q.retried THEN 1 ELSE 7
    BY <1>1 DEF Cost
  <1>4. q.pc = "logout" => Cost(q, p) = IF q.retried THEN 2 ELSE 8
    BY <1>1 DEF Cost
  <1>5. q.pc = "sent" => Cost(q, p) = IF q.retried THEN 3 ELSE 9
    BY <1>1 DEF Cost
  <1>6. q.pc = "waiting" => /\ p = "answer" => Cost(q, p) = 4
                            /\ p = "rotate" => Cost(q, p) = 5
                            /\ p = "lookup" => Cost(q, p) = 6
    BY <1>1 DEF Cost
  <1> QED
    BY <1>2, <1>3, <1>4, <1>5, <1>6

\* Steps is that cost, before and after a step.
LEMMA StepsCost ==
    ASSUME NEW c \in Call
    PROVE  /\ Steps(c) = Cost(call[c], refresh[call[c].on].pc)
           /\ Steps(c)' = Cost(call'[c], refresh'[call'[c].on].pc)
  BY DEF Steps, Cost

\* What c waits for, when it does.
LEMMA WaitsFor ==
    ASSUME IInv, WaitersServed, NEW c \in Call, call[c].pc = "waiting"
    PROVE  /\ call[c].on \in Call /\ Running(call[c].on)
           /\ call[c].tab \in Tab /\ flight[call[c].tab] = call[c].on
           /\ refresh[call[c].on].pc \in {"lookup", "rotate", "answer"}
  <1>1. call[c].on \in Call /\ Running(call[c].on) /\ flight[call[c].tab] = call[c].on
    BY DEF WaitersServed, Running
  <1>2. call[c].tab \in Tab
    BY DEF IInv, CallsOK
  <1>3. refresh[call[c].on] \in RefreshState
    BY <1>1 DEF IInv, TypeOK
  <1> QED
    BY <1>1, <1>2, <1>3 DEF RefreshState, Running

\* A call is never more than nine steps from its end.
LEMMA StepsBounded ==
    ASSUME IInv, WaitersServed, NEW c \in Call
    PROVE  Steps(c) \in 0..9
  <1>1. PICK q, p : q = call[c] /\ p = refresh[call[c].on].pc
    OBVIOUS
  <1>2. q \in CallState
    BY <1>1 DEF IInv, TypeOK
  <1>3. q.pc \in {"idle", "sent", "logout", "answer", "waiting"}
    BY <1>2 DEF CallState
  <1>4. q.pc = "waiting" => p \in {"lookup", "rotate", "answer"}
    BY <1>1, WaitsFor
  <1>5. Cost(q, p) \in 0..9
    BY <1>3, <1>4, CostTable
  <1> QED
    BY <1>1, <1>5, StepsCost

\* A call nobody moves, and whose refresh nobody moves, is as far as it was.
LEMMA StepsSame ==
    ASSUME IInv, WaitersServed, NEW d \in Call, call'[d] = call[d],
           call[d].pc = "waiting" => refresh'[call[d].on] = refresh[call[d].on]
    PROVE  Steps(d)' = Steps(d)
  <1>1. CASE call[d].pc = "waiting"
    BY <1>1, StepsCost
  <1>2. CASE call[d].pc # "waiting"
    BY <1>2, StepsCost DEF Cost
  <1> QED
    BY <1>1, <1>2

\* A call that does not wait moves, perhaps to wait for a refresh under way in its
\* tab: those that wait already are served as before.
LEMMA OthersWait ==
    ASSUME IInv, WaitersServed, NEW c \in Call, call[c].pc # "waiting",
           \A d \in Call : d # c => call'[d] = call[d],
           \A d \in Call : Running(d) => refresh'[d] = refresh[d],
           \A u \in Tab : flight[u] # None => flight'[u] = flight[u],
           call'[c].pc = "waiting" =>
               \E e \in Call : /\ call'[c].on = e /\ refresh'[e].pc # "idle"
                               /\ flight'[call'[c].tab] = e
    PROVE  /\ WaitersServed'
           /\ \A d \in Call : d # c => Steps(d)' = Steps(d)
  <1>1. ASSUME NEW d \in Call, d # c, call[d].pc = "waiting"
        PROVE  /\ refresh'[call[d].on] = refresh[call[d].on]
               /\ \E e \in Call : /\ call'[d].on = e /\ refresh'[e].pc # "idle"
                                  /\ flight'[call'[d].tab] = e
    <2>1. /\ call[d].on \in Call /\ Running(call[d].on)
          /\ call[d].tab \in Tab /\ flight[call[d].tab] = call[d].on
      BY <1>1, WaitsFor
    <2>2. call[d].on # None
      BY <2>1, BrowserAssumption
    <2>3. flight'[call[d].tab] = call[d].on /\ refresh'[call[d].on] = refresh[call[d].on]
      BY <2>1, <2>2
    <2> QED
      BY <1>1, <2>1, <2>3 DEF Running
  <1>2. WaitersServed'
    BY <1>1 DEF WaitersServed
  <1>3. ASSUME NEW d \in Call, d # c PROVE Steps(d)' = Steps(d)
    BY <1>1, <1>3, StepsSame
  <1> QED
    BY <1>2, <1>3

\* What a step does for the calls: the callers of a refresh are served, no call that
\* has begun is set back, and the call c is a step nearer to its end.
Nearer(c) ==
    /\ WaitersServed'
    /\ \A d \in Call : Steps(d)' <= Steps(d)
    /\ Steps(c)' < Steps(c)

\* c moves on by itself, and nothing else changes for the other calls.
LEMMA MovesOn ==
    ASSUME IInv, WaitersServed, NEW c \in Call, WaitersServed',
           \A d \in Call : d # c => Steps(d)' = Steps(d),
           Steps(c)' \in Int, Steps(c)' < Steps(c)
    PROVE  Nearer(c)
  <1>1. \A d \in Call : Steps(d) \in Int
    BY StepsBounded
  <1>2. \A d \in Call : d # c => Steps(d)' <= Steps(d)
    BY <1>1
  <1>3. Steps(c)' <= Steps(c)
    BY <1>1
  <1> QED
    BY <1>2, <1>3 DEF Nearer

\* A request is answered, or goes on to the logout's own statement.
LEMMA RequestGoes ==
    ASSUME IInv, WaitersServed, NEW c \in Call, NEW q \in CallState,
           call' = [call EXCEPT ![c] = q], UNCHANGED <<refresh, flight>>,
           q.retried = call[c].retried,
           \/ call[c].pc \in {"sent", "logout"} /\ q.pc = "answer"
           \/ call[c].pc = "sent" /\ q.pc = "logout"
    PROVE  Nearer(c)
  <1>1. call'[c] = q /\ \A d \in Call : d # c => call'[d] = call[d]
    BY CallSet DEF IInv
  <1>2. call[c].pc # "waiting" /\ q.pc # "waiting"
    OBVIOUS
  <1>3. WaitersServed' /\ \A d \in Call : d # c => Steps(d)' = Steps(d)
    BY <1>1, <1>2, OthersWait
  <1>4. PICK o, p, n : o = call[c] /\ p = refresh[call[c].on].pc /\ n = refresh'[q.on].pc
    OBVIOUS
  <1>5. Cost(q, n) \in Int /\ Cost(q, n) < Cost(o, p)
    <2>1. CASE call[c].pc \in {"sent", "logout"} /\ q.pc = "answer"
      BY <1>4, <2>1, CostTable
    <2>2. CASE call[c].pc = "sent" /\ q.pc = "logout"
      BY <1>4, <2>2, CostTable
    <2> QED
      BY <2>1, <2>2
  <1>6. Steps(c) = Cost(o, p) /\ Steps(c)' = Cost(q, n)
    BY <1>1, <1>4, StepsCost
  <1> QED
    BY <1>3, <1>5, <1>6, MovesOn

\* The same for Answered, whatever the status and the cookies of the answer.
LEMMA AnsweredGoes ==
    ASSUME IInv, WaitersServed, NEW c \in Call, call[c].pc \in {"sent", "logout"},
           NEW status \in Status, NEW set \in SetCookie,
           call' = Answered(c, status, set), UNCHANGED <<refresh, flight>>
    PROVE  Nearer(c)
  <1>1. PICK q : q = AnsweredAs(c, status, set)
    OBVIOUS
  <1>2. /\ q \in CallState /\ call' = [call EXCEPT ![c] = q]
        /\ q.pc = "answer" /\ q.retried = call[c].retried
    BY <1>1, AnsweredCall DEF IInv
  <1> QED
    BY <1>2, RequestGoes

\* A call ends with its answer.
LEMMA CallEnds ==
    ASSUME IInv, WaitersServed, NEW c \in Call, call[c].pc = "answer",
           call' = [call EXCEPT ![c] = Settled], UNCHANGED <<refresh, flight>>
    PROVE  Nearer(c)
  <1>1. call'[c] = Settled /\ \A d \in Call : d # c => call'[d] = call[d]
    BY SettledCall, CallSet DEF IInv
  <1>2. WaitersServed' /\ \A d \in Call : d # c => Steps(d)' = Steps(d)
    BY <1>1, SettledCall, OthersWait
  <1>3. PICK o, p, n : /\ o = call[c] /\ p = refresh[call[c].on].pc
                       /\ n = refresh'[Settled.on].pc
    OBVIOUS
  <1>4. Cost(Settled, n) = 0 /\ 0 < Cost(o, p)
    BY <1>3, SettledCall, CostTable
  <1>5. Steps(c) = Cost(o, p) /\ Steps(c)' = Cost(Settled, n)
    BY <1>1, <1>3, StepsCost
  <1> QED
    BY <1>2, <1>4, <1>5, MovesOn

\* A first 401 makes the call wait, for the refresh e of its tab.
LEMMA CallWaits ==
    ASSUME IInv, WaitersServed, NEW c \in Call, call[c].pc = "answer", Retries(c),
           NEW e \in Call, call' = Waiting(c, e), flight'[call[c].tab] = e,
           refresh'[e].pc \in {"lookup", "rotate", "answer"},
           \A d \in Call : Running(d) => refresh'[d] = refresh[d],
           \A u \in Tab : flight[u] # None => flight'[u] = flight[u]
    PROVE  Nearer(c)
  <1>1. PICK q : q = WaitingAs(c, e)
    OBVIOUS
  <1>2. /\ q \in CallState /\ call' = [call EXCEPT ![c] = q]
        /\ q.pc = "waiting" /\ q.on = e /\ q.tab = call[c].tab
    BY <1>1, WaitingCall DEF IInv
  <1>3. call'[c] = q /\ \A d \in Call : d # c => call'[d] = call[d]
    BY <1>2, CallSet DEF IInv
  <1>4. WaitersServed' /\ \A d \in Call : d # c => Steps(d)' = Steps(d)
    BY <1>2, <1>3, OthersWait
  <1>5. PICK o, p, n : o = call[c] /\ p = refresh[call[c].on].pc /\ n = refresh'[e].pc
    OBVIOUS
  <1>6. o.pc = "answer" /\ ~o.retried /\ n \in {"lookup", "rotate", "answer"}
    BY <1>5 DEF Retries
  <1>7. Cost(o, p) = 7 /\ Cost(q, n) \in {4, 5, 6}
    BY <1>2, <1>6, CostTable
  <1>8. Steps(c) = Cost(o, p) /\ Steps(c)' = Cost(q, n)
    BY <1>2, <1>3, <1>5, StepsCost
  <1> QED
    BY <1>4, <1>7, <1>8, MovesOn

\* The statements of a refresh bring all that wait for it nearer, its own caller
\* among them.
LEMMA RefreshGoes ==
    ASSUME IInv, WaitersServed, NEW c \in Call, NEW r \in RefreshState,
           refresh' = [refresh EXCEPT ![c] = r], UNCHANGED <<call, flight>>,
           \/ refresh[c].pc \in {"lookup", "rotate"} /\ r.pc = "answer"
           \/ refresh[c].pc = "lookup" /\ r.pc = "rotate"
    PROVE  Nearer(c)
  <1>1. refresh'[c] = r /\ \A d \in Call : d # c => refresh'[d] = refresh[d]
    BY RefreshSet DEF IInv
  <1>2. call[c].pc = "waiting" /\ call[c].on = c
    BY Runs
  <1>3. WaitersServed'
    BY <1>1 DEF WaitersServed
  <1>4. ASSUME NEW d \in Call, call[d].pc = "waiting", call[d].on = c
        PROVE  Steps(d)' \in Int /\ Steps(d) \in Int /\ Steps(d)' < Steps(d)
    <2>1. PICK q, p, n : q = call[d] /\ p = refresh[c].pc /\ n = r.pc
      OBVIOUS
    <2>2. Cost(q, n) \in Int /\ Cost(q, p) \in Int /\ Cost(q, n) < Cost(q, p)
      BY <1>4, <2>1, CostTable
    <2>3. Steps(d) = Cost(q, p) /\ Steps(d)' = Cost(q, n)
      BY <1>1, <1>4, <2>1, StepsCost
    <2> QED
      BY <2>2, <2>3
  <1>5. ASSUME NEW d \in Call, ~(call[d].pc = "waiting" /\ call[d].on = c)
        PROVE  Steps(d)' <= Steps(d)
    <2>1. call[d].pc = "waiting" => call[d].on \in Call
      BY WaitsFor
    <2>2. Steps(d)' = Steps(d)
      BY <1>1, <1>5, <2>1, StepsSame
    <2> QED
      BY <2>2, StepsBounded
  <1>6. \A d \in Call : Steps(d)' <= Steps(d)
    BY <1>4, <1>5
  <1> QED
    BY <1>2, <1>3, <1>4, <1>6 DEF Nearer

\* The same for the answer of a refresh.
LEMMA RefreshAnsweredGoes ==
    ASSUME IInv, WaitersServed, NEW c \in Call, refresh[c].pc \in {"lookup", "rotate"},
           NEW ok \in BOOLEAN, NEW set \in SetCookie,
           refresh' = RefreshAnswered(c, ok, set), UNCHANGED <<call, flight>>
    PROVE  Nearer(c)
  <1>1. refresh[c] \in RefreshState /\ refresh \in [Call -> RefreshState]
    BY DEF IInv, TypeOK
  <1>2. PICK r : r = [refresh[c] EXCEPT !.pc = "answer", !.ok = ok, !.set = set]
    OBVIOUS
  <1>3. r \in RefreshState /\ r.pc = "answer"
    BY <1>1, <1>2 DEF RefreshState
  <1>4. refresh' = [refresh EXCEPT ![c] = r]
    BY <1>1, <1>2 DEF RefreshState, RefreshAnswered
  <1> QED
    BY <1>3, <1>4, RefreshGoes

\* The refresh of c ends: every caller that waited for it goes on, and those that wait
\* for the refresh of another tab still do.
LEMMA RefreshEnds ==
    ASSUME IInv, WaitersServed, NEW c \in Call, refresh[c].pc = "answer",
           NEW again \in BOOLEAN, NEW x \in Cookie, EndRefresh(c, again, x)
    PROVE  Nearer(c)
  <1>1. /\ Running(c) /\ call[c].pc = "waiting" /\ call[c].on = c
        /\ call[c].tab \in Tab /\ flight[call[c].tab] = c /\ c # None
    BY Runs
  <1>2. /\ \A d \in Call : call[d].on # c => call'[d] = call[d]
        /\ \A d \in Call : call[d].on = c => Resumes(d, call'[d], x)
    BY <1>1, ResumedCalls DEF EndRefresh
  <1>3. \A d \in Call : d # c => refresh'[d] = refresh[d]
    BY DEF EndRefresh, IInv, TypeOK
  <1>4. \A u \in Tab : u # call[c].tab => flight'[u] = flight[u]
    BY <1>1 DEF EndRefresh, IInv, TypeOK
  <1>5. ASSUME NEW d \in Call, call[d].on = c
        PROVE  /\ call'[d].pc # "waiting"
               /\ Steps(d)' \in Int /\ Steps(d) \in Int /\ Steps(d)' < Steps(d)
    <2>1. PICK o, q, p, n : /\ o = call[d] /\ q = call'[d]
                            /\ p = refresh[c].pc /\ n = refresh'[q.on].pc
      OBVIOUS
    <2>2. o.pc = "waiting" /\ p = "answer"
      BY <1>1, <1>5, <2>1 DEF IInv, CallsOK
    <2>3. q.pc = "idle" \/ (q.pc = "sent" /\ q.retried)
      BY <1>2, <1>5, <2>1 DEF Resumes, CanRetry
    <2>4. Cost(o, p) = 4 /\ Cost(q, n) \in {0, 3}
      BY <2>2, <2>3, CostTable
    <2>5. Steps(d) = Cost(o, p) /\ Steps(d)' = Cost(q, n)
      BY <1>5, <2>1, StepsCost
    <2> QED
      BY <2>1, <2>3, <2>4, <2>5
  <1>6. ASSUME NEW d \in Call, call[d].on # c, call[d].pc = "waiting"
        PROVE  /\ refresh'[call[d].on] = refresh[call[d].on]
               /\ \E e \in Call : /\ call'[d].on = e /\ refresh'[e].pc # "idle"
                                  /\ flight'[call'[d].tab] = e
    <2>1. /\ call[d].on \in Call /\ Running(call[d].on)
          /\ call[d].tab \in Tab /\ flight[call[d].tab] = call[d].on
      BY <1>6, WaitsFor
    <2>2. call[d].tab # call[c].tab
      BY <1>1, <1>6, <2>1
    <2>3. flight'[call[d].tab] = call[d].on /\ refresh'[call[d].on] = refresh[call[d].on]
      BY <1>3, <1>4, <1>6, <2>1, <2>2
    <2> QED
      BY <1>2, <1>6, <2>1, <2>3 DEF Running
  <1>7. WaitersServed'
    BY <1>2, <1>5, <1>6 DEF WaitersServed
  <1>8. ASSUME NEW d \in Call PROVE Steps(d)' <= Steps(d)
    <2>1. CASE call[d].on = c
      BY <1>5, <2>1
    <2>2. CASE call[d].on # c
      <3>1. Steps(d)' = Steps(d)
        BY <1>2, <1>6, <2>2, StepsSame
      <3> QED
        BY <3>1, StepsBounded
    <2> QED
      BY <2>1, <2>2
  <1> QED
    BY <1>1, <1>5, <1>7, <1>8 DEF Nearer

\* A step of the server.
LEMMA ServeNearer ==
    ASSUME IInv, WaitersServed, NEW c \in Call, Serve(c)
    PROVE  Nearer(c)
  <1>t. TypeOK
    BY DEF IInv
  <1>1. Keep \in SetCookie /\ Clear \in SetCookie /\ {0, 200, 401, 500} \subseteq Status
    BY BrowserAssumption DEF Keep, Clear, SetCookie, Status
  <1>2. CASE SessionAuth(c)
    <2>1. call[c].pc = "sent" /\ UNCHANGED <<refresh, flight>>
      BY <1>2 DEF SessionAuth
    <2>2. CASE call' = Answered(c, 401, Keep) \/ call' = Answered(c, 200, Keep)
      BY <1>1, <2>1, <2>2, AnsweredGoes
    <2>3. CASE call' = [call EXCEPT ![c].pc = "logout"]
      <3>1. call[c] \in CallState
        BY <1>t DEF TypeOK
      <3>2. PICK q : q = [call[c] EXCEPT !.pc = "logout"]
        OBVIOUS
      <3>3. q \in CallState /\ q.pc = "logout" /\ q.retried = call[c].retried
        BY <3>1, <3>2 DEF CallState
      <3>4. call' = [call EXCEPT ![c] = q]
        BY <2>3, <3>2
      <3> QED
        BY <2>1, <3>3, <3>4, RequestGoes
    <2> QED
      BY <1>2, <2>2, <2>3 DEF SessionAuth
  <1>3. CASE PostLogout(c)
    <2>1. call[c].pc = "logout" /\ call' = Answered(c, 200, Clear) /\ UNCHANGED <<refresh, flight>>
      BY <1>3 DEF PostLogout
    <2> QED
      BY <1>1, <2>1, AnsweredGoes
  <1>4. CASE PostLogin(c)
    <2>1. call[c].pc = "sent" /\ call[c].route = "login" /\ UNCHANGED <<refresh, flight>>
      BY <1>4 DEF PostLogin
    <2>2. CASE call' = Answered(c, 401, Keep)
      BY <1>1, <2>1, <2>2, AnsweredGoes
    <2>3. CASE minted' = minted + 1 /\ call' = Answered(c, 200, minted')
      <3>1. c \in MayLogin
        BY <2>1 DEF MayLogin, CanLogin
      <3>2. minted' \in SetCookie
        BY <2>3, <3>1, Room, BrowserAssumption DEF Pair, SetCookie, Keep
      <3> QED
        BY <1>1, <2>1, <2>3, <3>2, AnsweredGoes
    <2> QED
      BY <1>4, <2>2, <2>3 DEF PostLogin
  <1>5. CASE StatementFails(c)
    <2>1. call[c].pc = "sent" /\ call' = Answered(c, 500, Keep) /\ UNCHANGED <<refresh, flight>>
      BY <1>5 DEF StatementFails
    <2> QED
      BY <1>1, <2>1, AnsweredGoes
  <1>6. CASE GetByRefreshHash(c)
    <2>1. refresh[c].pc = "lookup" /\ UNCHANGED <<call, flight>>
      BY <1>6 DEF GetByRefreshHash
    <2>2. ASSUME NEW y \in Pair, refresh' = [refresh EXCEPT ![c].pc = "rotate", ![c].id = y]
          PROVE  Nearer(c)
      <3>1. y \in Cookie /\ refresh[c] \in RefreshState /\ refresh \in [Call -> RefreshState]
        BY <1>t, BrowserAssumption DEF Pair, Cookie, TypeOK
      <3>2. PICK r : r = [refresh[c] EXCEPT !.pc = "rotate", !.id = y]
        OBVIOUS
      <3>3. r \in RefreshState /\ r.pc = "rotate"
        BY <3>1, <3>2 DEF RefreshState
      <3>4. refresh' = [refresh EXCEPT ![c] = r]
        BY <2>2, <3>1, <3>2 DEF RefreshState
      <3> QED
        BY <2>1, <3>3, <3>4, RefreshGoes
    <2>3. ASSUME NEW set \in {Keep, Clear}, refresh' = RefreshAnswered(c, FALSE, set)
          PROVE  Nearer(c)
      <3>1. set \in SetCookie
        BY <1>1
      <3> QED
        BY <2>1, <2>3, <3>1, RefreshAnsweredGoes
    <2> QED
      BY <1>6, <2>2, <2>3 DEF GetByRefreshHash
  <1>7. CASE RotateTokens(c)
    <2>1. refresh[c].pc = "rotate" /\ UNCHANGED <<call, flight>>
      BY <1>7 DEF RotateTokens
    <2>2. CASE minted' = minted + 1 /\ refresh' = RefreshAnswered(c, TRUE, minted')
      <3>1. c \in MayRefresh
        BY <2>1 DEF MayRefresh
      <3>2. minted' \in SetCookie
        BY <2>2, <3>1, Room, BrowserAssumption DEF Pair, SetCookie, Keep
      <3> QED
        BY <2>1, <2>2, <3>2, RefreshAnsweredGoes
    <2>3. CASE refresh' = RefreshAnswered(c, FALSE, Keep)
      BY <1>1, <2>1, <2>3, RefreshAnsweredGoes
    <2> QED
      BY <1>7, <2>2, <2>3 DEF RotateTokens
  <1>8. CASE RefreshFails(c)
    BY <1>1, <1>8, RefreshAnsweredGoes DEF RefreshFails
  <1> QED
    BY <1>2, <1>3, <1>4, <1>5, <1>6, <1>7, <1>8 DEF Serve

\* A step of the network.
LEMMA ArriveNearer ==
    ASSUME IInv, WaitersServed, NEW c \in Call, Arrive(c)
    PROVE  Nearer(c)
  <1>t. TypeOK /\ FlightsOK
    BY DEF IInv
  <1>1. CASE Deliver(c) /\ ~Retries(c)
    BY <1>1, CallEnds DEF Deliver
  <1>2. CASE Deliver(c) /\ Retries(c)
    <2>1. call[c].pc = "answer" /\ call[c].tab \in Tab /\ ~Running(c)
      BY <1>2, NotWaiting DEF Deliver
    <2>2. PICK t \in Tab : t = call[c].tab
      BY <2>1
    <2>3. CASE flight[t] = None
      <3>1. /\ refresh' = [refresh EXCEPT ![c] = [NoRefresh EXCEPT !.pc = "lookup",
                                                                  !.cookie = jar]]
            /\ flight' = [flight EXCEPT ![t] = c] /\ call' = Waiting(c, c)
        BY <1>2, <2>2, <2>3 DEF Deliver, RefreshSession, Waiting
      <3>2. refresh'[c].pc = "lookup" /\ \A d \in Call : d # c => refresh'[d] = refresh[d]
        BY <1>t, <3>1 DEF TypeOK, NoRefresh
      <3>3. flight'[t] = c /\ \A u \in Tab : u # t => flight'[u] = flight[u]
        BY <1>t, <3>1 DEF TypeOK
      <3> QED
        BY <1>2, <2>1, <2>2, <2>3, <3>1, <3>2, <3>3, CallWaits
    <2>4. CASE flight[t] # None
      <3>1. PICK e \in Call : e = flight[t]
        BY <1>t, <2>4 DEF TypeOK
      <3>2. call' = Waiting(c, e) /\ UNCHANGED <<refresh, flight>>
        BY <1>2, <2>2, <2>4, <3>1 DEF Deliver, RefreshSession, Waiting
      <3>3. refresh[e] \in RefreshState /\ refresh[e].pc # "idle"
        BY <1>t, <2>4, <3>1 DEF TypeOK, FlightsOK, Running
      <3>4. refresh[e].pc \in {"lookup", "rotate", "answer"}
        BY <3>3 DEF RefreshState
      <3> QED
        BY <1>2, <2>1, <2>2, <3>1, <3>2, <3>4, CallWaits
    <2> QED
      BY <2>3, <2>4
  <1>3. CASE DeliverRefresh(c)
    <2>1. refresh[c].pc = "answer" /\ refresh[c] \in RefreshState /\ jar \in Cookie
      BY <1>t, <1>3 DEF DeliverRefresh, TypeOK
    <2>2. refresh[c].ok \in BOOLEAN /\ refresh[c].set \in SetCookie
      BY <2>1 DEF RefreshState
    <2>3. refresh[c].set # Keep => refresh[c].set \in Cookie
      BY <2>2, BrowserAssumption DEF SetCookie, Cookie, Keep
    <2>4. PICK again \in BOOLEAN, x \in Cookie : EndRefresh(c, again, x)
      BY <1>3, <2>1, <2>2, <2>3 DEF DeliverRefresh, Cookies
    <2> QED
      BY <2>1, <2>4, RefreshEnds
  <1>4. CASE Lose(c)
    BY <1>4, CallEnds DEF Lose
  <1>5. CASE LoseRefresh(c)
    <2>1. PICK again \in BOOLEAN : EndRefresh(c, again, jar)
      BY <1>5 DEF LoseRefresh
    <2>2. jar \in Cookie /\ refresh[c].pc = "answer"
      BY <1>t, <1>5 DEF LoseRefresh, TypeOK
    <2> QED
      BY <2>1, <2>2, RefreshEnds
  <1> QED
    BY <1>1, <1>2, <1>3, <1>4, <1>5 DEF Arrive

\* What no step may do, and what those of the server and the network always do.
Forward ==
    /\ \A c \in Call : call[c] # Settled => Steps(c)' <= Steps(c)
    /\ (\E c \in Call : Serve(c) \/ Arrive(c)) => \E c \in Call : Steps(c)' < Steps(c)

\* Every step serves the callers of a refresh and goes forward.
LEMMA ForwardStep ==
    ASSUME IInv, WaitersServed, [Next]_vars
    PROVE  WaitersServed' /\ (Forward \/ UNCHANGED vars)
  <1>1. ASSUME NEW c \in Call, Serve(c) \/ Arrive(c) PROVE WaitersServed' /\ Forward
    <2>1. Nearer(c)
      BY <1>1, ServeNearer, ArriveNearer
    <2> QED
      BY <2>1 DEF Nearer, Forward
  <1>2. ASSUME NEW c \in Call, NEW t \in Tab, NEW route \in Route, Begin(c, t, route),
               ~\E d \in Call : Serve(d) \/ Arrive(d)
        PROVE  WaitersServed' /\ Forward
    <2>1. call[c] = Settled /\ UNCHANGED <<refresh, flight>>
      BY <1>2 DEF Begin
    <2>2. /\ call'[c].pc = "sent" /\ \A d \in Call : d # c => call'[d] = call[d]
      <3>1. PICK q : q = Sent(t, route, jar, FALSE)
        OBVIOUS
      <3>2. jar \in Cookie
        BY DEF IInv, TypeOK
      <3>3. q \in CallState /\ q.pc = "sent"
        BY <3>1, <3>2, SettledCall DEF Sent, Settled, CallState
      <3>4. call' = [call EXCEPT ![c] = q]
        BY <1>2, <3>1 DEF Begin
      <3> QED
        BY <3>3, <3>4, CallSet DEF IInv
    <2>3. WaitersServed' /\ \A d \in Call : d # c => Steps(d)' = Steps(d)
      BY <2>1, <2>2, SettledCall, OthersWait
    <2>4. \A d \in Call : call[d] # Settled => Steps(d)' <= Steps(d)
      BY <2>1, <2>3, StepsBounded
    <2> QED
      BY <1>2, <2>3, <2>4 DEF Forward
  <1>3. ASSUME UNCHANGED <<call, refresh, flight>> PROVE WaitersServed'
    BY <1>3 DEF WaitersServed
  <1>4. ASSUME NEW s \in Pair, Expire(s), ~\E d \in Call : Serve(d) \/ Arrive(d)
        PROVE  WaitersServed' /\ Forward
    <2>1. UNCHANGED <<call, refresh, flight>>
      BY <1>4 DEF Expire
    <2>2. \A d \in Call : Steps(d)' = Steps(d)
      BY <2>1 DEF Steps
    <2>3. \A d \in Call : Steps(d)' <= Steps(d)
      BY <2>2, StepsBounded
    <2> QED
      BY <1>3, <1>4, <2>1, <2>3 DEF Forward
  <1>5. CASE UNCHANGED vars
    BY <1>3, <1>5 DEF vars
  <1> QED
    BY <1>1, <1>2, <1>4, <1>5 DEF Next

\* A caller that waits for refreshInFlight always waits for a refresh of its own tab
\* that is under way, whatever the tabs and the number of callers: the promise a 401
\* joins has not settled, and settling leaves no caller behind.
THEOREM WaitersServedAlways == Spec => []WaitersServed
  <1>1. Init => WaitersServed
    BY SettledCall DEF Init, WaitersServed
  <1>2. IInv /\ WaitersServed /\ [Next]_vars => WaitersServed'
    BY ForwardStep
  <1> QED
    BY <1>1, <1>2, Invariance, PTL DEF Spec

\* Nothing sets a call back, and every step of the server or the network brings one
\* nearer to its end.  With the nine steps a call has at most (StepsBounded), this is
\* why fetchWithAuth cannot loop between 401 and refresh, however many calls share
\* the refresh and whichever of its answers fail or get lost.
THEOREM NeverSetBackAlways == Spec => NeverSetBack
  <1>1. IInv /\ WaitersServed /\ [Next]_vars => [Forward]_vars
    BY ForwardStep
  <1>2. Spec => [][Forward]_vars
    BY <1>1, Invariance, WaitersServedAlways, PTL DEF Spec
  <1> QED
    BY <1>2 DEF NeverSetBack, Forward

=============================================================================
