-------------------------- MODULE TwoFactorProofs ---------------------------
(***************************************************************************)
(* Recovery codes and challenges are good once, for any number of requests *)
(* in flight, codes and challenges.                                        *)
(*                                                                         *)
(* The inductive invariant says what the tables know about the requests    *)
(* that still run.  A code that has a row, was spent, or is in the         *)
(* snapshot of a DELETE belongs to a set drawn already, so the set a       *)
(* replacement inserts is none of these; an unused code is unspent.  A     *)
(* challenge still stored has opened nothing and no request is past        *)
(* consuming it; one consumed has been consumed by one request, which      *)
(* has yet to open the session or has ended.  A replacement that runs      *)
(* alone has every stored code in its snapshot.                            *)
(***************************************************************************)
EXTENDS TwoFactor, TLAPS

\* What a request needs at the stage it has reached.
Stage(q) ==
    /\ q.pc = "user" => q.chal = None
    /\ q.pc = "consume" => q.chal \in Challenge
    /\ q.pc \in {"list", "mark"} => q.code \in Code

StagesOK == \A r \in Req : Stage(req[r])

\* Codes are drawn in order, and what is known of a code follows its drawing.
Drawn(c) == c[1] <= gens

CodesDrawn ==
    /\ \A c \in Code : code[c] # "none" \/ spent[c] # 0 => Drawn(c)
    /\ \A r \in Req : \A c \in req[r].snap : Drawn(c)

UnusedUnspent == \A c \in Code : code[c] = "unused" => spent[c] = 0

\* The request has consumed challenge h and not opened its session yet.
Holds(q, h) == q.chal = h /\ q.pc \in {"list", "mark", "account", "session"}

\* One request at most ever holds a challenge, and it is gone by then.
OneHolder ==
    \A h \in Challenge :
        /\ challenge[h] # "gone" => opened[h] = 0
        /\ \A r \in Req : Holds(req[r], h) => challenge[h] = "gone" /\ opened[h] = 0
        /\ \A r, s \in Req : Holds(req[r], h) /\ Holds(req[s], h) => r = s

CodesOK == CodesDrawn /\ UnusedUnspent /\ CodeSpentOnce

ChallengesOK == OneHolder /\ ChallengeOpensOnce

IInv == TypeOK /\ StagesOK /\ CodesOK /\ ChallengesOK

(***************************************************************************)
(* A step changes one request.                                             *)
(***************************************************************************)

\* A request that ends frees its slot (the return of every handler).
LEMMA IdleRequest ==
    /\ Idle \in Request /\ Stage(Idle) /\ Idle.snap = {}
    /\ \A h \in Challenge : ~Holds(Idle, h)
  BY DEF Idle, Request, Stages, Stage, Holds

\* What the next statement of a handler leaves of its request.
LEMMA GoRequest ==
    ASSUME TypeOK, NEW r \in Req, NEW pc \in Stages, Go(r, pc)
    PROVE  LET q == [req[r] EXCEPT !.pc = pc] IN
           /\ q \in Request /\ req' = [req EXCEPT ![r] = q]
           /\ q.pc = pc /\ q.op = req[r].op /\ q.chal = req[r].chal
           /\ q.code = req[r].code /\ q.snap = req[r].snap
  <1>1. req[r] \in Request
    BY DEF TypeOK
  <1> QED
    BY <1>1 DEF Go, Request, TypeOK

\* The other requests do not notice.
LEMMA Moves ==
    ASSUME TypeOK, StagesOK, NEW r \in Req, NEW q \in Request, Stage(q),
           req' = [req EXCEPT ![r] = q]
    PROVE  /\ req' \in [Req -> Request] /\ StagesOK'
           /\ \A s \in Req : req'[s] = IF s = r THEN q ELSE req[s]
  <1>1. req' \in [Req -> Request] /\ \A s \in Req : req'[s] = IF s = r THEN q ELSE req[s]
    BY DEF TypeOK
  <1> QED
    BY <1>1 DEF StagesOK, Stage

\* A statement that writes no code row keeps what is known of the codes.
LEMMA CodesKept ==
    ASSUME TypeOK, CodesOK, NEW r \in Req, NEW q, \A c \in q.snap : Drawn(c),
           \A s \in Req : req'[s] = IF s = r THEN q ELSE req[s],
           UNCHANGED <<code, gens, spent>>
    PROVE  CodesOK'
  BY DEF CodesOK, CodesDrawn, Drawn, UnusedUnspent, CodeSpentOnce

\* A statement that writes no challenge row and consumes none keeps the holders.
LEMMA ChallengesKept ==
    ASSUME TypeOK, ChallengesOK, NEW r \in Req, NEW q,
           \A h \in Challenge : Holds(q, h) => Holds(req[r], h),
           \A s \in Req : req'[s] = IF s = r THEN q ELSE req[s],
           UNCHANGED <<challenge, opened>>
    PROVE  ChallengesOK'
  <1>1. \A s \in Req : \A h \in Challenge : Holds(req'[s], h) => Holds(req[s], h)
    BY DEF Holds
  <1>2. OneHolder'
    BY <1>1 DEF ChallengesOK, OneHolder
  <1> QED
    BY <1>2 DEF ChallengesOK, ChallengeOpensOnce

\* A statement that reads the tables only.
LEMMA ReadOnly ==
    ASSUME IInv, NEW r \in Req, NEW q \in Request, Stage(q),
           \A c \in q.snap : Drawn(c),
           \A h \in Challenge : Holds(q, h) => Holds(req[r], h),
           req' = [req EXCEPT ![r] = q],
           UNCHANGED <<code, gens, challenge, spent, opened>>,
           UNCHANGED exists, enabled' \in BOOLEAN,
           overlap' \in SUBSET Req, mixed' \in BOOLEAN
    PROVE  IInv'
  <1>1. /\ req' \in [Req -> Request] /\ StagesOK'
        /\ \A s \in Req : req'[s] = IF s = r THEN q ELSE req[s]
    BY Moves DEF IInv
  <1>2. CodesOK'
    BY <1>1, CodesKept DEF IInv
  <1>3. ChallengesOK'
    BY <1>1, ChallengesKept DEF IInv
  <1>4. TypeOK'
    BY <1>1 DEF IInv, TypeOK
  <1> QED
    BY <1>1, <1>2, <1>3, <1>4 DEF IInv

\* The early return of a handler.
LEMMA Ends ==
    ASSUME IInv, NEW r \in Req, End(r), UNCHANGED <<tables, history>>
    PROVE  IInv'
  <1>1. enabled' \in BOOLEAN /\ overlap' \in SUBSET Req /\ mixed' \in BOOLEAN
    BY DEF tables, history, IInv, TypeOK
  <1> QED
    BY <1>1, IdleRequest, ReadOnly DEF End, tables, history

\* The next statement of a handler, when nothing was written.
LEMMA Advances ==
    ASSUME IInv, NEW r \in Req, NEW pc \in Stages, Go(r, pc),
           UNCHANGED <<code, gens, challenge, spent, opened, overlap, mixed>>,
           UNCHANGED exists, enabled' \in BOOLEAN,
           pc # "consume",
           pc = "user" => req[r].chal = None,
           pc \in {"list", "mark"} => req[r].code \in Code,
           pc \in {"list", "mark", "account", "session"} =>
               \/ req[r].pc \in {"list", "mark", "account", "session"}
               \/ req[r].chal = None
    PROVE  IInv'
  <1> DEFINE q == [req[r] EXCEPT !.pc = pc]
  <1>1. /\ q \in Request /\ req' = [req EXCEPT ![r] = q]
        /\ q.pc = pc /\ q.chal = req[r].chal /\ q.code = req[r].code
        /\ q.snap = req[r].snap
    BY GoRequest DEF IInv
  <1> HIDE DEF q
  <1>2. Stage(q)
    BY <1>1 DEF Stage
  <1>3. \A h \in Challenge : Holds(q, h) => Holds(req[r], h)
    BY <1>1, TwoFactorAssumption DEF Holds
  <1>4. \A c \in q.snap : Drawn(c)
    BY <1>1 DEF IInv, CodesOK, CodesDrawn
  <1>5. overlap' \in SUBSET Req /\ mixed' \in BOOLEAN
    BY DEF IInv, TypeOK
  <1> QED
    BY <1>1, <1>2, <1>3, <1>4, <1>5, ReadOnly

(***************************************************************************)
(* The statements that write.                                              *)
(***************************************************************************)

\* A client sends a request, with a token and a code it was given.
LEMMA SendStep ==
    ASSUME IInv, NEW r \in Req, NEW pc \in Stages,
           NEW op \in {"login", "mfa", "enroll", "regenerate", "disable"},
           NEW h \in Challenge \cup {None}, NEW c \in Code \cup {None},
           Send(r, pc, op, h, c),
           pc \in {"list", "mark", "account", "session", "user"} => h = None,
           pc = "consume" => h # None,
           pc \in {"list", "mark"} => c # None
    PROVE  IInv'
  <1> DEFINE q == [pc |-> pc, op |-> op, chal |-> h, code |-> c, snap |-> {}]
  <1>1. q \in Request /\ q.snap = {}
    BY DEF Request
  <1>2. Stage(q)
    BY TwoFactorAssumption DEF Stage, Code
  <1>3. \A g \in Challenge : ~Holds(q, g)
    BY TwoFactorAssumption DEF Holds
  <1>4. req' = [req EXCEPT ![r] = q]
    BY DEF Send
  <1>5. UNCHANGED <<tables, history>>
    BY DEF Send
  <1>6. enabled' \in BOOLEAN /\ overlap' \in SUBSET Req /\ mixed' \in BOOLEAN
    BY <1>5 DEF tables, history, IInv, TypeOK
  <1> HIDE DEF q
  <1> QED
    BY <1>1, <1>2, <1>3, <1>4, <1>5, <1>6, ReadOnly DEF tables, history

\* MfaRepo.CreateChallenge inserts a token nobody has seen.
LEMMA CreateChallengeStep ==
    ASSUME IInv, NEW r \in Req, CreateChallenge(r) PROVE IInv'
  <1>1. CASE UNCHANGED challenge
    <2>1. End(r) /\ UNCHANGED <<tables, history>>
      BY <1>1 DEF CreateChallenge, tables
    <2> QED
      BY <2>1, Ends
  <1>2. ASSUME NEW h \in Challenge, challenge[h] = "new",
               challenge' = [challenge EXCEPT ![h] = "live"]
        PROVE  IInv'
    <2>1. End(r) /\ UNCHANGED <<exists, enabled, code, gens, history>>
      BY DEF CreateChallenge
    <2>2. /\ req' \in [Req -> Request] /\ StagesOK'
          /\ \A s \in Req : req'[s] = IF s = r THEN Idle ELSE req[s]
      BY <2>1, Moves, IdleRequest DEF IInv, End
    <2>3. CodesOK'
      BY <2>1, <2>2, CodesKept, IdleRequest DEF IInv, history
    <2>4. /\ challenge' \in [Challenge -> {"new", "live", "expired", "gone"}]
          /\ \A g \in Challenge : challenge'[g] = IF g = h THEN "live" ELSE challenge[g]
      BY <1>2 DEF IInv, TypeOK
    <2>5. \A s \in Req : \A g \in Challenge : Holds(req'[s], g) => Holds(req[s], g)
      BY <2>2, IdleRequest
    <2>6. ChallengesOK'
      BY <1>2, <2>1, <2>4, <2>5
      DEF IInv, ChallengesOK, OneHolder, ChallengeOpensOnce, history
    <2>7. TypeOK'
      BY <2>1, <2>2, <2>4 DEF IInv, TypeOK, history
    <2> QED
      BY <2>2, <2>3, <2>6, <2>7 DEF IInv
  <1> QED
    BY <1>1, <1>2 DEF CreateChallenge

\* MfaRepo.ConsumeChallenge deletes the row it returns: of two requests with the
\* same token one gets it.
LEMMA ConsumeChallengeStep ==
    ASSUME IInv, NEW r \in Req, ConsumeChallenge(r) PROVE IInv'
  <1> DEFINE h == req[r].chal
  <1>1. req[r].pc = "consume" /\ h \in Challenge
    BY DEF ConsumeChallenge, IInv, StagesOK, Stage
  <1>2. CASE challenge[h] # "live"
    <2>1. End(r) /\ UNCHANGED <<tables, history>>
      BY <1>2 DEF ConsumeChallenge, tables
    <2> QED
      BY <2>1, Ends
  <1>3. CASE challenge[h] = "live"
    <2>1. /\ challenge' = [challenge EXCEPT ![h] = "gone"]
          /\ UNCHANGED <<exists, enabled, code, gens, history>>
      BY <1>3 DEF ConsumeChallenge
    <2>2. /\ challenge' \in [Challenge -> {"new", "live", "expired", "gone"}]
          /\ \A g \in Challenge : challenge'[g] = IF g = h THEN "gone" ELSE challenge[g]
      BY <1>1, <2>1 DEF IInv, TypeOK
    <2>3. ASSUME NEW q \in Request, Stage(q), \A c \in q.snap : Drawn(c),
                 req' = [req EXCEPT ![r] = q],
                 \A g \in Challenge : Holds(q, g) => g = h
          PROVE  IInv'
      <3>1. /\ req' \in [Req -> Request] /\ StagesOK'
            /\ \A s \in Req : req'[s] = IF s = r THEN q ELSE req[s]
        BY <2>3, Moves DEF IInv
      <3>2. CodesOK'
        BY <2>1, <2>3, <3>1, CodesKept DEF IInv, history
      <3>3. \A s \in Req : ~Holds(req[s], h)
        BY <1>1, <1>3 DEF IInv, ChallengesOK, OneHolder
      <3>4. opened[h] = 0
        BY <1>1, <1>3 DEF IInv, ChallengesOK, OneHolder
      <3>5. \A s \in Req : \A g \in Challenge :
               Holds(req'[s], g) => IF s = r THEN g = h ELSE Holds(req[s], g) /\ g # h
        BY <2>3, <3>1, <3>3
      <3>6. OneHolder'
        BY <1>1, <2>1, <2>2, <3>3, <3>4, <3>5
        DEF IInv, ChallengesOK, OneHolder, history
      <3>7. ChallengesOK'
        BY <2>1, <3>6 DEF IInv, ChallengesOK, ChallengeOpensOnce, history
      <3>8. TypeOK'
        BY <2>1, <2>2, <3>1 DEF IInv, TypeOK, history
      <3> QED
        BY <3>1, <3>2, <3>7, <3>8 DEF IInv
    <2>4. CASE End(r)
      BY <2>3, <2>4, IdleRequest DEF End
    <2>5. ASSUME NEW pc \in {"list", "account"}, Go(r, pc), pc = "list" => req[r].code # None
          PROVE  IInv'
      <3> DEFINE q == [req[r] EXCEPT !.pc = pc]
      <3>1. pc \in Stages
        BY DEF Stages
      <3>2. /\ q \in Request /\ req' = [req EXCEPT ![r] = q]
            /\ q.pc = pc /\ q.chal = h /\ q.code = req[r].code /\ q.snap = req[r].snap
        BY <2>5, <3>1, GoRequest DEF IInv
      <3> HIDE DEF q
      <3>3. req[r].code \in Code \cup {None}
        BY DEF IInv, TypeOK, Request
      <3>4. Stage(q)
        BY <2>5, <3>2, <3>3 DEF Stage
      <3>5. \A c \in q.snap : Drawn(c)
        BY <3>2 DEF IInv, CodesOK, CodesDrawn
      <3>6. \A g \in Challenge : Holds(q, g) => g = h
        BY <3>2 DEF Holds
      <3> QED
        BY <2>3, <3>2, <3>4, <3>5, <3>6
    <2> QED
      BY <1>3, <2>4, <2>5 DEF ConsumeChallenge
  <1> QED
    BY <1>2, <1>3

\* MarkRecoveryCodeUsed writes a row only while it is unused, so a code that two
\* requests listed is accepted from one.
LEMMA MarkStep ==
    ASSUME IInv, NEW r \in Req, MarkRecoveryCodeUsed(r) PROVE IInv'
  <1> DEFINE c == req[r].code
  <1>1. req[r].pc = "mark" /\ c \in Code
    BY DEF MarkRecoveryCodeUsed, IInv, StagesOK, Stage
  <1>2. CASE code[c] # "unused"
    <2>1. End(r) /\ UNCHANGED <<tables, history>>
      BY <1>2 DEF MarkRecoveryCodeUsed, tables, history
    <2> QED
      BY <2>1, Ends
  <1>3. CASE code[c] = "unused"
    <2> DEFINE q == [req[r] EXCEPT !.pc = Verified(r)]
    <2>1. /\ code' = [code EXCEPT ![c] = "used"]
          /\ spent' = [spent EXCEPT ![c] = @ + 1]
          /\ Go(r, Verified(r))
          /\ UNCHANGED <<exists, enabled, gens, challenge, opened, overlap, mixed>>
      BY <1>3 DEF MarkRecoveryCodeUsed
    <2>2. Verified(r) \in {"account", "disable"} /\ Verified(r) \in Stages
      BY DEF Verified, Stages
    <2>3. /\ q \in Request /\ req' = [req EXCEPT ![r] = q]
          /\ q.pc = Verified(r) /\ q.chal = req[r].chal /\ q.snap = req[r].snap
      BY <2>1, <2>2, GoRequest DEF IInv
    <2> HIDE DEF q
    <2>4. Stage(q)
      BY <2>2, <2>3 DEF Stage
    <2>5. /\ req' \in [Req -> Request] /\ StagesOK'
          /\ \A s \in Req : req'[s] = IF s = r THEN q ELSE req[s]
      BY <2>3, <2>4, Moves DEF IInv
    <2>6. \A g \in Challenge : Holds(q, g) => Holds(req[r], g)
      BY <1>1, <2>3 DEF Holds
    <2>7. ChallengesOK'
      BY <2>1, <2>5, <2>6, ChallengesKept DEF IInv
    <2>8. /\ code' \in [Code -> {"none", "unused", "used"}]
          /\ \A d \in Code : code'[d] = IF d = c THEN "used" ELSE code[d]
      BY <1>1, <2>1 DEF IInv, TypeOK
    <2>9. /\ spent' \in [Code -> Nat]
          /\ \A d \in Code : spent'[d] = IF d = c THEN spent[c] + 1 ELSE spent[d]
      BY <1>1, <2>1 DEF IInv, TypeOK
    <2>10. spent[c] = 0 /\ Drawn(c)
      BY <1>1, <1>3 DEF IInv, CodesOK, UnusedUnspent, CodesDrawn
    <2>11. CodesDrawn'
      <3>1. \A d \in Code : (code'[d] # "none" \/ spent'[d] # 0) => Drawn(d)
        BY <2>8, <2>9, <2>10 DEF IInv, CodesOK, CodesDrawn
      <3>2. \A s \in Req : \A d \in req'[s].snap : Drawn(d)
        BY <2>3, <2>5 DEF IInv, CodesOK, CodesDrawn
      <3> QED
        BY <2>1, <3>1, <3>2 DEF IInv, CodesOK, CodesDrawn, Drawn
    <2>12. UnusedUnspent' /\ CodeSpentOnce'
      BY <2>8, <2>9, <2>10 DEF IInv, CodesOK, UnusedUnspent, CodeSpentOnce
    <2>13. TypeOK'
      BY <2>1, <2>5, <2>8, <2>9 DEF IInv, TypeOK
    <2> QED
      BY <2>5, <2>7, <2>11, <2>12, <2>13 DEF IInv, CodesOK
  <1> QED
    BY <1>2, <1>3

\* completeLogin opens the session of the one request that holds the challenge.
LEMMA CompleteLoginStep ==
    ASSUME IInv, NEW r \in Req, CompleteLogin(r) PROVE IInv'
  <1> DEFINE h == req[r].chal
  <1>1. /\ req[r].pc = "session" /\ End(r) /\ UNCHANGED <<tables, spent, overlap, mixed>>
        /\ opened' = IF exists /\ h # None THEN [opened EXCEPT ![h] = @ + 1] ELSE opened
    BY DEF CompleteLogin
  <1>2. h \in Challenge \cup {None}
    BY DEF IInv, TypeOK, Request
  <1>3. CASE UNCHANGED opened
    BY <1>1, <1>3, Ends DEF history
  <1>4. CASE h # None /\ opened' = [opened EXCEPT ![h] = @ + 1]
    <2>1. /\ req' \in [Req -> Request] /\ StagesOK'
          /\ \A s \in Req : req'[s] = IF s = r THEN Idle ELSE req[s]
      BY <1>1, Moves, IdleRequest DEF IInv, End
    <2>2. CodesOK'
      BY <1>1, <2>1, CodesKept, IdleRequest DEF IInv, tables
    <2>3. /\ opened' \in [Challenge -> Nat]
          /\ \A g \in Challenge : opened'[g] = IF g = h THEN opened[h] + 1 ELSE opened[g]
      BY <1>2, <1>4 DEF IInv, TypeOK
    <2>4. Holds(req[r], h) /\ h \in Challenge
      BY <1>1, <1>2, <1>4 DEF Holds
    <2>5. challenge[h] = "gone" /\ opened[h] = 0 /\ \A s \in Req : Holds(req[s], h) => s = r
      BY <2>4 DEF IInv, ChallengesOK, OneHolder
    <2>6. \A s \in Req : \A g \in Challenge : Holds(req'[s], g) => Holds(req[s], g) /\ g # h
      BY <2>1, <2>5, IdleRequest
    <2>7. UNCHANGED challenge
      BY <1>1 DEF tables
    <2>8. OneHolder'
      BY <2>3, <2>5, <2>6, <2>7 DEF IInv, ChallengesOK, OneHolder
    <2>9. ChallengeOpensOnce'
      BY <2>3, <2>5 DEF IInv, ChallengesOK, ChallengeOpensOnce
    <2>10. TypeOK'
      BY <1>1, <2>1, <2>3 DEF IInv, TypeOK, tables
    <2> QED
      BY <2>1, <2>2, <2>8, <2>9, <2>10 DEF IInv, ChallengesOK
  <1> QED
    BY <1>1, <1>3, <1>4

\* A DELETE fixes the rows it will remove: they are codes drawn before.
LEMMA SnapStep ==
    ASSUME IInv, NEW r \in Req, NEW pc \in {"commit", "remove"},
           req' = [req EXCEPT ![r].pc = pc, ![r].snap = Stored],
           UNCHANGED <<tables, spent, opened, mixed>>, overlap' \in SUBSET Req
    PROVE  IInv'
  <1> DEFINE q == [req[r] EXCEPT !.pc = pc, !.snap = Stored]
  <1>1. req[r] \in Request /\ Stored \in SUBSET Code
    BY DEF IInv, TypeOK, Stored
  <1>2. q \in Request /\ q.pc = pc /\ q.snap = Stored
    BY <1>1 DEF Request, Stages
  <1>3. req' = [req EXCEPT ![r] = q]
    BY DEF IInv, TypeOK
  <1> HIDE DEF q
  <1>4. Stage(q) /\ \A h \in Challenge : ~Holds(q, h)
    BY <1>2 DEF Stage, Holds
  <1>5. \A c \in q.snap : Drawn(c)
    BY <1>2 DEF IInv, CodesOK, CodesDrawn, Stored
  <1>6. enabled' \in BOOLEAN /\ mixed' \in BOOLEAN
    BY DEF tables, IInv, TypeOK
  <1> QED
    BY <1>2, <1>3, <1>4, <1>5, <1>6, ReadOnly DEF tables

\* ReplaceRecoveryCodes: the codes inserted are of a new set, and in the snapshot
\* of no DELETE.
LEMMA ReplaceCommitStep ==
    ASSUME IInv, NEW r \in Req, ReplaceCommit(r) PROVE IInv'
  <1>1. req[r].pc = "commit" /\ End(r) /\ UNCHANGED <<exists, enabled, challenge, spent, opened, overlap>>
    BY DEF ReplaceCommit
  <1>2. CASE UNCHANGED <<code, gens, mixed>>
    BY <1>1, <1>2, Ends DEF tables, history
  <1>3. ASSUME gens < MaxGen,
               code' = [c \in Code |-> IF NewCodes(c) THEN "unused"
                                         ELSE IF c \in req[r].snap THEN "none"
                                         ELSE code[c]],
               gens' = gens + 1, mixed' \in BOOLEAN
        PROVE  IInv'
    <2>1. /\ req' \in [Req -> Request] /\ StagesOK'
          /\ \A s \in Req : req'[s] = IF s = r THEN Idle ELSE req[s]
      BY <1>1, Moves, IdleRequest DEF IInv, End
    <2>2. ChallengesOK'
      BY <1>1, <2>1, ChallengesKept, IdleRequest DEF IInv
    <2>3. \A c \in Code : code'[c] = IF NewCodes(c) THEN "unused"
                                     ELSE IF c \in req[r].snap THEN "none" ELSE code[c]
      BY <1>3
    <2>4. code' \in [Code -> {"none", "unused", "used"}]
      BY <1>3, <2>3 DEF IInv, TypeOK
    <2>5. gens \in Nat /\ gens' \in 0..MaxGen
      BY <1>3, TwoFactorAssumption DEF IInv, TypeOK
    <2>6. overlap' \in SUBSET Req
      BY <1>1 DEF IInv, TypeOK
    <2>7. \A c \in Code : c[1] \in Nat
      BY DEF Code
    <2>8. \A c \in Code : NewCodes(c) => ~Drawn(c) /\ c[1] <= gens'
      BY <1>3, <2>5, <2>7 DEF NewCodes, Drawn
    <2>9. \A c \in Code : Drawn(c) => c[1] <= gens'
      BY <1>3, <2>5, <2>7 DEF Drawn
    <2>10. CodesDrawn'
      <3>1. \A c \in Code : code'[c] # "none" \/ spent'[c] # 0 => c[1] <= gens'
        BY <1>1, <2>3, <2>8, <2>9 DEF IInv, CodesOK, CodesDrawn
      <3>2. \A s \in Req : \A c \in req[s].snap : c \in Code /\ Drawn(c)
        BY DEF IInv, TypeOK, Request, CodesOK, CodesDrawn
      <3>3. \A s \in Req : \A c \in req'[s].snap : c[1] <= gens'
        BY <2>1, <2>9, <3>2, IdleRequest
      <3> QED
        BY <3>1, <3>3 DEF CodesDrawn, Drawn
    <2>11. UnusedUnspent' /\ CodeSpentOnce'
      BY <1>1, <2>3, <2>8 DEF IInv, CodesOK, CodesDrawn, UnusedUnspent, CodeSpentOnce
    <2>12. TypeOK'
      BY <1>1, <1>3, <2>1, <2>4, <2>5, <2>6 DEF IInv, TypeOK
    <2> QED
      BY <2>1, <2>2, <2>10, <2>11, <2>12 DEF IInv, CodesOK
  <1>4. mixed' = (r \in overlap) => mixed' \in BOOLEAN
    OBVIOUS
  <1> QED
    BY <1>2, <1>3, <1>4 DEF ReplaceCommit

\* Rows that only disappear (DeleteRecoveryCodes, or the cascade from the user
\* row) leave the codes right.
LEMMA RowsRemoved ==
    ASSUME TypeOK, CodesOK, NEW R \in SUBSET Code,
           code' = [c \in Code |-> IF c \in R THEN "none" ELSE code[c]],
           \A s \in Req : req'[s].snap = {} \/ req'[s].snap = req[s].snap,
           UNCHANGED <<gens, history>>
    PROVE  CodesOK' /\ code' \in [Code -> {"none", "unused", "used"}]
  <1>1. \A c \in Code : code'[c] = IF c \in R THEN "none" ELSE code[c]
    OBVIOUS
  <1>2. code' \in [Code -> {"none", "unused", "used"}]
    BY <1>1 DEF TypeOK
  <1>3. CodesDrawn'
    BY <1>1 DEF CodesOK, CodesDrawn, Drawn, history
  <1>4. UnusedUnspent' /\ CodeSpentOnce'
    BY <1>1 DEF CodesOK, UnusedUnspent, CodeSpentOnce, history
  <1> QED
    BY <1>2, <1>3, <1>4 DEF CodesOK

\* DeleteUser2fa removes the rows its DELETE saw.
LEMMA RemoveStep ==
    ASSUME IInv, NEW r \in Req, RemoveCodes(r) PROVE IInv'
  <1>1. /\ End(r) /\ UNCHANGED <<exists, enabled, gens, challenge, history>>
        /\ code' = [c \in Code |-> IF c \in req[r].snap THEN "none" ELSE code[c]]
    BY DEF RemoveCodes
  <1>2. /\ req' \in [Req -> Request] /\ StagesOK'
        /\ \A s \in Req : req'[s] = IF s = r THEN Idle ELSE req[s]
    BY <1>1, Moves, IdleRequest DEF IInv, End
  <1>3. req[r].snap \in SUBSET Code
    BY DEF IInv, TypeOK, Request
  <1>4. CodesOK' /\ code' \in [Code -> {"none", "unused", "used"}]
    BY <1>1, <1>2, <1>3, IdleRequest, RowsRemoved DEF IInv
  <1>5. ChallengesOK'
    BY <1>1, <1>2, ChallengesKept, IdleRequest DEF IInv, history
  <1>6. TypeOK'
    BY <1>1, <1>2, <1>4 DEF IInv, TypeOK, history
  <1> QED
    BY <1>2, <1>4, <1>5, <1>6 DEF IInv

\* DeleteUser takes the codes and the challenges with the row; requests in flight
\* keep what they have read.
LEMMA DeleteUserStep == ASSUME IInv, DeleteUser PROVE IInv'
  <1>1. /\ UNCHANGED <<gens, req, history>> /\ exists' = FALSE /\ enabled' = FALSE
        /\ code' = [c \in Code |-> IF c \in Code THEN "none" ELSE code[c]]
        /\ challenge' = [h \in Challenge |-> IF challenge[h] = "new" THEN "new" ELSE "gone"]
    BY DEF DeleteUser
  <1>2. CodesOK' /\ code' \in [Code -> {"none", "unused", "used"}]
    <2>1. Code \in SUBSET Code
      OBVIOUS
    <2> QED
      BY <1>1, <2>1, RowsRemoved DEF IInv
  <1>3. \A h \in Challenge : challenge'[h] = IF challenge[h] = "new" THEN "new" ELSE "gone"
    BY <1>1
  <1>4. ChallengesOK'
    BY <1>1, <1>3 DEF IInv, TypeOK, ChallengesOK, OneHolder, ChallengeOpensOnce, Holds, history
  <1>5. TypeOK' /\ StagesOK'
    BY <1>1, <1>2 DEF IInv, TypeOK, StagesOK, Stage, history
  <1> QED
    BY <1>2, <1>4, <1>5 DEF IInv

\* A challenge that expires was never consumed.
LEMMA ExpireStep == ASSUME IInv, Expire PROVE IInv'
  <1>1. PICK h \in Challenge : /\ challenge[h] = "live"
                               /\ challenge' = [challenge EXCEPT ![h] = "expired"]
    BY DEF Expire
  <1>2. UNCHANGED <<exists, enabled, code, gens, req, history>>
    BY DEF Expire
  <1>3. /\ challenge' \in [Challenge -> {"new", "live", "expired", "gone"}]
        /\ \A g \in Challenge : challenge'[g] = IF g = h THEN "expired" ELSE challenge[g]
    BY <1>1 DEF IInv, TypeOK
  <1>4. ChallengesOK'
    BY <1>1, <1>2, <1>3 DEF IInv, ChallengesOK, OneHolder, ChallengeOpensOnce, Holds, history
  <1>5. CodesOK'
    BY <1>2 DEF IInv, CodesOK, CodesDrawn, Drawn, UnusedUnspent, CodeSpentOnce, history
  <1>6. TypeOK' /\ StagesOK'
    BY <1>2, <1>3 DEF IInv, TypeOK, StagesOK, Stage, history
  <1> QED
    BY <1>4, <1>5, <1>6 DEF IInv

(***************************************************************************)
(* One set of codes.                                                       *)
(***************************************************************************)

\* Replacements under way at the same time know it, and one that runs alone has
\* every stored code in its snapshot.
AloneSeesAll ==
    /\ \A r, t \in Req : req[r].pc = "commit" /\ req[t].pc = "commit" /\ r # t
                            => r \in overlap
    /\ \A r \in Req : req[r].pc = "commit" /\ r \notin overlap
                            => Stored \subseteq req[r].snap

SetsOK == AloneSeesAll /\ OneCodeSet

\* Everything else only removes codes, and starts no replacement.
LEMMA SetsKept ==
    ASSUME SetsOK, Stored' \subseteq Stored,
           \A s \in Req : req'[s].pc = "commit" => req'[s] = req[s],
           UNCHANGED <<overlap, mixed>>
    PROVE  SetsOK'
  <1>1. AloneSeesAll'
    <2>1. ASSUME NEW r \in Req, NEW t \in Req, req'[r].pc = "commit", req'[t].pc = "commit",
                 r # t
          PROVE  r \in overlap'
      BY <2>1 DEF SetsOK, AloneSeesAll
    <2>2. ASSUME NEW r \in Req, req'[r].pc = "commit", r \notin overlap'
          PROVE  Stored' \subseteq req'[r].snap
      BY <2>2 DEF SetsOK, AloneSeesAll
    <2> QED
      BY <2>1, <2>2 DEF AloneSeesAll
  <1>2. OneCodeSet'
    BY DEF SetsOK, OneCodeSet
  <1> QED
    BY <1>1, <1>2 DEF SetsOK

\* A replacement begins: it runs alone, or all that are under way overlap.
LEMMA ReplaceDeleteSets ==
    ASSUME IInv, SetsOK, NEW r \in Req, ReplaceDelete(r) PROVE SetsOK'
  <1>1. /\ req[r].pc = "replace" /\ UNCHANGED <<tables, spent, opened, mixed>>
        /\ overlap' = IF Replacing = {} THEN overlap \ {r}
                      ELSE overlap \cup Replacing \cup {r}
    BY DEF ReplaceDelete
  <1>2. \A s \in Req : s # r => req'[s] = req[s]
    BY DEF ReplaceDelete, IInv, TypeOK
  <1>3. req'[r].snap = Stored
    BY DEF ReplaceDelete, IInv, TypeOK, Request
  <1>4. Stored' = Stored
    BY <1>1 DEF tables, Stored
  <1>5. ASSUME NEW s \in Req, NEW t \in Req, req'[s].pc = "commit", req'[t].pc = "commit",
               s # t
        PROVE  s \in overlap'
    <2>1. Replacing # {}
      BY <1>2, <1>5 DEF Replacing
    <2>2. s = r \/ s \in Replacing
      BY <1>2, <1>5 DEF Replacing
    <2> QED
      BY <1>1, <2>1, <2>2
  <1>6. ASSUME NEW s \in Req, req'[s].pc = "commit", s \notin overlap'
        PROVE  Stored' \subseteq req'[s].snap
    <2>1. CASE s = r
      BY <1>3, <1>4, <2>1
    <2>2. CASE s # r
      <3>1. s \in Replacing
        BY <1>2, <1>6, <2>2 DEF Replacing
      <3> QED
        BY <1>1, <1>6, <3>1
    <2> QED
      BY <2>1, <2>2
  <1>7. AloneSeesAll'
    BY <1>5, <1>6 DEF AloneSeesAll
  <1>8. OneCodeSet'
    BY <1>1, <1>4 DEF SetsOK, OneCodeSet
  <1> QED
    BY <1>7, <1>8 DEF SetsOK

\* A replacement commits: if it ran alone, the set it inserts is the only one.
LEMMA ReplaceCommitSets ==
    ASSUME IInv, SetsOK, NEW r \in Req, ReplaceCommit(r) PROVE SetsOK'
  <1>1. req[r].pc = "commit" /\ End(r) /\ UNCHANGED overlap
    BY DEF ReplaceCommit
  <1>2. \A s \in Req : req'[s] = IF s = r THEN Idle ELSE req[s]
    BY <1>1 DEF End, IInv, TypeOK
  <1>3. \A s \in Req : req'[s].pc = "commit" => req'[s] = req[s] /\ s # r
    BY <1>2 DEF Idle
  <1>4. CASE UNCHANGED <<code, gens, mixed>>
    <2>1. Stored' \subseteq Stored
      BY <1>4 DEF Stored
    <2> QED
      BY <1>1, <1>3, <1>4, <2>1, SetsKept
  <1>5. CASE /\ code' = [c \in Code |-> IF NewCodes(c) THEN "unused"
                                       ELSE IF c \in req[r].snap THEN "none"
                                       ELSE code[c]]
             /\ mixed' = (r \in overlap)
    <2>1. \A s \in Req : req'[s].pc = "commit" => s \in overlap'
      BY <1>1, <1>3 DEF SetsOK, AloneSeesAll
    <2>2. AloneSeesAll'
      BY <2>1 DEF AloneSeesAll
    <2>3. \A c \in Code : code'[c] = IF NewCodes(c) THEN "unused"
                                     ELSE IF c \in req[r].snap THEN "none" ELSE code[c]
      BY <1>5
    <2>4. ASSUME r \notin overlap, NEW c \in Stored' PROVE c[1] = gens + 1
      <3>1. Stored \subseteq req[r].snap
        BY <1>1, <2>4 DEF SetsOK, AloneSeesAll
      <3>2. c \in Code /\ code'[c] # "none"
        BY DEF Stored
      <3> QED
        BY <2>3, <3>1, <3>2 DEF Stored, NewCodes
    <2>5. OneCodeSet'
      BY <1>5, <2>4 DEF OneCodeSet
    <2> QED
      BY <2>2, <2>5 DEF SetsOK
  <1> QED
    BY <1>4, <1>5 DEF ReplaceCommit

\* A step that leaves a request in no replacement and inserts no code.
LEMMA SetsAside ==
    ASSUME IInv, SetsOK, NEW r \in Req, NEW q, q.pc # "commit",
           req' = [req EXCEPT ![r] = q],
           Stored' \subseteq Stored, UNCHANGED <<overlap, mixed>>
    PROVE  SetsOK'
  <1>1. \A s \in Req : req'[s] = IF s = r THEN q ELSE req[s]
    BY DEF IInv, TypeOK
  <1>2. \A s \in Req : req'[s].pc = "commit" => req'[s] = req[s]
    BY <1>1
  <1> QED
    BY <1>2, SetsKept

\* The next statement of a handler, or its end.
LEMMA SetsOn ==
    ASSUME IInv, SetsOK, NEW r \in Req,
           \/ End(r)
           \/ \E pc \in Stages \ {"commit"} : Go(r, pc),
           Stored' \subseteq Stored, UNCHANGED <<overlap, mixed>>
    PROVE  SetsOK'
  <1>1. CASE End(r)
    <2>1. Idle.pc # "commit"
      BY DEF Idle
    <2> QED
      BY <1>1, <2>1, SetsAside DEF End
  <1>2. ASSUME NEW pc \in Stages, pc # "commit", Go(r, pc) PROVE SetsOK'
    <2>1. PICK q : q = [req[r] EXCEPT !.pc = pc]
      OBVIOUS
    <2>2. req' = [req EXCEPT ![r] = q] /\ q.pc = pc
      BY <1>2, <2>1, GoRequest DEF IInv
    <2> QED
      BY <1>2, <2>2, SetsAside
  <1> QED
    BY <1>1, <1>2

\* A fresh account has no codes and no replacement under way.
LEMMA SetsInit == Init => SetsOK
  <1> SUFFICES ASSUME Init PROVE SetsOK
    OBVIOUS
  <1>1. Stored = {}
    BY DEF Init, Stored
  <1>2. \A r \in Req : req[r].pc # "commit"
    BY DEF Init, Idle
  <1> QED
    BY <1>1, <1>2 DEF SetsOK, AloneSeesAll, OneCodeSet

\* MarkRecoveryCodeUsed writes a row that is there; it adds none.
LEMMA MarkedStaysStored ==
    ASSUME IInv, NEW r \in Req, MarkRecoveryCodeUsed(r) PROVE Stored' \subseteq Stored
  <1>1. CASE UNCHANGED code
    BY <1>1 DEF Stored
  <1>2. CASE /\ code[req[r].code] = "unused"
             /\ code' = [code EXCEPT ![req[r].code] = "used"]
    <2>1. \A d \in Code : code'[d] # "none" => code[d] # "none"
      BY <1>2 DEF IInv, TypeOK
    <2> QED
      BY <2>1 DEF Stored
  <1> QED
    BY <1>1, <1>2 DEF MarkRecoveryCodeUsed

\* Every statement of every handler, in any interleaving.
LEMMA SetsStep == IInv /\ SetsOK /\ [Next]_vars => SetsOK'
  <1> SUFFICES ASSUME IInv, SetsOK, [Next]_vars PROVE SetsOK'
    OBVIOUS
  <1> USE DEF tables, history
  <1>1. CASE UNCHANGED vars
    <2>1. Stored' = Stored /\ UNCHANGED <<req, overlap, mixed>>
      BY <1>1 DEF vars, Stored
    <2> QED
      BY <2>1, SetsKept
  <1>2. CASE DeleteUser
    <2>1. Stored' = {} /\ UNCHANGED <<req, overlap, mixed>>
      BY <1>2 DEF DeleteUser, Stored
    <2> QED
      BY <2>1, SetsKept
  <1>3. CASE Expire
    <2>1. Stored' = Stored /\ UNCHANGED <<req, overlap, mixed>>
      BY <1>3 DEF Expire, Stored
    <2> QED
      BY <2>1, SetsKept
  <1>4. ASSUME NEW r \in Req, Client(r) PROVE SetsOK'
    <2>1. ASSUME NEW pc, NEW op, NEW h, NEW c, Send(r, pc, op, h, c), pc # "commit"
          PROVE  SetsOK'
      <3> DEFINE q == [pc |-> pc, op |-> op, chal |-> h, code |-> c, snap |-> {}]
      <3>1. q.pc # "commit" /\ req' = [req EXCEPT ![r] = q]
        BY <2>1 DEF Send
      <3>2. Stored' = Stored /\ UNCHANGED <<overlap, mixed>>
        BY <2>1 DEF Send, Stored
      <3> HIDE DEF q
      <3> QED
        BY <3>1, <3>2, SetsAside
    <2> QED
      BY <1>4, <2>1
      DEF Client, SendLogin, SendMfa, SendEnroll, SendRegenerate, SendDisable
  <1>5. ASSUME NEW r \in Req, Server(r) PROVE SetsOK'
    <2>0. {"user", "challenge", "consume", "list", "mark", "account", "session", "status",
           "enable", "replace", "disable", "clear"} \subseteq Stages \ {"commit"}
      BY DEF Stages
    <2>1. ASSUME code' = code \/ Stored' \subseteq Stored, UNCHANGED <<overlap, mixed>>,
                 End(r) \/ \E pc \in Stages \ {"commit"} : Go(r, pc)
          PROVE  SetsOK'
      <3>1. Stored' \subseteq Stored
        BY <2>1 DEF Stored
      <3> QED
        BY <2>1, <3>1, SetsOn
    <2>2. CASE PostLogin(r)
      BY <2>0, <2>1, <2>2 DEF PostLogin
    <2>3. CASE CreateChallenge(r)
      BY <2>1, <2>3 DEF CreateChallenge
    <2>4. CASE ConsumeChallenge(r)
      BY <2>0, <2>1, <2>4 DEF ConsumeChallenge
    <2>5. CASE ListUnusedRecoveryCodes(r)
      BY <2>0, <2>1, <2>5 DEF ListUnusedRecoveryCodes
    <2>6. CASE MarkRecoveryCodeUsed(r)
      <3>1. Verified(r) \in Stages \ {"commit"}
        BY <2>0 DEF Verified
      <3> QED
        BY <2>1, <2>6, <3>1, MarkedStaysStored DEF MarkRecoveryCodeUsed
    <2>7. CASE GetByID(r)
      BY <2>0, <2>1, <2>7 DEF GetByID
    <2>8. CASE CompleteLogin(r)
      BY <2>1, <2>8 DEF CompleteLogin
    <2>9. CASE GetTOTPStatus(r)
      BY <2>0, <2>1, <2>9 DEF GetTOTPStatus
    <2>10. CASE EnableTOTP(r)
      BY <2>0, <2>1, <2>10 DEF EnableTOTP
    <2>11. CASE ReplaceDelete(r)
      BY <2>11, ReplaceDeleteSets
    <2>12. CASE ReplaceCommit(r)
      BY <2>12, ReplaceCommitSets
    <2>13. CASE DisableTOTP(r)
      BY <2>0, <2>1, <2>13 DEF DisableTOTP
    <2>14. CASE ClearCodes(r)
      <3>1. PICK q : q = [req[r] EXCEPT !.pc = "remove", !.snap = Stored]
        OBVIOUS
      <3>2. req' = [req EXCEPT ![r] = q] /\ q.pc = "remove"
        BY <2>14, <3>1 DEF ClearCodes, IInv, TypeOK, Request
      <3>3. Stored' = Stored /\ UNCHANGED <<overlap, mixed>>
        BY <2>14 DEF ClearCodes, Stored
      <3> QED
        BY <3>2, <3>3, SetsAside
    <2>15. CASE RemoveCodes(r)
      <3>1. Stored' \subseteq Stored
        BY <2>15 DEF RemoveCodes, Stored
      <3> QED
        BY <2>1, <2>15, <3>1 DEF RemoveCodes
    <2>16. CASE Abort(r)
      BY <2>1, <2>16 DEF Abort
    <2> QED
      BY <1>5, <2>2, <2>3, <2>4, <2>5, <2>6, <2>7, <2>8, <2>9, <2>10, <2>11, <2>12,
         <2>13, <2>14, <2>15, <2>16 DEF Server
  <1> QED
    BY <1>1, <1>2, <1>3, <1>4, <1>5 DEF Next

(***************************************************************************)
(* The theorems.                                                           *)
(***************************************************************************)

\* A fresh account has no codes, no challenges and no requests.
LEMMA InvInit == Init => IInv
  <1> SUFFICES ASSUME Init PROVE IInv
    OBVIOUS
  <1>1. 0 \in 0..MaxGen
    BY TwoFactorAssumption
  <1>2. TypeOK
    BY <1>1, IdleRequest DEF Init, TypeOK
  <1>3. StagesOK
    BY IdleRequest DEF Init, StagesOK
  <1>4. CodesOK
    BY IdleRequest DEF Init, CodesOK, CodesDrawn, UnusedUnspent, CodeSpentOnce
  <1>5. ChallengesOK
    BY IdleRequest DEF Init, ChallengesOK, OneHolder, ChallengeOpensOnce
  <1> QED
    BY <1>2, <1>3, <1>4, <1>5 DEF IInv

\* Every statement of every handler, in any interleaving.
LEMMA InvStep == IInv /\ [Next]_vars => IInv'
  <1> SUFFICES ASSUME IInv, [Next]_vars PROVE IInv'
    OBVIOUS
  <1>1. CASE UNCHANGED vars
    BY <1>1 DEF vars, IInv, TypeOK, StagesOK, Stage, CodesOK, CodesDrawn, Drawn, UnusedUnspent,
                CodeSpentOnce, ChallengesOK, OneHolder, Holds,
                ChallengeOpensOnce
  <1>2. CASE DeleteUser
    BY <1>2, DeleteUserStep
  <1>3. CASE Expire
    BY <1>3, ExpireStep
  <1>4. ASSUME NEW r \in Req, Client(r) PROVE IInv'
    <2>1. CASE SendLogin(r)
      BY <2>1, SendStep DEF SendLogin, Stages
    <2>2. CASE SendMfa(r)
      <3>1. PICK h \in Challenge, c \in GivenCode \cup {None} :
                Send(r, "consume", "mfa", h, c)
        BY <2>2 DEF SendMfa
      <3>2. c \in Code \cup {None} /\ h # None /\ "consume" \in Stages
        BY TwoFactorAssumption DEF GivenCode, Stages
      <3> QED
        BY <3>1, <3>2, SendStep
    <2>3. CASE SendEnroll(r)
      BY <2>3, SendStep DEF SendEnroll, Stages
    <2>4. CASE SendRegenerate(r)
      BY <2>4, SendStep DEF SendRegenerate, Stages
    <2>5. CASE Send(r, "disable", "disable", None, None)
      BY <2>5, SendStep DEF Stages
    <2>6. ASSUME NEW c \in GivenCode, Send(r, "list", "disable", None, c) PROVE IInv'
      <3>1. c \in Code /\ c # None /\ "list" \in Stages
        BY TwoFactorAssumption DEF GivenCode, Code, Stages
      <3> QED
        BY <2>6, <3>1, SendStep
    <2> QED
      BY <1>4, <2>1, <2>2, <2>3, <2>4, <2>5, <2>6 DEF Client, SendDisable
  <1>5. ASSUME NEW r \in Req, Server(r) PROVE IInv'
    <2> USE DEF tables, history
    <2>0. /\ {"challenge", "session", "mark", "enable", "replace", "clear"} \subseteq Stages
          /\ enabled \in BOOLEAN
      BY DEF IInv, TypeOK, Stages
    <2>1. CASE PostLogin(r)
      <3>1. req[r].pc = "user" /\ req[r].chal = None
        BY <2>1 DEF PostLogin, IInv, StagesOK, Stage
      <3> QED
        BY <2>0, <2>1, <3>1, Ends, Advances DEF PostLogin
    <2>2. CASE CreateChallenge(r)
      BY <2>2, CreateChallengeStep
    <2>3. CASE ConsumeChallenge(r)
      BY <2>3, ConsumeChallengeStep
    <2>4. CASE ListUnusedRecoveryCodes(r)
      <3>1. req[r].pc = "list" /\ req[r].code \in Code
        BY <2>4 DEF ListUnusedRecoveryCodes, IInv, StagesOK, Stage
      <3> QED
        BY <2>0, <2>4, <3>1, Ends, Advances DEF ListUnusedRecoveryCodes
    <2>5. CASE MarkRecoveryCodeUsed(r)
      BY <2>5, MarkStep
    <2>6. CASE GetByID(r)
      BY <2>0, <2>6, Ends, Advances DEF GetByID
    <2>7. CASE CompleteLogin(r)
      BY <2>7, CompleteLoginStep
    <2>8. CASE GetTOTPStatus(r)
      BY <2>0, <2>8, Ends, Advances DEF GetTOTPStatus
    <2>9. CASE EnableTOTP(r)
      BY <2>0, <2>9, Ends, Advances DEF EnableTOTP
    <2>10. CASE ReplaceDelete(r)
      <3>1. overlap' \in SUBSET Req
        BY <2>10 DEF ReplaceDelete, Replacing, IInv, TypeOK
      <3> QED
        BY <2>10, <3>1, SnapStep DEF ReplaceDelete
    <2>11. CASE ReplaceCommit(r)
      BY <2>11, ReplaceCommitStep
    <2>12. CASE DisableTOTP(r)
      BY <2>0, <2>12, Ends, Advances DEF DisableTOTP
    <2>13. CASE ClearCodes(r)
      <3>1. overlap' \in SUBSET Req
        BY <2>13 DEF ClearCodes, IInv, TypeOK
      <3> QED
        BY <2>13, <3>1, SnapStep DEF ClearCodes
    <2>14. CASE RemoveCodes(r)
      BY <2>14, RemoveStep
    <2>15. CASE Abort(r)
      BY <2>15, Ends DEF Abort
    <2> QED
      BY <1>5, <2>1, <2>2, <2>3, <2>4, <2>5, <2>6, <2>7, <2>8, <2>9, <2>10, <2>11,
         <2>12, <2>13, <2>14, <2>15 DEF Server
  <1> QED
    BY <1>1, <1>2, <1>3, <1>4, <1>5 DEF Next

\* The invariant holds in every reachable state.
LEMMA Invariance == Spec => []IInv
  BY InvInit, InvStep, PTL DEF Spec

\* The tables and the requests of the 2FA handlers keep their type.
THEOREM TwoFactorType == Spec => []TypeOK
  <1>1. IInv => TypeOK
    BY DEF IInv
  <1> QED
    BY Invariance, <1>1, PTL

\* A recovery code is accepted once, however many logins and 2FA removals list
\* it before one of them marks it used (MfaRepo.ConsumeRecoveryCode).
THEOREM CodeSpentOnceAlways == Spec => []CodeSpentOnce
  <1>1. IInv => CodeSpentOnce
    BY DEF IInv, CodesOK
  <1> QED
    BY Invariance, <1>1, PTL

\* A challenge opens one session, however often its token is presented to
\* PostLoginMfa and by however many requests at once.
THEOREM ChallengeOpensOnceAlways == Spec => []ChallengeOpensOnce
  <1>1. IInv => ChallengeOpensOnce
    BY DEF IInv, ChallengesOK
  <1> QED
    BY Invariance, <1>1, PTL

\* The stored codes are of one set, unless the last replacement to commit
\* overlapped another one (MfaRepo.ReplaceRecoveryCodes).
THEOREM OneCodeSetAlways == Spec => []OneCodeSet
  <1>1. SetsOK => OneCodeSet
    BY DEF SetsOK
  <1> QED
    BY Invariance, SetsInit, SetsStep, <1>1, PTL DEF Spec

=============================================================================
