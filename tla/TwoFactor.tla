----------------------------- MODULE TwoFactor ------------------------------
(***************************************************************************)
(* Two-factor authentication of one account: the totp_enabled column, the  *)
(* recovery codes, the login challenges, and the handlers that race on     *)
(* them.                                                                   *)
(*                                                                         *)
(* A request is a process that runs one SQL statement per step.  A DELETE  *)
(* removes the rows that were visible when it started, so under READ       *)
(* COMMITTED it is two steps: fixing that set, and removing it.  The one   *)
(* transaction of the code, ReplaceRecoveryCodes, takes effect as a whole  *)
(* at its commit.  The server cannot know the TOTP secret: whether a TOTP  *)
(* code is valid is up to the client.                                      *)
(***************************************************************************)
EXTENDS Naturals

CONSTANTS Req,        \* slots for requests in flight
          Slot,       \* positions in a set of recovery codes
          MaxGen,     \* bound: sets of recovery codes generated
          Challenge,  \* values an MFA token can take
          None        \* no argument

ASSUME TwoFactorAssumption ==
    MaxGen \in Nat /\ None \notin Challenge /\ None \notin (1..MaxGen) \X Slot

VARIABLES exists,     \* the user row is there
          enabled,    \* users.totp_enabled
          code,       \* table recovery_codes: the state of each code's row
          gens,       \* sets of codes generated so far: codes are never redrawn
          challenge,  \* table mfa_challenges: the state of each token's row
          req,        \* the requests in flight
          spent,      \* history: times each code was accepted
          opened,     \* history: sessions opened on each challenge
          overlap,    \* history: requests whose replacement of the codes ran while
                      \* another one did
          mixed       \* history: the last replacement to commit was such a one

tables  == <<exists, enabled, code, gens, challenge>>
history == <<spent, opened, overlap, mixed>>

vars == <<exists, enabled, code, gens, challenge, req, spent, opened, overlap, mixed>>

\* A code carries the generation it was returned with.
Code == (1..MaxGen) \X Slot

Stages == {"idle", "user", "challenge", "consume", "list", "mark", "account",
           "session", "status", "enable", "replace", "commit", "disable", "clear",
           "remove"}

\* snap: the rows a DELETE in progress saw.
Request == [pc : Stages, op : {"none", "login", "mfa", "enroll", "regenerate", "disable"},
            chal : Challenge \cup {None}, code : Code \cup {None}, snap : SUBSET Code]

Idle == [pc |-> "idle", op |-> "none", chal |-> None, code |-> None, snap |-> {}]

\* The one type invariant.
TypeOK ==
    /\ exists \in BOOLEAN /\ enabled \in BOOLEAN
    /\ code \in [Code -> {"none", "unused", "used"}]
    /\ gens \in 0..MaxGen
    /\ challenge \in [Challenge -> {"new", "live", "expired", "gone"}]
    /\ req \in [Req -> Request]
    /\ spent \in [Code -> Nat]
    /\ opened \in [Challenge -> Nat]
    /\ overlap \in SUBSET Req
    /\ mixed \in BOOLEAN

Init ==
    /\ exists = TRUE
    /\ enabled = FALSE
    /\ code = [c \in Code |-> "none"]
    /\ gens = 0
    /\ challenge = [h \in Challenge |-> "new"]
    /\ req = [r \in Req |-> Idle]
    /\ spent = [c \in Code |-> 0]
    /\ opened = [h \in Challenge |-> 0]
    /\ overlap = {}
    /\ mixed = FALSE

Stored == {c \in Code : code[c] # "none"}

(***************************************************************************)
(* The client sends.                                                       *)
(***************************************************************************)
Send(r, pc, op, h, c) ==
    /\ req[r].pc = "idle"
    /\ req' = [req EXCEPT ![r] = [pc |-> pc, op |-> op, chal |-> h, code |-> c,
                                  snap |-> {}]]
    /\ UNCHANGED <<tables, history>>

SendLogin(r) == Send(r, "user", "login", None, None)

\* A token handed out, with a TOTP code or a recovery code handed out, in any
\* order and as often as the client likes.
GivenCode == {c \in Code : c[1] <= gens}

SendMfa(r) ==
    \E h \in Challenge, c \in GivenCode \cup {None} :
        challenge[h] # "new" /\ Send(r, "consume", "mfa", h, c)

\* A guarded request, already past sessionAuth and a valid TOTP code.
SendEnroll(r) == Send(r, "status", "enroll", None, None)

SendRegenerate(r) == Send(r, "replace", "regenerate", None, None)

SendDisable(r) ==
    \/ Send(r, "disable", "disable", None, None)
    \/ \E c \in GivenCode : Send(r, "list", "disable", None, c)

(***************************************************************************)
(* The handlers, one action per statement.  End answers the request.       *)
(***************************************************************************)
Go(r, pc) == req' = [req EXCEPT ![r].pc = pc]

End(r) == req' = [req EXCEPT ![r] = Idle]

\* PostLogin after the password check: 2FA is asked for if the row read says so.
PostLogin(r) ==
    /\ req[r].pc = "user"
    /\ \/ exists /\ enabled /\ Go(r, "challenge")
       \/ exists /\ ~enabled /\ Go(r, "session")
       \/ ~exists /\ End(r)
    /\ UNCHANGED <<tables, history>>

CreateChallenge(r) ==
    /\ req[r].pc = "challenge"
    /\ \/ /\ exists
          /\ \E h \in Challenge :
                /\ challenge[h] = "new"
                /\ challenge' = [challenge EXCEPT ![h] = "live"]
       \/ ~exists /\ UNCHANGED challenge
    /\ End(r)
    /\ UNCHANGED <<exists, enabled, code, gens, history>>

MConsumeChallenge(r) ==
    /\ req[r].pc = "consume"
    /\ challenge[req[r].chal] = "live"
    /\ \/ req[r].code # None /\ Go(r, "list")
       \/ req[r].code = None /\ Go(r, "account")
    /\ UNCHANGED <<tables, history>>

\* PostLoginMfa: DELETE ... RETURNING, whatever the factor turns out to be worth.
ConsumeChallenge(r) ==
    LET h == req[r].chal IN
    /\ req[r].pc = "consume"
    /\ \/ /\ challenge[h] = "live"
          /\ challenge' = [challenge EXCEPT ![h] = "gone"]
          /\ \/ req[r].code # None /\ Go(r, "list")
             \/ req[r].code = None /\ (Go(r, "account") \/ End(r))
       \/ /\ challenge[h] # "live"
          /\ End(r)
          /\ UNCHANGED challenge
    /\ UNCHANGED <<exists, enabled, code, gens, history>>

\* ConsumeRecoveryCode: the unused codes are listed ...
ListUnusedRecoveryCodes(r) ==
    /\ req[r].pc = "list"
    /\ \/ code[req[r].code] = "unused" /\ Go(r, "mark")
       \/ code[req[r].code] # "unused" /\ End(r)
    /\ UNCHANGED <<tables, history>>

\* The row is locked by a transaction that has deleted it and not committed.
RowLocked(c) == \E t \in Req : req[t].pc = "commit" /\ c \in req[t].snap

Verified(r) == IF req[r].op = "mfa" THEN "account" ELSE "disable"

MMarkRecoveryCodeUsed(r) ==
    LET c == req[r].code IN
    /\ req[r].pc = "mark"
    /\ ~RowLocked(c)
    /\ \/ /\ code[c] # "none"
          /\ code' = [code EXCEPT ![c] = "used"]
          /\ spent' = [spent EXCEPT ![c] = @ + 1]
          /\ Go(r, Verified(r))
       \/ /\ code[c] = "none"
          /\ End(r)
          /\ UNCHANGED <<code, spent>>
    /\ UNCHANGED <<exists, enabled, gens, challenge, opened, overlap, mixed>>

\* ... and the matching one is marked, if it still is unused.
MarkRecoveryCodeUsed(r) ==
    LET c == req[r].code IN
    /\ req[r].pc = "mark"
    /\ ~RowLocked(c)
    /\ \/ /\ code[c] = "unused"
          /\ code' = [code EXCEPT ![c] = "used"]
          /\ spent' = [spent EXCEPT ![c] = @ + 1]
          /\ Go(r, Verified(r))
       \/ /\ code[c] # "unused"
          /\ End(r)
          /\ UNCHANGED <<code, spent>>
    /\ UNCHANGED <<exists, enabled, gens, challenge, opened, overlap, mixed>>

GetByID(r) ==
    /\ req[r].pc = "account"
    /\ \/ exists /\ Go(r, "session")
       \/ ~exists /\ End(r)
    /\ UNCHANGED <<tables, history>>

\* completeLogin: the session is inserted (Sessions), or refused with the account.
CompleteLogin(r) ==
    LET h == req[r].chal IN
    /\ req[r].pc = "session"
    /\ opened' = IF exists /\ h # None THEN [opened EXCEPT ![h] = @ + 1] ELSE opened
    /\ End(r)
    /\ UNCHANGED <<tables, spent, overlap, mixed>>

\* PostUser2faEnroll: not while 2FA is on ...
GetTOTPStatus(r) ==
    /\ req[r].pc = "status"
    /\ \/ exists /\ ~enabled /\ Go(r, "enable")
       \/ ~exists /\ End(r)
       \/ enabled /\ End(r)
    /\ UNCHANGED <<tables, history>>

\* ... then switched on in one statement ...
EnableTOTP(r) ==
    /\ req[r].pc = "enable"
    /\ \/ exists /\ enabled' = TRUE /\ Go(r, "replace")
       \/ ~exists /\ End(r) /\ UNCHANGED enabled
    /\ UNCHANGED <<exists, code, gens, challenge, history>>

\* Requests whose transaction has run its DELETE and not committed.
Replacing == {t \in Req : req[t].pc = "commit"}

\* ... and the codes replaced in a transaction: its DELETE ...
ReplaceDelete(r) ==
    /\ req[r].pc = "replace"
    /\ req' = [req EXCEPT ![r].pc = "commit", ![r].snap = Stored]
    /\ overlap' = IF Replacing = {} THEN overlap \ {r}
                  ELSE overlap \cup Replacing \cup {r}
    /\ UNCHANGED <<tables, spent, opened, mixed>>

NewCodes(c) == c[1] = gens + 1

MReplaceCommit(r) ==
    /\ req[r].pc = "commit"
    /\ exists /\ gens < MaxGen
    /\ code' = [c \in Code |-> IF NewCodes(c) THEN "unused" ELSE code[c]]
    /\ gens' = gens + 1
    /\ mixed' = (r \in overlap)
    /\ End(r)
    /\ UNCHANGED <<exists, enabled, challenge, spent, opened, overlap>>

\* ... its INSERTs, which the foreign key refuses without the account, and COMMIT.
ReplaceCommit(r) ==
    /\ req[r].pc = "commit"
    /\ \/ /\ exists /\ gens < MaxGen
          /\ code' = [c \in Code |-> IF NewCodes(c) THEN "unused"
                                   ELSE IF c \in req[r].snap THEN "none"
                                   ELSE code[c]]
          /\ gens' = gens + 1
          /\ mixed' = (r \in overlap)
       \/ /\ ~exists
          /\ UNCHANGED <<code, gens, mixed>>
    /\ End(r)
    /\ UNCHANGED <<exists, enabled, challenge, spent, opened, overlap>>

MDisableTOTP(r) ==
    /\ req[r].pc = "disable"
    /\ enabled' = None
    /\ Go(r, "clear")
    /\ UNCHANGED <<exists, code, gens, challenge, history>>

\* DeleteUser2fa: switched off in one statement ...
DisableTOTP(r) ==
    /\ req[r].pc = "disable"
    /\ \/ exists /\ enabled' = FALSE /\ Go(r, "clear")
       \/ ~exists /\ End(r) /\ UNCHANGED enabled
    /\ UNCHANGED <<exists, code, gens, challenge, history>>

\* ... and the codes deleted in another, which removes the rows it saw.
ClearCodes(r) ==
    /\ req[r].pc = "clear"
    /\ req' = [req EXCEPT ![r].pc = "remove", ![r].snap = Stored]
    /\ UNCHANGED <<tables, history>>

RemoveCodes(r) ==
    /\ req[r].pc = "remove"
    /\ code' = [c \in Code |-> IF c \in req[r].snap THEN "none" ELSE code[c]]
    /\ End(r)
    /\ UNCHANGED <<exists, enabled, gens, challenge, history>>

\* A statement fails, the transaction rolls back, the server restarts or the
\* request is cancelled: the statements that ran keep their effect.
Abort(r) ==
    /\ req[r].pc # "idle"
    /\ End(r)
    /\ UNCHANGED <<tables, history>>

\* DeleteUser: the row goes, and all its children with it.
DeleteUser ==
    /\ exists
    /\ exists' = FALSE
    /\ enabled' = FALSE
    /\ code' = [c \in Code |-> "none"]
    /\ challenge' = [h \in Challenge |-> IF challenge[h] = "new" THEN "new" ELSE "gone"]
    /\ UNCHANGED <<gens, req, history>>

\* mfaChallengeTTL passes.
Expire ==
    /\ \E h \in Challenge :
          /\ challenge[h] = "live"
          /\ challenge' = [challenge EXCEPT ![h] = "expired"]
    /\ UNCHANGED <<exists, enabled, code, gens, req, history>>

Client(r) == SendLogin(r) \/ SendMfa(r) \/ SendEnroll(r) \/ SendRegenerate(r)
             \/ SendDisable(r)

Server(r) ==
    \/ PostLogin(r) \/ CreateChallenge(r) \/ ConsumeChallenge(r)
    \/ ListUnusedRecoveryCodes(r) \/ MarkRecoveryCodeUsed(r) \/ GetByID(r)
    \/ CompleteLogin(r) \/ GetTOTPStatus(r) \/ EnableTOTP(r) \/ ReplaceDelete(r)
    \/ ReplaceCommit(r) \/ DisableTOTP(r) \/ ClearCodes(r) \/ RemoveCodes(r)
    \/ Abort(r)

Next == DeleteUser \/ Expire \/ \E r \in Req : Client(r) \/ Server(r)

Spec == Init /\ [][Next]_vars

(***************************************************************************)
(* Properties.                                                             *)
(***************************************************************************)

\* A recovery code is accepted once, by a login or by disabling 2FA, although it
\* is listed in one statement and marked used in another.
CodeSpentOnce == \A c \in Code : spent[c] <= 1

\* A challenge opens at most one session, however often its token is presented
\* with a valid second factor.
ChallengeOpensOnce == \A h \in Challenge : opened[h] <= 1

\* The stored codes are of one set: regenerating recovery codes invalidates all
\* previous codes (docs/RECOVERY.md:32), whatever enrolments, removals and logins
\* run meanwhile.  Replacements that overlap are excepted: under READ COMMITTED
\* neither DELETE sees what the other transaction inserts, and both sets stay,
\* until the next replacement that runs alone.
OneCodeSet == ~mixed => \A c, d \in Stored : c[1] = d[1]

=============================================================================
