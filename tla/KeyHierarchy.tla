---------------------------- MODULE KeyHierarchy ----------------------------
(***************************************************************************)
(* The key hierarchy of an account and what the server is told of it.      *)
(*                                                                         *)
(*   password, email --Argon2id--> master key --HKDF--> encryption key     *)
(*   master key, password --Argon2id--> auth hash (sent to the server)     *)
(*   random vault key, sealed under the encryption key (stored as it is)   *)
(*   items and the TOTP secret, sealed under the vault key                 *)
(*                                                                         *)
(* Bytes are symbolic terms: tuples whose first component names the        *)
(* function that made them.  Two terms are equal when they were made in    *)
(* the same way, a blob opens under its own key and additional data only,  *)
(* and nonces, which no comparison looks at, are left out.  An operation   *)
(* that fails (a panic in cmd/wasm) ends the handler that called it.       *)
(*                                                                         *)
(* Tabs may run bundles of different releases, whose default cost          *)
(* parameters differ (ClientDefault): that is what kdf_params is stored    *)
(* for.  Each SQL statement is one step.                                   *)
(***************************************************************************)
EXTENDS Integers

CONSTANTS Tab,            \* browser tabs
          Name,           \* canonical addresses people register and log in with
          Fallback,       \* user@vault.local, when the export field is empty
          Form,           \* ways to type one: letter case, blanks around it
          Password,       \* master passwords users type
          Text,           \* plaintexts of items
          Params,         \* Argon2id cost parameters
          ClientDefault,  \* DEFAULT_KDF_PARAMS of the bundle of each tab
          ServerDefault,  \* DefaultKDFParams of the server
          MaxRandom,      \* bound on random draws
          None

ASSUME HierarchyAssumption ==
    /\ "canonical" \in Form /\ Fallback \notin Name
    /\ ClientDefault \in [Tab -> Params] /\ ServerDefault \in Params
    /\ MaxRandom \in Nat

VARIABLES users,   \* the users table: address -> row, or None
          tab,     \* per tab: the open vault, a login, a password change
          drawn,   \* random values 1..drawn have been drawn
          seen     \* history: every secret-dependent value the server received

vars == <<users, tab, drawn, seen>>

(***************************************************************************)
(* Terms.                                                                  *)
(***************************************************************************)
Typed  == [name : Name, form : Form]
PW(p)  == <<"password", p>>
Failed == <<"failed">>

\* argon2.IDKey, the function behind all three passes.
IDKey(input, salt, params) == <<"argon2id", input, salt, params>>

hkdfExpand(secret, info) == <<"hkdf", secret, info>>

randomBytes(n) == <<"random", n>>

Seal(key, plaintext, aad) == <<"sealed", key, plaintext, aad>>

Open(key, blob, aad) ==
    IF blob[2] = key /\ blob[4] = aad THEN blob[3] ELSE Failed

\* Lower case, no blanks around: every way to type an address has one result.
NormalizeEmail(typed) == <<"email", typed.name>>

DeriveMasterKey(password, salt, params) == IDKey(password, salt, params)

DeriveAuthHash(masterKey, password, params) == IDKey(masterKey, password, params)

\* The MAC key is returned too and never used.
StretchMasterKey(masterKey) == hkdfExpand(masterKey, "secure-vault:v1:enc")

\* The server's pass, with its own fixed parameters.
DeriveServerAuthHash(authHash, salt) == IDKey(authHash, salt, "server")

WrapKey(wrappingKey, vaultKey)       == Seal(wrappingKey, vaultKey, "")
UnwrapKey(wrappingKey, protectedKey) == Open(wrappingKey, protectedKey, "")

EncryptItem(vaultKey, text) == Seal(vaultKey, <<"item", text>>, "")
DecryptItem(vaultKey, blob) == Open(vaultKey, blob, "")

MWrapTOTPSecret(vaultKey, secret) == Seal(secret, vaultKey, "totp-secret-v1")

WrapTOTPSecret(vaultKey, secret)    == Seal(vaultKey, secret, "totp-secret-v1")
UnwrapTOTPSecret(vaultKey, wrapped) == Open(vaultKey, wrapped, "totp-secret-v1")

\* GenerateTOTPSecret.
TOTPSecret(n) == <<"totp", n>>

(***************************************************************************)
(* The functions cmd/wasm exports, composed as the forms compose them.     *)
(***************************************************************************)
MjsDeriveMasterKey(p, typed, params) ==
    DeriveMasterKey(PW(p), <<"email", typed.form>>, params)

jsDeriveMasterKey(p, typed, params) ==
    DeriveMasterKey(PW(p), NormalizeEmail(typed), params)

jsDeriveAuthHash(p, typed, params) ==
    DeriveAuthHash(jsDeriveMasterKey(p, typed, params), PW(p), params)

jsStretchMasterKey(p, typed, params) ==
    StretchMasterKey(jsDeriveMasterKey(p, typed, params))

jsWrapVaultKey(key, p, typed, params) ==
    WrapKey(jsStretchMasterKey(p, typed, params), key)

jsUnwrapVaultKey(wrapped, p, typed, params) ==
    UnwrapKey(jsStretchMasterKey(p, typed, params), wrapped)

jsNewVaultKey == randomBytes(drawn + 1)

jsSealItem(text, key) == EncryptItem(key, text)
jsOpenItem(blob, key) == DecryptItem(key, blob)

jsGenerateTOTPSecret             == TOTPSecret(drawn + 1)
jsWrapTOTPSecret(secret, key)    == WrapTOTPSecret(key, secret)
jsUnwrapTOTPSecret(wrapped, key) == UnwrapTOTPSecret(key, wrapped)

(***************************************************************************)
(* Types.                                                                  *)
(***************************************************************************)
VaultKey  == {randomBytes(n) : n \in 1..MaxRandom}
MasterKey == {DeriveMasterKey(PW(p), <<"email", n>>, k) :
                 p \in Password, n \in Name, k \in Params}
AuthHash  == {DeriveAuthHash(m, m[2], m[4]) : m \in MasterKey}
Wrapped   == {WrapKey(StretchMasterKey(m), key) : m \in MasterKey, key \in VaultKey}
WrappedSecret == {WrapTOTPSecret(key, TOTPSecret(n)) :
                     key \in VaultKey, n \in 1..MaxRandom}

Row == [params : Params, salt : VaultKey, wrapped : Wrapped,
        hash : {DeriveServerAuthHash(h, s) : h \in AuthHash, s \in VaultKey},
        totp : WrappedSecret \cup {None}]

ASSUME NoneAssumption == None \notin Row

\* A login between its requests; token: the MFA challenge is unused.
Login == [typed : Typed, password : Password, params : Params,
          psk : Wrapped \cup {None}, totp : WrappedSecret \cup {None},
          token : BOOLEAN]

\* handleSubmit of ChangePasswordModal, after its sync.
Change == [auth : AuthHash, wrapped : Wrapped, old : VaultKey, new : VaultKey]

TabState == [user : Name \cup {None}, key : VaultKey \cup {None},
             login : Login \cup {None}, change : Change \cup {None}]

\* The one type invariant: in particular every stored and sent value was
\* derived from the canonical address (keys.go: the same function on both
\* sides).
TypeOK ==
    /\ users \in [Name -> Row \cup {None}]
    /\ tab \in [Tab -> TabState]
    /\ drawn \in 0..MaxRandom
    /\ \A x \in seen : x[1] = "argon2id" => x \in AuthHash

Closed == [user |-> None, key |-> None, login |-> None, change |-> None]

Init ==
    /\ users = [n \in Name |-> None]
    /\ tab = [t \in Tab |-> Closed]
    /\ drawn = 0 /\ seen = {}

(***************************************************************************)
(* The users table.                                                        *)
(***************************************************************************)
GetByEmail(typed) == users[NormalizeEmail(typed)[2]]
GetByID(n)        == users[n]

\* INSERT; a duplicate address violates the unique constraint.
CreateUser(n, params, hash, salt, wrapped) ==
    IF users[n] # None THEN users
    ELSE [users EXCEPT ![n] = [params |-> params, hash |-> hash, salt |-> salt,
                               wrapped |-> wrapped, totp |-> None]]

MUpdateAuthCredentials(n, hash, salt, params, wrapped) ==
    [users EXCEPT ![n].hash = hash, ![n].salt = salt, ![n].wrapped = wrapped]

\* One UPDATE of the four columns.
UpdateAuthCredentials(n, hash, salt, params, wrapped) ==
    [users EXCEPT ![n].hash = hash, ![n].salt = salt, ![n].params = params,
                  ![n].wrapped = wrapped]

EnableUserTOTP(n, wrapped) == [users EXCEPT ![n].totp = wrapped]
DisableUserTOTP(n)         == [users EXCEPT ![n].totp = None]

(***************************************************************************)
(* RegisterForm and PostRegister.  The answer is 201 in either case.       *)
(***************************************************************************)
Register(t, typed, p) ==
    LET params  == ClientDefault[t]
        auth    == jsDeriveAuthHash(p, typed, params)
        wrapped == jsWrapVaultKey(jsNewVaultKey, p, typed, params)
        salt    == randomBytes(drawn + 2)
    IN  /\ tab[t] = Closed /\ drawn + 2 <= MaxRandom
        /\ users' = CreateUser(NormalizeEmail(typed)[2], params,
                               DeriveServerAuthHash(auth, salt), salt, wrapped)
        /\ drawn' = drawn + 2
        /\ seen' = seen \cup {auth, wrapped}
        /\ UNCHANGED tab

(***************************************************************************)
(* LoginForm: the parameters, the password, the second factor.             *)
(***************************************************************************)
\* The stored parameters, or the default for an address without an account.
GetLoginKdfParams(t, typed, p) ==
    LET row == GetByEmail(typed) IN
    /\ tab[t] = Closed
    /\ tab' = [tab EXCEPT ![t].login =
                 [typed |-> typed, password |-> p,
                  params |-> IF row = None THEN ServerDefault ELSE row.params,
                  psk |-> None, totp |-> None, token |-> FALSE]]
    /\ UNCHANGED <<users, drawn, seen>>

\* PostLogin's comparison with the stored hash.
Verified(row, auth) == row # None /\ DeriveServerAuthHash(auth, row.salt) = row.hash

\* finishLogin: the parameters of the answer are the ones derived with, and the
\* wrapped key opens.
Finishes(login, row) ==
    /\ row.params = login.params
    /\ jsUnwrapVaultKey(row.wrapped, login.password, login.typed, login.params) # Failed

Opened(login, row) ==
    [Closed EXCEPT !.user = login.typed.name,
       !.key = jsUnwrapVaultKey(row.wrapped, login.password, login.typed, login.params)]

PostLogin(t) ==
    LET login == tab[t].login
        row   == GetByEmail(login.typed)
        auth  == jsDeriveAuthHash(login.password, login.typed, login.params)
    IN  /\ login # None /\ login.psk = None
        /\ seen' = seen \cup {auth}
        /\ tab' = [tab EXCEPT ![t] =
             IF ~Verified(row, auth) THEN Closed
             ELSE IF row.totp # None
             THEN [Closed EXCEPT !.login = [login EXCEPT !.psk = row.wrapped,
                                              !.totp = row.totp, !.token = TRUE]]
             ELSE IF Finishes(login, row) THEN Opened(login, row) ELSE Closed]
        /\ UNCHANGED <<users, drawn>>

\* handleMfaSubmit with a good code.  The TOTP secret is opened and sent along;
\* a recovery code does without.  The answer carries the row as it is now, and
\* the challenge is consumed whatever the form makes of it.
PostLoginMfa(t, recovery) ==
    LET login  == tab[t].login
        row    == GetByID(login.typed.name)
        key    == jsUnwrapVaultKey(login.psk, login.password, login.typed, login.params)
        secret == jsUnwrapTOTPSecret(login.totp, key)
    IN  /\ login # None /\ login.token
        /\ key # Failed /\ (recovery \/ secret # Failed)
        /\ seen' = IF recovery THEN seen ELSE seen \cup {secret}
        /\ tab' = [tab EXCEPT ![t] =
             IF Finishes(login, row) THEN Opened(login, row)
             ELSE [Closed EXCEPT !.login = [login EXCEPT !.token = FALSE]]]
        /\ UNCHANGED <<users, drawn>>

\* Reloading or leaving the page: memory is gone, requests not yet sent are not.
Reload(t) ==
    /\ tab[t] # Closed
    /\ tab' = [tab EXCEPT ![t] = Closed]
    /\ UNCHANGED <<users, drawn, seen>>

(***************************************************************************)
(* What an open vault sends.                                               *)
(***************************************************************************)
SealItem(t, text) ==
    /\ tab[t].key # None
    /\ seen' = seen \cup {jsSealItem(text, tab[t].key)}
    /\ UNCHANGED <<users, tab, drawn>>

\* confirmEnroll: the wrapped secret for storage, the secret itself for the
\* check of the first code.  The two statements of the handler are one step: how
\* they race is in TwoFactor, and what is sent and stored is the same.
EnrollTotp(t) ==
    LET secret  == jsGenerateTOTPSecret
        wrapped == jsWrapTOTPSecret(secret, tab[t].key)
    IN  /\ tab[t].key # None /\ GetByID(tab[t].user).totp = None
        /\ drawn < MaxRandom /\ drawn' = drawn + 1
        /\ users' = EnableUserTOTP(tab[t].user, wrapped)
        /\ seen' = seen \cup {wrapped, secret}
        /\ UNCHANGED tab

\* disable2FA.
DisableTotp(t) ==
    LET wrapped == GetByID(tab[t].user).totp
        secret  == jsUnwrapTOTPSecret(wrapped, tab[t].key)
    IN  /\ tab[t].key # None /\ wrapped # None /\ secret # Failed
        /\ users' = DisableUserTOTP(tab[t].user)
        /\ seen' = seen \cup {secret}
        /\ UNCHANGED <<tab, drawn>>

(***************************************************************************)
(* ChangePasswordModal.  The address it derives with is whatever was typed *)
(* into the list's export field, a fallback address if it is empty; the    *)
(* current password is checked here only, by opening the wrapped key.      *)
(***************************************************************************)
Field == Typed \cup {[name |-> Fallback, form |-> "canonical"]}

ChangeSync(t, typed, current, new, rotate) ==
    LET row    == GetByID(tab[t].user)
        old    == jsUnwrapVaultKey(row.wrapped, current, typed, row.params)
        params == ClientDefault[t]
        key    == IF rotate THEN jsNewVaultKey ELSE old
    IN  /\ tab[t].key # None /\ tab[t].change = None
        /\ old # Failed
        /\ rotate => drawn < MaxRandom
        /\ drawn' = IF rotate THEN drawn + 1 ELSE drawn
        /\ tab' = [tab EXCEPT ![t].change =
                     [auth |-> jsDeriveAuthHash(new, typed, params),
                      wrapped |-> jsWrapVaultKey(key, new, typed, params),
                      old |-> old, new |-> key]]
        /\ UNCHANGED <<users, seen>>

\* One item of a rotation.
Reencrypt(t, blob) ==
    LET c == tab[t].change IN
    /\ c # None /\ c.new # c.old
    /\ blob[1] = "sealed" /\ jsOpenItem(blob, c.old) # Failed
    /\ seen' = seen \cup {jsSealItem(jsOpenItem(blob, c.old)[2], c.new)}
    /\ UNCHANGED <<users, tab, drawn>>

\* PUT /api/user/key, which asks for a session and nothing else.  The answer
\* may be lost (heard = FALSE): then the tab keeps its key.
PutUserKey(t, heard) ==
    LET c    == tab[t].change
        salt == randomBytes(drawn + 1)
    IN  /\ c # None /\ drawn < MaxRandom /\ drawn' = drawn + 1
        /\ users' = UpdateAuthCredentials(tab[t].user,
                       DeriveServerAuthHash(c.auth, salt), salt,
                       ClientDefault[t], c.wrapped)
        /\ seen' = seen \cup {c.auth, c.wrapped}
        /\ tab' = [tab EXCEPT ![t].change = None,
                              ![t].key = IF heard THEN c.new ELSE @]

\* An error on the way to the PUT, or a PUT that the server received and whose
\* UPDATE failed after the salt was drawn.
ChangeFails(t) ==
    LET c == tab[t].change IN
    /\ c # None
    /\ tab' = [tab EXCEPT ![t].change = None]
    /\ \/ UNCHANGED <<drawn, seen>>
       \/ /\ drawn < MaxRandom /\ drawn' = drawn + 1
          /\ seen' = seen \cup {c.auth, c.wrapped}
    /\ UNCHANGED users

Next ==
    \E t \in Tab :
        \/ \E typed \in Typed, p \in Password :
              Register(t, typed, p) \/ GetLoginKdfParams(t, typed, p)
        \/ PostLogin(t) \/ \E recovery \in BOOLEAN : PostLoginMfa(t, recovery)
        \/ Reload(t)
        \/ \E text \in Text : SealItem(t, text)
        \/ EnrollTotp(t) \/ DisableTotp(t)
        \/ \E typed \in Field, current, new \in Password, rotate \in BOOLEAN :
              ChangeSync(t, typed, current, new, rotate)
        \/ \E blob \in seen : Reencrypt(t, blob)
        \/ \E heard \in BOOLEAN : PutUserKey(t, heard)
        \/ ChangeFails(t)

Spec == Init /\ [][Next]_vars

(***************************************************************************)
(* Properties.                                                             *)
(***************************************************************************)
\* Addresses and parameters are public; everything else has to be made.
Makes(known, x) ==
    LET MakesMaster(m) ==
            \/ m \in known
            \/ m[1] = "argon2id" /\ m[2] \in known /\ (m[3][1] = "email" \/ m[3] \in known)
    IN  MakesMaster(x) \/ (x[1] = "hkdf" /\ MakesMaster(x[2]))

\* One round of opening what can be opened.  A wrapped vault key opens items and
\* nothing else, so three rounds open everything.
Analysed(known) ==
    known \cup {b[3] : b \in {x \in known : x[1] = "sealed" /\ Makes(known, x[2])}}

Learnt == Analysed(Analysed(Analysed(seen)))

\* The server is zero-knowledge: from all it ever received, the rejected logins,
\* duplicate registrations, TOTP secrets and blobs of rotated keys included, it
\* cannot make a password, a master or encryption key, a vault key or the text
\* of an item (docs/THREAT_MODEL.md section 5; keys.go DeriveAuthHash).
ZeroKnowledge ==
    \A x \in Learnt :
        /\ x[1] \notin {"password", "hkdf", "random", "item"}
        /\ x[1] = "argon2id" => x[2][1] # "password"

\* After any overlapping password changes, of tabs with different defaults and
\* however the address is typed, the row still fits together: some password is
\* accepted by its hash and opens its wrapped key with its parameters
\* (UpdateAuthCredentials replaces the four columns in one statement).
PasswordOpens ==
    \A n \in Name : users[n] # None =>
        \E p \in Password :
            LET typed == [name |-> n, form |-> "canonical"]
                row   == users[n]
            IN  /\ Verified(row, jsDeriveAuthHash(p, typed, row.params))
                /\ jsUnwrapVaultKey(row.wrapped, p, typed, row.params) # Failed

=============================================================================
