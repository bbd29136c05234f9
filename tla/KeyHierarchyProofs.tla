------------------------- MODULE KeyHierarchyProofs -------------------------
(***************************************************************************)
(* What the server learns, and whether the password still opens the vault, *)
(* for any number of tabs, addresses, passwords, items and cost            *)
(* parameters.                                                             *)
(*                                                                         *)
(* The server receives five kinds of terms only (Received).  The key of    *)
(* every sealed one is a vault key, which it never received, or comes from *)
(* a master key, which it cannot make without a password: so it opens      *)
(* nothing, and what it has learnt is what it has received.                *)
(***************************************************************************)
EXTENDS KeyHierarchy, TLAPS

(***************************************************************************)
(* Terms, by the function that made them.                                  *)
(***************************************************************************)
Email(n)         == <<"email", n>>
Item(text)       == <<"item", text>>
Master(p, n, k)  == DeriveMasterKey(PW(p), Email(n), k)
Auth(p, n, k)    == DeriveAuthHash(Master(p, n, k), PW(p), k)
Wrap(key, p, n, k) == WrapKey(StretchMasterKey(Master(p, n, k)), key)

\* The components of a term are what it was made of.
LEMMA Parts ==
    /\ \A x, s, k : /\ IDKey(x, s, k)[1] = "argon2id" /\ IDKey(x, s, k)[2] = x
                    /\ IDKey(x, s, k)[3] = s /\ IDKey(x, s, k)[4] = k
    /\ \A x, i : hkdfExpand(x, i)[1] = "hkdf" /\ hkdfExpand(x, i)[2] = x
    /\ \A k, x, a : /\ Seal(k, x, a)[1] = "sealed" /\ Seal(k, x, a)[2] = k
                    /\ Seal(k, x, a)[3] = x /\ Seal(k, x, a)[4] = a
    /\ \A n : /\ randomBytes(n)[1] = "random" /\ TOTPSecret(n)[1] = "totp"
              /\ PW(n)[1] = "password" /\ Email(n)[1] = "email" /\ Email(n)[2] = n
              /\ Item(n)[1] = "item" /\ Item(n)[2] = n
    /\ Failed[1] = "failed"
  <1>1. \A x, s, k : /\ IDKey(x, s, k)[1] = "argon2id" /\ IDKey(x, s, k)[2] = x
                    /\ IDKey(x, s, k)[3] = s /\ IDKey(x, s, k)[4] = k
    BY DEF IDKey
  <1>2. \A x, i : hkdfExpand(x, i)[1] = "hkdf" /\ hkdfExpand(x, i)[2] = x
    BY DEF hkdfExpand
  <1>3. \A k, x, a : /\ Seal(k, x, a)[1] = "sealed" /\ Seal(k, x, a)[2] = k
                    /\ Seal(k, x, a)[3] = x /\ Seal(k, x, a)[4] = a
    BY DEF Seal
  <1>4. \A n : /\ randomBytes(n)[1] = "random" /\ TOTPSecret(n)[1] = "totp"
              /\ PW(n)[1] = "password" /\ Email(n)[1] = "email" /\ Email(n)[2] = n
              /\ Item(n)[1] = "item" /\ Item(n)[2] = n
    BY DEF randomBytes, TOTPSecret, PW, Email, Item
  <1>5. Failed[1] = "failed"
    BY DEF Failed
  <1> QED
    BY <1>1, <1>2, <1>3, <1>4, <1>5

\* The three kinds of blob: their keys, and what opens them.
LEMMA Blobs ==
    \A k, x, k2 :
        /\ WrapKey(k, x)[1] = "sealed" /\ WrapKey(k, x)[2] = k
        /\ WrapTOTPSecret(k, x)[1] = "sealed" /\ WrapTOTPSecret(k, x)[2] = k
        /\ EncryptItem(k, x)[1] = "sealed" /\ EncryptItem(k, x)[2] = k
        /\ UnwrapKey(k2, WrapKey(k, x)) = IF k = k2 THEN x ELSE Failed
        /\ UnwrapTOTPSecret(k2, WrapTOTPSecret(k, x)) = IF k = k2 THEN x ELSE Failed
        /\ DecryptItem(k2, EncryptItem(k, x)) = IF k = k2 THEN Item(x) ELSE Failed
        /\ DecryptItem(k2, WrapKey(k, x)) = IF k = k2 THEN x ELSE Failed
        /\ DecryptItem(k2, WrapTOTPSecret(k, x)) = Failed
  <1> SUFFICES ASSUME NEW k, NEW x, NEW k2
               PROVE
        /\ WrapKey(k, x)[1] = "sealed" /\ WrapKey(k, x)[2] = k
        /\ WrapTOTPSecret(k, x)[1] = "sealed" /\ WrapTOTPSecret(k, x)[2] = k
        /\ EncryptItem(k, x)[1] = "sealed" /\ EncryptItem(k, x)[2] = k
        /\ UnwrapKey(k2, WrapKey(k, x)) = IF k = k2 THEN x ELSE Failed
        /\ UnwrapTOTPSecret(k2, WrapTOTPSecret(k, x)) = IF k = k2 THEN x ELSE Failed
        /\ DecryptItem(k2, EncryptItem(k, x)) = IF k = k2 THEN Item(x) ELSE Failed
        /\ DecryptItem(k2, WrapKey(k, x)) = IF k = k2 THEN x ELSE Failed
        /\ DecryptItem(k2, WrapTOTPSecret(k, x)) = Failed
    OBVIOUS
  <1>1. /\ WrapKey(k, x)[1] = "sealed" /\ WrapKey(k, x)[2] = k
        /\ WrapTOTPSecret(k, x)[1] = "sealed" /\ WrapTOTPSecret(k, x)[2] = k
        /\ EncryptItem(k, x)[1] = "sealed" /\ EncryptItem(k, x)[2] = k
    BY DEF WrapKey, WrapTOTPSecret, EncryptItem, Seal
  <1>2. /\ UnwrapKey(k2, WrapKey(k, x)) = IF k = k2 THEN x ELSE Failed
        /\ UnwrapTOTPSecret(k2, WrapTOTPSecret(k, x)) = IF k = k2 THEN x ELSE Failed
    BY DEF WrapKey, UnwrapKey, WrapTOTPSecret, UnwrapTOTPSecret, Seal, Open
  <1>3. /\ DecryptItem(k2, EncryptItem(k, x)) = IF k = k2 THEN Item(x) ELSE Failed
        /\ DecryptItem(k2, WrapKey(k, x)) = IF k = k2 THEN x ELSE Failed
        /\ DecryptItem(k2, WrapTOTPSecret(k, x)) = Failed
    BY DEF WrapKey, WrapTOTPSecret, EncryptItem, DecryptItem, Item, Seal, Open
  <1> QED
    BY <1>1, <1>2, <1>3

\* The sets of terms, by what their elements were made of.
LEMMA Sets ==
    /\ \A n \in 1..MaxRandom : randomBytes(n) \in VaultKey
    /\ \A p \in Password, n \in Name, k \in Params :
          /\ Master(p, n, k) \in MasterKey /\ Auth(p, n, k) \in AuthHash
          /\ \A key \in VaultKey : Wrap(key, p, n, k) \in Wrapped
    /\ \A x \in VaultKey : x[1] = "random"
    /\ \A x \in AuthHash : \E p \in Password, n \in Name, k \in Params : x = Auth(p, n, k)
    /\ \A x \in Wrapped : \E key \in VaultKey, p \in Password, n \in Name, k \in Params :
          x = Wrap(key, p, n, k)
  <1>1. \A n \in 1..MaxRandom : randomBytes(n) \in VaultKey
    BY DEF VaultKey
  <1>2. \A p \in Password, n \in Name, k \in Params : Master(p, n, k) \in MasterKey
    BY DEF Master, MasterKey, Email
  <1>3. \A p, n, k : Master(p, n, k)[2] = PW(p) /\ Master(p, n, k)[4] = k
    BY Parts DEF Master, DeriveMasterKey
  <1>4. \A p \in Password, n \in Name, k \in Params : Auth(p, n, k) \in AuthHash
    BY <1>2, <1>3 DEF Auth, AuthHash
  <1>5. \A p \in Password, n \in Name, k \in Params, key \in VaultKey : Wrap(key, p, n, k) \in Wrapped
    BY <1>2 DEF Wrap, Wrapped
  <1>6. \A x \in VaultKey : x[1] = "random"
    BY Parts DEF VaultKey
  <1>7. \A m \in MasterKey : \E p \in Password, n \in Name, k \in Params : m = Master(p, n, k)
    BY DEF Master, MasterKey, Email
  <1>8. \A x \in AuthHash : \E p \in Password, n \in Name, k \in Params : x = Auth(p, n, k)
    BY <1>3, <1>7 DEF Auth, AuthHash
  <1>9. \A x \in Wrapped : \E key \in VaultKey, p \in Password, n \in Name, k \in Params :
          x = Wrap(key, p, n, k)
    BY <1>7 DEF Wrap, Wrapped
  <1> QED
    BY <1>1, <1>2, <1>4, <1>5, <1>6, <1>8, <1>9

(***************************************************************************)
(* The server opens nothing.                                               *)
(***************************************************************************)
SealedItem == {EncryptItem(key, text) : key \in VaultKey, text \in Text}
Secret     == {TOTPSecret(n) : n \in 1..MaxRandom}

\* All that is ever sent to the server.
Received == AuthHash \cup Wrapped \cup SealedItem \cup WrappedSecret \cup Secret

\* A key the server can neither have received nor make from what it received.
Safe(k) == \/ k[1] = "random"
           \/ k[1] = "hkdf" /\ k[2][1] = "argon2id" /\ k[2][2][1] = "password"

\* No term the server receives is a key, and every blob is sealed under a safe one.
LEMMA Kinds ==
    \A x \in Received : /\ x[1] \in {"argon2id", "sealed", "totp"}
                        /\ x[1] = "argon2id" => x \in AuthHash /\ x[2][1] = "argon2id"
                        /\ x[1] = "sealed" => Safe(x[2])
  <1> SUFFICES ASSUME NEW x \in Received
               PROVE  /\ x[1] \in {"argon2id", "sealed", "totp"}
                      /\ x[1] = "argon2id" => x \in AuthHash /\ x[2][1] = "argon2id"
                      /\ x[1] = "sealed" => Safe(x[2])
    OBVIOUS
  <1>1. CASE x \in AuthHash
    <2>1. PICK p \in Password, n \in Name, k \in Params : x = Auth(p, n, k)
      BY <1>1, Sets
    <2>2. x[1] = "argon2id" /\ x[2] = Master(p, n, k) /\ Master(p, n, k)[1] = "argon2id"
      BY <2>1, Parts DEF Auth, DeriveAuthHash, Master, DeriveMasterKey
    <2> QED
      BY <1>1, <2>2
  <1>2. CASE x \in Wrapped
    <2>1. PICK key \in VaultKey, p \in Password, n \in Name, k \in Params : x = Wrap(key, p, n, k)
      BY <1>2, Sets
    <2>2. PICK m : m = Master(p, n, k)
      OBVIOUS
    <2>3. x[1] = "sealed" /\ x[2] = StretchMasterKey(m)
      BY <2>1, <2>2, Blobs DEF Wrap
    <2>4. x[2][1] = "hkdf" /\ x[2][2] = m
      BY <2>3, Parts DEF StretchMasterKey
    <2>5. m[1] = "argon2id" /\ m[2] = PW(p) /\ PW(p)[1] = "password"
      BY <2>2, Parts DEF Master, DeriveMasterKey
    <2> QED
      BY <2>3, <2>4, <2>5 DEF Safe
  <1>3. CASE x \in SealedItem \cup WrappedSecret
    <2>1. x[1] = "sealed" /\ x[2] \in VaultKey
      BY <1>3, Blobs DEF SealedItem, WrappedSecret
    <2> QED
      BY <2>1, Sets DEF Safe
  <1>4. CASE x \in Secret
    BY <1>4, Parts DEF Secret
  <1> QED
    BY <1>1, <1>2, <1>3, <1>4 DEF Received

\* A safe key cannot be made.
LEMMA SafeKeys == ASSUME NEW known \in SUBSET Received, NEW x, Safe(x) PROVE ~Makes(known, x)
  <1>1. \A y \in known : /\ y[1] \in {"argon2id", "sealed", "totp"}
                         /\ y[1] = "argon2id" => y[2][1] = "argon2id"
    BY Kinds
  <1>2. CASE x[1] = "random"
    BY <1>1, <1>2 DEF Makes
  <1>3. CASE x[1] = "hkdf" /\ x[2][1] = "argon2id" /\ x[2][2][1] = "password"
    <2>1. x \notin known /\ x[2] \notin known /\ x[2][2] \notin known
      BY <1>1, <1>3
    <2> QED
      BY <1>3, <2>1 DEF Makes
  <1> QED
    BY <1>2, <1>3 DEF Safe

\* So the server learns nothing it was not told, however long it analyses.
LEMMA NothingOpened == ASSUME NEW known \in SUBSET Received PROVE Analysed(known) = known
  <1>1. \A x \in known : x[1] = "sealed" => ~Makes(known, x[2])
    BY Kinds, SafeKeys
  <1> QED
    BY <1>1 DEF Analysed

\* What the server received has the secrecy the property states.
LEMMA Secrecy == seen \subseteq Received => ZeroKnowledge
  <1> SUFFICES ASSUME seen \subseteq Received PROVE ZeroKnowledge
    OBVIOUS
  <1>1. Learnt = seen
    BY NothingOpened DEF Learnt
  <1>2. \A x \in seen : /\ x[1] \in {"argon2id", "sealed", "totp"}
                        /\ x[1] = "argon2id" => x[2][1] = "argon2id"
    BY Kinds
  <1> QED
    BY <1>1, <1>2 DEF ZeroKnowledge

(***************************************************************************)
(* The invariant.                                                          *)
(***************************************************************************)
\* The columns of a row fit together: one password, and the address of the row.
RowOK(n, row) ==
    \E p \in Password, key \in VaultKey :
        /\ row.wrapped = Wrap(key, p, n, row.params)
        /\ row.hash = DeriveServerAuthHash(Auth(p, n, row.params), row.salt)

\* So do the values a password change is about to send.
ChangeOK(n, k, change) ==
    \E p \in Password, key \in VaultKey :
        change.wrapped = Wrap(key, p, n, k) /\ change.auth = Auth(p, n, k)

UsersOK == \A n \in Name : users[n] # None => RowOK(n, users[n])

\* An open vault, and a login past its password, is that of an account; a change
\* is about the account of its tab, whatever address was typed.
TabOK(t, q) ==
    /\ q.key # None => q.user \in Name /\ users[q.user] # None
    /\ q.change # None => q.key # None /\ ChangeOK(q.user, ClientDefault[t], q.change)
    /\ q.login # None /\ q.login.token =>
          /\ q.login.psk \in Wrapped /\ q.login.totp \in WrappedSecret
          /\ users[q.login.typed.name] # None

TabsOK == \A t \in Tab : TabOK(t, tab[t])

IInv == TypeOK /\ UsersOK /\ TabsOK /\ seen \subseteq Received

(***************************************************************************)
(* One tab and one row move.                                               *)
(***************************************************************************)
\* One tab moves, rows stay or are written well, and the server hears what it may.
LEMMA Preserved ==
    ASSUME IInv, NEW t \in Tab, NEW q \in TabState, TabOK(t, q), tab' = [tab EXCEPT ![t] = q],
           users' \in [Name -> Row \cup {None}], UsersOK',
           \A n \in Name : users[n] # None => users'[n] # None,
           drawn' \in 0..MaxRandom, seen' \subseteq Received
    PROVE  IInv'
  <1>1. /\ tab' \in [Tab -> TabState] /\ tab'[t] = q
        /\ \A u \in Tab : u # t => tab'[u] = tab[u]
    BY DEF IInv, TypeOK
  <1>2. \A x \in seen' : x[1] = "argon2id" => x \in AuthHash
    BY Kinds
  <1>3. TypeOK'
    BY <1>1, <1>2 DEF TypeOK
  <1>4. ASSUME NEW u \in Tab, NEW r \in TabState, TabOK(u, r) PROVE TabOK(u, r)'
    <2>1. r.login # None => r.login \in Login
      BY DEF TabState
    <2>2. r.login # None => r.login.typed.name \in Name
      BY <2>1 DEF Login, Typed
    <2> QED
      BY <1>4, <2>2 DEF TabOK
  <1>5. ASSUME NEW u \in Tab PROVE TabOK(u, tab[u])'
    <2>1. PICK r \in TabState : r = tab'[u]
      BY <1>1
    <2>2. TabOK(u, r)
      BY <1>1, <2>1 DEF IInv, TabsOK
    <2>3. TabOK(u, r)'
      BY <1>4, <2>2
    <2> QED
      BY <2>1, <2>3
  <1>6. TabsOK'
    BY <1>5 DEF TabsOK
  <1> QED
    BY <1>3, <1>6 DEF IInv

\* No row is written.
LEMMA SameRows ==
    ASSUME IInv, NEW t \in Tab, NEW q \in TabState, TabOK(t, q), tab' = [tab EXCEPT ![t] = q],
           users' = users, drawn' \in 0..MaxRandom, seen' \subseteq Received
    PROVE  IInv'
  <1>1. users' \in [Name -> Row \cup {None}] /\ UsersOK'
    BY DEF IInv, TypeOK, UsersOK
  <1>2. \A n \in Name : users[n] # None => users'[n] # None
    OBVIOUS
  <1> QED
    BY <1>1, <1>2, Preserved

\* One row is written.
LEMMA RowWritten ==
    ASSUME IInv, NEW t \in Tab, NEW q \in TabState, TabOK(t, q), tab' = [tab EXCEPT ![t] = q],
           NEW n \in Name, NEW row \in Row, RowOK(n, row), users' = [users EXCEPT ![n] = row],
           drawn' \in 0..MaxRandom, seen' \subseteq Received
    PROVE  IInv'
  <1>1. users \in [Name -> Row \cup {None}] /\ UsersOK
    BY DEF IInv, TypeOK
  <1>2. /\ users' \in [Name -> Row \cup {None}] /\ users'[n] = row
        /\ \A m \in Name : m # n => users'[m] = users[m]
    BY <1>1
  <1>3. UsersOK'
    BY <1>1, <1>2 DEF UsersOK
  <1>4. \A m \in Name : users[m] # None => users'[m] # None
    BY <1>2, NoneAssumption
  <1> QED
    BY <1>2, <1>3, <1>4, Preserved

\* A tab that stays as it is.
LEMMA SameTab ==
    ASSUME IInv, NEW t \in Tab, tab' = tab
    PROVE  tab[t] \in TabState /\ TabOK(t, tab[t]) /\ tab' = [tab EXCEPT ![t] = tab[t]]
  BY DEF IInv, TypeOK, TabsOK

\* A closed tab.
LEMMA ClosedTab == Closed \in TabState /\ \A t \in Tab : TabOK(t, Closed)
  BY DEF Closed, TabState, TabOK

\* What the exported functions return.
LEMMA Exports ==
    \A p, typed, k, key, w :
        /\ NormalizeEmail(typed)[2] = typed.name
        /\ jsDeriveAuthHash(p, typed, k) = Auth(p, typed.name, k)
        /\ jsWrapVaultKey(key, p, typed, k) = Wrap(key, p, typed.name, k)
        /\ jsUnwrapVaultKey(w, p, typed, k) = UnwrapKey(StretchMasterKey(Master(p, typed.name, k)), w)
  BY DEF NormalizeEmail, jsDeriveAuthHash, jsWrapVaultKey, jsUnwrapVaultKey, jsStretchMasterKey,
         jsDeriveMasterKey, Auth, Wrap, Master, Email

\* A wrapped key that opens gives a vault key, and was wrapped for the same address.
LEMMA Unwrapped ==
    ASSUME NEW key \in VaultKey, NEW p, NEW n, NEW k, NEW p2, NEW n2, NEW k2
    PROVE  LET r == UnwrapKey(StretchMasterKey(Master(p2, n2, k2)), Wrap(key, p, n, k)) IN
           /\ r = IF StretchMasterKey(Master(p2, n2, k2)) = StretchMasterKey(Master(p, n, k))
                  THEN key ELSE Failed
           /\ r # Failed => r = key /\ n = n2
           /\ p = p2 /\ n = n2 /\ k = k2 => r = key /\ r # Failed
  <1>1. PICK a, b : a = StretchMasterKey(Master(p, n, k)) /\ b = StretchMasterKey(Master(p2, n2, k2))
    OBVIOUS
  <1>2. UnwrapKey(b, Wrap(key, p, n, k)) = IF a = b THEN key ELSE Failed
    BY <1>1, Blobs DEF Wrap
  <1>3. key # Failed
    BY Sets, Parts
  <1>4. a = b => n = n2
    <2>1. \A m : StretchMasterKey(m)[2] = m
      BY DEF StretchMasterKey, hkdfExpand
    <2>2. Master(p, n, k)[3] = Email(n) /\ Master(p2, n2, k2)[3] = Email(n2)
      BY Parts DEF Master, DeriveMasterKey
    <2>3. Email(n)[2] = n /\ Email(n2)[2] = n2
      BY Parts
    <2> QED
      BY <1>1, <2>1, <2>2, <2>3
  <1> QED
    BY <1>1, <1>2, <1>3, <1>4

(***************************************************************************)
(* The actions.                                                            *)
(***************************************************************************)
\* A row as PostRegister and UpdateAuthCredentials write it.
LEMMA NewHash ==
    ASSUME NEW p \in Password, NEW n \in Name, NEW k \in Params, NEW salt \in VaultKey
    PROVE  DeriveServerAuthHash(Auth(p, n, k), salt)
              \in {DeriveServerAuthHash(h, s) : h \in AuthHash, s \in VaultKey}
  BY Sets

\* Registration.
LEMMA RegisterOK ==
    ASSUME IInv, NEW t \in Tab, NEW typed \in Typed, NEW p \in Password, Register(t, typed, p)
    PROVE  IInv'
  <1>1. PICK n \in Name, k \in Params : n = typed.name /\ k = ClientDefault[t]
    BY HierarchyAssumption DEF Typed
  <1>2. /\ drawn \in 0..MaxRandom /\ drawn + 2 <= MaxRandom /\ drawn' = drawn + 2
        /\ MaxRandom \in Nat
    BY HierarchyAssumption DEF Register, IInv, TypeOK
  <1>3. drawn + 1 \in 1..MaxRandom /\ drawn + 2 \in 1..MaxRandom /\ drawn' \in 0..MaxRandom
    BY <1>2
  <1>4. PICK key \in VaultKey, salt \in VaultKey : key = jsNewVaultKey /\ salt = randomBytes(drawn + 2)
    BY <1>3, Sets DEF jsNewVaultKey
  <1>5. PICK auth \in AuthHash, wrapped \in Wrapped : auth = Auth(p, n, k) /\ wrapped = Wrap(key, p, n, k)
    BY Sets
  <1>6. PICK hash : hash = DeriveServerAuthHash(auth, salt)
    OBVIOUS
  <1>7. /\ users' = CreateUser(n, k, hash, salt, wrapped) /\ tab' = tab
        /\ seen' = seen \cup {auth, wrapped}
    BY <1>1, <1>4, <1>5, <1>6, Exports DEF Register
  <1>8. seen' \subseteq Received
    BY <1>7 DEF IInv, Received
  <1>9. tab[t] \in TabState /\ TabOK(t, tab[t]) /\ tab' = [tab EXCEPT ![t] = tab[t]]
    BY <1>7, SameTab
  <1>10. CASE users[n] # None
    BY <1>3, <1>7, <1>8, <1>9, <1>10, SameRows DEF CreateUser
  <1>11. CASE users[n] = None
    <2>1. PICK row : row = [params |-> k, hash |-> hash, salt |-> salt, wrapped |-> wrapped, totp |-> None]
      OBVIOUS
    <2>2. users' = [users EXCEPT ![n] = row]
      BY <1>7, <1>11, <2>1 DEF CreateUser
    <2>3. hash \in {DeriveServerAuthHash(h, s) : h \in AuthHash, s \in VaultKey}
      BY <1>5, <1>6, NewHash
    <2>4. row \in Row
      BY <2>1, <2>3 DEF Row
    <2>5. /\ row.wrapped = wrapped /\ row.params = k /\ row.salt = salt /\ row.hash = hash
      BY <2>1
    <2>6. RowOK(n, row)
      BY <1>5, <1>6, <2>5 DEF RowOK
    <2> QED
      BY <1>3, <1>8, <1>9, <2>2, <2>4, <2>6, RowWritten
  <1> QED
    BY <1>10, <1>11

\* A login asks for the parameters.
LEMMA GetLoginKdfParamsOK ==
    ASSUME IInv, NEW t \in Tab, NEW typed \in Typed, NEW p \in Password,
           GetLoginKdfParams(t, typed, p)
    PROVE  IInv'
  <1>1. PICK n \in Name : n = typed.name
    BY DEF Typed
  <1>2. GetByEmail(typed) = users[n] /\ users[n] \in Row \cup {None}
    BY <1>1, Exports DEF GetByEmail, IInv, TypeOK
  <1>3. PICK k \in Params : k = IF GetByEmail(typed) = None THEN ServerDefault ELSE GetByEmail(typed).params
    <2>1. GetByEmail(typed) # None => GetByEmail(typed).params \in Params
      BY <1>2 DEF Row
    <2> QED
      BY <2>1, HierarchyAssumption
  <1>4. PICK login : login = [typed |-> typed, password |-> p, params |-> k,
                              psk |-> None, totp |-> None, token |-> FALSE]
    OBVIOUS
  <1>5. login \in Login /\ ~login.token
    BY <1>4 DEF Login
  <1>6. tab \in [Tab -> TabState] /\ tab[t] = Closed
    BY DEF GetLoginKdfParams, IInv, TypeOK
  <1>7. tab' = [tab EXCEPT ![t].login = login]
    BY <1>3, <1>4 DEF GetLoginKdfParams
  <1>8. PICK q : q = [Closed EXCEPT !.login = login]
    OBVIOUS
  <1>9. q \in TabState /\ q.key = None /\ q.change = None /\ q.login = login
    BY <1>5, <1>8 DEF Closed, TabState
  <1>10. tab' = [tab EXCEPT ![t] = q]
    BY <1>6, <1>7, <1>8
  <1>11. TabOK(t, q)
    BY <1>5, <1>9 DEF TabOK
  <1>12. users' = users /\ drawn' \in 0..MaxRandom /\ seen' \subseteq Received
    BY DEF GetLoginKdfParams, IInv, TypeOK
  <1> QED
    BY <1>9, <1>10, <1>11, <1>12, SameRows

\* finishLogin opens the vault of an account with a vault key.
LEMMA OpenedTab ==
    ASSUME IInv, NEW login \in Login, NEW row \in Row, users[login.typed.name] = row, row # None,
           Finishes(login, row), NEW t \in Tab
    PROVE  Opened(login, row) \in TabState /\ TabOK(t, Opened(login, row))
  <1>1. PICK n \in Name : n = login.typed.name
    BY DEF Login, Typed
  <1>2. PICK r : r = jsUnwrapVaultKey(row.wrapped, login.password, login.typed, login.params)
    OBVIOUS
  <1>3. r # Failed
    BY <1>2 DEF Finishes
  <1>4. row.wrapped \in Wrapped
    BY DEF Row
  <1>5. PICK key \in VaultKey, p \in Password, m \in Name, k \in Params : row.wrapped = Wrap(key, p, m, k)
    BY <1>4, Sets
  <1>6. r = UnwrapKey(StretchMasterKey(Master(login.password, n, login.params)), Wrap(key, p, m, k))
    BY <1>1, <1>2, <1>5, Exports
  <1>7. r = key
    BY <1>3, <1>6, Unwrapped
  <1>8. PICK q : q = [Closed EXCEPT !.user = n, !.key = key]
    OBVIOUS
  <1>9. Opened(login, row) = q
    BY <1>1, <1>2, <1>7, <1>8 DEF Opened
  <1>10. q \in TabState /\ q.user = n /\ q.change = None /\ q.login = None
    BY <1>8 DEF Closed, TabState
  <1>11. TabOK(t, q)
    BY <1>1, <1>10 DEF TabOK
  <1> QED
    BY <1>9, <1>10, <1>11

\* The password is checked.
LEMMA PostLoginOK == ASSUME IInv, NEW t \in Tab, PostLogin(t) PROVE IInv'
  <1>1. PICK login \in Login : login = tab[t].login
    BY DEF PostLogin, IInv, TypeOK, TabState
  <1>2. PICK n \in Name : n = login.typed.name
    BY DEF Login, Typed
  <1>3. PICK row \in Row \cup {None} : row = users[n]
    BY DEF IInv, TypeOK
  <1>4. GetByEmail(login.typed) = row
    BY <1>2, <1>3, Exports DEF GetByEmail
  <1>5. PICK auth \in AuthHash : auth = jsDeriveAuthHash(login.password, login.typed, login.params)
    <2>1. login.password \in Password /\ login.params \in Params
      BY DEF Login
    <2> QED
      BY <1>2, <2>1, Exports, Sets
  <1>6. seen' \subseteq Received /\ users' = users /\ drawn' \in 0..MaxRandom
    BY <1>1, <1>5 DEF PostLogin, IInv, TypeOK, Received
  <1>7. CASE ~Verified(row, auth)
    <2>1. tab' = [tab EXCEPT ![t] = Closed]
      BY <1>1, <1>4, <1>5, <1>7 DEF PostLogin
    <2> QED
      BY <1>6, <2>1, ClosedTab, SameRows
  <1>8. CASE Verified(row, auth) /\ row.totp # None
    <2>1. row # None /\ row \in Row
      BY <1>8 DEF Verified
    <2>2. row.totp \in WrappedSecret /\ row.wrapped \in Wrapped
      BY <1>8, <2>1 DEF Row
    <2>3. PICK l : l = [login EXCEPT !.psk = row.wrapped, !.totp = row.totp, !.token = TRUE]
      OBVIOUS
    <2>4. l \in Login /\ l.psk = row.wrapped /\ l.totp = row.totp /\ l.typed = login.typed
      BY <2>2, <2>3 DEF Login
    <2>5. PICK q : q = [Closed EXCEPT !.login = l]
      OBVIOUS
    <2>6. q \in TabState /\ q.key = None /\ q.change = None /\ q.login = l
      BY <2>4, <2>5 DEF Closed, TabState
    <2>7. tab' = [tab EXCEPT ![t] = q]
      BY <1>1, <1>4, <1>5, <1>8, <2>3, <2>5 DEF PostLogin
    <2>8. TabOK(t, q)
      BY <1>2, <1>3, <2>1, <2>2, <2>4, <2>6 DEF TabOK
    <2> QED
      BY <1>6, <2>6, <2>7, <2>8, SameRows
  <1>9. CASE Verified(row, auth) /\ row.totp = None
    <2>1. row # None /\ row \in Row
      BY <1>9 DEF Verified
    <2>2. CASE ~Finishes(login, row)
      <3>1. tab' = [tab EXCEPT ![t] = Closed]
        BY <1>1, <1>4, <1>5, <1>9, <2>2 DEF PostLogin
      <3> QED
        BY <1>6, <3>1, ClosedTab, SameRows
    <2>3. CASE Finishes(login, row)
      <3>1. tab' = [tab EXCEPT ![t] = Opened(login, row)]
        BY <1>1, <1>4, <1>5, <1>9, <2>3 DEF PostLogin
      <3>2. Opened(login, row) \in TabState /\ TabOK(t, Opened(login, row))
        BY <1>2, <1>3, <2>1, <2>3, OpenedTab
      <3> QED
        BY <1>6, <3>1, <3>2, SameRows
    <2> QED
      BY <2>2, <2>3
  <1> QED
    BY <1>7, <1>8, <1>9

\* A wrapped TOTP secret that opens gives a TOTP secret.
LEMMA OpenedSecret ==
    ASSUME NEW w \in WrappedSecret, NEW key, jsUnwrapTOTPSecret(w, key) # Failed
    PROVE  jsUnwrapTOTPSecret(w, key) \in Secret
  <1>1. PICK k \in VaultKey, n \in 1..MaxRandom : w = WrapTOTPSecret(k, TOTPSecret(n))
    BY DEF WrappedSecret
  <1>2. jsUnwrapTOTPSecret(w, key) = IF k = key THEN TOTPSecret(n) ELSE Failed
    BY <1>1, Blobs DEF jsUnwrapTOTPSecret
  <1> QED
    BY <1>2 DEF Secret

\* The second factor is checked.
LEMMA PostLoginMfaOK ==
    ASSUME IInv, NEW t \in Tab, \E recovery \in BOOLEAN : PostLoginMfa(t, recovery)
    PROVE  IInv'
  <1>1. PICK login \in Login : login = tab[t].login
    BY DEF PostLoginMfa, IInv, TypeOK, TabState
  <1>2. /\ login # None /\ login.token /\ users' = users /\ drawn' = drawn
    BY <1>1 DEF PostLoginMfa
  <1>3. PICK n \in Name : n = login.typed.name
    BY DEF Login, Typed
  <1>4. login.totp \in WrappedSecret /\ users[n] # None
    BY <1>1, <1>2, <1>3 DEF IInv, TabsOK, TabOK
  <1>5. PICK row \in Row : row = users[n] /\ row # None
    BY <1>4 DEF IInv, TypeOK
  <1>6. GetByID(login.typed.name) = row
    BY <1>3, <1>5 DEF GetByID
  <1>7. PICK key : key = jsUnwrapVaultKey(login.psk, login.password, login.typed, login.params)
    OBVIOUS
  <1>8. \/ seen' = seen
        \/ /\ jsUnwrapTOTPSecret(login.totp, key) # Failed
           /\ seen' = seen \cup {jsUnwrapTOTPSecret(login.totp, key)}
    BY <1>1, <1>7 DEF PostLoginMfa
  <1>9. seen' \subseteq Received
    BY <1>4, <1>8, OpenedSecret DEF IInv, Received
  <1>10. drawn' \in 0..MaxRandom
    BY <1>2 DEF IInv, TypeOK
  <1>11. CASE Finishes(login, row)
    <2>1. tab' = [tab EXCEPT ![t] = Opened(login, row)]
      BY <1>1, <1>6, <1>11 DEF PostLoginMfa
    <2>2. Opened(login, row) \in TabState /\ TabOK(t, Opened(login, row))
      BY <1>3, <1>5, <1>11, OpenedTab
    <2> QED
      BY <1>2, <1>9, <1>10, <2>1, <2>2, SameRows
  <1>12. CASE ~Finishes(login, row)
    <2>1. PICK l : l = [login EXCEPT !.token = FALSE]
      OBVIOUS
    <2>2. l \in Login /\ ~l.token
      BY <2>1 DEF Login
    <2>3. PICK q : q = [Closed EXCEPT !.login = l]
      OBVIOUS
    <2>4. q \in TabState /\ q.key = None /\ q.change = None /\ q.login = l
      BY <2>2, <2>3 DEF Closed, TabState
    <2>5. tab' = [tab EXCEPT ![t] = q]
      BY <1>1, <1>6, <1>12, <2>1, <2>3 DEF PostLoginMfa
    <2>6. TabOK(t, q)
      BY <2>2, <2>4 DEF TabOK
    <2> QED
      BY <1>2, <1>9, <1>10, <2>4, <2>5, <2>6, SameRows
  <1> QED
    BY <1>11, <1>12

\* A page is reloaded.
LEMMA ReloadOK == ASSUME IInv, NEW t \in Tab, Reload(t) PROVE IInv'
  <1>1. users' = users /\ drawn' \in 0..MaxRandom /\ seen' \subseteq Received
    BY DEF Reload, IInv, TypeOK
  <1> QED
    BY <1>1, ClosedTab, SameRows DEF Reload

\* The tab of an open vault: its key and the row of its account.
LEMMA OpenTab ==
    ASSUME IInv, NEW t \in Tab, tab[t].key # None
    PROVE  /\ tab[t].key \in VaultKey /\ tab[t].user \in Name
           /\ users[tab[t].user] \in Row /\ users[tab[t].user] # None
           /\ RowOK(tab[t].user, users[tab[t].user])
  <1>1. tab[t] \in TabState /\ tab[t].user \in Name /\ users[tab[t].user] # None
    BY DEF IInv, TypeOK, TabsOK, TabOK
  <1>2. tab[t].key \in VaultKey
    BY <1>1 DEF TabState
  <1> QED
    BY <1>1, <1>2 DEF IInv, TypeOK, UsersOK

\* An item is stored.
LEMMA SealItemOK == ASSUME IInv, NEW t \in Tab, NEW text \in Text, SealItem(t, text) PROVE IInv'
  <1>1. jsSealItem(text, tab[t].key) \in SealedItem
    BY OpenTab DEF SealItem, jsSealItem, SealedItem
  <1>2. users' = users /\ tab' = tab /\ drawn' \in 0..MaxRandom /\ seen' \subseteq Received
    BY <1>1 DEF SealItem, IInv, TypeOK, Received
  <1> QED
    BY <1>2, SameTab, SameRows

\* The TOTP column is written.
LEMMA TotpRow ==
    ASSUME IInv, NEW n \in Name, NEW w \in WrappedSecret \cup {None}, users[n] \in Row,
           RowOK(n, users[n])
    PROVE  LET row == [users[n] EXCEPT !.totp = w] IN
           /\ row \in Row /\ RowOK(n, row)
           /\ [users EXCEPT ![n].totp = w] = [users EXCEPT ![n] = row]
  <1>1. PICK row : row = [users[n] EXCEPT !.totp = w]
    OBVIOUS
  <1>2. row \in Row
    BY <1>1 DEF Row
  <1>3. /\ row.wrapped = users[n].wrapped /\ row.params = users[n].params
        /\ row.hash = users[n].hash /\ row.salt = users[n].salt
    BY <1>1 DEF Row
  <1>4. RowOK(n, row)
    BY <1>3 DEF RowOK
  <1> QED
    BY <1>1, <1>2, <1>4 DEF IInv, TypeOK

\* Enrolment and its end write the TOTP column and tell the server the secret.
LEMMA TotpOK ==
    ASSUME IInv, NEW t \in Tab, tab[t].key # None, NEW w \in WrappedSecret \cup {None},
           users' = [users EXCEPT ![tab[t].user].totp = w], tab' = tab,
           drawn' \in 0..MaxRandom, seen' \subseteq Received
    PROVE  IInv'
  <1>1. PICK n \in Name : n = tab[t].user
    BY OpenTab
  <1>2. users[n] \in Row /\ RowOK(n, users[n])
    BY <1>1, OpenTab
  <1>3. PICK row \in Row : RowOK(n, row) /\ users' = [users EXCEPT ![n] = row]
    BY <1>1, <1>2, TotpRow
  <1> QED
    BY <1>3, SameTab, RowWritten

\* confirmEnroll stores the wrapped secret and sends the secret along.
LEMMA EnrollTotpOK == ASSUME IInv, NEW t \in Tab, EnrollTotp(t) PROVE IInv'
  <1>1. drawn \in 0..MaxRandom /\ drawn < MaxRandom /\ drawn' = drawn + 1 /\ MaxRandom \in Nat
    BY HierarchyAssumption DEF EnrollTotp, IInv, TypeOK
  <1>2. drawn + 1 \in 1..MaxRandom /\ drawn' \in 0..MaxRandom
    BY <1>1
  <1>3. PICK secret \in Secret : secret = jsGenerateTOTPSecret
    BY <1>2 DEF Secret, jsGenerateTOTPSecret
  <1>4. PICK w \in WrappedSecret : w = jsWrapTOTPSecret(secret, tab[t].key)
    <2>1. tab[t].key \in VaultKey
      BY OpenTab DEF EnrollTotp
    <2> QED
      BY <1>2, <1>3, <2>1 DEF WrappedSecret, jsWrapTOTPSecret, jsGenerateTOTPSecret
  <1>5. /\ users' = [users EXCEPT ![tab[t].user].totp = w] /\ tab' = tab
        /\ seen' = seen \cup {w, secret} /\ tab[t].key # None
    BY <1>3, <1>4 DEF EnrollTotp, EnableUserTOTP
  <1>6. seen' \subseteq Received
    BY <1>5 DEF IInv, Received
  <1> QED
    BY <1>2, <1>5, <1>6, TotpOK

\* disable2FA opens the wrapped secret and sends it.
LEMMA DisableTotpOK == ASSUME IInv, NEW t \in Tab, DisableTotp(t) PROVE IInv'
  <1>1. tab[t].key # None /\ users[tab[t].user] \in Row
    BY OpenTab DEF DisableTotp
  <1>2. PICK w \in WrappedSecret : w = GetByID(tab[t].user).totp
    BY <1>1 DEF DisableTotp, GetByID, Row
  <1>3. jsUnwrapTOTPSecret(w, tab[t].key) \in Secret
    BY <1>2, OpenedSecret DEF DisableTotp
  <1>4. /\ users' = [users EXCEPT ![tab[t].user].totp = None] /\ tab' = tab
        /\ drawn' \in 0..MaxRandom /\ seen' \subseteq Received
    BY <1>2, <1>3 DEF DisableTotp, DisableUserTOTP, IInv, TypeOK, Received
  <1> QED
    BY <1>1, <1>4, TotpOK

\* The form of a password change derives its values: the address typed must be that
\* of the account, or the current password opens nothing.
LEMMA ChangeSyncOK ==
    ASSUME IInv, NEW t \in Tab, NEW typed, NEW current, NEW new \in Password,
           \E rotate \in BOOLEAN : ChangeSync(t, typed, current, new, rotate)
    PROVE  IInv'
  <1>1. tab[t].key # None /\ users' = users /\ seen' = seen
    BY DEF ChangeSync
  <1>2. PICK n \in Name : n = tab[t].user
    BY <1>1, OpenTab
  <1>3. PICK row \in Row : row = users[n] /\ RowOK(n, row)
    BY <1>1, <1>2, OpenTab
  <1>4. PICK old : old = jsUnwrapVaultKey(row.wrapped, current, typed, row.params)
    OBVIOUS
  <1>5. old # Failed
    BY <1>2, <1>3, <1>4 DEF ChangeSync, GetByID
  <1>6. old \in VaultKey /\ typed.name = n
    <2>1. PICK p \in Password, vk \in VaultKey : row.wrapped = Wrap(vk, p, n, row.params)
      BY <1>3 DEF RowOK
    <2>2. old = UnwrapKey(StretchMasterKey(Master(current, typed.name, row.params)),
                          Wrap(vk, p, n, row.params))
      BY <1>4, <2>1, Exports
    <2> QED
      BY <1>5, <2>2, Unwrapped
  <1>7. PICK key \in VaultKey :
          /\ drawn' \in 0..MaxRandom
          /\ tab' = [tab EXCEPT ![t].change =
                       [auth |-> jsDeriveAuthHash(new, typed, ClientDefault[t]),
                        wrapped |-> jsWrapVaultKey(key, new, typed, ClientDefault[t]),
                        old |-> old, new |-> key]]
    <2>1. drawn \in 0..MaxRandom /\ MaxRandom \in Nat
      BY HierarchyAssumption DEF IInv, TypeOK
    <2>2. CASE ChangeSync(t, typed, current, new, TRUE)
      <3>1. drawn < MaxRandom /\ drawn' = drawn + 1
        BY <2>2 DEF ChangeSync
      <3>2. drawn + 1 \in 1..MaxRandom /\ drawn' \in 0..MaxRandom
        BY <2>1, <3>1
      <3>3. jsNewVaultKey \in VaultKey
        BY <3>2, Sets DEF jsNewVaultKey
      <3> QED
        BY <1>2, <1>3, <1>4, <2>2, <3>2, <3>3 DEF ChangeSync, GetByID
    <2>3. CASE ChangeSync(t, typed, current, new, FALSE)
      <3>1. drawn' = drawn
        BY <2>3 DEF ChangeSync
      <3>2. tab' = [tab EXCEPT ![t].change =
                      [auth |-> jsDeriveAuthHash(new, typed, ClientDefault[t]),
                       wrapped |-> jsWrapVaultKey(old, new, typed, ClientDefault[t]),
                       old |-> old, new |-> old]]
        BY <1>2, <1>3, <1>4, <2>3 DEF ChangeSync, GetByID
      <3> QED
        BY <1>6, <2>1, <3>1, <3>2
    <2> QED
      BY <2>2, <2>3
  <1>8. PICK k \in Params : k = ClientDefault[t]
    BY HierarchyAssumption
  <1>9. PICK change : change = [auth |-> Auth(new, n, k), wrapped |-> Wrap(key, new, n, k),
                                old |-> old, new |-> key]
    OBVIOUS
  <1>10. change \in Change /\ change.auth = Auth(new, n, k) /\ change.wrapped = Wrap(key, new, n, k)
    BY <1>6, <1>9, Sets DEF Change
  <1>11. tab' = [tab EXCEPT ![t].change = change]
    <2>1. /\ jsDeriveAuthHash(new, typed, ClientDefault[t]) = Auth(new, n, k)
          /\ jsWrapVaultKey(key, new, typed, ClientDefault[t]) = Wrap(key, new, n, k)
      BY <1>6, <1>8, Exports
    <2> QED
      BY <1>7, <1>9, <2>1
  <1>12. tab \in [Tab -> TabState] /\ tab[t] \in TabState /\ TabOK(t, tab[t])
    BY DEF IInv, TypeOK, TabsOK
  <1>13. PICK q : q = [tab[t] EXCEPT !.change = change]
    OBVIOUS
  <1>14. /\ q \in TabState /\ q.user = n /\ q.key = tab[t].key /\ q.login = tab[t].login
         /\ q.change = change
    BY <1>2, <1>10, <1>12, <1>13 DEF TabState
  <1>15. tab' = [tab EXCEPT ![t] = q]
    BY <1>11, <1>12, <1>13
  <1>16. ChangeOK(n, ClientDefault[t], change)
    BY <1>8, <1>10 DEF ChangeOK
  <1>17. TabOK(t, q)
    BY <1>1, <1>2, <1>12, <1>14, <1>16 DEF TabOK
  <1> QED
    BY <1>1, <1>7, <1>14, <1>15, <1>17, SameRows DEF IInv

\* An item is sealed anew: only a sealed item opens under the old vault key.
LEMMA ReencryptOK == ASSUME IInv, NEW t \in Tab, NEW blob \in seen, Reencrypt(t, blob) PROVE IInv'
  <1>1. PICK c \in Change : c = tab[t].change
    BY DEF Reencrypt, IInv, TypeOK, TabState
  <1>2. c.old \in VaultKey /\ c.new \in VaultKey
    BY DEF Change
  <1>3. blob \in Received /\ blob[1] = "sealed" /\ jsOpenItem(blob, c.old) # Failed
    BY <1>1 DEF Reencrypt, IInv
  <1>4. blob \in SealedItem
    <2>1. blob \notin AuthHash
      BY <1>3, Sets, Parts DEF Auth, DeriveAuthHash
    <2>2. blob \notin Secret
      BY <1>3, Parts DEF Secret
    <2>3. blob \notin WrappedSecret
      BY <1>3, Blobs DEF WrappedSecret, jsOpenItem
    <2>4. ASSUME blob \in Wrapped PROVE FALSE
      <3>1. PICK key \in VaultKey, p \in Password, n \in Name, k \in Params : blob = Wrap(key, p, n, k)
        BY <2>4, Sets
      <3>2. PICK e : e = StretchMasterKey(Master(p, n, k))
        OBVIOUS
      <3>3. e[1] = "hkdf"
        BY <3>2 DEF StretchMasterKey, hkdfExpand
      <3>4. e # c.old
        BY <1>2, <3>3, Sets
      <3>5. DecryptItem(c.old, blob) = Failed
        BY <3>1, <3>2, <3>4, Blobs DEF Wrap
      <3> QED
        BY <1>3, <3>5 DEF jsOpenItem
    <2> QED
      BY <1>3, <2>1, <2>2, <2>3, <2>4 DEF Received
  <1>5. PICK key \in VaultKey, text \in Text : blob = EncryptItem(key, text)
    BY <1>4 DEF SealedItem
  <1>6. jsOpenItem(blob, c.old)[2] = text
    <2>1. jsOpenItem(blob, c.old) = Item(text)
      BY <1>3, <1>5, Blobs DEF jsOpenItem
    <2> QED
      BY <2>1, Parts
  <1>7. jsSealItem(text, c.new) \in SealedItem
    BY <1>2 DEF jsSealItem, SealedItem
  <1>8. seen' = seen \cup {jsSealItem(text, c.new)} /\ users' = users /\ tab' = tab /\ drawn' = drawn
    BY <1>1, <1>6 DEF Reencrypt
  <1>9. seen' \subseteq Received /\ drawn' \in 0..MaxRandom
    BY <1>7, <1>8 DEF IInv, TypeOK, Received
  <1> QED
    BY <1>8, <1>9, SameTab, SameRows

\* The four columns are replaced in one statement.
LEMMA PutUserKeyOK ==
    ASSUME IInv, NEW t \in Tab, \E heard \in BOOLEAN : PutUserKey(t, heard)
    PROVE  IInv'
  <1>1. PICK c \in Change : c = tab[t].change
    BY DEF PutUserKey, IInv, TypeOK, TabState
  <1>2. tab \in [Tab -> TabState] /\ tab[t] \in TabState /\ TabOK(t, tab[t])
    BY DEF IInv, TypeOK, TabsOK
  <1>3. tab[t].key # None /\ ChangeOK(tab[t].user, ClientDefault[t], c)
    BY <1>1, <1>2 DEF PutUserKey, TabOK
  <1>4. PICK n \in Name, k \in Params : n = tab[t].user /\ k = ClientDefault[t]
    BY <1>3, OpenTab, HierarchyAssumption
  <1>5. drawn \in 0..MaxRandom /\ drawn < MaxRandom /\ drawn' = drawn + 1 /\ MaxRandom \in Nat
    BY HierarchyAssumption DEF PutUserKey, IInv, TypeOK
  <1>6. drawn + 1 \in 1..MaxRandom /\ drawn' \in 0..MaxRandom
    BY <1>5
  <1>7. PICK salt \in VaultKey : salt = randomBytes(drawn + 1)
    BY <1>6, Sets
  <1>8. PICK p \in Password, key \in VaultKey : c.wrapped = Wrap(key, p, n, k) /\ c.auth = Auth(p, n, k)
    BY <1>3, <1>4 DEF ChangeOK
  <1>9. c.wrapped \in Wrapped /\ c.auth \in AuthHash
    BY DEF Change
  <1>10. PICK hash : hash = DeriveServerAuthHash(c.auth, salt)
    OBVIOUS
  <1>11. PICK row : row = [users[n] EXCEPT !.hash = hash, !.salt = salt, !.params = k,
                                           !.wrapped = c.wrapped]
    OBVIOUS
  <1>12. users[n] \in Row
    BY <1>3, <1>4, OpenTab
  <1>13. hash \in {DeriveServerAuthHash(h, s) : h \in AuthHash, s \in VaultKey}
    BY <1>9, <1>10
  <1>14. row \in Row
    <2>1. users[n].totp \in WrappedSecret \cup {None}
      BY <1>12 DEF Row
    <2>2. row = [params |-> k, hash |-> hash, salt |-> salt, wrapped |-> c.wrapped,
                 totp |-> users[n].totp]
      <3>1. PICK u : u = users[n]
        OBVIOUS
      <3>2. u = [params |-> u.params, hash |-> u.hash, salt |-> u.salt, wrapped |-> u.wrapped,
                 totp |-> u.totp]
        BY <1>12, <3>1 DEF Row
      <3>3. row = [u EXCEPT !.hash = hash, !.salt = salt, !.params = k, !.wrapped = c.wrapped]
        BY <1>11, <3>1
      <3> QED
        BY <3>1, <3>2, <3>3
    <2> QED
      BY <1>9, <1>13, <2>1, <2>2 DEF Row
  <1>15. row.wrapped = c.wrapped /\ row.params = k /\ row.hash = hash /\ row.salt = salt
    BY <1>11, <1>12 DEF Row
  <1>16. RowOK(n, row)
    BY <1>8, <1>10, <1>15 DEF RowOK
  <1>17. users' = [users EXCEPT ![n] = row]
    <2>1. users \in [Name -> Row \cup {None}]
      BY DEF IInv, TypeOK
    <2>2. users' = [users EXCEPT ![n].hash = hash, ![n].salt = salt, ![n].params = k,
                                 ![n].wrapped = c.wrapped]
      BY <1>1, <1>4, <1>7, <1>10 DEF PutUserKey, UpdateAuthCredentials
    <2> QED
      BY <1>11, <1>12, <2>1, <2>2 DEF Row
  <1>18. seen' \subseteq Received
    BY <1>1, <1>9 DEF PutUserKey, IInv, Received
  <1>19. PICK vk \in VaultKey : tab' = [tab EXCEPT ![t].change = None, ![t].key = vk]
    <2>1. tab[t].key \in VaultKey /\ c.new \in VaultKey
      BY <1>3, OpenTab DEF Change
    <2>2. CASE PutUserKey(t, TRUE)
      BY <1>1, <2>1, <2>2 DEF PutUserKey
    <2>3. CASE PutUserKey(t, FALSE)
      BY <1>1, <2>1, <2>3 DEF PutUserKey
    <2> QED
      BY <2>2, <2>3
  <1>20. PICK q : q = [tab[t] EXCEPT !.change = None, !.key = vk]
    OBVIOUS
  <1>21. /\ q \in TabState /\ q.user = n /\ q.change = None /\ q.login = tab[t].login
    BY <1>2, <1>4, <1>20 DEF TabState
  <1>22. tab' = [tab EXCEPT ![t] = q]
    BY <1>2, <1>19, <1>20 DEF TabState
  <1>23. TabOK(t, q)
    BY <1>2, <1>3, <1>4, <1>21 DEF TabOK
  <1> QED
    BY <1>6, <1>14, <1>16, <1>17, <1>18, <1>21, <1>22, <1>23, RowWritten

\* A password change is given up.
LEMMA ChangeFailsOK == ASSUME IInv, NEW t \in Tab, ChangeFails(t) PROVE IInv'
  <1>1. tab \in [Tab -> TabState] /\ tab[t] \in TabState /\ TabOK(t, tab[t])
    BY DEF IInv, TypeOK, TabsOK
  <1>2. PICK q : q = [tab[t] EXCEPT !.change = None]
    OBVIOUS
  <1>3. /\ q \in TabState /\ q.user = tab[t].user /\ q.change = None
        /\ q.key = tab[t].key /\ q.login = tab[t].login
    BY <1>1, <1>2 DEF TabState
  <1>4. tab' = [tab EXCEPT ![t] = q]
    BY <1>1, <1>2 DEF ChangeFails
  <1>5. TabOK(t, q)
    BY <1>1, <1>3 DEF TabOK
  <1>6. PICK c \in Change : c = tab[t].change
    BY DEF ChangeFails, IInv, TypeOK, TabState
  <1>7. c.auth \in Received /\ c.wrapped \in Received
    BY DEF Change, Received
  <1>8. users' = users /\ seen' \subseteq Received
    BY <1>6, <1>7 DEF ChangeFails, IInv
  <1>9. drawn' \in 0..MaxRandom
    BY HierarchyAssumption DEF ChangeFails, IInv, TypeOK
  <1> QED
    BY <1>3, <1>4, <1>5, <1>8, <1>9, SameRows

(***************************************************************************)
(* The theorems.                                                           *)
(***************************************************************************)
LEMMA InvInit == Init => IInv
  <1> SUFFICES ASSUME Init PROVE IInv
    OBVIOUS
  <1>1. users \in [Name -> Row \cup {None}] /\ tab \in [Tab -> TabState]
    BY ClosedTab DEF Init
  <1>2. drawn \in 0..MaxRandom /\ seen = {}
    BY HierarchyAssumption DEF Init
  <1>3. TypeOK
    BY <1>1, <1>2 DEF TypeOK
  <1>4. UsersOK /\ TabsOK
    BY ClosedTab DEF UsersOK, TabsOK, Init
  <1> QED
    BY <1>2, <1>3, <1>4 DEF IInv

\* Every step keeps the invariant.
LEMMA InvStep == IInv /\ [Next]_vars => IInv'
  <1> SUFFICES ASSUME IInv, [Next]_vars PROVE IInv'
    OBVIOUS
  <1>1. ASSUME NEW t \in Tab, NEW typed \in Typed, NEW p \in Password, Register(t, typed, p)
        PROVE  IInv'
    BY <1>1, RegisterOK
  <1>2. ASSUME NEW t \in Tab, NEW typed \in Typed, NEW p \in Password, GetLoginKdfParams(t, typed, p)
        PROVE  IInv'
    BY <1>2, GetLoginKdfParamsOK
  <1>3. ASSUME NEW t \in Tab, PostLogin(t) \/ Reload(t) \/ EnrollTotp(t) \/ DisableTotp(t) \/ ChangeFails(t)
        PROVE  IInv'
    BY <1>3, PostLoginOK, ReloadOK, EnrollTotpOK, DisableTotpOK, ChangeFailsOK
  <1>4. ASSUME NEW t \in Tab, \E recovery \in BOOLEAN : PostLoginMfa(t, recovery) PROVE IInv'
    BY <1>4, PostLoginMfaOK
  <1>5. ASSUME NEW t \in Tab, NEW text \in Text, SealItem(t, text) PROVE IInv'
    BY <1>5, SealItemOK
  <1>6. ASSUME NEW t \in Tab, NEW typed \in Field, NEW current \in Password, NEW new \in Password,
               \E rotate \in BOOLEAN : ChangeSync(t, typed, current, new, rotate)
        PROVE  IInv'
    BY <1>6, ChangeSyncOK
  <1>7. ASSUME NEW t \in Tab, NEW blob \in seen, Reencrypt(t, blob) PROVE IInv'
    BY <1>7, ReencryptOK
  <1>8. ASSUME NEW t \in Tab, \E heard \in BOOLEAN : PutUserKey(t, heard) PROVE IInv'
    BY <1>8, PutUserKeyOK
  <1>9. CASE UNCHANGED vars
    <2>1. TypeOK' /\ UsersOK' /\ seen' \subseteq Received
      BY <1>9 DEF vars, IInv, TypeOK, UsersOK
    <2>2. TabsOK'
      BY <1>9 DEF vars, IInv, TabsOK, TabOK
    <2> QED
      BY <2>1, <2>2 DEF IInv
  <1> QED
    BY <1>1, <1>2, <1>3, <1>4, <1>5, <1>6, <1>7, <1>8, <1>9 DEF Next

\* The invariant holds in every state.
THEOREM Invariance == Spec => []IInv
  BY InvInit, InvStep, PTL DEF Spec

\* Every variable keeps its type: whatever the forms are given, every stored and sent
\* value is derived from the canonical address of an account.
THEOREM KeyHierarchyType == Spec => []TypeOK
  <1>1. IInv => TypeOK
    BY DEF IInv
  <1> QED
    BY <1>1, Invariance, PTL

\* The server is zero-knowledge: for any number of tabs, accounts, passwords and items,
\* and of logins, registrations, password changes and rotations, it can make no
\* password, master, encryption or vault key and no text from all it received.
THEOREM ZeroKnowledgeAlways == Spec => []ZeroKnowledge
  <1>1. IInv => ZeroKnowledge
    BY Secrecy DEF IInv
  <1> QED
    BY <1>1, Invariance, PTL

\* The password opens: however many tabs change passwords at a time, with whatever
\* address typed, the four columns of a row stay those of one password.
THEOREM PasswordOpensAlways == Spec => []PasswordOpens
  <1>1. IInv => PasswordOpens
    <2> SUFFICES ASSUME IInv, NEW n \in Name, users[n] # None
                 PROVE  \E p \in Password :
                          LET typed == [name |-> n, form |-> "canonical"]
                              row   == users[n]
                          IN  /\ Verified(row, jsDeriveAuthHash(p, typed, row.params))
                              /\ jsUnwrapVaultKey(row.wrapped, p, typed, row.params) # Failed
      BY DEF PasswordOpens
    <2>1. PICK row : row = users[n] /\ row # None
      OBVIOUS
    <2>2. PICK p \in Password, key \in VaultKey :
             /\ row.wrapped = Wrap(key, p, n, row.params)
             /\ row.hash = DeriveServerAuthHash(Auth(p, n, row.params), row.salt)
      BY <2>1 DEF IInv, UsersOK, RowOK
    <2>3. PICK typed : typed = [name |-> n, form |-> "canonical"]
      OBVIOUS
    <2>n. typed.name = n
      BY <2>3
    <2>4. Verified(row, jsDeriveAuthHash(p, typed, row.params))
      BY <2>1, <2>2, <2>n, Exports DEF Verified
    <2>5. jsUnwrapVaultKey(row.wrapped, p, typed, row.params) # Failed
      <3>1. jsUnwrapVaultKey(row.wrapped, p, typed, row.params)
              = UnwrapKey(StretchMasterKey(Master(p, n, row.params)), Wrap(key, p, n, row.params))
        BY <2>2, <2>n, Exports
      <3> QED
        BY <3>1, Unwrapped
    <2> QED
      BY <2>1, <2>3, <2>4, <2>5
  <1> QED
    BY <1>1, Invariance, PTL

=============================================================================
