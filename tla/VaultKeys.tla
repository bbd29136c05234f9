----------------------------- MODULE VaultKeys -----------------------------
(***************************************************************************)
(* Which vault key every secret of one account is sealed under, while the  *)
(* account is used from several browser tabs.                              *)
(*                                                                         *)
(* The users row holds one wrapped vault key.  Items and the TOTP secret   *)
(* are sealed in a tab under the key in that tab's memory.  A change of    *)
(* the master password may rotate the vault key: the tab draws a new one,  *)
(* re-encrypts the items of its list one request at a time and only then   *)
(* replaces the wrapped key.  Nothing makes those requests one unit.       *)
(*                                                                         *)
(* A blob is a record with the key it is sealed under: opening it succeeds *)
(* with that key only (an AEAD), and throws otherwise.  Every SQL          *)
(* statement is one step.  A request in flight while its tab goes on is    *)
(* not a step of its own: another tab that still holds the same key and    *)
(* the same list sends the same request at any later time.                 *)
(***************************************************************************)
EXTENDS Integers

CONSTANTS Tab,     \* browser tabs with a session of the account
          Item,    \* ids the server may draw
          Text,    \* plaintexts
          MaxKey,  \* bound on the vault keys drawn
          MaxRev,  \* bound on the revisions of an item
          MaxExports,  \* bound on the exports
          MaxEnrols,   \* bound on the enrolments
          None

ASSUME KeysAssumption ==
    /\ MaxKey \in Nat \ {0} /\ MaxRev \in Nat \ {0}
    /\ MaxExports \in Nat /\ MaxEnrols \in Nat
    /\ None \notin Int \cup Text

VARIABLES stored,     \* the key users.protected_symmetric_key wraps; 0: no account
          items,      \* vault_items: id -> key, text, revision; or None
          totp,       \* the key users.protected_totp_secret is under, or None
          file,       \* an export file on the user's disk, or None
          tab,        \* per tab: VaultContext, VaultList and a running change
          born,       \* ids in use, now or earlier
          drawn,      \* keys 1..drawn have been drawn
          exports,    \* exports begun
          enrols,     \* enrolments
          installed,  \* history: keys that were ever stored
          dropped     \* history: new keys of the changes that stopped half-way

server  == <<stored, items, totp, born>>
counts  == <<exports, enrols>>
history == <<drawn, installed, dropped>>
vars    == <<stored, items, totp, file, tab, born, exports, enrols, drawn,
             installed, dropped>>

Key  == 1..MaxKey
Blob == [key : Key, text : Text]
View == [key : Key, text : Text, rev : 1..MaxRev]
List == [Item -> View \cup {None}]

EmptyList == [i \in Item |-> None]

\* A run of ChangePasswordModal.handleSubmit; its list is the "items" prop of
\* the render in which the form was submitted.
Change == [pc : {"sync", "items", "put"}, rotate : BOOLEAN, list : List,
           old : Key \cup {0}, new : Key \cup {0}, todo : SUBSET Item]

ASSUME NoneAssumption == None \notin View /\ None \notin Change

\* key = 0 is a locked vault; ready is syncState "ready".
TabState == [key : Key \cup {0}, list : List, totp : Key \cup {None},
             ready : BOOLEAN, change : Change \cup {None}]

\* The one type invariant.
TypeOK ==
    /\ stored \in Key \cup {0}
    /\ items \in List
    /\ totp \in Key \cup {None}
    /\ file \in [key : Key, items : List \cup {None}] \cup {None}
    /\ tab \in [Tab -> TabState]
    /\ born \in SUBSET Item
    /\ drawn \in 0..MaxKey
    /\ exports \in 0..MaxExports /\ enrols \in 0..MaxEnrols
    /\ installed \in SUBSET Key
    /\ dropped \in SUBSET Key

Locked == [key |-> 0, list |-> EmptyList, totp |-> None, ready |-> FALSE,
           change |-> None]

Init ==
    /\ stored = 0 /\ items = EmptyList /\ totp = None /\ file = None
    /\ tab = [t \in Tab |-> Locked]
    /\ born = {} /\ exports = 0 /\ enrols = 0
    /\ drawn = 0 /\ installed = {} /\ dropped = {}

Unlocked(t) == tab[t].key # 0

(***************************************************************************)
(* The account and the session of a tab.                                   *)
(***************************************************************************)
\* NewVaultKey: 32 random bytes, never drawn before.
NewVaultKey == drawn + 1

\* PostRegister: a duplicate email violates the unique constraint and is
\* answered 201 like a new account; the key sent with it is lost.
PostRegister(key) ==
    IF stored = 0 THEN stored' = key /\ installed' = installed \cup {key}
                  ELSE UNCHANGED <<stored, installed>>

\* RegisterForm.
Register ==
    /\ drawn < MaxKey
    /\ drawn' = NewVaultKey
    /\ PostRegister(NewVaultKey)
    /\ UNCHANGED <<items, totp, file, tab, born, dropped, counts>>

\* LoginForm: the wrapped key comes with the answer.  With 2FA on, the TOTP
\* secret has to open under it before a code can be checked; a recovery code
\* (withRecovery) does without.
Login(t, withRecovery) ==
    /\ ~Unlocked(t) /\ stored # 0
    /\ totp \in {None, stored} \/ withRecovery
    /\ tab' = [tab EXCEPT ![t].key = stored]
    /\ UNCHANGED <<server, file, history, counts>>

\* loadItems, also the onRotated and onChanged callback.
LoadItems(t) ==
    /\ Unlocked(t)
    /\ tab' = [tab EXCEPT ![t].list = items, ![t].totp = totp, ![t].ready = TRUE]
    /\ UNCHANGED <<server, file, history, counts>>

\* lock: the key is cleared and AppShell unmounts VaultList, but a running
\* change is a promise that goes on.
Lock(t) ==
    /\ Unlocked(t)
    /\ tab' = [tab EXCEPT ![t] = [Locked EXCEPT !.change = tab[t].change]]
    /\ UNCHANGED <<server, file, history, counts>>

\* The new key of a change that stops before its tab saw the key installed.
Abandoned(c) == IF c # None /\ c.pc # "sync" /\ c.new \notin installed
                THEN {c.new} ELSE {}

\* Reloading or closing the page, or a crash of the browser.
Reload(t) ==
    /\ tab[t] # Locked
    /\ tab' = [tab EXCEPT ![t] = Locked]
    /\ dropped' = dropped \cup Abandoned(tab[t].change)
    /\ UNCHANGED <<server, file, drawn, installed, counts>>

(***************************************************************************)
(* Items.                                                                  *)
(***************************************************************************)
SealItem(text, key) == [key |-> key, text |-> text]

\* openItem(blob, key) does not throw.
Opens(blob, key) == blob.key = key

\* POST /api/items: a new row with revision 1.
Created(blob, i) ==
    [items EXCEPT ![i] = [key |-> blob.key, text |-> blob.text, rev |-> 1]]

MMatches(i, view) == items[i] # None

\* PUT /api/items/{id}: matches the row at the revision of the view.
Matches(i, view) == items[i] # None /\ items[i].rev = view.rev

Updated(blob, i) ==
    [items EXCEPT ![i] = [key |-> blob.key, text |-> blob.text,
                          rev |-> items[i].rev + 1]]

MAddItem(t, i, text) ==
    /\ i \notin born
    /\ items' = Created(SealItem(text, tab[t].key), i)
    /\ born' = born \cup {i}
    /\ tab' = [tab EXCEPT ![t].list[i] = items'[i]]
    /\ UNCHANGED <<stored, totp, file, history, counts>>

\* AddItemModal does nothing without a vault key.
AddItem(t, i, text) ==
    /\ Unlocked(t) /\ i \notin born
    /\ items' = Created(SealItem(text, tab[t].key), i)
    /\ born' = born \cup {i}
    /\ tab' = [tab EXCEPT ![t].list[i] = items'[i]]
    /\ UNCHANGED <<stored, totp, file, history, counts>>

\* EditItemModal.  An item that does not open leaves an empty form with an
\* error, and the form can still be filled in and saved.
EditItem(t, i, text) ==
    LET view == tab[t].list[i] IN
    /\ Unlocked(t) /\ tab[t].ready /\ view # None
    /\ Matches(i, view) /\ items[i].rev < MaxRev
    /\ items' = Updated(SealItem(text, tab[t].key), i)
    /\ tab' = [tab EXCEPT ![t].list[i] = items'[i]]
    /\ UNCHANGED <<stored, totp, born, file, history, counts>>

DeleteItem(t, i) ==
    /\ Unlocked(t) /\ tab[t].ready /\ tab[t].list[i] # None
    /\ items[i] # None
    /\ items' = [items EXCEPT ![i] = None]
    /\ tab' = [tab EXCEPT ![t].list[i] = None]
    /\ UNCHANGED <<stored, totp, born, file, history, counts>>

(***************************************************************************)
(* Export and import.  GetSync reads the users row and then the items.     *)
(***************************************************************************)
ExportKey(t) ==
    /\ Unlocked(t) /\ stored # 0
    /\ exports < MaxExports /\ exports' = exports + 1
    /\ file' = [key |-> stored, items |-> None]
    /\ UNCHANGED <<server, tab, enrols, history>>

ExportItems(t) ==
    /\ Unlocked(t) /\ file # None /\ file.items = None
    /\ file' = [file EXCEPT !.items = items]
    /\ UNCHANGED <<server, tab, history, counts>>

\* handleImport, one uploaded item of its loop: the first item of the file must
\* open under the key of the file; an item is skipped when the list shows its
\* id; its ciphertext is uploaded as it is and gets a new id.
ImportItem(t, first, i, new) ==
    /\ Unlocked(t) /\ file # None /\ file.items # None
    /\ file.items[first] # None /\ Opens(file.items[first], file.key)
    /\ file.items[i] # None /\ tab[t].list[i] = None
    /\ new \notin born
    /\ items' = Created(file.items[i], new)
    /\ born' = born \cup {new}
    /\ UNCHANGED <<stored, totp, file, tab, history, counts>>

(***************************************************************************)
(* Two-factor enrolment, as far as keys are concerned (see TwoFactor).     *)
(***************************************************************************)
\* confirmEnroll: offered when the last sync said 2FA is off.  The server's own
\* check is a statement before the write, so a racing enrolment passes it too.
EnrollTotp(t) ==
    /\ Unlocked(t) /\ tab[t].ready /\ tab[t].totp = None
    /\ enrols < MaxEnrols /\ enrols' = enrols + 1
    /\ totp' = tab[t].key
    /\ UNCHANGED <<stored, items, born, file, tab, exports, history>>

\* disable2FA: the secret of the last sync has to open under the tab's key.
DisableTotp(t) ==
    /\ Unlocked(t) /\ tab[t].ready /\ tab[t].totp = tab[t].key
    /\ totp # None
    /\ totp' = None
    /\ UNCHANGED <<stored, items, born, file, tab, history, counts>>

(***************************************************************************)
(* ChangePasswordModal.handleSubmit.                                       *)
(***************************************************************************)
Submit(t, rotate) ==
    /\ Unlocked(t) /\ tab[t].change = None
    /\ tab' = [tab EXCEPT ![t].change =
                 [pc |-> "sync", rotate |-> rotate, list |-> tab[t].list,
                  old |-> 0, new |-> 0, todo |-> {}]]
    /\ UNCHANGED <<server, file, history, counts>>

\* The sync, and the key hierarchy: the current key is unwrapped with the
\* current password, a new one drawn or the current one wrapped again.
Sync(t) ==
    LET c == tab[t].change IN
    /\ c # None /\ c.pc = "sync" /\ stored # 0
    /\ c.rotate => drawn < MaxKey
    /\ drawn' = IF c.rotate THEN NewVaultKey ELSE drawn
    /\ tab' = [tab EXCEPT ![t].change =
                 [c EXCEPT !.pc = IF c.rotate THEN "items" ELSE "put",
                           !.old = stored,
                           !.new = IF c.rotate THEN drawn' ELSE stored,
                           !.todo = IF c.rotate
                                    THEN {i \in Item : c.list[i] # None} ELSE {}]]
    /\ UNCHANGED <<server, file, installed, dropped, counts>>

MReencrypt(t, i) ==
    LET c == tab[t].change IN
    /\ c # None /\ c.pc = "items" /\ i \in c.todo
    /\ IF Opens(c.list[i], c.old) /\ Matches(i, c.list[i]) /\ items[i].rev < MaxRev
       THEN items' = Updated(SealItem(c.list[i].text, c.new), i)
       ELSE UNCHANGED items
    /\ tab' = [tab EXCEPT ![t].change.todo = c.todo \ {i}]
    /\ UNCHANGED <<stored, totp, born, file, history, counts>>

\* One round of the loop: open under the old key, seal under the new one, and
\* update at the listed revision.
Reencrypt(t, i) ==
    LET c == tab[t].change IN
    /\ c # None /\ c.pc = "items" /\ i \in c.todo
    /\ Opens(c.list[i], c.old) /\ Matches(i, c.list[i]) /\ items[i].rev < MaxRev
    /\ items' = Updated(SealItem(c.list[i].text, c.new), i)
    /\ tab' = [tab EXCEPT ![t].change.todo = c.todo \ {i}]
    /\ UNCHANGED <<stored, totp, born, file, history, counts>>

Reencrypted(t) ==
    /\ tab[t].change # None /\ tab[t].change.pc = "items" /\ tab[t].change.todo = {}
    /\ tab' = [tab EXCEPT ![t].change.pc = "put"]
    /\ UNCHANGED <<server, file, history, counts>>

\* PutUserKey replaces the wrapped key, whatever it is by now.
PutUserKey(key) == stored' = key /\ installed' = installed \cup {key}

\* On success the tab is unlocked with the new key, even if it was locked
\* meanwhile, and reloads its list.
Put(t) ==
    LET c == tab[t].change IN
    /\ c # None /\ c.pc = "put"
    /\ PutUserKey(c.new)
    /\ tab' = [tab EXCEPT ![t].key = c.new, ![t].ready = FALSE, ![t].change = None]
    /\ UNCHANGED <<items, totp, born, file, drawn, dropped, counts>>

MFail(t) ==
    /\ tab[t].change # None
    /\ tab' = [tab EXCEPT ![t].change = None, ![t].key = tab[t].change.new]
    /\ dropped' = dropped \cup Abandoned(tab[t].change)
    /\ UNCHANGED <<server, file, drawn, installed, counts>>

\* The catch clause: an item that does not open, 404, 409, another error of any
\* request or a wrong current password end the change; what was done stays.
Fail(t) ==
    /\ tab[t].change # None
    /\ tab' = [tab EXCEPT ![t].change = None]
    /\ dropped' = dropped \cup Abandoned(tab[t].change)
    /\ UNCHANGED <<server, file, drawn, installed, counts>>

\* The answer to the PUT of an item or of the key is lost: the statement took
\* effect and the change ends all the same.
ReencryptUnheard(t, i) ==
    LET c == tab[t].change IN
    /\ c # None /\ c.pc = "items" /\ i \in c.todo
    /\ Opens(c.list[i], c.old) /\ Matches(i, c.list[i]) /\ items[i].rev < MaxRev
    /\ items' = Updated(SealItem(c.list[i].text, c.new), i)
    /\ tab' = [tab EXCEPT ![t].change = None]
    /\ dropped' = dropped \cup Abandoned(c)
    /\ UNCHANGED <<stored, totp, born, file, drawn, installed, counts>>

PutUnheard(t) ==
    LET c == tab[t].change IN
    /\ c # None /\ c.pc = "put"
    /\ PutUserKey(c.new)
    /\ tab' = [tab EXCEPT ![t].change = None]
    /\ UNCHANGED <<items, totp, born, file, drawn, dropped, counts>>

ItemStep(t) ==
    \E i \in Item :
        \/ \E x \in Text : AddItem(t, i, x) \/ EditItem(t, i, x)
        \/ DeleteItem(t, i)
        \/ \E first, new \in Item : ImportItem(t, first, i, new)
        \/ Reencrypt(t, i) \/ ReencryptUnheard(t, i)

TabStep(t) ==
    \/ \E b \in BOOLEAN : Login(t, b) \/ Submit(t, b)
    \/ LoadItems(t) \/ Lock(t) \/ Reload(t)
    \/ ExportKey(t) \/ ExportItems(t) \/ EnrollTotp(t) \/ DisableTotp(t)
    \/ Sync(t) \/ Reencrypted(t) \/ Put(t) \/ PutUnheard(t) \/ Fail(t)

Next == Register \/ \E t \in Tab : ItemStep(t) \/ TabStep(t)

Spec == Init /\ [][Next]_vars

(***************************************************************************)
(* Properties.                                                             *)
(***************************************************************************)
\* New keys of the changes under way.
Pending == {tab[t].change.new : t \in {u \in Tab : tab[u].change # None}}

\* Whatever a tab seals goes under a key the server has wrapped at some time:
\* the key of an unlocked tab, of the TOTP secret and of an export file was
\* installed, and an item is under another key only while the rotation that
\* drew the key is under way, or because that rotation stopped half-way
\* (handleSubmit sets the vault key after the PUT succeeded, never before).
KeysOnceInstalled ==
    /\ \A t \in Tab : tab[t].key # 0 => tab[t].key \in installed
    /\ totp # None => totp \in installed
    /\ file # None => file.key \in installed
    /\ \A i \in Item : items[i] # None =>
          items[i].key \in installed \cup Pending \cup dropped

\* When a rotation is about to install its key, every item of its list that
\* still exists is under the new key, or was written again after the rotation
\* had re-encrypted it: a conflict or an unreadable item on the way has ended
\* the rotation instead (the loop of handleSubmit).
ListMoved ==
    \A t \in Tab : LET c == tab[t].change IN
        c # None /\ c.pc = "put" /\ c.rotate =>
            \A i \in Item : c.list[i] # None /\ items[i] # None =>
                items[i].key = c.new \/ items[i].rev > c.list[i].rev + 1

\* Re-encryption never changes what an item says: a write under a key that is
\* not installed yet keeps the text the row had, although the rotation works
\* from a list that may be old.
RotationKeepsText ==
    [][\A i \in Item :
         items[i] # None /\ items'[i] # None /\ items'[i] # items[i]
         /\ items'[i].key \notin installed => items'[i].text = items[i].text]_vars

\* Nothing is being changed anywhere.
Quiet == \A t \in Tab : tab[t].change = None

\* What docs/THREAT_MODEL.md says of the vault key: it encrypts every item.
\* With no change under way, the key a login unwraps opens every item.
ItemsReadable ==
    Quiet => \A i \in Item : items[i] # None => Opens(items[i], stored)

=============================================================================
