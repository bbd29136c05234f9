-------------------------- MODULE VaultKeysProofs ---------------------------
(***************************************************************************)
(* Rotating the vault key, for any number of tabs, items, keys, revisions  *)
(* and texts.                                                              *)
(*                                                                         *)
(* The inductive invariant has a part per tab.  A list a tab works from,   *)
(* shown or handed to a running change, is older than the table or agrees  *)
(* with it: a row has the revision the list has of it only when it still   *)
(* is the row that was listed, because every write adds one to it and an   *)
(* id is never used again.  A rotation has moved every listed row that is  *)
(* not on its todo list.  The other part says where the keys come from:    *)
(* every key a row, a file or the TOTP secret is under is stored, was      *)
(* stored, or belongs to a rotation under way or stopped.                  *)
(***************************************************************************)
EXTENDS VaultKeys, TLAPS

\* The keys a sealed item can be under.
Known == installed \cup Pending \cup dropped

\* A list is never ahead of the table, and agrees with it at the same revision.
ListOK(L) ==
    \A i \in Item : L[i] # None =>
        /\ i \in born
        /\ items[i] # None => /\ L[i].rev <= items[i].rev
                              /\ L[i].rev = items[i].rev => L[i] = items[i]

\* The rotation has written row i: it is under the new key unless someone wrote
\* it again.
Moved(c, i) ==
    c.list[i] # None /\ items[i] # None =>
        /\ items[i].rev > c.list[i].rev
        /\ items[i].rev = c.list[i].rev + 1 => items[i].key = c.new

ChangeOK(c) ==
    /\ ListOK(c.list)
    /\ c.pc = "sync" => c.new = 0
    /\ c.pc # "sync" => c.new \in Key
    /\ c.pc = "put" => c.todo = {}
    /\ \A i \in c.todo : c.list[i] # None
    /\ c.pc # "sync" /\ c.rotate => \A i \in Item \ c.todo : Moved(c, i)

TabOK(q) ==
    /\ q.key # 0 => q.key \in installed
    /\ ListOK(q.list)
    /\ q.change # None => ChangeOK(q.change)

TabsOK == \A t \in Tab : TabOK(tab[t])

ServerOK ==
    /\ stored # 0 => stored \in installed
    /\ totp # None => totp \in installed
    /\ \A i \in Item : items[i] # None => i \in born /\ items[i].key \in Known

FileOK ==
    file # None =>
        /\ file.key \in installed
        /\ file.items # None =>
              \A i \in Item : file.items[i] # None => file.items[i].key \in Known

IInv == TypeOK /\ TabsOK /\ ServerOK /\ FileOK

(***************************************************************************)
(* How the table evolves: a row stays, goes for good, is new, or is        *)
(* written once more.                                                      *)
(***************************************************************************)
Evolves ==
    /\ items' \in List /\ born' \in SUBSET Item
    /\ born \subseteq born' /\ installed \subseteq installed'
    /\ \A i \in Item : \/ items'[i] = items[i]
                       \/ items'[i] = None
                       \/ i \notin born
                       \/ items[i] # None /\ items'[i].rev = items[i].rev + 1

\* A list that a tab keeps gets older, never wrong.
LEMMA ListKept ==
    ASSUME IInv, Evolves, NEW L \in List, ListOK(L) PROVE ListOK(L)'
  <1> SUFFICES ASSUME NEW i \in Item, L[i] # None
               PROVE  /\ i \in born'
                      /\ items'[i] # None => /\ L[i].rev <= items'[i].rev
                                             /\ L[i].rev = items'[i].rev => L[i] = items'[i]
    BY DEF ListOK
  <1>1. L[i] \in View /\ items[i] \in View \cup {None} /\ items'[i] \in View \cup {None}
    BY DEF IInv, TypeOK, Evolves, List
  <1>2. /\ i \in born
        /\ items[i] # None => /\ L[i].rev <= items[i].rev
                              /\ L[i].rev = items[i].rev => L[i] = items[i]
    BY DEF ListOK
  <1>3. L[i].rev \in Int /\ (items[i] # None => items[i].rev \in Int)
    BY <1>1 DEF View
  <1>4. items[i] = None => items'[i] = None
    BY <1>2 DEF Evolves
  <1> QED
    BY <1>2, <1>3, <1>4 DEF Evolves

\* So does what a running change knows, and a row it has moved stays moved.
LEMMA ChangeKept ==
    ASSUME IInv, Evolves, NEW c \in Change, ChangeOK(c) PROVE ChangeOK(c)'
  <1>1. c.list \in List /\ ListOK(c.list)
    BY DEF Change, ChangeOK
  <1>2. ListOK(c.list)'
    BY <1>1, ListKept
  <1>3. ASSUME NEW i \in Item, Moved(c, i) PROVE Moved(c, i)'
    <2> SUFFICES ASSUME c.list[i] # None, items'[i] # None
                 PROVE  /\ items'[i].rev > c.list[i].rev
                        /\ items'[i].rev = c.list[i].rev + 1 => items'[i].key = c.new
      BY DEF Moved
    <2>1. c.list[i] \in View /\ items[i] \in View \cup {None} /\ items'[i] \in View
      BY <1>1 DEF IInv, TypeOK, Evolves, List
    <2>2. items[i] # None
      BY <1>1 DEF Evolves, ListOK
    <2>3. c.list[i].rev \in Int /\ items[i].rev \in Int
      BY <2>1, <2>2 DEF View
    <2>4. i \in born
      BY <1>1 DEF ListOK
    <2> QED
      BY <1>3, <2>2, <2>3, <2>4 DEF Evolves, Moved
  <1> QED
    BY <1>2, <1>3 DEF ChangeOK

\* A tab in which nothing happens.
LEMMA TabKept ==
    ASSUME IInv, Evolves, NEW q \in TabState, TabOK(q) PROVE TabOK(q)'
  <1>1. q.list \in List /\ q.change \in Change \cup {None}
    BY DEF TabState
  <1>2. ListOK(q.list)'
    BY <1>1, ListKept DEF TabOK
  <1>3. q.change # None => ChangeOK(q.change)'
    BY <1>1, ChangeKept DEF TabOK
  <1> QED
    BY <1>2, <1>3 DEF TabOK, Evolves

\* One tab moves to q.
LEMMA TabMoves ==
    ASSUME IInv, Evolves, NEW t \in Tab, NEW q \in TabState, TabOK(q)',
           tab' = [tab EXCEPT ![t] = q]
    PROVE  tab' \in [Tab -> TabState] /\ TabsOK'
  <1>1. /\ tab' \in [Tab -> TabState]
        /\ \A u \in Tab : tab'[u] = IF u = t THEN q ELSE tab[u]
    BY DEF IInv, TypeOK
  <1>2. ASSUME NEW u \in Tab PROVE TabOK(tab[u])'
    <2>1. PICK w \in TabState : w = tab[u]
      BY DEF IInv, TypeOK
    <2>2. TabOK(w)'
      BY <2>1, TabKept DEF IInv, TabsOK
    <2> QED
      BY <1>1, <2>1, <2>2
  <1> QED
    BY <1>1, <1>2 DEF TabsOK

\* The new key of a change outlives it: installed, dropped or carried on.
Carried(t, q) ==
    tab[t].change # None /\ tab[t].change.new # 0 =>
        \/ tab[t].change.new \in installed' \cup dropped'
        \/ q.change # None /\ q.change.new = tab[t].change.new

\* No key that may be on an item is forgotten.
LEMMA KnownKept ==
    ASSUME IInv, NEW t \in Tab, NEW q \in TabState, Carried(t, q),
           tab' = [tab EXCEPT ![t] = q],
           installed \subseteq installed', dropped \subseteq dropped'
    PROVE  \A k \in Key : k \in Known => k \in Known'
  <1> SUFFICES ASSUME NEW k \in Key, k \in Pending
               PROVE  k \in installed' \cup Pending' \cup dropped'
    BY DEF Known
  <1>1. PICK u \in Tab : tab[u].change # None /\ tab[u].change.new = k
    BY DEF Pending
  <1>2. \A v \in Tab : tab'[v] = IF v = t THEN q ELSE tab[v]
    BY DEF IInv, TypeOK
  <1>3. k # 0
    BY DEF Key
  <1>4. CASE u # t
    BY <1>1, <1>2, <1>4 DEF Pending
  <1>5. CASE u = t
    BY <1>1, <1>2, <1>3, <1>5 DEF Pending, Carried
  <1> QED
    BY <1>4, <1>5

\* The general step: one tab moves, the table evolves, and nothing is sealed
\* under a key that is not known.
LEMMA StepOK ==
    ASSUME IInv, NEW t \in Tab, NEW q \in TabState, TabOK(q)', Carried(t, q),
           tab' = [tab EXCEPT ![t] = q], Evolves,
           installed' \in SUBSET Key, dropped' \in SUBSET Key, dropped \subseteq dropped',
           drawn' \in 0..MaxKey, exports' \in 0..MaxExports, enrols' \in 0..MaxEnrols,
           stored' = stored \/ stored' \in installed',
           totp' \in {totp, None} \/ totp' \in installed',
           \A i \in Item : items'[i] # None /\ items'[i] # items[i] =>
               i \in born' /\ items'[i].key \in Known',
           UNCHANGED file
    PROVE  IInv'
  <1>1. tab' \in [Tab -> TabState] /\ TabsOK'
    BY TabMoves
  <1>2. \A k \in Key : k \in Known => k \in Known'
    BY KnownKept DEF Evolves
  <1>3. ServerOK'
    <2>1. \A i \in Item : items[i] # None => items[i].key \in Key
      BY DEF IInv, TypeOK, List, View
    <2>2. \A i \in Item : items'[i] # None => i \in born' /\ items'[i].key \in Known'
      BY <1>2, <2>1 DEF IInv, ServerOK, Evolves
    <2>3. (stored # 0 => stored \in installed)' /\ (totp # None => totp \in installed)'
      BY DEF IInv, ServerOK, Evolves
    <2> QED
      BY <2>2, <2>3 DEF ServerOK
  <1>4. FileOK'
    <2>1. file # None /\ file.items # None =>
             \A i \in Item : file.items[i] # None => file.items[i].key \in Key
      BY DEF IInv, TypeOK, List, View
    <2> QED
      BY <1>2, <2>1 DEF IInv, FileOK, Evolves
  <1>5. TypeOK'
    <2>1. stored' \in Key \cup {0} /\ totp' \in Key \cup {None}
      BY DEF IInv, TypeOK
    <2> QED
      BY <1>1, <2>1 DEF IInv, TypeOK, Evolves
  <1> QED
    BY <1>1, <1>3, <1>4, <1>5 DEF IInv

\* A step of a tab that leaves the table alone.
LEMMA QuietStep ==
    ASSUME IInv, NEW t \in Tab, NEW q \in TabState, TabOK(q), Carried(t, q),
           tab' = [tab EXCEPT ![t] = q], UNCHANGED <<server, file, installed, counts>>,
           dropped' \in SUBSET Key, dropped \subseteq dropped', drawn' \in 0..MaxKey
    PROVE  IInv'
  <1>1. Evolves
    BY DEF Evolves, IInv, TypeOK, server
  <1>2. TabOK(q)'
    BY <1>1, TabKept
  <1>3. installed' \in SUBSET Key /\ exports' \in 0..MaxExports /\ enrols' \in 0..MaxEnrols
    BY DEF IInv, TypeOK, counts
  <1> QED
    BY <1>1, <1>2, <1>3, StepOK DEF server

(***************************************************************************)
(* The steps of a tab that leave the table alone.                          *)
(***************************************************************************)
\* What the invariant says of a tab.
LEMMA TabParts ==
    ASSUME IInv, NEW t \in Tab
    PROVE  /\ tab[t] \in TabState /\ TabOK(tab[t])
           /\ tab[t].change # None => tab[t].change \in Change /\ ChangeOK(tab[t].change)
  BY DEF IInv, TypeOK, TabsOK, TabOK, TabState

\* What a list shows is a row the server sent.
LEMMA ItemsListed == ASSUME IInv PROVE items \in List /\ ListOK(items) /\ ListOK(EmptyList)
  <1>1. \A i \in Item : items[i] # None => items[i].rev \in Int
    BY DEF IInv, TypeOK, List, View
  <1>2. items \in List
    BY DEF IInv, TypeOK
  <1>3. ListOK(items)
    BY <1>1 DEF IInv, ServerOK, ListOK
  <1>4. ListOK(EmptyList)
    BY DEF ListOK, EmptyList
  <1> QED
    BY <1>2, <1>3, <1>4

\* The key a change gives up is remembered.
LEMMA AbandonedCarried ==
    ASSUME IInv, NEW t \in Tab, NEW q \in TabState, tab[t].change # None,
           dropped' = dropped \cup Abandoned(tab[t].change), installed' = installed
    PROVE  dropped' \in SUBSET Key /\ dropped \subseteq dropped' /\ Carried(t, q)
  <1>1. PICK c \in Change : c = tab[t].change /\ c # None /\ ChangeOK(c)
    BY TabParts
  <1>2. (c.pc # "sync" => c.new \in Key) /\ (c.new # 0 => c.pc # "sync")
    BY <1>1 DEF ChangeOK
  <1> QED
    BY <1>1, <1>2 DEF Abandoned, Carried, IInv, TypeOK

\* A login opens the vault with the key the row holds.
LEMMA LoginOK == ASSUME IInv, NEW t \in Tab, NEW b \in BOOLEAN, Login(t, b) PROVE IInv'
  <1> DEFINE q == [tab[t] EXCEPT !.key = stored]
  <1>1. q \in TabState /\ TabOK(q)
    BY TabParts DEF TabState, TabOK, IInv, TypeOK, ServerOK, Login
  <1>2. tab' = [tab EXCEPT ![t] = q] /\ Carried(t, q)
    BY TabParts DEF Login, Carried, TabState, IInv, TypeOK
  <1> QED
    BY <1>1, <1>2, QuietStep DEF Login, history, IInv, TypeOK

\* The list is loaded.
LEMMA LoadItemsOK == ASSUME IInv, NEW t \in Tab, LoadItems(t) PROVE IInv'
  <1> DEFINE q == [tab[t] EXCEPT !.list = items, !.totp = totp, !.ready = TRUE]
  <1>1. q \in TabState /\ TabOK(q)
    BY TabParts, ItemsListed DEF TabState, TabOK, IInv, TypeOK
  <1>2. tab' = [tab EXCEPT ![t] = q] /\ Carried(t, q)
    BY TabParts DEF LoadItems, Carried, TabState, IInv, TypeOK
  <1> QED
    BY <1>1, <1>2, QuietStep DEF LoadItems, history, IInv, TypeOK

\* A locked vault, with or without a change going on.
LEMMA LockedOK ==
    ASSUME IInv, NEW c \in Change \cup {None}, c # None => ChangeOK(c)
    PROVE  LET q == [Locked EXCEPT !.change = c] IN q \in TabState /\ TabOK(q) /\ q.change = c
  <1>1. EmptyList \in List
    BY DEF EmptyList, List
  <1> QED
    BY <1>1, ItemsListed DEF Locked, TabState, TabOK

\* Locking forgets the key.
LEMMA LockOK == ASSUME IInv, NEW t \in Tab, Lock(t) PROVE IInv'
  <1> DEFINE q == [Locked EXCEPT !.change = tab[t].change]
  <1>1. q \in TabState /\ TabOK(q) /\ q.change = tab[t].change
    BY TabParts, LockedOK DEF TabState
  <1>2. tab' = [tab EXCEPT ![t] = q] /\ Carried(t, q)
    BY <1>1 DEF Lock, Carried
  <1> QED
    BY <1>1, <1>2, QuietStep DEF Lock, history, IInv, TypeOK

\* Reloading forgets everything.
LEMMA ReloadOK == ASSUME IInv, NEW t \in Tab, Reload(t) PROVE IInv'
  <1>1. Locked \in TabState /\ TabOK(Locked)
    <2>1. EmptyList \in List
      BY DEF EmptyList, List
    <2> QED
      BY <2>1, ItemsListed DEF Locked, TabState, TabOK
  <1>2. dropped' \in SUBSET Key /\ dropped \subseteq dropped' /\ Carried(t, Locked)
    <2>1. CASE tab[t].change = None
      BY <2>1 DEF Reload, Abandoned, Carried, IInv, TypeOK
    <2>2. CASE tab[t].change # None
      BY <1>1, <2>2, AbandonedCarried DEF Reload
    <2> QED
      BY <2>1, <2>2
  <1> QED
    BY <1>1, <1>2, QuietStep DEF Reload, IInv, TypeOK

\* A request of a password change fails.
LEMMA FailOK == ASSUME IInv, NEW t \in Tab, Fail(t) PROVE IInv'
  <1> DEFINE q == [tab[t] EXCEPT !.change = None]
  <1>1. q \in TabState /\ TabOK(q)
    BY TabParts DEF TabState, TabOK
  <1>2. tab' = [tab EXCEPT ![t] = q]
    BY TabParts DEF Fail, TabState, IInv, TypeOK
  <1>3. dropped' \in SUBSET Key /\ dropped \subseteq dropped' /\ Carried(t, q)
    BY <1>1, AbandonedCarried DEF Fail
  <1> QED
    BY <1>1, <1>2, <1>3, QuietStep DEF Fail, IInv, TypeOK

\* A tab whose change is replaced by c.
LEMMA ChangeSet ==
    ASSUME IInv, NEW t \in Tab, NEW c \in Change, ChangeOK(c)
    PROVE  LET q == [tab[t] EXCEPT !.change = c] IN q \in TabState /\ TabOK(q) /\ q.change = c
  <1>1. PICK w \in TabState : w = tab[t] /\ TabOK(w)
    BY TabParts
  <1> QED
    BY <1>1 DEF TabState, TabOK

\* The form of a password change is submitted.
LEMMA SubmitOK == ASSUME IInv, NEW t \in Tab, NEW b \in BOOLEAN, Submit(t, b) PROVE IInv'
  <1> DEFINE c == [pc |-> "sync", rotate |-> b, list |-> tab[t].list,
                   old |-> 0, new |-> 0, todo |-> {}]
             q == [tab[t] EXCEPT !.change = c]
  <1>1. c \in Change /\ ChangeOK(c)
    BY TabParts DEF TabState, TabOK, Change, ChangeOK
  <1>2. q \in TabState /\ TabOK(q)
    BY <1>1, ChangeSet
  <1>3. tab' = [tab EXCEPT ![t] = q] /\ Carried(t, q)
    BY TabParts DEF Submit, Carried, TabState, IInv, TypeOK
  <1> QED
    BY <1>2, <1>3, QuietStep DEF Submit, history, IInv, TypeOK

\* The change fetches the items it will re-encrypt.
LEMMA SyncOK == ASSUME IInv, NEW t \in Tab, Sync(t) PROVE IInv'
  <1>1. PICK c \in Change : c = tab[t].change /\ c # None /\ ChangeOK(c)
    BY TabParts DEF Sync
  <1>2. c.pc = "sync" /\ c.new = 0 /\ stored \in Key
    BY <1>1 DEF Sync, ChangeOK, IInv, TypeOK
  <1>3. drawn' \in 0..MaxKey /\ (c.rotate => drawn' \in Key)
    <2>1. drawn \in 0..MaxKey /\ MaxKey \in Nat
      BY KeysAssumption DEF IInv, TypeOK
    <2>2. CASE c.rotate
      BY <1>1, <2>1, <2>2 DEF Sync, NewVaultKey, Key
    <2>3. CASE ~c.rotate
      BY <1>1, <2>1, <2>3 DEF Sync
    <2> QED
      BY <2>2, <2>3
  <1>4. PICK pc \in {"items", "put"} : pc = IF c.rotate THEN "items" ELSE "put"
    OBVIOUS
  <1>5. PICK new \in Key : new = IF c.rotate THEN drawn' ELSE stored
    BY <1>2, <1>3
  <1>6. PICK todo \in SUBSET Item :
            todo = IF c.rotate THEN {i \in Item : c.list[i] # None} ELSE {}
    OBVIOUS
  <1> DEFINE d == [c EXCEPT !.pc = pc, !.old = stored, !.new = new, !.todo = todo]
             q == [tab[t] EXCEPT !.change = d]
  <1>7. d \in Change /\ ChangeOK(d)
    <2>1. d \in Change
      BY <1>2 DEF Change
    <2>2. d.pc = pc /\ d.new = new /\ d.todo = todo /\ d.list = c.list /\ d.rotate = c.rotate
      BY DEF Change
    <2>3. ListOK(d.list)
      BY <1>1, <2>2 DEF ChangeOK
    <2>4. c.rotate => \A i \in Item \ todo : Moved(d, i)
      BY <1>6, <2>2 DEF Moved
    <2>5. pc # "sync" /\ (pc = "put" => todo = {})
      BY <1>4, <1>6
    <2>6. \A i \in todo : c.list[i] # None
      BY <1>6
    <2> QED
      BY <2>1, <2>2, <2>3, <2>4, <2>5, <2>6 DEF ChangeOK
  <1>8. q \in TabState /\ TabOK(q)
    BY <1>7, ChangeSet
  <1>9. tab' = [tab EXCEPT ![t] = q]
    BY <1>1, <1>4, <1>5, <1>6 DEF Sync
  <1>10. Carried(t, q)
    BY <1>1, <1>2 DEF Carried
  <1> QED
    BY <1>3, <1>8, <1>9, <1>10, QuietStep DEF Sync, IInv, TypeOK

\* All items are re-encrypted.
LEMMA ReencryptedOK == ASSUME IInv, NEW t \in Tab, Reencrypted(t) PROVE IInv'
  <1>1. PICK c \in Change : c = tab[t].change /\ c # None /\ ChangeOK(c)
    BY TabParts DEF Reencrypted
  <1> DEFINE d == [c EXCEPT !.pc = "put"]
             q == [tab[t] EXCEPT !.change = d]
  <1>2. c.pc = "items" /\ c.todo = {}
    BY <1>1 DEF Reencrypted
  <1>3. d \in Change /\ ChangeOK(d) /\ d.new = c.new
    <2>1. d \in Change
      BY DEF Change
    <2>2. d.pc = "put" /\ d.new = c.new /\ d.todo = c.todo /\ d.list = c.list
          /\ d.rotate = c.rotate
      BY DEF Change
    <2>3. \A i \in Item : Moved(c, i) => Moved(d, i)
      BY <2>2 DEF Moved
    <2> QED
      BY <1>1, <1>2, <2>1, <2>2, <2>3 DEF ChangeOK
  <1>4. q \in TabState /\ TabOK(q) /\ q.change = d
    BY <1>3, ChangeSet
  <1>5. tab' = [tab EXCEPT ![t] = q]
    BY <1>1, TabParts DEF Reencrypted, TabState, IInv, TypeOK
  <1>6. d # None
    BY <1>3, NoneAssumption
  <1>7. Carried(t, q)
    BY <1>1, <1>3, <1>4, <1>6 DEF Carried
  <1> QED
    BY <1>4, <1>5, <1>7, QuietStep DEF Reencrypted, history, IInv, TypeOK

(***************************************************************************)
(* The account, the key and the TOTP secret.                               *)
(***************************************************************************)
LEMMA RegisterOK == ASSUME IInv, Register PROVE IInv'
  <1>1. drawn' \in 0..MaxKey /\ drawn' \in Key
    <2>1. drawn \in 0..MaxKey /\ MaxKey \in Nat
      BY KeysAssumption DEF IInv, TypeOK
    <2> QED
      BY <2>1 DEF Register, NewVaultKey, Key
  <1>2. /\ installed \subseteq installed' /\ installed' \in SUBSET Key
        /\ stored' \in Key \cup {0} /\ (stored' = stored \/ stored' \in installed')
    BY <1>1 DEF Register, PostRegister, IInv, TypeOK
  <1>3. Evolves
    BY <1>2 DEF Evolves, Register, IInv, TypeOK
  <1>4. TabsOK'
    <2>1. ASSUME NEW u \in Tab PROVE TabOK(tab[u])'
      <3>1. PICK w \in TabState : w = tab[u]
        BY DEF IInv, TypeOK
      <3>2. TabOK(w)'
        BY <1>3, <3>1, TabKept DEF IInv, TabsOK
      <3> QED
        BY <3>1, <3>2 DEF Register
    <2> QED
      BY <2>1 DEF TabsOK
  <1>5. Known \subseteq Known'
    BY <1>2 DEF Known, Pending, Register
  <1>6. ServerOK'
    BY <1>2, <1>5 DEF Register, IInv, ServerOK
  <1>7. FileOK'
    BY <1>2, <1>5 DEF Register, IInv, FileOK
  <1>8. TypeOK'
    BY <1>1, <1>2 DEF Register, IInv, TypeOK, counts
  <1> QED
    BY <1>4, <1>6, <1>7, <1>8 DEF IInv

\* A step that leaves the rows alone.
LEMMA RowsKept ==
    ASSUME IInv, UNCHANGED <<items, born>>, installed \subseteq installed'
    PROVE  /\ Evolves
           /\ \A i \in Item : items'[i] # None /\ items'[i] # items[i] =>
                 i \in born' /\ items'[i].key \in Known'
  BY DEF Evolves, IInv, TypeOK

\* The new wrapped key is stored, and the tab hears of it.
LEMMA PutOK == ASSUME IInv, NEW t \in Tab, Put(t) PROVE IInv'
  <1>1. PICK c \in Change : c = tab[t].change /\ c # None /\ ChangeOK(c)
    BY TabParts DEF Put
  <1>2. c.new \in Key /\ installed' = installed \cup {c.new} /\ stored' = c.new
    BY <1>1 DEF Put, PutUserKey, ChangeOK
  <1>3. Evolves
    BY <1>2, RowsKept DEF Put
  <1>4. PICK w \in TabState : w = tab[t] /\ TabOK(w)
    BY TabParts
  <1>5. ListOK(w.list)'
    BY <1>3, <1>4, ListKept DEF TabOK, TabState
  <1>6. PICK q \in TabState : q = [w EXCEPT !.key = c.new, !.ready = FALSE, !.change = None]
    BY <1>2 DEF TabState
  <1>7. TabOK(q)'
    <2>1. q.key = c.new /\ q.list = w.list /\ q.change = None
      BY <1>6 DEF TabState
    <2> QED
      BY <1>2, <1>5, <2>1 DEF TabOK
  <1>8. tab' = [tab EXCEPT ![t] = q]
    BY <1>1, <1>4, <1>6 DEF Put, TabState, IInv, TypeOK
  <1>9. Carried(t, q)
    BY <1>1, <1>2 DEF Carried
  <1>10. installed' \in SUBSET Key /\ dropped' \in SUBSET Key /\ drawn' \in 0..MaxKey
         /\ exports' \in 0..MaxExports /\ enrols' \in 0..MaxEnrols
    BY <1>2 DEF Put, IInv, TypeOK, counts
  <1> QED
    BY <1>2, <1>3, <1>6, <1>7, <1>8, <1>9, <1>10, RowsKept, StepOK DEF Put

\* The new wrapped key is stored, and the answer is lost.
LEMMA PutUnheardOK == ASSUME IInv, NEW t \in Tab, PutUnheard(t) PROVE IInv'
  <1>1. PICK c \in Change : c = tab[t].change /\ c # None /\ ChangeOK(c)
    BY TabParts DEF PutUnheard
  <1>2. c.new \in Key /\ installed' = installed \cup {c.new} /\ stored' = c.new
    BY <1>1 DEF PutUnheard, PutUserKey, ChangeOK
  <1>3. Evolves
    BY <1>2, RowsKept DEF PutUnheard
  <1>4. PICK q \in TabState : q = [tab[t] EXCEPT !.change = None] /\ TabOK(q)
    <2> DEFINE p == [tab[t] EXCEPT !.change = None]
    <2>1. p \in TabState /\ TabOK(p)
      BY TabParts DEF TabState, TabOK
    <2> HIDE DEF p
    <2>2. p = [tab[t] EXCEPT !.change = None]
      BY DEF p
    <2> QED
      BY <2>1, <2>2
  <1>5. TabOK(q)'
    BY <1>3, <1>4, TabKept
  <1>6. tab' = [tab EXCEPT ![t] = q]
    BY <1>4, TabParts DEF PutUnheard, TabState, IInv, TypeOK
  <1>7. Carried(t, q)
    BY <1>1, <1>2 DEF Carried
  <1>8. installed' \in SUBSET Key /\ dropped' \in SUBSET Key /\ drawn' \in 0..MaxKey
        /\ exports' \in 0..MaxExports /\ enrols' \in 0..MaxEnrols
    BY <1>2 DEF PutUnheard, IInv, TypeOK, counts
  <1> QED
    BY <1>2, <1>3, <1>4, <1>5, <1>6, <1>7, <1>8, RowsKept, StepOK DEF PutUnheard

\* A step of a tab on the server that leaves the tab and the keys alone.
LEMMA ServerStep ==
    ASSUME IInv, NEW t \in Tab, Evolves, UNCHANGED <<stored, file, tab, history>>,
           exports' \in 0..MaxExports, enrols' \in 0..MaxEnrols,
           totp' \in {totp, None} \/ totp' \in installed,
           \A i \in Item : items'[i] # None /\ items'[i] # items[i] =>
               i \in born' /\ items'[i].key \in Known
    PROVE  IInv'
  <1>1. PICK q \in TabState : q = tab[t] /\ TabOK(q)
    BY TabParts
  <1>2. TabOK(q)'
    BY <1>1, TabKept
  <1>3. tab' = [tab EXCEPT ![t] = q] /\ Carried(t, q)
    BY <1>1 DEF Carried, IInv, TypeOK
  <1>4. Known' = Known
    BY DEF Known, Pending, history
  <1>5. installed' \in SUBSET Key /\ dropped' \in SUBSET Key /\ drawn' \in 0..MaxKey
        /\ dropped \subseteq dropped' /\ installed' = installed
    BY DEF IInv, TypeOK, history
  <1> QED
    BY <1>1, <1>2, <1>3, <1>4, <1>5, StepOK

\* 2FA is switched on or off.
LEMMA TotpOK == ASSUME IInv, NEW t \in Tab, EnrollTotp(t) \/ DisableTotp(t) PROVE IInv'
  <1>1. UNCHANGED <<stored, items, born, file, tab, history>>
    BY DEF EnrollTotp, DisableTotp
  <1>2. exports' \in 0..MaxExports /\ enrols' \in 0..MaxEnrols
    BY KeysAssumption DEF EnrollTotp, DisableTotp, counts, IInv, TypeOK
  <1>3. totp' = None \/ totp' \in installed
    BY TabParts DEF EnrollTotp, DisableTotp, TabOK, Unlocked
  <1> QED
    BY <1>1, <1>2, <1>3, RowsKept, ServerStep DEF history, IInv, TypeOK

(***************************************************************************)
(* Export: the file takes the key and then the rows.                       *)
(***************************************************************************)
LEMMA ExportOK == ASSUME IInv, NEW t \in Tab, ExportKey(t) \/ ExportItems(t) PROVE IInv'
  <1>1. UNCHANGED <<server, tab, history>>
    BY DEF ExportKey, ExportItems
  <1>2. exports' \in 0..MaxExports /\ enrols' \in 0..MaxEnrols
    BY KeysAssumption DEF ExportKey, ExportItems, counts, IInv, TypeOK
  <1>3. Known' = Known
    BY <1>1 DEF Known, Pending, history
  <1>4. ServerOK'
    BY <1>1, <1>3 DEF ServerOK, IInv, server, history
  <1>5. TabsOK'
    <2>1. UNCHANGED <<tab, items, born, installed>>
      BY <1>1 DEF server, history
    <2>2. \A L : ListOK(L)' <=> ListOK(L)
      BY <2>1 DEF ListOK
    <2>3. \A k : ChangeOK(k)' <=> ChangeOK(k)
      BY <2>1, <2>2 DEF ChangeOK, Moved
    <2> QED
      BY <2>1, <2>2, <2>3 DEF TabsOK, TabOK, IInv
  <1>6. FileOK' /\ file' \in [key : Key, items : List \cup {None}] \cup {None}
    <2>1. CASE ExportKey(t)
      <3>1. file' = [key |-> stored, items |-> None] /\ stored \in Key /\ stored \in installed
        BY <2>1 DEF ExportKey, IInv, TypeOK, ServerOK
      <3> QED
        BY <1>1, <3>1 DEF FileOK, history
    <2>2. CASE ExportItems(t)
      <3>1. PICK f \in [key : Key, items : List \cup {None}] : f = file /\ f # None
        BY <2>2 DEF ExportItems, IInv, TypeOK
      <3>2. file' = [f EXCEPT !.items = items] /\ items \in List
        BY <2>2, <3>1 DEF ExportItems, IInv, TypeOK
      <3>3. /\ file' \in [key : Key, items : List \cup {None}]
            /\ file'.key = f.key /\ file'.items = items
        BY <3>2
      <3>4. f.key \in installed
        BY <3>1 DEF IInv, FileOK
      <3>5. \A i \in Item : items[i] # None => items[i].key \in Known
        BY DEF IInv, ServerOK
      <3> QED
        BY <1>1, <1>3, <3>3, <3>4, <3>5 DEF FileOK, history
    <2> QED
      BY <2>1, <2>2
  <1>7. TypeOK'
    BY <1>1, <1>2, <1>6 DEF IInv, TypeOK, server, history
  <1> QED
    BY <1>4, <1>5, <1>6, <1>7 DEF IInv

(***************************************************************************)
(* The writes of an item.                                                  *)
(***************************************************************************)
\* A row changes to r: the table evolves when r is a row of the next revision,
\* no row, or the row of a new id.
LEMMA RowSet ==
    ASSUME IInv, NEW i \in Item, NEW r \in View \cup {None},
           items' = [items EXCEPT ![i] = r], born' \in SUBSET Item, born \subseteq born',
           installed \subseteq installed', r # None => i \in born' /\ r.key \in Known',
           \/ r = None
           \/ i \notin born
           \/ items[i] # None /\ r.rev = items[i].rev + 1
    PROVE  /\ Evolves /\ items'[i] = r
           /\ \A j \in Item : items'[j] # None /\ items'[j] # items[j] =>
                 j \in born' /\ items'[j].key \in Known'
  <1>1. items \in [Item -> View \cup {None}]
    BY DEF IInv, TypeOK, List
  <1>2. /\ items' \in [Item -> View \cup {None}] /\ items'[i] = r
        /\ \A j \in Item : j # i => items'[j] = items[j]
    BY <1>1
  <1> QED
    BY <1>2 DEF Evolves, List

\* The tab shows the row it has written.
LEMMA Relisted ==
    ASSUME IInv, Evolves, NEW t \in Tab, NEW i \in Item, items'[i] # None => i \in born',
           tab' = [tab EXCEPT ![t].list[i] = items'[i]],
           UNCHANGED <<stored, totp, file, history, counts>>,
           \A j \in Item : items'[j] # None /\ items'[j] # items[j] =>
               j \in born' /\ items'[j].key \in installed
    PROVE  IInv'
  <1>1. PICK w \in TabState : w = tab[t] /\ TabOK(w)
    BY TabParts
  <1>2. PICK r \in View \cup {None} : r = items'[i]
    BY DEF Evolves, List
  <1>3. PICK L \in List : L = [w.list EXCEPT ![i] = r]
    <2>1. w.list \in [Item -> View \cup {None}]
      BY DEF TabState, List
    <2> QED
      BY <2>1 DEF List
  <1>4. PICK q \in TabState : q = [w EXCEPT !.list = L]
    BY DEF TabState
  <1>5. tab' = [tab EXCEPT ![t] = q]
    BY <1>1, <1>2, <1>3, <1>4
  <1>6. q.key = w.key /\ q.list = L /\ q.change = w.change
    BY <1>4 DEF TabState
  <1>7. TabOK(w)'
    BY <1>1, TabKept
  <1>8. ListOK(L)'
    <2>1. ListOK(w.list)'
      BY <1>7 DEF TabOK
    <2>2. w.list \in [Item -> View \cup {None}]
      BY DEF TabState, List
    <2>3. L[i] = r /\ \A j \in Item : j # i => L[j] = w.list[j]
      BY <1>3, <2>2
    <2>4. r # None => r.rev \in Int
      BY DEF View
    <2>5. ASSUME NEW j \in Item, L[j] # None
          PROVE  /\ j \in born'
                 /\ items'[j] # None => /\ L[j].rev <= items'[j].rev
                                        /\ L[j].rev = items'[j].rev => L[j] = items'[j]
      <3>1. CASE j = i
        BY <1>2, <2>3, <2>4, <2>5, <3>1
      <3>2. CASE j # i
        BY <2>1, <2>3, <2>5, <3>2 DEF ListOK
      <3> QED
        BY <3>1, <3>2
    <2> QED
      BY <2>5 DEF ListOK
  <1>9. TabOK(q)'
    BY <1>6, <1>7, <1>8 DEF TabOK
  <1>10. Carried(t, q)
    BY <1>1, <1>6 DEF Carried
  <1>11. /\ installed' \in SUBSET Key /\ dropped' \in SUBSET Key /\ drawn' \in 0..MaxKey
         /\ exports' \in 0..MaxExports /\ enrols' \in 0..MaxEnrols
         /\ dropped \subseteq dropped' /\ installed \subseteq Known'
    BY DEF IInv, TypeOK, history, counts, Known
  <1> QED
    BY <1>4, <1>5, <1>9, <1>10, <1>11, StepOK DEF Evolves

\* An item is added.
LEMMA AddItemOK ==
    ASSUME IInv, NEW t \in Tab, NEW i \in Item, NEW x \in Text, AddItem(t, i, x) PROVE IInv'
  <1>1. tab[t].key \in Key /\ tab[t].key \in installed
    BY TabParts DEF AddItem, Unlocked, TabState, TabOK
  <1>2. installed' = installed /\ installed \subseteq Known'
    BY DEF AddItem, history, Known
  <1>3. PICK r \in View : r = [key |-> tab[t].key, text |-> x, rev |-> 1]
    <2>1. 1 \in 1..MaxRev
      BY KeysAssumption
    <2> QED
      BY <1>1, <2>1 DEF View
  <1>4. items' = [items EXCEPT ![i] = r] /\ r.key = tab[t].key
    BY <1>3 DEF AddItem, Created, SealItem
  <1>5. Evolves /\ items'[i] = r /\ i \in born'
    BY <1>1, <1>2, <1>4, RowSet DEF AddItem, IInv, TypeOK
  <1>6. \A j \in Item : j # i => items'[j] = items[j]
    BY <1>4 DEF IInv, TypeOK, List
  <1> QED
    BY <1>1, <1>4, <1>5, <1>6, Relisted DEF AddItem

\* A row is written once more, under key k.
LEMMA RowUpdated ==
    ASSUME IInv, NEW i \in Item, NEW x \in Text, NEW k \in Key, k \in Known',
           items[i] # None, items[i].rev < MaxRev,
           items' = Updated(SealItem(x, k), i), UNCHANGED <<born, installed>>
    PROVE  /\ Evolves
           /\ items'[i] = [key |-> k, text |-> x, rev |-> items[i].rev + 1]
           /\ i \in born' /\ \A j \in Item : j # i => items'[j] = items[j]
           /\ \A j \in Item : items'[j] # None /\ items'[j] # items[j] =>
                 j \in born' /\ items'[j].key \in Known'
  <1>1. items[i] \in View /\ i \in born
    BY DEF IInv, TypeOK, List, ServerOK
  <1>2. items[i].rev + 1 \in 1..MaxRev
    BY <1>1, KeysAssumption DEF View
  <1>3. PICK r \in View : r = [key |-> k, text |-> x, rev |-> items[i].rev + 1]
    BY <1>2 DEF View
  <1>4. items' = [items EXCEPT ![i] = r] /\ r.key = k /\ r.rev = items[i].rev + 1
    BY <1>3 DEF Updated, SealItem
  <1>5. \A j \in Item : j # i => items'[j] = items[j]
    BY <1>4 DEF IInv, TypeOK, List
  <1>6. born' = born /\ installed' = installed /\ born \in SUBSET Item
    BY DEF IInv, TypeOK
  <1>7. /\ Evolves /\ items'[i] = r
        /\ \A j \in Item : items'[j] # None /\ items'[j] # items[j] =>
              j \in born' /\ items'[j].key \in Known'
    BY <1>1, <1>4, <1>6, RowSet
  <1> QED
    BY <1>1, <1>3, <1>5, <1>6, <1>7

\* An item is saved.
LEMMA EditItemOK ==
    ASSUME IInv, NEW t \in Tab, NEW i \in Item, NEW x \in Text, EditItem(t, i, x) PROVE IInv'
  <1>1. PICK k \in Key : k = tab[t].key /\ k \in installed
    BY TabParts DEF EditItem, Unlocked, TabState, TabOK
  <1>2. installed \subseteq Known' /\ UNCHANGED <<born, installed>>
    BY DEF EditItem, history, Known
  <1>3. /\ items[i] # None /\ items[i].rev < MaxRev
        /\ items' = Updated(SealItem(x, k), i)
    BY <1>1 DEF EditItem, Matches
  <1>4. /\ Evolves /\ i \in born' /\ \A j \in Item : j # i => items'[j] = items[j]
        /\ items'[i] = [key |-> k, text |-> x, rev |-> items[i].rev + 1]
    BY <1>1, <1>2, <1>3, RowUpdated
  <1>5. items'[i].key \in installed
    BY <1>1, <1>4
  <1>6. tab' = [tab EXCEPT ![t].list[i] = items'[i]]
    BY DEF EditItem
  <1>7. UNCHANGED <<stored, totp, file, history, counts>>
    BY DEF EditItem
  <1>8. \A j \in Item : items'[j] # None /\ items'[j] # items[j] =>
           j \in born' /\ items'[j].key \in installed
    BY <1>4, <1>5
  <1> QED
    BY <1>4, <1>6, <1>7, <1>8, Relisted

\* An item is deleted.
LEMMA DeleteItemOK == ASSUME IInv, NEW t \in Tab, NEW i \in Item, DeleteItem(t, i) PROVE IInv'
  <1>1. installed' = installed /\ born' = born /\ items' = [items EXCEPT ![i] = None]
    BY DEF DeleteItem, history
  <1>2. Evolves /\ items'[i] = None
    BY <1>1, RowSet DEF IInv, TypeOK
  <1>3. \A j \in Item : j # i => items'[j] = items[j]
    BY <1>1 DEF IInv, TypeOK, List
  <1>4. tab' = [tab EXCEPT ![t].list[i] = items'[i]]
    BY <1>2 DEF DeleteItem
  <1>5. UNCHANGED <<stored, totp, file, history, counts>>
    BY DEF DeleteItem
  <1>6. \A j \in Item : items'[j] # None => items'[j] = items[j]
    BY <1>2, <1>3
  <1> QED
    BY <1>2, <1>4, <1>5, <1>6, Relisted

\* The ciphertext of the file, under whatever key it is.
LEMMA ImportItemOK ==
    ASSUME IInv, NEW t \in Tab, NEW first \in Item, NEW i \in Item, NEW new \in Item,
           ImportItem(t, first, i, new)
    PROVE  IInv'
  <1>1. PICK v \in View : v = file.items[i] /\ v.key \in Known
    BY DEF ImportItem, IInv, TypeOK, FileOK, List
  <1>2. 1 \in 1..MaxRev
    BY KeysAssumption
  <1>3. PICK r \in View : r = [key |-> v.key, text |-> v.text, rev |-> 1] /\ r.key \in Known
    <2>1. v.key \in Key /\ v.text \in Text
      BY DEF View
    <2>2. PICK k \in Key, x \in Text : k = v.key /\ x = v.text
      BY <2>1
    <2>3. PICK r \in View : r = [key |-> k, text |-> x, rev |-> 1]
      BY <1>2 DEF View
    <2>4. r.key = k
      BY <2>3
    <2> QED
      BY <1>1, <2>2, <2>3, <2>4
  <1>4. /\ items' = [items EXCEPT ![new] = r]
        /\ installed' = installed /\ born' = born \cup {new} /\ new \notin born
    BY <1>1, <1>3 DEF ImportItem, Created, history
  <1>5. Known' = Known
    BY DEF ImportItem, history, Known, Pending
  <1>6. /\ Evolves
        /\ \A j \in Item : items'[j] # None /\ items'[j] # items[j] =>
              j \in born' /\ items'[j].key \in Known'
    BY <1>3, <1>4, <1>5, RowSet DEF IInv, TypeOK
  <1>7. exports' \in 0..MaxExports /\ enrols' \in 0..MaxEnrols /\ totp' = totp
    BY DEF ImportItem, IInv, TypeOK, counts
  <1>8. UNCHANGED <<stored, file, tab, history>>
    BY DEF ImportItem
  <1> QED
    BY <1>5, <1>6, <1>7, <1>8, ServerStep

\* A round of the rotation: the row is under the new key, at the revision after
\* the listed one, and says what it said.
LEMMA Rotated ==
    ASSUME IInv, NEW i \in Item, NEW c \in Change, ChangeOK(c), c.pc = "items",
           i \in c.todo, Matches(i, c.list[i]), items[i].rev < MaxRev,
           c.new \in Known', UNCHANGED <<born, installed>>,
           items' = Updated(SealItem(c.list[i].text, c.new), i)
    PROVE  /\ Evolves /\ c.list[i] = items[i] /\ c.new \in Key
           /\ items'[i] = [key |-> c.new, text |-> items[i].text, rev |-> items[i].rev + 1]
           /\ \A j \in Item : items'[j] # None /\ items'[j] # items[j] =>
                 j \in born' /\ items'[j].key \in Known'
  <1>1. c.list[i] = items[i] /\ items[i] # None /\ c.new \in Key
    BY DEF Matches, ChangeOK, ListOK
  <1>2. items[i].text \in Text
    BY <1>1 DEF IInv, TypeOK, List, View
  <1>3. PICK x \in Text : x = items[i].text
    BY <1>2
  <1>4. PICK k \in Key : k = c.new
    BY <1>1
  <1>5. items' = Updated(SealItem(x, k), i)
    BY <1>1, <1>3, <1>4
  <1> QED
    BY <1>1, <1>3, <1>4, <1>5, RowUpdated

\* One item is re-encrypted and stored.
LEMMA ReencryptOK == ASSUME IInv, NEW t \in Tab, NEW i \in Item, Reencrypt(t, i) PROVE IInv'
  <1>1. PICK c \in Change : c = tab[t].change /\ c # None /\ ChangeOK(c)
    BY TabParts DEF Reencrypt
  <1>2. PICK w \in TabState : w = tab[t] /\ TabOK(w)
    BY TabParts
  <1>3. PICK d \in Change : d = [c EXCEPT !.todo = c.todo \ {i}]
    BY DEF Change
  <1>4. /\ d.new = c.new /\ d.list = c.list /\ d.pc = c.pc /\ d.rotate = c.rotate
        /\ d.todo = c.todo \ {i} /\ d # None
    BY <1>3, NoneAssumption DEF Change
  <1>5. PICK q \in TabState : q = [w EXCEPT !.change = d]
    BY DEF TabState
  <1>6. q.key = w.key /\ q.list = w.list /\ q.change = d
    BY <1>5 DEF TabState
  <1>7. tab' = [tab EXCEPT ![t] = q]
    BY <1>1, <1>2, <1>3, <1>5 DEF Reencrypt
  <1>8. c.new \in Known'
    <2>1. tab'[t] = q
      BY <1>7 DEF IInv, TypeOK
    <2> QED
      BY <1>4, <1>6, <2>1 DEF Known, Pending
  <1>9. /\ Evolves /\ c.list[i] = items[i]
        /\ items'[i] = [key |-> c.new, text |-> items[i].text, rev |-> items[i].rev + 1]
        /\ \A j \in Item : items'[j] # None /\ items'[j] # items[j] =>
              j \in born' /\ items'[j].key \in Known'
    BY <1>1, <1>8, Rotated DEF Reencrypt, history
  <1>10. ChangeOK(c)' /\ TabOK(w)'
    BY <1>1, <1>2, <1>9, ChangeKept, TabKept
  <1>11. ChangeOK(d)'
    <2>1. Moved(d, i)'
      <3>1. items[i].rev \in Int
        BY <1>1 DEF Reencrypt, Matches, IInv, TypeOK, List, View
      <3> QED
        BY <1>4, <1>9, <3>1 DEF Moved
    <2>2. \A j \in Item : Moved(c, j)' => Moved(d, j)'
      BY <1>4 DEF Moved
    <2>3. \A j \in Item \ d.todo : j = i \/ j \in Item \ c.todo
      BY <1>4
    <2>4. d.pc = "items"
      BY <1>1, <1>4 DEF Reencrypt
    <2> QED
      BY <1>4, <1>10, <2>1, <2>2, <2>3, <2>4 DEF ChangeOK
  <1>12. TabOK(q)'
    BY <1>4, <1>6, <1>10, <1>11 DEF TabOK
  <1>13. Carried(t, q)
    BY <1>1, <1>4, <1>6 DEF Carried
  <1>14. /\ installed' \in SUBSET Key /\ dropped' \in SUBSET Key /\ drawn' \in 0..MaxKey
         /\ exports' \in 0..MaxExports /\ enrols' \in 0..MaxEnrols
         /\ dropped \subseteq dropped'
    BY DEF Reencrypt, IInv, TypeOK, history, counts
  <1> QED
    BY <1>7, <1>9, <1>12, <1>13, <1>14, StepOK DEF Reencrypt

\* One item is re-encrypted and stored, and the answer is lost.
LEMMA ReencryptUnheardOK ==
    ASSUME IInv, NEW t \in Tab, NEW i \in Item, ReencryptUnheard(t, i) PROVE IInv'
  <1>1. PICK c \in Change : c = tab[t].change /\ c # None /\ ChangeOK(c)
    BY TabParts DEF ReencryptUnheard
  <1>2. PICK w \in TabState : w = tab[t] /\ TabOK(w)
    BY TabParts
  <1>3. PICK q \in TabState : q = [w EXCEPT !.change = None]
    BY DEF TabState
  <1>4. q.key = w.key /\ q.list = w.list /\ q.change = None
    BY <1>3 DEF TabState
  <1>5. tab' = [tab EXCEPT ![t] = q]
    BY <1>1, <1>2, <1>3 DEF ReencryptUnheard
  <1>6. /\ dropped' \in SUBSET Key /\ dropped \subseteq dropped' /\ Carried(t, q)
        /\ installed' = installed
    BY <1>1, AbandonedCarried DEF ReencryptUnheard
  <1>7. c.pc = "items"
    BY <1>1 DEF ReencryptUnheard
  <1>8. c.new \in Known'
    BY <1>1, <1>6, <1>7 DEF Known, ReencryptUnheard, Abandoned
  <1>9. /\ Evolves
        /\ \A j \in Item : items'[j] # None /\ items'[j] # items[j] =>
              j \in born' /\ items'[j].key \in Known'
    BY <1>1, <1>8, Rotated DEF ReencryptUnheard
  <1>10. TabOK(q)
    BY <1>2, <1>4 DEF TabOK
  <1>11. TabOK(q)'
    BY <1>9, <1>10, TabKept
  <1>12. /\ installed' \in SUBSET Key /\ drawn' \in 0..MaxKey
         /\ exports' \in 0..MaxExports /\ enrols' \in 0..MaxEnrols
    BY DEF ReencryptUnheard, IInv, TypeOK, counts
  <1> QED
    BY <1>5, <1>6, <1>9, <1>11, <1>12, StepOK DEF ReencryptUnheard

(***************************************************************************)
(* The invariant.                                                          *)
(***************************************************************************)
\* A fresh deployment: no account, every tab locked.
LEMMA InvInit == Init => IInv
  <1> SUFFICES ASSUME Init PROVE IInv
    OBVIOUS
  <1>1. EmptyList \in List /\ Locked \in TabState
    BY DEF EmptyList, List, Locked, TabState
  <1>2. TypeOK
    BY <1>1, KeysAssumption DEF Init, TypeOK
  <1>3. TabOK(Locked)
    BY DEF TabOK, Locked, ListOK, EmptyList
  <1>4. TabsOK
    BY <1>3 DEF TabsOK, Init
  <1> QED
    BY <1>2, <1>4 DEF IInv, ServerOK, FileOK, Init, EmptyList

\* Every step of every tab preserves it.
LEMMA InvStep == IInv /\ [Next]_vars => IInv'
  <1> SUFFICES ASSUME IInv, [Next]_vars PROVE IInv'
    OBVIOUS
  <1>1. CASE Register
    BY <1>1, RegisterOK
  <1>2. ASSUME NEW t \in Tab, ItemStep(t) PROVE IInv'
    BY <1>2, AddItemOK, EditItemOK, DeleteItemOK, ImportItemOK, ReencryptOK,
       ReencryptUnheardOK DEF ItemStep
  <1>3. ASSUME NEW t \in Tab, TabStep(t) PROVE IInv'
    BY <1>3, LoginOK, SubmitOK, LoadItemsOK, LockOK, ReloadOK, ExportOK, TotpOK, SyncOK,
       ReencryptedOK, PutOK, PutUnheardOK, FailOK DEF TabStep
  <1>4. CASE UNCHANGED vars
    <2>1. TypeOK'
      BY <1>4 DEF vars, IInv, TypeOK
    <2>2. TabsOK'
      <3>1. \A L : ListOK(L)' <=> ListOK(L)
        BY <1>4 DEF vars, ListOK
      <3>2. \A k : ChangeOK(k)' <=> ChangeOK(k)
        BY <1>4, <3>1 DEF vars, ChangeOK, Moved
      <3> QED
        BY <1>4, <3>1, <3>2 DEF vars, TabsOK, TabOK, IInv
    <2>3. Known' = Known
      BY <1>4 DEF vars, Known, Pending
    <2>4. ServerOK' /\ FileOK'
      BY <1>4, <2>3 DEF vars, IInv, ServerOK, FileOK
    <2> QED
      BY <2>1, <2>2, <2>4 DEF IInv
  <1> QED
    BY <1>1, <1>2, <1>3, <1>4 DEF Next

\* The invariant holds in every state.
LEMMA Invariance == Spec => []IInv
  BY InvInit, InvStep, PTL DEF Spec

(***************************************************************************)
(* What it gives.                                                          *)
(***************************************************************************)
\* Every row, tab and key stays within its type (users, vault_items and the
\* React state of a tab), whatever the tabs do and whatever fails.
THEOREM VaultKeysType == Spec => []TypeOK
  <1>1. IInv => TypeOK
    BY DEF IInv
  <1> QED
    BY <1>1, Invariance, PTL

\* Nothing is sealed under a key nobody can get back, for any number of tabs
\* that rotate at the same time: handleSubmit sets the vault key of its tab
\* after the PUT of the key succeeded, and an item under another key is one a
\* rotation under way, or one stopped half-way, has written.
THEOREM KeysOnceInstalledAlways == Spec => []KeysOnceInstalled
  <1>1. IInv => KeysOnceInstalled
    BY DEF IInv, KeysOnceInstalled, TabsOK, TabOK, ServerOK, FileOK, Known
  <1> QED
    BY <1>1, Invariance, PTL

\* A rotation that reaches the PUT of the key has moved every item it listed:
\* none is left under the old key, whatever was edited, deleted or rotated by
\* another tab meanwhile (the loop of handleSubmit and its baseRevision).
THEOREM ListMovedAlways == Spec => []ListMoved
  <1>1. ASSUME IInv PROVE ListMoved
    <2> SUFFICES ASSUME NEW t \in Tab, NEW c \in Change, c = tab[t].change, c # None,
                        c.pc = "put", c.rotate, NEW i \in Item,
                        c.list[i] # None, items[i] # None
                 PROVE  items[i].key = c.new \/ items[i].rev > c.list[i].rev + 1
      BY <1>1, TabParts DEF ListMoved
    <2>1. Moved(c, i)
      BY <1>1, TabParts DEF ChangeOK
    <2>2. items[i] \in View /\ c.list[i] \in View
      BY <1>1 DEF IInv, TypeOK, Change, List
    <2>3. items[i].rev \in Int /\ c.list[i].rev \in Int
      BY <2>2 DEF View
    <2> QED
      BY <2>1, <2>3 DEF Moved
  <1> QED
    BY <1>1, Invariance, PTL

\* The row a re-encryption writes says what the row said: the list it works
\* from may be old, but at the same revision it agrees with the table.
LEMMA ReencryptKeeps ==
    ASSUME IInv, NEW t \in Tab, NEW i \in Item, Reencrypt(t, i) \/ ReencryptUnheard(t, i)
    PROVE  \A j \in Item : items[j] # None /\ items'[j] # None =>
               items'[j] = items[j] \/ items'[j].text = items[j].text
  <1>1. PICK c \in Change : c = tab[t].change /\ ChangeOK(c)
    BY TabParts DEF Reencrypt, ReencryptUnheard
  <1>2. /\ i \in c.todo /\ Matches(i, c.list[i])
        /\ items' = Updated(SealItem(c.list[i].text, c.new), i)
    BY <1>1 DEF Reencrypt, ReencryptUnheard
  <1>3. c.list[i] = items[i]
    BY <1>1, <1>2 DEF ChangeOK, ListOK, Matches
  <1>4. items' = [items EXCEPT ![i] = [key |-> c.new, text |-> items[i].text,
                                       rev |-> items[i].rev + 1]]
    BY <1>2, <1>3 DEF Updated, SealItem
  <1> QED
    BY <1>4 DEF IInv, TypeOK, List

\* An edit seals under a key that is installed.
LEMMA EditInstalled ==
    ASSUME IInv, NEW t \in Tab, NEW i \in Item, NEW x \in Text, EditItem(t, i, x)
    PROVE  \A j \in Item : items'[j] = items[j] \/ items'[j].key \in installed
  <1>1. tab[t].key \in installed
    BY TabParts DEF EditItem, Unlocked, TabOK
  <1>2. items' = [items EXCEPT ![i] = [key |-> tab[t].key, text |-> x,
                                       rev |-> items[i].rev + 1]]
    BY DEF EditItem, Updated, SealItem
  <1> QED
    BY <1>1, <1>2 DEF IInv, TypeOK, List

\* A rotation never changes what an item says: a write under a key that is not
\* installed keeps the text (handleSubmit opens the listed ciphertext and PUTs
\* it at the listed revision, which UpdateItem compares with the row).
THEOREM RotationKeepsTextAlways == Spec => RotationKeepsText
  <1> DEFINE Keeps == \A i \in Item :
               items[i] # None /\ items'[i] # None /\ items'[i] # items[i]
               /\ items'[i].key \notin installed => items'[i].text = items[i].text
  <1>1. ASSUME IInv, [Next]_vars PROVE [Keeps]_vars
    <2>1. CASE items' = items
      BY <2>1
    <2>2. ASSUME NEW t \in Tab, ItemStep(t) PROVE Keeps
      <3>1. PICK i \in Item :
               \/ \E x \in Text : AddItem(t, i, x) \/ EditItem(t, i, x)
               \/ DeleteItem(t, i)
               \/ \E first, new \in Item : ImportItem(t, first, i, new)
               \/ Reencrypt(t, i) \/ ReencryptUnheard(t, i)
        BY <2>2 DEF ItemStep
      <3>2. \A j \in Item : j \notin born => items[j] = None
        BY <1>1 DEF IInv, ServerOK
      <3>3. items \in [Item -> View \cup {None}]
        BY <1>1 DEF IInv, TypeOK, List
      <3>4. CASE \E x \in Text : AddItem(t, i, x)
        BY <3>2, <3>3, <3>4 DEF AddItem, Created
      <3>5. CASE \E x \in Text : EditItem(t, i, x)
        BY <1>1, <3>5, EditInstalled
      <3>6. CASE DeleteItem(t, i)
        BY <3>3, <3>6 DEF DeleteItem
      <3>7. CASE \E first, new \in Item : ImportItem(t, first, i, new)
        BY <3>2, <3>3, <3>7 DEF ImportItem, Created
      <3>8. CASE Reencrypt(t, i) \/ ReencryptUnheard(t, i)
        BY <1>1, <3>8, ReencryptKeeps
      <3> QED
        BY <3>1, <3>4, <3>5, <3>6, <3>7, <3>8
    <2>3. CASE Register
      BY <2>1, <2>3 DEF Register
    <2>4. ASSUME NEW t \in Tab, TabStep(t) PROVE items' = items
      BY <2>4 DEF TabStep, Login, Submit, LoadItems, Lock, Reload, ExportKey, ExportItems,
         EnrollTotp, DisableTotp, Sync, Reencrypted, Put, PutUnheard, Fail, server
    <2>5. CASE UNCHANGED vars
      BY <2>1, <2>5 DEF vars
    <2> QED
      BY <1>1, <2>1, <2>2, <2>3, <2>4, <2>5 DEF Next
  <1> QED
    BY <1>1, Invariance, PTL DEF Spec, RotationKeepsText

=============================================================================
