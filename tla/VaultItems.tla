----------------------------- MODULE VaultItems -----------------------------
(***************************************************************************)
(* Vault items: the vault_items table, the handlers of /api/items and      *)
(* /api/sync, and the item list each browser keeps.                        *)
(*                                                                         *)
(* A request is a process.  It is sent by a device, runs one SQL statement *)
(* per step (autocommit: a statement is atomic, a handler is not), and is  *)
(* answered; the answer is delivered to the device or lost.  Any number of *)
(* requests, of the same or of different devices, are in flight at once.   *)
(*                                                                         *)
(* A ciphertext is an opaque value: the server never looks inside it.      *)
(***************************************************************************)
EXTENDS Naturals

CONSTANTS User,         \* account ids
          Device,       \* browsers (or API clients) holding a valid session
          UserOf,       \* the account a device is logged in to
          Item,         \* values gen_random_uuid() can return for an item
          Cipher,       \* ciphertexts
          Req,          \* slots for requests in flight
          MaxRevision,  \* largest value of the INTEGER column "revision"
          None          \* no row, no view, no argument

VARIABLES users,   \* ids of the rows of table users
          items,   \* table vault_items: item id -> row, or None
          born,    \* item ids handed out so far: a UUID is never drawn twice
          cache,   \* the list of items each device shows (VaultList "items")
          req      \* the requests in flight

vars == <<users, items, born, cache, req>>

(***************************************************************************)
(* Rows, and what a client sees of a row.                                  *)
(***************************************************************************)
Row  == [owner : User, cipher : Cipher, revision : 1..MaxRevision]
View == [cipher : Cipher, revision : 1..MaxRevision]
Page == [Item -> View \cup {None}]

ASSUME ConstantsAssumption ==
    /\ UserOf \in [Device -> User]
    /\ MaxRevision \in Nat \ {0}
    /\ None \notin User \cup Device \cup Item \cup Cipher
    /\ None \notin Row \cup View

NoPage == [i \in Item |-> None]

ItemView(row) == [cipher |-> row.cipher, revision |-> row.revision]

Stages   == {"idle", "sync", "list", "create", "update", "exists", "delete",
             "done"}
Ops      == {"none", "sync", "list", "create", "update", "delete"}
Statuses == {"none", "ok", "created", "noContent", "forbidden", "notFound",
             "conflict", "error"}

\* pc: the statement to run next.  base: the view the new ciphertext was edited
\* from, whose revision is sent as current_revision.  got: the items of the answer.
Request == [pc : Stages, op : Ops, dev : Device \cup {None},
            item : Item \cup {None}, cipher : Cipher \cup {None},
            base : View \cup {None}, status : Statuses, got : Page]

Idle == [pc |-> "idle", op |-> "none", dev |-> None, item |-> None,
         cipher |-> None, base |-> None, status |-> "none", got |-> NoPage]

\* The one type invariant: every table, cache and request is well formed.
TypeOK ==
    /\ users \subseteq User
    /\ items \in [Item -> Row \cup {None}]
    /\ born \subseteq Item
    /\ cache \in [Device -> Page]
    /\ req \in [Req -> Request]

Init ==
    /\ users = User
    /\ items = [i \in Item |-> None]
    /\ born = {}
    /\ cache = [d \in Device |-> NoPage]
    /\ req = [r \in Req |-> Idle]

(***************************************************************************)
(* The client sends.  The device holds a session, so sessionAuth lets the  *)
(* request through; validation of the body only refuses malformed input.   *)
(***************************************************************************)
Send(r, d, op, i, c, v) ==
    /\ req[r].pc = "idle"
    /\ req' = [req EXCEPT ![r] = [pc |-> op, op |-> op, dev |-> d, item |-> i,
                                  cipher |-> c, base |-> v, status |-> "none",
                                  got |-> NoPage]]
    /\ UNCHANGED <<users, items, born, cache>>

\* loadItems, handleExport; GET /api/items by an API client.
SendRead(r, d) ==
    \E op \in {"sync", "list"} : Send(r, d, op, None, None, None)

\* AddItemModal, and each round of handleImport.
SendCreate(r, d) ==
    \E c \in Cipher : Send(r, d, "create", None, c, None)

\* EditItemModal: the revision sent is that of the view being edited.  A device
\* may also name an item another device showed it (ids travel in export files).
SendUpdate(r, d) ==
    \E e \in Device, i \in Item, c \in Cipher :
        /\ cache[e][i] # None
        /\ Send(r, d, "update", i, c, cache[e][i])

\* ItemCard, with any id as above.
SendDelete(r, d) ==
    \E e \in Device, i \in Item :
        /\ cache[e][i] # None
        /\ Send(r, d, "delete", i, None, None)

(***************************************************************************)
(* The SQL statements, as operators on the table.                          *)
(***************************************************************************)
Owned(u, i) == items[i] # None /\ items[i].owner = u

MListItems(u) ==
    [i \in Item |-> IF items[i] # None THEN ItemView(items[i]) ELSE None]

\* SELECT ... WHERE user_id = u
ListItems(u) ==
    [i \in Item |-> IF Owned(u, i) THEN ItemView(items[i]) ELSE None]

MMatching(u, i, rev) == Owned(u, i)

MMatchingAnyOwner(u, i, rev) == items[i] # None /\ items[i].revision = rev

\* ... WHERE id = i AND user_id = u AND revision = rev
Matching(u, i, rev) == Owned(u, i) /\ items[i].revision = rev

MBumped(i, c) == [owner |-> items[i].owner, cipher |-> c,
                  revision |-> items[i].revision]

\* SET ciphertext = c, revision = revision + 1
Bumped(i, c) == [owner |-> items[i].owner, cipher |-> c,
                 revision |-> items[i].revision + 1]

(***************************************************************************)
(* The handlers, one action per statement.                                 *)
(***************************************************************************)
Requester(r) == UserOf[req[r].dev]

Answer(r, status, page) ==
    req' = [req EXCEPT ![r] = [@ EXCEPT !.pc = "done", !.status = status,
                                        !.got = page]]

OneItem(i, row) == [NoPage EXCEPT ![i] = ItemView(row)]

\* GetSync reads the user row first ...
GetSync(r) ==
    /\ req[r].pc = "sync"
    /\ \/ /\ Requester(r) \in users
          /\ req' = [req EXCEPT ![r].pc = "list"]
       \/ /\ Requester(r) \notin users
          /\ Answer(r, "forbidden", NoPage)
    /\ UNCHANGED <<users, items, born, cache>>

\* ... and the items in a second statement, like ListItems.
GetItems(r) ==
    /\ req[r].pc = "list"
    /\ Answer(r, "ok", ListItems(Requester(r)))
    /\ UNCHANGED <<users, items, born, cache>>

MCreateItem(r) ==
    /\ req[r].pc = "create"
    /\ \E i \in Item \ born :
          LET row == [owner |-> Requester(r), cipher |-> req[r].cipher,
                      revision |-> 1] IN
          /\ items' = [items EXCEPT ![i] = row]
          /\ born' = born \cup {i}
          /\ Answer(r, "created", OneItem(i, row))
    /\ UNCHANGED <<users, cache>>

\* POST /api/items.  Without the user's row the foreign key refuses the insert.
\* Bound: with all of Item handed out an insert can only fail.
CreateItem(r) ==
    /\ req[r].pc = "create"
    /\ \/ /\ Requester(r) \in users
          /\ \E i \in Item \ born :
                LET row == [owner |-> Requester(r), cipher |-> req[r].cipher,
                            revision |-> 1] IN
                /\ items' = [items EXCEPT ![i] = row]
                /\ born' = born \cup {i}
                /\ Answer(r, "created", OneItem(i, row))
       \/ /\ Requester(r) \notin users \/ born = Item
          /\ Answer(r, "error", NoPage)
          /\ UNCHANGED <<items, born>>
    /\ UNCHANGED <<users, cache>>

MUpdateItem(r) ==
    LET i == req[r].item IN
    /\ req[r].pc = "update"
    /\ \/ /\ Matching(Requester(r), i, req[r].base.revision)
          /\ items' = [items EXCEPT ![i] = Bumped(i, req[r].cipher)]
          /\ Answer(r, "ok", OneItem(i, Bumped(i, req[r].cipher)))
       \/ /\ ~Matching(Requester(r), i, req[r].base.revision)
          /\ req' = [req EXCEPT ![r].pc = "exists"]
          /\ UNCHANGED items
    /\ UNCHANGED <<users, born, cache>>

\* PUT /api/items/{id}: the guarded UPDATE.  A revision past the column's range
\* is an error of the statement; no row updated leads to the existence check.
UpdateItem(r) ==
    LET i == req[r].item
        matched == Matching(Requester(r), i, req[r].base.revision) IN
    /\ req[r].pc = "update"
    /\ \/ /\ matched
          /\ items[i].revision < MaxRevision
          /\ items' = [items EXCEPT ![i] = Bumped(i, req[r].cipher)]
          /\ Answer(r, "ok", OneItem(i, Bumped(i, req[r].cipher)))
       \/ /\ matched
          /\ items[i].revision = MaxRevision
          /\ Answer(r, "error", NoPage)
          /\ UNCHANGED items
       \/ /\ ~matched
          /\ req' = [req EXCEPT ![r].pc = "exists"]
          /\ UNCHANGED items
    /\ UNCHANGED <<users, born, cache>>

MItemExists(r) ==
    /\ req[r].pc = "exists"
    /\ Answer(r, "conflict", NoPage)
    /\ UNCHANGED <<users, items, born, cache>>

\* The existence check that tells 404 from 409, in a statement of its own.
ItemExists(r) ==
    /\ req[r].pc = "exists"
    /\ Answer(r, IF Owned(Requester(r), req[r].item) THEN "conflict"
                 ELSE "notFound", NoPage)
    /\ UNCHANGED <<users, items, born, cache>>

\* DELETE /api/items/{id}: unconditional, no revision is asked for.
DeleteItem(r) ==
    LET i == req[r].item IN
    /\ req[r].pc = "delete"
    /\ \/ /\ Owned(Requester(r), i)
          /\ items' = [items EXCEPT ![i] = None]
          /\ Answer(r, "noContent", NoPage)
       \/ /\ ~Owned(Requester(r), i)
          /\ Answer(r, "notFound", NoPage)
          /\ UNCHANGED items
    /\ UNCHANGED <<users, born, cache>>

Busy(r) == req[r].pc \notin {"idle", "done"}

\* Any statement may fail (connection, timeout, cancelled context): answer 500.
StatementFails(r) ==
    /\ Busy(r)
    /\ Answer(r, "error", NoPage)
    /\ UNCHANGED <<users, items, born, cache>>

(***************************************************************************)
(* The browser's reaction to an answer.                                    *)
(***************************************************************************)
Applied(d, q) ==
    CASE q.op \in {"sync", "list"} /\ q.status = "ok" -> q.got
      [] q.op = "create" /\ q.status = "created" ->
             [i \in Item |-> IF q.got[i] # None THEN q.got[i] ELSE cache[d][i]]
      [] q.op = "update" /\ q.status = "ok" ->
             [i \in Item |-> IF q.got[i] # None /\ cache[d][i] # None
                             THEN q.got[i] ELSE cache[d][i]]
      [] q.op = "delete" /\ q.status = "noContent" ->
             [cache[d] EXCEPT ![q.item] = None]
      [] OTHER -> cache[d]

\* setItems, handleItemAdded, handleItemUpdated, handleItemDeleted; an error
\* status only shows a message.
Deliver(r) ==
    LET d == req[r].dev IN
    /\ req[r].pc = "done"
    /\ cache' = [cache EXCEPT ![d] = Applied(d, req[r])]
    /\ req' = [req EXCEPT ![r] = Idle]
    /\ UNCHANGED <<users, items, born>>

\* The request, the server running it, or its answer is lost.
Lose(r) ==
    /\ req[r].pc # "idle"
    /\ req' = [req EXCEPT ![r] = Idle]
    /\ UNCHANGED <<users, items, born, cache>>

\* DELETE FROM users, by another request of the account: ON DELETE CASCADE.
DeleteUser(u) ==
    /\ u \in users
    /\ users' = users \ {u}
    /\ items' = [i \in Item |-> IF Owned(u, i) THEN None ELSE items[i]]
    /\ UNCHANGED <<born, cache, req>>

Handler(r) ==
    \/ GetSync(r) \/ GetItems(r) \/ CreateItem(r) \/ UpdateItem(r)
    \/ ItemExists(r) \/ DeleteItem(r)

Server(r) == Handler(r) \/ StatementFails(r)

Client(r) ==
    \E d \in Device : \/ SendRead(r, d)   \/ SendCreate(r, d)
                      \/ SendUpdate(r, d) \/ SendDelete(r, d)

Next ==
    \/ \E r \in Req : Client(r) \/ Server(r) \/ Deliver(r) \/ Lose(r)
    \/ \E u \in User : DeleteUser(u)

Spec == Init /\ [][Next]_vars

(***************************************************************************)
(* Properties.                                                             *)
(***************************************************************************)

\* A view says what the row said at that revision: wherever a view of item i is
\* held - a browser's list, an edit in flight, an answer - the row is gone, is
\* ahead of it, or holds the same ciphertext (revision = revision + 1 in the one
\* UPDATE; ids never reused; answers delivered late or out of order).
Genuine(v, i) ==
    v # None => /\ i \in born
                /\ items[i] # None =>
                      \/ v.revision < items[i].revision
                      \/ v = ItemView(items[i])

ViewsGenuine ==
    /\ \A d \in Device, i \in Item : Genuine(cache[d][i], i)
    /\ \A r \in Req : /\ \A i \in Item : Genuine(req[r].got[i], i)
                      /\ req[r].base # None => Genuine(req[r].base, req[r].item)

\* No lost update: a step that replaces an item's ciphertext is the UPDATE of a
\* request whose new ciphertext was edited from exactly the one it replaces.
\* Two devices editing the same version cannot both succeed.
NoLostUpdate ==
    [][\A i \in Item :
          /\ items[i] # None
          /\ items'[i] # None
          /\ items'[i] # items[i]
          => \E r \in Req : /\ req[r].pc = "update"
                            /\ req[r].item = i
                            /\ req[r].base = ItemView(items[i])
                            /\ items'[i].cipher = req[r].cipher]_vars

\* What an answer to an update told the client is true and stays true, although
\* 404 and 409 are told apart by a second statement: after 409 the revision sent
\* can never match again, after 404 the user has no such item.
AnswersFinal ==
    \A r \in Req :
        LET q == req[r] IN
        q.op = "update" /\ q.pc = "done" =>
            /\ q.status = "conflict" =>
                  (items[q.item] # None => q.base.revision < items[q.item].revision)
            /\ q.status = "notFound" => ~Owned(Requester(r), q.item)

\* A row is changed or removed only by a request of its owner's devices, or goes
\* with its owner's account, although any device may name any id.
OwnerOnly ==
    [][\A i \in Item :
          items[i] # None /\ items'[i] # items[i] =>
             \/ items[i].owner \notin users'
             \/ \E r \in Req : /\ req[r].item = i
                               /\ Requester(r) = items[i].owner
                               /\ req'[r].pc = "done"]_vars

\* No browser ever shows an item of another account.
Isolation ==
    \A d \in Device, i \in Item :
        cache[d][i] # None /\ items[i] # None => items[i].owner = UserOf[d]

\* Deleting an account leaves none of its items behind, also when a request of
\* it passed authentication before the deletion and runs its INSERT after it.
NoOrphans == \A i \in Item : items[i] # None => items[i].owner \in users

\* The handlers implement the one-instant service: a pending call is a request
\* that has not been answered, whatever statement it has reached.
CallOf(q) ==
    [st |-> CASE q.pc = "idle" -> "idle" [] q.pc = "done" -> "done"
              [] OTHER -> "pending",
     op |-> q.op, user |-> IF q.dev = None THEN None ELSE UserOf[q.dev],
     item |-> q.item, cipher |-> q.cipher,
     revision |-> IF q.base = None THEN 0 ELSE q.base.revision,
     status |-> q.status, got |-> q.got]

Service == INSTANCE ItemService WITH call <- [r \in Req |-> CallOf(req[r])]

\* Every execution of the two-statement handlers is one of ItemService: each
\* answer is justified by a single state of the table during the call.
Linearizable == Service!Spec

=============================================================================
