-------------------------- MODULE VaultItemsProofs --------------------------
(***************************************************************************)
(* Proofs about VaultItems, for every number of accounts, devices, items,  *)
(* ciphertexts and requests in flight.                                     *)
(***************************************************************************)
EXTENDS VaultItems, TLAPS

(***************************************************************************)
(* The inductive invariant.                                                *)
(***************************************************************************)

\* What a request carries at each of its stages.
WellFormed(q) ==
    /\ q.pc = "idle" => q = Idle
    /\ q.pc # "idle" => q.dev \in Device
    /\ q.pc = "sync" => q.op = "sync"
    /\ q.pc = "list" => q.op \in {"sync", "list"}
    /\ q.pc = "create" => q.op = "create"
    /\ q.pc \in {"update", "exists"} => q.op = "update"
    /\ q.pc = "delete" => q.op = "delete"
    /\ q.op = "create" => q.cipher \in Cipher
    /\ q.op = "update" => q.item \in Item /\ q.cipher \in Cipher /\ q.base \in View
    /\ q.op = "delete" => q.item \in Item
    /\ q.op # "update" => q.base = None

RequestsWellFormed == \A r \in Req : WellFormed(req[r])

\* Rows carry ids that were handed out.
RowsBorn == \A i \in Item : items[i] # None => i \in born

\* Between the two statements of an update the revision sent stays behind.
StaleAtCheck ==
    \A r \in Req : LET q == req[r] IN
        q.pc = "exists" /\ Owned(UserOf[q.dev], q.item) =>
            q.base.revision < items[q.item].revision

\* An answer shows a user only that user's rows.
AnswersIsolated ==
    \A r \in Req, i \in Item :
        req[r].got[i] # None /\ items[i] # None =>
            items[i].owner = UserOf[req[r].dev]

-----------------------------------------------------------------------------
(***************************************************************************)
(* Lemmas about single requests and single rows.                           *)
(***************************************************************************)

\* The empty page is a page.
LEMMA NoPageType == NoPage \in Page
BY DEF NoPage, Page

\* An unused slot is a well-formed request.
LEMMA IdleRequest == Idle \in Request /\ WellFormed(Idle)
<1>1. Idle \in Request
  BY NoPageType DEF Idle, Request, Stages, Ops, Statuses
<1> QED
  BY <1>1 DEF WellFormed, Idle

\* Answering keeps what the request carried.
LEMMA AnswerStep ==
    ASSUME req \in [Req -> Request], NEW r \in Req, WellFormed(req[r]),
           req[r].pc # "idle", NEW st \in Statuses, NEW pg \in Page,
           Answer(r, st, pg)
    PROVE  /\ req' \in [Req -> Request]
           /\ \A s \in Req \ {r} : req'[s] = req[s]
           /\ WellFormed(req'[r])
           /\ req'[r].pc = "done" /\ req'[r].status = st /\ req'[r].got = pg
           /\ req'[r].op = req[r].op /\ req'[r].dev = req[r].dev
           /\ req'[r].item = req[r].item /\ req'[r].cipher = req[r].cipher
           /\ req'[r].base = req[r].base
<1> DEFINE q == req[r]
           n == [q EXCEPT !.pc = "done", !.status = st, !.got = pg]
<1>1. q \in Request
  OBVIOUS
<1>2. n \in Request
  BY <1>1 DEF Request, Stages
<1>3. /\ n.pc = "done" /\ n.status = st /\ n.got = pg /\ n.op = q.op
      /\ n.dev = q.dev /\ n.item = q.item /\ n.cipher = q.cipher
      /\ n.base = q.base
  BY <1>1 DEF Request
<1>4. WellFormed(n)
  BY <1>3 DEF WellFormed
<1>5. req' = [req EXCEPT ![r] = n]
  BY DEF Answer
<1> HIDE DEF n
<1> QED
  BY <1>2, <1>3, <1>4, <1>5

\* Moving to the next statement keeps what the request carried.
LEMMA StageStep ==
    ASSUME req \in [Req -> Request], NEW r \in Req, NEW pc \in Stages,
           req' = [req EXCEPT ![r].pc = pc]
    PROVE  /\ req' \in [Req -> Request]
           /\ \A s \in Req \ {r} : req'[s] = req[s]
           /\ req'[r].pc = pc /\ req'[r].status = req[r].status
           /\ req'[r].got = req[r].got
           /\ req'[r].op = req[r].op /\ req'[r].dev = req[r].dev
           /\ req'[r].item = req[r].item /\ req'[r].cipher = req[r].cipher
           /\ req'[r].base = req[r].base
<1> DEFINE n == [req[r] EXCEPT !.pc = pc]
<1>1. req[r] \in Request
  OBVIOUS
<1>2. /\ n \in Request /\ n.pc = pc
      /\ n.status = req[r].status /\ n.got = req[r].got /\ n.op = req[r].op
      /\ n.dev = req[r].dev /\ n.item = req[r].item
      /\ n.cipher = req[r].cipher /\ n.base = req[r].base
  BY <1>1 DEF Request
<1>3. req' = [req EXCEPT ![r] = n]
  OBVIOUS
<1> HIDE DEF n
<1> QED
  BY <1>2, <1>3

\* A request just sent.
LEMMA SendStep ==
    ASSUME req \in [Req -> Request], NEW r \in Req, NEW d \in Device,
           NEW op \in Ops \cap Stages, NEW i \in Item \cup {None},
           NEW c \in Cipher \cup {None}, NEW v \in View \cup {None},
           Send(r, d, op, i, c, v)
    PROVE  /\ req' \in [Req -> Request]
           /\ \A s \in Req \ {r} : req'[s] = req[s]
           /\ req'[r].pc = op /\ req'[r].op = op /\ req'[r].dev = d
           /\ req'[r].item = i /\ req'[r].cipher = c /\ req'[r].base = v
           /\ req'[r].status = "none" /\ req'[r].got = NoPage
           /\ req[r].pc = "idle"
<1> DEFINE n == [pc |-> op, op |-> op, dev |-> d, item |-> i, cipher |-> c,
                 base |-> v, status |-> "none", got |-> NoPage]
<1>2. n \in Request
  BY NoPageType DEF Request, Stages, Ops, Statuses
<1>3. /\ n.pc = op /\ n.op = op /\ n.dev = d /\ n.item = i /\ n.cipher = c
      /\ n.base = v /\ n.status = "none" /\ n.got = NoPage
  OBVIOUS
<1>4. req' = [req EXCEPT ![r] = n] /\ req[r].pc = "idle"
  BY DEF Send
<1> HIDE DEF n
<1> QED
  BY <1>2, <1>3, <1>4

\* What a client is shown of a row is a view of it, never "no view".
LEMMA ViewOfRow ==
    ASSUME NEW row \in Row
    PROVE  /\ ItemView(row) \in View /\ ItemView(row) # None
           /\ ItemView(row).revision = row.revision
           /\ ItemView(row).cipher = row.cipher
           /\ row.revision \in Nat
BY ConstantsAssumption DEF Row, View, ItemView

\* The page of a single item.
LEMMA OneItemPage ==
    ASSUME NEW i \in Item, NEW row \in Row
    PROVE  /\ OneItem(i, row) \in Page
           /\ OneItem(i, row)[i] = ItemView(row)
           /\ \A j \in Item \ {i} : OneItem(i, row)[j] = None
BY ViewOfRow DEF OneItem, NoPage, Page

\* The row written by the UPDATE.
LEMMA BumpedRow ==
    ASSUME TypeOK, NEW i \in Item, NEW c \in Cipher, items[i] # None,
           items[i].revision < MaxRevision
    PROVE  /\ Bumped(i, c) \in Row /\ Bumped(i, c) # None
           /\ Bumped(i, c).owner = items[i].owner
           /\ Bumped(i, c).cipher = c
           /\ Bumped(i, c).revision = items[i].revision + 1
<1>1. items[i] \in Row
  BY DEF TypeOK
<1>2. items[i].revision \in Nat /\ MaxRevision \in Nat
  BY <1>1, ConstantsAssumption DEF Row
<1>3. Bumped(i, c) = [owner |-> items[i].owner, cipher |-> c,
                      revision |-> items[i].revision + 1]
  BY DEF Bumped
<1>4. Bumped(i, c) \in Row
  BY <1>1, <1>2, <1>3 DEF Row
<1> QED
  BY <1>3, <1>4, ConstantsAssumption

\* The page of a user's rows.
LEMMA ListPage ==
    ASSUME TypeOK, NEW u
    PROVE  /\ ListItems(u) \in Page
           /\ \A i \in Item : ListItems(u)[i] # None =>
                 Owned(u, i) /\ ListItems(u)[i] = ItemView(items[i])
<1>1. ASSUME NEW i \in Item, Owned(u, i) PROVE ItemView(items[i]) \in View
  BY <1>1, ViewOfRow DEF TypeOK, Owned
<1> QED
  BY <1>1 DEF ListItems, Page

\* A browser's list after an answer is a list, and shows only what it showed
\* before or what the answer brought.
LEMMA AppliedPage ==
    ASSUME TypeOK, NEW d \in Device, NEW q \in Request
    PROVE  /\ Applied(d, q) \in Page
           /\ \A i \in Item : \/ Applied(d, q)[i] = None
                              \/ Applied(d, q)[i] = cache[d][i]
                              \/ Applied(d, q)[i] = q.got[i]
<1>1. cache[d] \in Page /\ q.got \in Page
  BY DEF TypeOK, Request
<1> QED
  BY <1>1 DEF Applied, Page

-----------------------------------------------------------------------------

TInv == TypeOK /\ RequestsWellFormed

\* A step of any action keeps the state well typed and the requests well formed.
LEMMA TypeStep == TInv /\ [Next]_vars => TInv'
<1> SUFFICES ASSUME TInv, [Next]_vars PROVE TInv'
  OBVIOUS
<1>0. /\ TypeOK /\ req \in [Req -> Request]
      /\ \A r \in Req : WellFormed(req[r]) /\ req[r] \in Request
  BY DEF TInv, TypeOK, RequestsWellFormed
<1> DEFINE Frame(r) == /\ req' \in [Req -> Request]
                       /\ \A s \in Req \ {r} : req'[s] = req[s]
                       /\ WellFormed(req'[r])
                       /\ users' \subseteq User
                       /\ items' \in [Item -> Row \cup {None}]
                       /\ born' \subseteq Item
                       /\ cache' \in [Device -> Page]
<1>f. ASSUME NEW r \in Req, Frame(r) PROVE TInv'
  <2>1. \A s \in Req : WellFormed(req'[s])
    BY <1>0, <1>f
  <2> QED
    BY <1>f, <2>1 DEF TInv, TypeOK, RequestsWellFormed, WellFormed
<1>1. ASSUME NEW r \in Req, NEW d \in Device, NEW op \in {"sync", "list"},
             Send(r, d, op, None, None, None)
      PROVE TInv'
  <2>1. op \in Ops \cap Stages
    BY DEF Ops, Stages
  <2>2. /\ req'[r].pc = op /\ req'[r].op = op /\ req'[r].dev = d
        /\ req'[r].base = None
    BY <1>0, <1>1, <2>1, SendStep
  <2>3. WellFormed(req'[r])
    BY <2>2 DEF WellFormed
  <2> QED
    BY <1>0, <1>1, <1>f, <2>1, <2>3, SendStep DEF Send, TypeOK
<1>2. ASSUME NEW r \in Req, NEW d \in Device, NEW c \in Cipher,
             Send(r, d, "create", None, c, None)
      PROVE TInv'
  <2>1. "create" \in Ops \cap Stages
    BY DEF Ops, Stages
  <2>2. /\ req'[r].pc = "create" /\ req'[r].op = "create" /\ req'[r].dev = d
        /\ req'[r].base = None /\ req'[r].cipher = c
    BY <1>0, <1>2, <2>1, SendStep
  <2>3. WellFormed(req'[r])
    BY <2>2 DEF WellFormed
  <2> QED
    BY <1>0, <1>2, <1>f, <2>1, <2>3, SendStep DEF Send, TypeOK
<1>3. ASSUME NEW r \in Req, NEW d \in Device, NEW e \in Device, NEW i \in Item,
             NEW c \in Cipher, cache[e][i] # None,
             Send(r, d, "update", i, c, cache[e][i])
      PROVE TInv'
  <2>1. "update" \in Ops \cap Stages
    BY DEF Ops, Stages
  <2>2. cache[e][i] \in View
    BY <1>3, <1>0 DEF TypeOK, Page
  <2>3. WellFormed(req'[r])
    BY <1>0, <1>3, <2>1, <2>2, SendStep DEF WellFormed
  <2> QED
    BY <1>0, <1>3, <1>f, <2>1, <2>2, <2>3, SendStep DEF Send, TypeOK
<1>4. ASSUME NEW r \in Req, NEW d \in Device, NEW i \in Item,
             Send(r, d, "delete", i, None, None)
      PROVE TInv'
  <2>1. "delete" \in Ops \cap Stages
    BY DEF Ops, Stages
  <2>2. WellFormed(req'[r])
    <3>1. /\ req'[r].pc = "delete" /\ req'[r].op = "delete" /\ req'[r].dev = d
          /\ req'[r].item = i /\ req'[r].base = None
      BY <1>0, <1>4 DEF Send, TypeOK
    <3> QED
      BY <3>1 DEF WellFormed
  <2> QED
    BY <1>0, <1>4, <1>f, <2>1, <2>2, SendStep DEF Send, TypeOK
<1>a. ASSUME NEW r \in Req, NEW st \in Statuses, NEW pg \in Page,
             Answer(r, st, pg), req[r].pc # "idle",
             users' \subseteq User, items' \in [Item -> Row \cup {None}],
             born' \subseteq Item, cache' = cache
      PROVE TInv'
  BY <1>0, <1>a, <1>f, AnswerStep DEF TypeOK
<1>b. {"ok", "created", "noContent", "forbidden", "notFound", "conflict", "error"}
          \subseteq Statuses
  BY DEF Statuses
<1>5. ASSUME NEW r \in Req, GetSync(r) PROVE TInv'
  <2>1. CASE Answer(r, "forbidden", NoPage)
    BY <1>0, <1>5, <1>a, <1>b, <2>1, NoPageType DEF GetSync, TypeOK
  <2>2. CASE req' = [req EXCEPT ![r].pc = "list"]
    <3>1. "list" \in Stages
      BY DEF Stages
    <3>2. WellFormed(req'[r])
      BY <1>0, <1>5, <2>2, <3>1, StageStep DEF WellFormed, GetSync
    <3> QED
      BY <1>0, <1>5, <1>f, <2>2, <3>1, <3>2, StageStep DEF GetSync, TypeOK
  <2> QED
    BY <1>5, <2>1, <2>2 DEF GetSync
<1>6. ASSUME NEW r \in Req, GetItems(r) PROVE TInv'
  BY <1>0, <1>6, <1>a, <1>b, ListPage DEF GetItems, TypeOK
<1>7. ASSUME NEW r \in Req, CreateItem(r) PROVE TInv'
  <2>1. ASSUME NEW i \in Item,
               LET row == [owner |-> Requester(r), cipher |-> req[r].cipher,
                           revision |-> 1] IN
               /\ items' = [items EXCEPT ![i] = row]
               /\ born' = born \cup {i}
               /\ Answer(r, "created", OneItem(i, row))
        PROVE TInv'
    <3> DEFINE row == [owner |-> Requester(r), cipher |-> req[r].cipher,
                       revision |-> 1]
    <3>1. row \in Row
      BY <1>0, <1>7, ConstantsAssumption DEF Row, Requester, CreateItem, WellFormed
    <3>2. OneItem(i, row) \in Page
      BY <3>1, OneItemPage
    <3> HIDE DEF row
    <3>3. items' = [items EXCEPT ![i] = row] /\ Answer(r, "created", OneItem(i, row))
      BY <2>1 DEF row
    <3>4. items' \in [Item -> Row \cup {None}] /\ born' \subseteq Item
      BY <3>1, <3>3, <2>1, <1>0 DEF TypeOK
    <3> QED
      BY <1>0, <1>7, <1>a, <1>b, <3>2, <3>3, <3>4 DEF CreateItem, TypeOK
  <2>2. CASE Answer(r, "error", NoPage) /\ UNCHANGED <<items, born>>
    BY <1>0, <1>7, <1>a, <1>b, <2>2, NoPageType DEF CreateItem, TypeOK
  <2> QED
    BY <1>7, <2>1, <2>2 DEF CreateItem
<1>8. ASSUME NEW r \in Req, UpdateItem(r) PROVE TInv'
  <2> DEFINE i == req[r].item
             nrow == Bumped(i, req[r].cipher)
  <2>1. i \in Item /\ req[r].cipher \in Cipher /\ req[r].base \in View
        /\ req[r].pc = "update"
    BY <1>0, <1>8 DEF UpdateItem, WellFormed
  <2>2. CASE /\ items[i] # None /\ items[i].revision < MaxRevision
             /\ items' = [items EXCEPT ![i] = nrow]
             /\ Answer(r, "ok", OneItem(i, nrow))
    <3>1. nrow \in Row
      BY <1>0, <2>1, <2>2, BumpedRow
    <3>2. OneItem(i, nrow) \in Page
      BY <3>1, <2>1, OneItemPage
    <3>3. items' \in [Item -> Row \cup {None}]
      BY <3>1, <2>1, <2>2, <1>0 DEF TypeOK
    <3> QED
      BY <1>0, <1>8, <1>a, <1>b, <2>1, <2>2, <3>2, <3>3 DEF UpdateItem, TypeOK
  <2>3. CASE Answer(r, "error", NoPage) /\ UNCHANGED items
    BY <1>0, <1>8, <1>a, <1>b, <2>1, <2>3, NoPageType DEF UpdateItem, TypeOK
  <2>4. CASE req' = [req EXCEPT ![r].pc = "exists"] /\ UNCHANGED items
    <3>1. "exists" \in Stages
      BY DEF Stages
    <3>2. WellFormed(req'[r])
      BY <1>0, <2>1, <2>4, <3>1, StageStep DEF WellFormed
    <3> QED
      BY <1>0, <1>8, <1>f, <2>4, <3>1, <3>2, StageStep DEF UpdateItem, TypeOK
  <2> QED
    BY <1>8, <2>2, <2>3, <2>4 DEF UpdateItem, Matching, Owned
<1>9. ASSUME NEW r \in Req, ItemExists(r) PROVE TInv'
  BY <1>0, <1>9, <1>a, <1>b, NoPageType DEF ItemExists, TypeOK
<1>10. ASSUME NEW r \in Req, DeleteItem(r) PROVE TInv'
  <2>1. items' \in [Item -> Row \cup {None}]
    BY <1>0, <1>10 DEF DeleteItem, TypeOK
  <2> QED
    BY <1>0, <1>10, <1>a, <1>b, <2>1, NoPageType DEF DeleteItem, TypeOK
<1>11. ASSUME NEW r \in Req, StatementFails(r) PROVE TInv'
  BY <1>0, <1>11, <1>a, <1>b, NoPageType DEF StatementFails, Busy, TypeOK
<1>12. ASSUME NEW r \in Req, Deliver(r) PROVE TInv'
  <2>1. req[r].dev \in Device
    BY <1>0, <1>12 DEF Deliver, WellFormed
  <2>2. cache' \in [Device -> Page]
    BY <1>0, <1>12, <2>1, AppliedPage DEF Deliver, TypeOK
  <2>3. req' = [req EXCEPT ![r] = Idle]
    BY <1>12 DEF Deliver
  <2> QED
    BY <1>0, <1>12, <1>f, <2>2, <2>3, IdleRequest DEF Deliver, TypeOK
<1>13. ASSUME NEW r \in Req, Lose(r) PROVE TInv'
  <2>1. req' = [req EXCEPT ![r] = Idle]
    BY <1>13 DEF Lose
  <2> QED
    BY <1>0, <1>13, <1>f, <2>1, IdleRequest DEF Lose, TypeOK
<1>14. ASSUME NEW u \in User, DeleteUser(u) PROVE TInv'
  BY <1>0, <1>14 DEF DeleteUser, TInv, TypeOK, RequestsWellFormed, WellFormed
<1>15. CASE UNCHANGED vars
  BY <1>0, <1>15 DEF vars, TInv, TypeOK, RequestsWellFormed, WellFormed
<1> QED
  BY <1>1, <1>2, <1>3, <1>4, <1>5, <1>6, <1>7, <1>8, <1>9, <1>10, <1>11,
     <1>12, <1>13, <1>14, <1>15
     DEF Next, Client, Server, Handler, SendRead, SendCreate, SendUpdate, SendDelete

\* Every reachable state of the item service is well typed: tables, browser
\* lists and requests in flight keep their shape under every interleaving.
THEOREM TypeCorrect == Spec => []TypeOK
<1>1. Init => TInv
  BY NoPageType, IdleRequest
     DEF Init, TInv, TypeOK, RequestsWellFormed
<1>2. TInv => TypeOK
  BY DEF TInv
<1> QED
  BY <1>1, <1>2, TypeStep, PTL DEF Spec

-----------------------------------------------------------------------------
(***************************************************************************)
(* How rows evolve.  Every step leaves a row alone, removes it, or moves   *)
(* its revision on under the same owner; a row appears only under an id    *)
(* that was never used.                                                    *)
(***************************************************************************)
Advance ==
    /\ born \subseteq born'
    /\ \A i \in Item : items'[i] # None =>
          \/ /\ items[i] # None
             /\ items'[i] = items[i]
          \/ /\ items[i] # None
             /\ items'[i].owner = items[i].owner
             /\ items[i].revision < items'[i].revision
          \/ i \in born' \ born

\* Every step of the system advances the table.
LEMMA StepAdvances == TInv /\ [Next]_vars => Advance
<1> SUFFICES ASSUME TInv, [Next]_vars PROVE Advance
  OBVIOUS
<1>0. /\ TypeOK
      /\ \A r \in Req : WellFormed(req[r])
  BY DEF TInv, RequestsWellFormed
<1>1. CASE UNCHANGED <<items, born>>
  BY <1>1 DEF Advance
<1>2. ASSUME NEW r \in Req, CreateItem(r) PROVE Advance
  BY <1>0, <1>2, <1>1 DEF CreateItem, Advance, TypeOK
<1>3. ASSUME NEW r \in Req, UpdateItem(r) PROVE Advance
  <2> DEFINE i == req[r].item
  <2>1. i \in Item /\ req[r].cipher \in Cipher /\ UNCHANGED born
    BY <1>0, <1>3 DEF UpdateItem, WellFormed
  <2>2. CASE /\ items[i] # None /\ items[i].revision < MaxRevision
             /\ items' = [items EXCEPT ![i] = Bumped(i, req[r].cipher)]
    <3>1. items[i].revision \in Nat
      BY <1>0, <2>1, <2>2, ViewOfRow DEF TypeOK
    <3>2. /\ items'[i].owner = items[i].owner
          /\ items'[i].revision = items[i].revision + 1
      BY <1>0, <2>1, <2>2, BumpedRow DEF TypeOK
    <3>3. \A j \in Item \ {i} : items'[j] = items[j]
      BY <2>2, <1>0 DEF TypeOK
    <3> QED
      BY <2>1, <2>2, <3>1, <3>2, <3>3 DEF Advance
  <2> QED
    BY <1>1, <1>3, <2>1, <2>2 DEF UpdateItem, Matching, Owned
<1>4. ASSUME NEW r \in Req, DeleteItem(r) PROVE Advance
  <2>1. CASE items' = [items EXCEPT ![req[r].item] = None]
    BY <1>0, <1>4, <2>1 DEF DeleteItem, Advance, TypeOK, WellFormed
  <2> QED
    BY <1>1, <1>4, <2>1 DEF DeleteItem
<1>5. ASSUME NEW u \in User, DeleteUser(u) PROVE Advance
  BY <1>0, <1>5 DEF DeleteUser, Advance, TypeOK
<1> QED
  BY <1>1, <1>2, <1>3, <1>4, <1>5
     DEF Next, Client, Server, Handler, SendRead, SendCreate, SendUpdate, SendDelete,
         Send, GetSync, GetItems, ItemExists, StatementFails, Deliver, Lose, vars

\* A genuine view stays genuine.
LEMMA GenuineStable ==
    ASSUME TInv, TInv', Advance, NEW i \in Item, NEW v \in View \cup {None},
           Genuine(v, i)
    PROVE  Genuine(v, i)'
<1> SUFFICES ASSUME v # None PROVE Genuine(v, i)'
  BY DEF Genuine
<1>1. i \in born /\ i \in born'
  BY DEF Genuine, Advance
<1>2. ASSUME items'[i] # None
      PROVE  v.revision < items'[i].revision \/ v = ItemView(items'[i])
  <2>1. /\ items[i] # None
        /\ items'[i] = items[i] \/ items[i].revision < items'[i].revision
    BY <1>1, <1>2 DEF Advance
  <2>2. items[i] \in Row /\ items'[i] \in Row
    BY <1>2, <2>1 DEF TInv, TypeOK
  <2>3. /\ v.revision \in Nat /\ items[i].revision \in Nat
        /\ items'[i].revision \in Nat
    BY <2>2, ViewOfRow DEF View
  <2>4. v.revision < items[i].revision \/ v = ItemView(items[i])
    BY <2>1 DEF Genuine
  <2>5. ItemView(items[i]).revision = items[i].revision
    BY <2>2, ViewOfRow
  <2> QED
    BY <2>1, <2>3, <2>4, <2>5
<1> QED
  BY <1>1, <1>2 DEF Genuine

\* A view of the new row is genuine in the new state.
LEMMA GenuineNew ==
    ASSUME NEW i \in Item, NEW v, i \in born', items'[i] # None,
           v = ItemView(items'[i])
    PROVE  Genuine(v, i)'
BY DEF Genuine

-----------------------------------------------------------------------------
(***************************************************************************)
(* Where views come from in a step.                                        *)
(***************************************************************************)
CacheSource(d, i) ==
    \/ cache'[d][i] = None
    \/ cache'[d][i] = cache[d][i]
    \/ \E r \in Req : req[r].dev = d /\ cache'[d][i] = req[r].got[i]

GotSource(r, i) ==
    \/ req'[r].got[i] = None
    \/ req'[r].got[i] = req[r].got[i] /\ req'[r].dev = req[r].dev
    \/ /\ items'[i] # None
       /\ req'[r].got[i] = ItemView(items'[i])
       /\ items'[i].owner = UserOf[req'[r].dev]

BaseSource(r) ==
    \/ req'[r].base = None
    \/ req'[r].base = req[r].base /\ req'[r].item = req[r].item
    \/ \E e \in Device : req'[r].item \in Item
                         /\ req'[r].base = cache[e][req'[r].item]

Sources ==
    /\ \A d \in Device, i \in Item : CacheSource(d, i)
    /\ \A r \in Req : BaseSource(r) /\ \A i \in Item : GotSource(r, i)

\* A browser's list is fed from its own answers, an answer from the table as
\* it is when the statement ran, an edit from some browser's list.
LEMMA StepSources == TInv /\ [Next]_vars => Sources
<1> SUFFICES ASSUME TInv, [Next]_vars PROVE Sources
  OBVIOUS
<1>0. /\ TypeOK /\ req \in [Req -> Request]
      /\ \A r \in Req : WellFormed(req[r]) /\ req[r] \in Request
  BY DEF TInv, TypeOK, RequestsWellFormed
<1>np. \A i \in Item : NoPage[i] = None
  BY DEF NoPage
<1>s. ASSUME NEW r \in Req, \A s \in Req \ {r} : req'[s] = req[s], cache' = cache,
             BaseSource(r), \A i \in Item : GotSource(r, i)
      PROVE  Sources
  BY <1>s DEF Sources, CacheSource, GotSource, BaseSource
<1>a. ASSUME NEW r \in Req, NEW st \in Statuses, NEW pg \in Page,
             Answer(r, st, pg), req[r].pc # "idle", cache' = cache,
             \A i \in Item : \/ pg[i] = None
                             \/ /\ items'[i] # None
                                /\ pg[i] = ItemView(items'[i])
                                /\ items'[i].owner = Requester(r)
      PROVE  Sources
  <2>1. /\ \A s \in Req \ {r} : req'[s] = req[s]
        /\ req'[r].got = pg /\ req'[r].dev = req[r].dev
        /\ req'[r].base = req[r].base /\ req'[r].item = req[r].item
    BY <1>0, <1>a, AnswerStep
  <2> QED
    BY <1>a, <1>s, <2>1 DEF GotSource, BaseSource, Requester
<1>b. {"ok", "created", "noContent", "forbidden", "notFound", "conflict", "error"}
          \subseteq Statuses
  BY DEF Statuses
<1>e. ASSUME NEW r \in Req, NEW st \in Statuses, Answer(r, st, NoPage),
             req[r].pc # "idle", cache' = cache
      PROVE  Sources
  BY <1>a, <1>e, <1>np, NoPageType
<1>g. ASSUME NEW r \in Req, NEW pc \in Stages, req' = [req EXCEPT ![r].pc = pc],
             cache' = cache
      PROVE  Sources
  BY <1>0, <1>g, <1>s, StageStep DEF GotSource, BaseSource
<1>1. ASSUME NEW r \in Req, NEW d \in Device, NEW op \in {"sync", "list", "create",
             "update", "delete"}, NEW i \in Item \cup {None},
             NEW c \in Cipher \cup {None}, NEW v \in View \cup {None},
             Send(r, d, op, i, c, v),
             v = None \/ (i \in Item /\ \E e \in Device : v = cache[e][i])
      PROVE Sources
  <2>1. op \in Ops \cap Stages
    BY DEF Ops, Stages
  <2>2. /\ \A s \in Req \ {r} : req'[s] = req[s]
        /\ req'[r].item = i /\ req'[r].base = v /\ req'[r].got = NoPage
    BY <1>0, <1>1 DEF Send
  <2> QED
    BY <1>1, <1>np, <1>s, <2>2 DEF GotSource, BaseSource, Send
<1>2. ASSUME NEW r \in Req, Client(r) PROVE Sources
  <2>1. ASSUME NEW d \in Device, SendRead(r, d) PROVE Sources
    <3>1. PICK op \in {"sync", "list"} : Send(r, d, op, None, None, None)
      BY <2>1 DEF SendRead
    <3> QED
      BY <1>1, <3>1
  <2>2. ASSUME NEW d \in Device, SendCreate(r, d) PROVE Sources
    BY <1>1, <2>2 DEF SendCreate
  <2>3. ASSUME NEW d \in Device, SendUpdate(r, d) PROVE Sources
    <3>1. PICK e \in Device, i \in Item, c \in Cipher :
              Send(r, d, "update", i, c, cache[e][i])
      BY <2>3 DEF SendUpdate
    <3>2. cache[e][i] \in View \cup {None}
      BY <1>0 DEF TypeOK, Page
    <3> QED
      BY <1>1, <3>1, <3>2
  <2>4. ASSUME NEW d \in Device, SendDelete(r, d) PROVE Sources
    BY <1>1, <2>4 DEF SendDelete
  <2> QED
    BY <1>2, <2>1, <2>2, <2>3, <2>4 DEF Client
<1>3. ASSUME NEW r \in Req, GetSync(r) PROVE Sources
  <2>1. "list" \in Stages
    BY DEF Stages
  <2> QED
    BY <1>3, <1>b, <1>e, <1>g, <2>1 DEF GetSync
<1>4. ASSUME NEW r \in Req, GetItems(r) PROVE Sources
  <2>1. \A i \in Item : \/ ListItems(Requester(r))[i] = None
                        \/ /\ items[i] # None
                           /\ ListItems(Requester(r))[i] = ItemView(items[i])
                           /\ items[i].owner = Requester(r)
    BY <1>0, ListPage DEF Owned
  <2> QED
    BY <1>0, <1>4, <1>a, <1>b, <2>1, ListPage DEF GetItems
<1>5. ASSUME NEW r \in Req, CreateItem(r) PROVE Sources
  <2>1. ASSUME NEW i \in Item,
               LET row == [owner |-> Requester(r), cipher |-> req[r].cipher,
                           revision |-> 1] IN
               /\ items' = [items EXCEPT ![i] = row]
               /\ Answer(r, "created", OneItem(i, row))
        PROVE Sources
    <3> DEFINE row == [owner |-> Requester(r), cipher |-> req[r].cipher,
                       revision |-> 1]
    <3>1. row \in Row /\ row.owner = Requester(r)
      BY <1>0, <1>5, ConstantsAssumption DEF Row, Requester, CreateItem, WellFormed
    <3> HIDE DEF row
    <3>2. items' = [items EXCEPT ![i] = row] /\ Answer(r, "created", OneItem(i, row))
      BY <2>1 DEF row
    <3>3. items'[i] = row /\ row # None
      BY <1>0, <3>1, <3>2, ConstantsAssumption DEF TypeOK
    <3> QED
      BY <1>5, <1>a, <1>b, <3>1, <3>2, <3>3, OneItemPage DEF CreateItem
  <2> QED
    BY <1>5, <1>b, <1>e, <2>1 DEF CreateItem
<1>6. ASSUME NEW r \in Req, UpdateItem(r) PROVE Sources
  <2> DEFINE i == req[r].item
             nrow == Bumped(i, req[r].cipher)
  <2>1. i \in Item /\ req[r].cipher \in Cipher /\ req[r].pc = "update"
        /\ cache' = cache
    BY <1>0, <1>6 DEF UpdateItem, WellFormed
  <2>2. CASE /\ Owned(Requester(r), i) /\ items[i].revision < MaxRevision
             /\ items' = [items EXCEPT ![i] = nrow]
             /\ Answer(r, "ok", OneItem(i, nrow))
    <3>1. nrow \in Row /\ nrow # None /\ nrow.owner = Requester(r)
      BY <1>0, <2>1, <2>2, BumpedRow DEF Owned
    <3>2. items'[i] = nrow
      BY <1>0, <2>1, <2>2 DEF TypeOK
    <3> HIDE DEF nrow
    <3> QED
      BY <1>a, <1>b, <2>1, <2>2, <3>1, <3>2, OneItemPage
  <2>3. "exists" \in Stages
    BY DEF Stages
  <2> QED
    BY <1>6, <1>b, <1>e, <1>g, <2>1, <2>2, <2>3 DEF UpdateItem, Matching
<1>7. ASSUME NEW r \in Req, ItemExists(r) \/ DeleteItem(r) \/ StatementFails(r)
      PROVE Sources
  BY <1>7, <1>b, <1>e DEF ItemExists, DeleteItem, StatementFails, Busy
<1>8. ASSUME NEW r \in Req, Deliver(r) \/ Lose(r) PROVE Sources
  <2>1. req' = [req EXCEPT ![r] = Idle]
    BY <1>8 DEF Deliver, Lose
  <2>2. /\ \A s \in Req \ {r} : req'[s] = req[s]
        /\ req'[r].got = NoPage /\ req'[r].base = None
    BY <1>0, <2>1 DEF Idle
  <2>3. /\ \A s \in Req : BaseSource(s) /\ \A i \in Item : GotSource(s, i)
    BY <1>np, <2>2 DEF BaseSource, GotSource
  <2>4. CASE Lose(r)
    BY <2>3, <2>4 DEF Lose, Sources, CacheSource
  <2>5. CASE Deliver(r)
    <3>1. req[r].dev \in Device
      BY <1>0, <2>5 DEF Deliver, WellFormed
    <3>2. \A d \in Device : cache'[d] = IF d = req[r].dev
                                        THEN Applied(d, req[r]) ELSE cache[d]
      BY <1>0, <2>5 DEF Deliver, TypeOK
    <3>3. \A i \in Item : CacheSource(req[r].dev, i)
      BY <1>0, <3>1, <3>2, AppliedPage DEF CacheSource
    <3> QED
      BY <2>3, <3>2, <3>3 DEF Sources, CacheSource
  <2> QED
    BY <1>8, <2>4, <2>5
<1>9. CASE UNCHANGED <<req, cache>>
  BY <1>9 DEF Sources, CacheSource, GotSource, BaseSource
<1> QED
  BY <1>2, <1>3, <1>4, <1>5, <1>6, <1>7, <1>8, <1>9
     DEF Next, Server, Handler, DeleteUser, vars

-----------------------------------------------------------------------------
(***************************************************************************)
(* How a request reaches the existence check and its answers.              *)
(***************************************************************************)
SameCall(r) ==
    /\ req'[r].op = req[r].op /\ req'[r].dev = req[r].dev
    /\ req'[r].item = req[r].item /\ req'[r].base = req[r].base

AnswerOrigin(r) ==
    /\ req'[r].pc = "exists" =>
          \/ req'[r] = req[r]
          \/ /\ SameCall(r) /\ req[r].pc = "update" /\ items' = items
             /\ ~Matching(Requester(r), req[r].item, req[r].base.revision)
    /\ req'[r].op = "update" /\ req'[r].pc = "done"
          /\ req'[r].status \in {"conflict", "notFound"} =>
          \/ req'[r] = req[r]
          \/ /\ SameCall(r) /\ req[r].pc = "exists" /\ items' = items
             /\ (req'[r].status = "conflict" <=> Owned(Requester(r), req[r].item))

\* 404 and 409 are answered only by the existence check, which is reached only
\* by an UPDATE that matched no row.
LEMMA StepStages == TInv /\ [Next]_vars => \A r \in Req : AnswerOrigin(r)
<1> SUFFICES ASSUME TInv, [Next]_vars, NEW r \in Req PROVE AnswerOrigin(r)
  OBVIOUS
<1>0. /\ TypeOK /\ req \in [Req -> Request]
      /\ \A s \in Req : WellFormed(req[s]) /\ req[s] \in Request
  BY DEF TInv, TypeOK, RequestsWellFormed
<1>i. CASE req'[r] = req[r]
  BY <1>i DEF AnswerOrigin
<1>a. ASSUME NEW s \in Req, NEW st \in Statuses, NEW pg \in Page,
             Answer(s, st, pg), req[s].pc # "idle",
             req[s].op # "update" \/ st \notin {"conflict", "notFound"}
      PROVE  AnswerOrigin(r)
  <2>1. /\ \A t \in Req \ {s} : req'[t] = req[t]
        /\ req'[s].pc = "done" /\ req'[s].status = st /\ req'[s].op = req[s].op
    BY <1>0, <1>a, AnswerStep
  <2> QED
    BY <1>a, <1>i, <2>1 DEF AnswerOrigin
<1>b. {"ok", "created", "noContent", "forbidden", "notFound", "conflict", "error"}
          \subseteq Statuses
  BY DEF Statuses
<1>1. ASSUME NEW s \in Req, NEW d \in Device, NEW op \in {"sync", "list", "create",
             "update", "delete"}, NEW i \in Item \cup {None},
             NEW c \in Cipher \cup {None}, NEW v \in View \cup {None},
             Send(s, d, op, i, c, v)
      PROVE AnswerOrigin(r)
  <2>1. op \in Ops \cap Stages
    BY DEF Ops, Stages
  <2>2. /\ \A t \in Req \ {s} : req'[t] = req[t]
        /\ req'[s].pc = op
    BY <1>0, <1>1 DEF Send
  <2> QED
    BY <1>i, <2>2 DEF AnswerOrigin
<1>2. ASSUME NEW s \in Req, Client(s) PROVE AnswerOrigin(r)
  <2>1. ASSUME NEW d \in Device, SendRead(s, d) PROVE AnswerOrigin(r)
    <3>1. PICK op \in {"sync", "list"} : Send(s, d, op, None, None, None)
      BY <2>1 DEF SendRead
    <3> QED
      BY <1>1, <3>1
  <2>2. ASSUME NEW d \in Device, SendCreate(s, d) PROVE AnswerOrigin(r)
    BY <1>1, <2>2 DEF SendCreate
  <2>3. ASSUME NEW d \in Device, SendUpdate(s, d) PROVE AnswerOrigin(r)
    <3>1. PICK e \in Device, i \in Item, c \in Cipher :
              Send(s, d, "update", i, c, cache[e][i])
      BY <2>3 DEF SendUpdate
    <3>2. cache[e][i] \in View \cup {None}
      BY <1>0 DEF TypeOK, Page
    <3> QED
      BY <1>1, <3>1, <3>2
  <2>4. ASSUME NEW d \in Device, SendDelete(s, d) PROVE AnswerOrigin(r)
    BY <1>1, <2>4 DEF SendDelete
  <2> QED
    BY <1>2, <2>1, <2>2, <2>3, <2>4 DEF Client
<1>3. ASSUME NEW s \in Req, GetSync(s) PROVE AnswerOrigin(r)
  <2>1. CASE req' = [req EXCEPT ![s].pc = "list"]
    <3>1. "list" \in Stages
      BY DEF Stages
    <3>2. req'[s].pc = "list" /\ \A t \in Req \ {s} : req'[t] = req[t]
      BY <1>0, <2>1, <3>1, StageStep
    <3> QED
      BY <1>i, <3>2 DEF AnswerOrigin
  <2> QED
    BY <1>3, <1>a, <1>b, <2>1, NoPageType DEF GetSync
<1>4. ASSUME NEW s \in Req, GetItems(s) PROVE AnswerOrigin(r)
  BY <1>0, <1>4, <1>a, <1>b, ListPage DEF GetItems
<1>5. ASSUME NEW s \in Req, CreateItem(s) PROVE AnswerOrigin(r)
  <2>1. ASSUME NEW i \in Item,
               LET row == [owner |-> Requester(s), cipher |-> req[s].cipher,
                           revision |-> 1] IN
               Answer(s, "created", OneItem(i, row))
        PROVE AnswerOrigin(r)
    <3> DEFINE row == [owner |-> Requester(s), cipher |-> req[s].cipher,
                       revision |-> 1]
    <3>1. row \in Row
      BY <1>0, <1>5, ConstantsAssumption DEF Row, Requester, CreateItem, WellFormed
    <3> HIDE DEF row
    <3>2. Answer(s, "created", OneItem(i, row))
      BY <2>1 DEF row
    <3> QED
      BY <1>5, <1>a, <1>b, <3>1, <3>2, OneItemPage DEF CreateItem
  <2> QED
    BY <1>5, <1>a, <1>b, <2>1, NoPageType DEF CreateItem
<1>6. ASSUME NEW s \in Req, UpdateItem(s) PROVE AnswerOrigin(r)
  <2> DEFINE i == req[s].item
             nrow == Bumped(i, req[s].cipher)
  <2>1. i \in Item /\ req[s].cipher \in Cipher /\ req[s].pc = "update"
    BY <1>0, <1>6 DEF UpdateItem, WellFormed
  <2>2. CASE /\ Owned(Requester(s), i) /\ items[i].revision < MaxRevision
             /\ Answer(s, "ok", OneItem(i, nrow))
    <3>1. nrow \in Row
      BY <1>0, <2>1, <2>2, BumpedRow DEF Owned
    <3> HIDE DEF nrow
    <3> QED
      BY <1>a, <1>b, <2>1, <2>2, <3>1, OneItemPage
  <2>3. CASE /\ req' = [req EXCEPT ![s].pc = "exists"] /\ items' = items
             /\ ~Matching(Requester(s), i, req[s].base.revision)
    <3>1. "exists" \in Stages
      BY DEF Stages
    <3>2. /\ req'[s].pc = "exists" /\ SameCall(s)
          /\ \A t \in Req \ {s} : req'[t] = req[t]
      BY <1>0, <2>3, <3>1, StageStep DEF SameCall
    <3> QED
      BY <1>i, <2>1, <2>3, <3>2 DEF AnswerOrigin
  <2> QED
    BY <1>6, <1>a, <1>b, <2>1, <2>2, <2>3, NoPageType DEF UpdateItem, Matching
<1>7. ASSUME NEW s \in Req, ItemExists(s) PROVE AnswerOrigin(r)
  <2> DEFINE st == IF Owned(Requester(s), req[s].item) THEN "conflict" ELSE "notFound"
  <2>1. Answer(s, st, NoPage) /\ req[s].pc = "exists" /\ items' = items
        /\ st \in Statuses
    BY <1>7, <1>b DEF ItemExists
  <2>2. /\ \A t \in Req \ {s} : req'[t] = req[t]
        /\ req'[s].pc = "done" /\ req'[s].status = st /\ SameCall(s)
    BY <1>0, <2>1, AnswerStep, NoPageType DEF SameCall
  <2>3. st = "conflict" <=> Owned(Requester(s), req[s].item)
    OBVIOUS
  <2> HIDE DEF st
  <2> QED
    BY <1>i, <2>1, <2>2, <2>3 DEF AnswerOrigin
<1>8. ASSUME NEW s \in Req, DeleteItem(s) PROVE AnswerOrigin(r)
  BY <1>0, <1>8, <1>a, <1>b, NoPageType DEF DeleteItem, WellFormed
<1>9. ASSUME NEW s \in Req, StatementFails(s) PROVE AnswerOrigin(r)
  BY <1>0, <1>9, <1>a, <1>b, NoPageType DEF StatementFails, Busy
<1>10. ASSUME NEW s \in Req, Deliver(s) \/ Lose(s) PROVE AnswerOrigin(r)
  <2>1. req' = [req EXCEPT ![s] = Idle]
    BY <1>10 DEF Deliver, Lose
  <2>2. /\ \A t \in Req \ {s} : req'[t] = req[t]
        /\ req'[s].pc = "idle"
    BY <1>0, <2>1 DEF Idle
  <2> QED
    BY <1>i, <2>2 DEF AnswerOrigin
<1> QED
  BY <1>i, <1>2, <1>3, <1>4, <1>5, <1>6, <1>7, <1>8, <1>9, <1>10
     DEF Next, Server, Handler, DeleteUser, vars

-----------------------------------------------------------------------------
(***************************************************************************)
(* The inductive invariant and what follows from it.                       *)
(***************************************************************************)
IInv ==
    /\ TInv
    /\ RowsBorn
    /\ ViewsGenuine
    /\ StaleAtCheck
    /\ AnswersFinal
    /\ Isolation
    /\ AnswersIsolated

\* The initial state satisfies the invariant: nothing exists yet.
LEMMA InvInit == Init => IInv
<1> SUFFICES ASSUME Init PROVE IInv
  OBVIOUS
<1>1. TInv
  BY NoPageType, IdleRequest DEF Init, TInv, TypeOK, RequestsWellFormed
<1>2. /\ \A i \in Item : items[i] = None
      /\ \A d \in Device, i \in Item : cache[d][i] = None
      /\ \A r \in Req : /\ req[r].pc = "idle" /\ req[r].base = None
                        /\ \A i \in Item : req[r].got[i] = None
  BY DEF Init, NoPage, Idle
<1> QED
  BY <1>1, <1>2 DEF IInv, RowsBorn, ViewsGenuine, Genuine, StaleAtCheck,
                    AnswersFinal, Isolation, AnswersIsolated

\* Every step preserves the invariant.
LEMMA InvStep == IInv /\ [Next]_vars => IInv'
<1> SUFFICES ASSUME IInv, [Next]_vars PROVE IInv'
  OBVIOUS
<1>1. TInv /\ TInv' /\ Advance /\ Sources /\ \A r \in Req : AnswerOrigin(r)
  BY TypeStep, StepAdvances, StepSources, StepStages DEF IInv
<1>2. /\ TypeOK /\ TypeOK'
      /\ \A r \in Req : req[r] \in Request /\ req'[r] \in Request
      /\ \A r \in Req : WellFormed(req[r]) /\ WellFormed(req[r])'
      /\ \A d \in Device, i \in Item : cache[d][i] \in View \cup {None}
      /\ \A r \in Req, i \in Item : req[r].got[i] \in View \cup {None}
      /\ \A r \in Req : req[r].base \in View \cup {None}
  BY <1>1 DEF TInv, TypeOK, RequestsWellFormed, Request, Page
<1>3. RowsBorn'
  BY <1>1 DEF IInv, RowsBorn, Advance
<1>4. ASSUME NEW i \in Item, NEW v \in View \cup {None}, Genuine(v, i)
      PROVE  Genuine(v, i)'
  BY <1>1, <1>4, GenuineStable
<1>5. \A d \in Device, i \in Item : Genuine(cache[d][i], i)'
  <2> SUFFICES ASSUME NEW d \in Device, NEW i \in Item
               PROVE  Genuine(cache[d][i], i)'
    OBVIOUS
  <2>1. CASE cache'[d][i] = None
    BY <2>1 DEF Genuine
  <2>2. CASE cache'[d][i] = cache[d][i]
    <3>1. Genuine(cache[d][i], i)
      BY DEF IInv, ViewsGenuine
    <3> QED
      BY <1>2, <1>4, <2>2, <3>1 DEF Genuine
  <2>3. ASSUME NEW r \in Req, cache'[d][i] = req[r].got[i]
        PROVE  Genuine(cache[d][i], i)'
    <3>1. Genuine(req[r].got[i], i)
      BY DEF IInv, ViewsGenuine
    <3> QED
      BY <1>2, <1>4, <2>3, <3>1 DEF Genuine
  <2> QED
    BY <1>1, <2>1, <2>2, <2>3 DEF Sources, CacheSource
<1>6. \A r \in Req, i \in Item : Genuine(req[r].got[i], i)'
  <2> SUFFICES ASSUME NEW r \in Req, NEW i \in Item
               PROVE  Genuine(req[r].got[i], i)'
    OBVIOUS
  <2>1. CASE req'[r].got[i] = None
    BY <2>1 DEF Genuine
  <2>2. CASE req'[r].got[i] = req[r].got[i]
    <3>1. Genuine(req[r].got[i], i)
      BY DEF IInv, ViewsGenuine
    <3> QED
      BY <1>2, <1>4, <2>2, <3>1 DEF Genuine
  <2>3. CASE items'[i] # None /\ req'[r].got[i] = ItemView(items'[i])
    <3>1. i \in born'
      BY <1>3, <2>3 DEF RowsBorn
    <3> QED
      BY <2>3, <3>1 DEF Genuine
  <2> QED
    BY <1>1, <2>1, <2>2, <2>3 DEF Sources, GotSource
<1>7. \A r \in Req : req'[r].base # None => Genuine(req[r].base, req[r].item)'
  <2> SUFFICES ASSUME NEW r \in Req, req'[r].base # None
               PROVE  Genuine(req[r].base, req[r].item)'
    OBVIOUS
  <2>1. CASE req'[r].base = req[r].base /\ req'[r].item = req[r].item
    <3>1. Genuine(req[r].base, req[r].item)
      BY <2>1 DEF IInv, ViewsGenuine
    <3>2. req[r].item \in Item
      BY <1>2, <2>1 DEF WellFormed
    <3> QED
      BY <1>2, <1>4, <2>1, <3>1, <3>2 DEF Genuine
  <2>2. ASSUME NEW e \in Device, req'[r].item \in Item,
               req'[r].base = cache[e][req'[r].item]
        PROVE  Genuine(req[r].base, req[r].item)'
    <3>1. Genuine(cache[e][req'[r].item], req'[r].item)
      BY <2>2 DEF IInv, ViewsGenuine
    <3> QED
      BY <1>2, <1>4, <2>2, <3>1 DEF Genuine
  <2> QED
    BY <1>1, <2>1, <2>2 DEF Sources, BaseSource
<1>8. ViewsGenuine'
  BY <1>5, <1>6, <1>7 DEF ViewsGenuine
<1>9. StaleAtCheck'
  <2> SUFFICES ASSUME NEW r \in Req, req'[r].pc = "exists",
                      Owned(UserOf[req[r].dev], req[r].item)'
               PROVE  req'[r].base.revision < items'[req'[r].item].revision
    BY DEF StaleAtCheck
  <2> DEFINE i == req'[r].item
  <2>1. i \in Item /\ req'[r].base \in View /\ items'[i] # None
        /\ items'[i].owner = UserOf[req'[r].dev]
    BY <1>2 DEF WellFormed, Owned
  <2>2. req'[r].base # None
    BY <2>1, ConstantsAssumption
  <2>4. CASE req'[r] = req[r]
    <3>1. Genuine(req[r].base, i)
      BY <2>2, <2>4 DEF IInv, ViewsGenuine
    <3>2. i \in born
      BY <2>2, <2>4, <3>1 DEF Genuine
    <3>3. /\ items[i] # None
          /\ \/ items'[i] = items[i]
             \/ /\ items'[i].owner = items[i].owner
                /\ items[i].revision < items'[i].revision
      BY <1>1, <2>1, <3>2 DEF Advance
    <3>4. req[r].base.revision < items[i].revision
      BY <2>1, <2>4, <3>3 DEF IInv, StaleAtCheck, Owned
    <3>5. /\ items[i].revision \in Nat /\ items'[i].revision \in Nat
          /\ req[r].base.revision \in Nat
      BY <1>2, <2>1, <2>4, <3>3, ViewOfRow DEF TypeOK, View
    <3> QED
      BY <2>4, <3>3, <3>4, <3>5
  <2>5. CASE /\ SameCall(r) /\ req[r].pc = "update" /\ items' = items
             /\ ~Matching(Requester(r), req[r].item, req[r].base.revision)
    <3>1. items[i].revision # req[r].base.revision /\ req[r].base = req'[r].base
      BY <2>1, <2>5 DEF SameCall, Matching, Owned, Requester
    <3>2. Genuine(req[r].base, i)
      BY <2>2, <2>5, <3>1 DEF IInv, ViewsGenuine, SameCall
    <3>3. items[i] \in Row
      BY <1>2, <2>1, <2>5 DEF TypeOK
    <3> QED
      BY <2>1, <2>2, <2>5, <3>1, <3>2, <3>3, ViewOfRow DEF Genuine
  <2> QED
    BY <1>1, <2>4, <2>5 DEF AnswerOrigin
<1>10. AnswersFinal'
  <2> SUFFICES ASSUME NEW r \in Req, req'[r].op = "update", req'[r].pc = "done",
                      req'[r].status \in {"conflict", "notFound"}
               PROVE  /\ req'[r].status = "conflict" => (items'[req'[r].item] # None =>
                            req'[r].base.revision < items'[req'[r].item].revision)
                      /\ req'[r].status = "notFound" =>
                            ~Owned(UserOf[req[r].dev], req[r].item)'
    BY DEF AnswersFinal, Requester
  <2> DEFINE i == req'[r].item
  <2>1. i \in Item /\ req'[r].base \in View
    BY <1>2 DEF WellFormed
  <2>2. req'[r].base # None
    BY <2>1, ConstantsAssumption
  <2>3. CASE req'[r] = req[r]
    <3>1. Genuine(req[r].base, i)
      BY <2>2, <2>3 DEF IInv, ViewsGenuine
    <3>2. i \in born
      BY <2>2, <2>3, <3>1 DEF Genuine
    <3>3. items'[i] # None =>
             /\ items[i] # None
             /\ \/ items'[i] = items[i]
                \/ /\ items'[i].owner = items[i].owner
                   /\ items[i].revision < items'[i].revision
      BY <1>1, <2>1, <3>2 DEF Advance
    <3>4. /\ req[r].status = "conflict" =>
                (items[i] # None => req[r].base.revision < items[i].revision)
          /\ req[r].status = "notFound" => ~Owned(UserOf[req[r].dev], i)
      BY <2>3 DEF IInv, AnswersFinal, Requester
    <3>5. items'[i] # None => /\ items[i].revision \in Nat
                              /\ items'[i].revision \in Nat
                              /\ req[r].base.revision \in Nat
      BY <1>2, <2>1, <2>3, <3>3, ViewOfRow DEF TypeOK, View
    <3> QED
      BY <2>3, <3>3, <3>4, <3>5 DEF Owned
  <2>4. CASE /\ SameCall(r) /\ req[r].pc = "exists" /\ items' = items
             /\ (req'[r].status = "conflict" <=> Owned(Requester(r), req[r].item))
    <3>1. Owned(Requester(r), i) => req[r].base.revision < items[i].revision
      BY <2>4 DEF IInv, StaleAtCheck, Requester, SameCall
    <3> QED
      BY <2>4, <3>1 DEF Owned, Requester, SameCall
  <2> QED
    BY <1>1, <2>3, <2>4 DEF AnswerOrigin
<1>11. AnswersIsolated'
  <2> SUFFICES ASSUME NEW r \in Req, NEW i \in Item, req'[r].got[i] # None,
                      items'[i] # None
               PROVE  items'[i].owner = UserOf[req'[r].dev]
    BY DEF AnswersIsolated
  <2>1. CASE req'[r].got[i] = req[r].got[i] /\ req'[r].dev = req[r].dev
    <3>1. Genuine(req[r].got[i], i)
      BY DEF IInv, ViewsGenuine
    <3>2. items[i] # None /\ items'[i].owner = items[i].owner
      BY <1>1, <2>1, <3>1 DEF Genuine, Advance
    <3> QED
      BY <2>1, <3>2 DEF IInv, AnswersIsolated
  <2> QED
    BY <1>1, <2>1 DEF Sources, GotSource
<1>12. Isolation'
  <2> SUFFICES ASSUME NEW d \in Device, NEW i \in Item, cache'[d][i] # None,
                      items'[i] # None
               PROVE  items'[i].owner = UserOf[d]
    BY DEF Isolation
  <2>1. ASSUME i \in born
        PROVE  items[i] # None /\ items'[i].owner = items[i].owner
    BY <1>1, <2>1 DEF Advance
  <2>2. CASE cache'[d][i] = cache[d][i]
    <3>1. Genuine(cache[d][i], i)
      BY DEF IInv, ViewsGenuine
    <3> QED
      BY <2>1, <2>2, <3>1 DEF Genuine, IInv, Isolation
  <2>3. ASSUME NEW r \in Req, req[r].dev = d, cache'[d][i] = req[r].got[i]
        PROVE  items'[i].owner = UserOf[d]
    <3>1. Genuine(req[r].got[i], i)
      BY DEF IInv, ViewsGenuine
    <3> QED
      BY <2>1, <2>3, <3>1 DEF Genuine, IInv, AnswersIsolated
  <2> QED
    BY <1>1, <2>2, <2>3 DEF Sources, CacheSource
<1> QED
  BY <1>1, <1>3, <1>8, <1>9, <1>10, <1>11, <1>12 DEF IInv

\* The invariant holds throughout.
LEMMA Invariance == Spec => []IInv
BY InvInit, InvStep, PTL DEF Spec

\* A view of an item, wherever it is held and however late it arrives, is what
\* the row said at that revision.
THEOREM ViewsGenuineAlways == Spec => []ViewsGenuine
<1>1. IInv => ViewsGenuine
  BY DEF IInv
<1> QED
  BY <1>1, Invariance, PTL

\* 409 and 404, although decided by a second statement, are final.
THEOREM AnswersFinalAlways == Spec => []AnswersFinal
<1>1. IInv => AnswersFinal
  BY DEF IInv
<1> QED
  BY <1>1, Invariance, PTL

\* No browser shows an item of another account.
THEOREM IsolationAlways == Spec => []Isolation
<1>1. IInv => Isolation
  BY DEF IInv
<1> QED
  BY <1>1, Invariance, PTL

\* Optimistic concurrency loses no update: whoever overwrites a ciphertext had
\* seen exactly that ciphertext.
THEOREM NoLostUpdateAlways == Spec => NoLostUpdate
<1> DEFINE P(i) == /\ items[i] # None
                   /\ items'[i] # None
                   /\ items'[i] # items[i]
                   => \E r \in Req : /\ req[r].pc = "update"
                                     /\ req[r].item = i
                                     /\ req[r].base = ItemView(items[i])
                                     /\ items'[i].cipher = req[r].cipher
<1>1. ASSUME IInv, [Next]_vars, NEW i \in Item PROVE P(i)
  <2> SUFFICES ASSUME items[i] # None, items'[i] # None, items'[i] # items[i]
               PROVE  \E r \in Req : /\ req[r].pc = "update"
                                     /\ req[r].item = i
                                     /\ req[r].base = ItemView(items[i])
                                     /\ items'[i].cipher = req[r].cipher
    OBVIOUS
  <2>0. /\ TypeOK /\ RowsBorn /\ \A r \in Req : WellFormed(req[r])
    BY <1>1 DEF IInv, TInv, RequestsWellFormed
  <2>1. ASSUME NEW r \in Req, UpdateItem(r)
        PROVE  /\ req[r].pc = "update" /\ req[r].item = i
               /\ req[r].base = ItemView(items[i])
               /\ items'[i].cipher = req[r].cipher
    <3>1. /\ req[r].item \in Item /\ req[r].base \in View /\ req[r].pc = "update"
          /\ req[r].cipher \in Cipher
      BY <2>0, <2>1 DEF UpdateItem, WellFormed
    <3>2. /\ req[r].item = i /\ items[i].revision = req[r].base.revision
          /\ items'[i] = Bumped(i, req[r].cipher)
      BY <2>0, <2>1, <3>1 DEF UpdateItem, Matching, Owned, TypeOK
    <3>3. Genuine(req[r].base, i) /\ req[r].base # None
      BY <1>1, <3>1, <3>2, ConstantsAssumption DEF IInv, ViewsGenuine
    <3>4. items[i] \in Row
      BY <2>0 DEF TypeOK
    <3>5. req[r].base = ItemView(items[i])
      BY <3>2, <3>3, <3>4, ViewOfRow DEF Genuine
    <3> QED
      BY <3>1, <3>2, <3>5 DEF Bumped
  <2>2. ~(UNCHANGED items)
    OBVIOUS
  <2>3. ASSUME NEW r \in Req, CreateItem(r) PROVE FALSE
    BY <2>0, <2>2, <2>3 DEF CreateItem, RowsBorn, TypeOK
  <2>4. ASSUME NEW r \in Req, DeleteItem(r) PROVE FALSE
    BY <2>0, <2>2, <2>4 DEF DeleteItem, TypeOK
  <2>5. ASSUME NEW u \in User, DeleteUser(u) PROVE FALSE
    BY <2>0, <2>2, <2>5 DEF DeleteUser
  <2> QED
    BY <1>1, <2>1, <2>2, <2>3, <2>4, <2>5
       DEF Next, Client, Server, Handler, SendRead, SendCreate, SendUpdate, SendDelete,
           Send, GetSync, GetItems, ItemExists, StatementFails, Deliver, Lose, vars
<1>2. IInv /\ [Next]_vars => [\A i \in Item : P(i)]_vars
  BY <1>1
<1> HIDE DEF P
<1>3. Spec => [][\A i \in Item : P(i)]_vars
  BY <1>2, Invariance, PTL DEF Spec
<1> QED
  BY <1>3 DEF NoLostUpdate, P

\* Only its owner changes or removes a row: whatever id a device names, the
\* WHERE of UpdateItem and DeleteItem lets a request of the owner through and no
\* other, and the cascade of a deleted account takes that account's rows only.
THEOREM OwnerOnlyAlways == Spec => OwnerOnly
<1> DEFINE ByOwner == \A i \in Item :
              items[i] # None /\ items'[i] # items[i] =>
                 \/ items[i].owner \notin users'
                 \/ \E r \in Req : /\ req[r].item = i
                                   /\ Requester(r) = items[i].owner
                                   /\ req'[r].pc = "done"
<1>1. ASSUME IInv, [Next]_vars PROVE [ByOwner]_vars
  <2>1. /\ items \in [Item -> Row \cup {None}] /\ req \in [Req -> Request]
        /\ \A r \in Req : WellFormed(req[r])
        /\ \A i \in Item : items[i] # None => i \in born
    BY <1>1 DEF IInv, TInv, TypeOK, RequestsWellFormed, RowsBorn
  <2>2. ASSUME NEW r \in Req, NEW st \in Statuses, NEW pg \in Page, Busy(r), Answer(r, st, pg)
        PROVE  req'[r].pc = "done"
    BY <2>1, <2>2, AnswerStep DEF Busy
  <2>3. CASE items' = items
    BY <2>3
  <2>4. ASSUME NEW r \in Req, CreateItem(r) PROVE ByOwner
    BY <2>1, <2>4 DEF CreateItem
  <2>5. ASSUME NEW r \in Req, UpdateItem(r) PROVE ByOwner
    <3> DEFINE i == req[r].item
               nrow == Bumped(i, req[r].cipher)
    <3>1. i \in Item /\ req[r].cipher \in Cipher /\ Busy(r)
      BY <2>1, <2>5 DEF UpdateItem, WellFormed, Busy
    <3>2. CASE /\ Matching(Requester(r), i, req[r].base.revision)
               /\ items[i].revision < MaxRevision
               /\ items' = [items EXCEPT ![i] = nrow]
               /\ Answer(r, "ok", OneItem(i, nrow))
      <4>1. nrow \in Row
        <5>1. TypeOK /\ items[i] # None
          BY <1>1, <3>2 DEF IInv, TInv, Matching, Owned
        <5> QED
          BY <3>1, <3>2, <5>1, BumpedRow
      <4>2. OneItem(i, nrow) \in Page
        BY <3>1, <4>1, OneItemPage
      <4>3. req'[r].pc = "done"
        BY <2>2, <3>1, <3>2, <4>2 DEF Statuses
      <4>4. Requester(r) = items[i].owner
        BY <3>2 DEF Matching, Owned
      <4>5. \A j \in Item : j # i => items'[j] = items[j]
        BY <2>1, <3>2
      <4> QED
        BY <4>3, <4>4, <4>5
    <3>3. CASE UNCHANGED items
      BY <2>3, <3>3
    <3> QED
      BY <2>5, <3>2, <3>3 DEF UpdateItem
  <2>6. ASSUME NEW r \in Req, DeleteItem(r) PROVE ByOwner
    <3> DEFINE i == req[r].item
    <3>1. i \in Item /\ Busy(r)
      BY <2>1, <2>6 DEF DeleteItem, WellFormed, Busy
    <3>2. CASE /\ Owned(Requester(r), i) /\ items' = [items EXCEPT ![i] = None]
               /\ Answer(r, "noContent", NoPage)
      <4>1. req'[r].pc = "done"
        BY <2>2, <3>1, <3>2, NoPageType DEF Statuses
      <4>2. Requester(r) = items[i].owner
        BY <3>2 DEF Owned
      <4>3. \A j \in Item : j # i => items'[j] = items[j]
        BY <2>1, <3>2
      <4> QED
        BY <4>1, <4>2, <4>3
    <3>3. CASE UNCHANGED items
      BY <2>3, <3>3
    <3> QED
      BY <2>6, <3>2, <3>3 DEF DeleteItem
  <2>7. ASSUME NEW u \in User, DeleteUser(u) PROVE ByOwner
    BY <2>1, <2>7 DEF DeleteUser, Owned
  <2>8. ASSUME NEW r \in Req, Client(r) \/ GetSync(r) \/ GetItems(r) \/ ItemExists(r)
                              \/ StatementFails(r) \/ Deliver(r) \/ Lose(r)
        PROVE  items' = items
    BY <2>8 DEF Client, SendRead, SendCreate, SendUpdate, SendDelete, Send, GetSync,
       GetItems, ItemExists, StatementFails, Deliver, Lose
  <2>9. CASE UNCHANGED vars
    BY <2>9 DEF vars
  <2> HIDE DEF ByOwner
  <2> QED
    BY <1>1, <2>3, <2>4, <2>5, <2>6, <2>7, <2>8, <2>9 DEF Next, Server, Handler
<1> QED
  BY <1>1, Invariance, PTL DEF Spec, OwnerOnly

\* A deleted account leaves no items behind.
THEOREM NoOrphansAlways == Spec => []NoOrphans
<1>1. Init => NoOrphans
  BY DEF Init, NoOrphans
<1>2. TInv /\ NoOrphans /\ [Next]_vars => NoOrphans'
  <2> SUFFICES ASSUME TInv, NoOrphans, [Next]_vars PROVE NoOrphans'
    OBVIOUS
  <2>0. TypeOK /\ \A r \in Req : WellFormed(req[r])
    BY DEF TInv, RequestsWellFormed
  <2>1. CASE UNCHANGED <<items, users>>
    BY <2>1 DEF NoOrphans
  <2>2. ASSUME NEW r \in Req, CreateItem(r) PROVE NoOrphans'
    BY <2>0, <2>1, <2>2 DEF CreateItem, NoOrphans, TypeOK
  <2>3. ASSUME NEW r \in Req, UpdateItem(r) PROVE NoOrphans'
    <3> DEFINE i == req[r].item
    <3>1. i \in Item /\ req[r].cipher \in Cipher /\ users' = users
      BY <2>0, <2>3 DEF UpdateItem, WellFormed
    <3>2. CASE items[i] # None /\ items' = [items EXCEPT ![i] = Bumped(i, req[r].cipher)]
      BY <2>0, <3>1, <3>2 DEF Bumped, NoOrphans, TypeOK
    <3> QED
      BY <2>1, <2>3, <3>1, <3>2 DEF UpdateItem, Matching, Owned
  <2>4. ASSUME NEW r \in Req, DeleteItem(r) PROVE NoOrphans'
    BY <2>0, <2>1, <2>4 DEF DeleteItem, NoOrphans, TypeOK, WellFormed
  <2>5. ASSUME NEW u \in User, DeleteUser(u) PROVE NoOrphans'
    BY <2>0, <2>5 DEF DeleteUser, NoOrphans, Owned, TypeOK
  <2> QED
    BY <2>1, <2>2, <2>3, <2>4, <2>5
       DEF Next, Client, Server, Handler, SendRead, SendCreate, SendUpdate, SendDelete,
           Send, GetSync, GetItems, ItemExists, StatementFails, Deliver, Lose, vars
<1>3. IInv => TInv
  BY DEF IInv
<1> QED
  BY <1>1, <1>2, <1>3, Invariance, PTL DEF Spec

-----------------------------------------------------------------------------
(***************************************************************************)
(* Refinement: the handlers implement ItemService.                         *)
(***************************************************************************)
Calls == [r \in Req |-> CallOf(req[r])]

\* An answer of the handlers is a return of the abstract call.
LEMMA AnswerReturns ==
    ASSUME TInv, NEW r \in Req, NEW st \in Statuses, NEW pg \in Page,
           Answer(r, st, pg), req[r].pc # "idle"
    PROVE  Service!Return(r, st, pg)
<1>0. req \in [Req -> Request] /\ WellFormed(req[r])
  BY DEF TInv, TypeOK, RequestsWellFormed
<1>1. /\ \A s \in Req \ {r} : req'[s] = req[s]
      /\ req'[r].pc = "done" /\ req'[r].status = st /\ req'[r].got = pg
      /\ req'[r].op = req[r].op /\ req'[r].dev = req[r].dev
      /\ req'[r].item = req[r].item /\ req'[r].cipher = req[r].cipher
      /\ req'[r].base = req[r].base
  BY <1>0, AnswerStep
<1> DEFINE c == CallOf(req[r])
           n == [st |-> "done", op |-> c.op, user |-> c.user, item |-> c.item,
                 cipher |-> c.cipher, revision |-> c.revision,
                 status |-> st, got |-> pg]
<1>2. CallOf(req'[r]) = n
  BY <1>1 DEF CallOf
<1>3. \A s \in Req \ {r} : CallOf(req'[s]) = CallOf(req[s])
  BY <1>1
<1> HIDE DEF n
<1>4. Calls' = [Calls EXCEPT ![r] = n]
  BY <1>2, <1>3 DEF Calls
<1> QED
  BY <1>4 DEF Service!Return, Calls, n

\* What the abstract service sees of a request that has not been answered.
LEMMA PendingCall ==
    ASSUME TInv, NEW r \in Req, req[r].pc \notin {"idle", "done"}
    PROVE  /\ Calls[r].st = "pending" /\ Calls[r].op = req[r].op
           /\ Calls[r].user = Requester(r)
           /\ Calls[r].item = req[r].item /\ Calls[r].cipher = req[r].cipher
           /\ req[r].base # None => Calls[r].revision = req[r].base.revision
<1>1. req[r].dev \in Device
  BY DEF TInv, RequestsWellFormed, WellFormed
<1>2. req[r].dev # None
  BY <1>1, ConstantsAssumption
<1> QED
  BY <1>2 DEF Calls, CallOf, Requester

\* Each answer is justified by one state of the table during the call: the
\* two-statement handlers implement the one-instant service.
THEOREM Linearizability == Spec => Linearizable
<1>1. Init => Service!Init
  <2> SUFFICES ASSUME Init PROVE Service!Init
    OBVIOUS
  <2>1. \A r \in Req : CallOf(req[r]) = Service!NoCall
    BY DEF Init, Idle, CallOf, Service!NoCall, Service!NoItems, NoPage
  <2> QED
    BY <2>1 DEF Init, Service!Init, Service!NoItems
<1>2. IInv /\ [Next]_vars => [Service!Next]_(Service!svars)
  <2> SUFFICES ASSUME IInv, [Next]_vars
               PROVE  Service!Next \/ UNCHANGED Service!svars
    BY DEF Service!svars
  <2>0. /\ TInv /\ TypeOK /\ req \in [Req -> Request]
        /\ \A r \in Req : WellFormed(req[r])
    BY DEF IInv, TInv, TypeOK, RequestsWellFormed
  <2>np. NoPage = Service!NoItems /\ NoPage \in Page
    BY NoPageType DEF NoPage, Service!NoItems
  <2>st. {"ok", "created", "noContent", "forbidden", "notFound", "conflict", "error"}
            \subseteq Statuses
    BY DEF Statuses
  <2>1. ASSUME NEW r \in Req, NEW d \in Device, NEW op \in {"sync", "list", "create",
               "update", "delete"}, NEW i \in Item \cup {None},
               NEW c \in Cipher \cup {None}, NEW v \in View \cup {None},
               Send(r, d, op, i, c, v)
        PROVE  Service!Invoke(r)
    <3> DEFINE rev == IF v = None THEN 0 ELSE v.revision
               n == [st |-> "pending", op |-> op, user |-> UserOf[d], item |-> i,
                     cipher |-> c, revision |-> rev,
                     status |-> "none", got |-> Service!NoItems]
    <3>1. /\ req'[r] = [pc |-> op, op |-> op, dev |-> d, item |-> i, cipher |-> c,
                        base |-> v, status |-> "none", got |-> NoPage]
          /\ \A s \in Req \ {r} : req'[s] = req[s]
          /\ req[r].pc = "idle"
      BY <2>0, <2>1 DEF Send
    <3>2. d # None /\ UserOf[d] \in User
      BY ConstantsAssumption
    <3>3. CallOf(req'[r]) = n /\ CallOf(req[r]).st = "idle"
      BY <2>np, <3>1, <3>2 DEF CallOf
    <3>4. rev \in 0..MaxRevision
      BY ConstantsAssumption DEF View
    <3> HIDE DEF n
    <3>5. Calls' = [Calls EXCEPT ![r] = n] /\ Calls[r].st = "idle"
      BY <3>1, <3>3 DEF Calls
    <3> HIDE DEF rev
    <3>6. Calls' = [Calls EXCEPT ![r] = [st |-> "pending", op |-> op,
                       user |-> UserOf[d], item |-> i, cipher |-> c,
                       revision |-> rev, status |-> "none", got |-> Service!NoItems]]
      BY <3>5 DEF n
    <3>7. UNCHANGED <<users, items, born>>
      BY <2>1 DEF Send
    <3>8. \E op2 \in {"sync", "list", "create", "update", "delete"}, u \in User,
             i2 \in Item \cup {None}, c2 \in Cipher \cup {None}, n2 \in 0..MaxRevision :
             Calls' = [Calls EXCEPT ![r] = [st |-> "pending", op |-> op2, user |-> u,
                         item |-> i2, cipher |-> c2, revision |-> n2,
                         status |-> "none", got |-> Service!NoItems]]
      BY <3>2, <3>4, <3>6, Zenon
    <3> QED
      BY <3>5, <3>7, <3>8, Zenon DEF Service!Invoke, Calls
  <2>2. ASSUME NEW r \in Req, Client(r) PROVE Service!Invoke(r)
    <3>1. ASSUME NEW d \in Device, SendRead(r, d) PROVE Service!Invoke(r)
      <4>1. PICK op \in {"sync", "list"} : Send(r, d, op, None, None, None)
        BY <3>1 DEF SendRead
      <4> QED
        BY <2>1, <4>1
    <3>2. ASSUME NEW d \in Device, SendCreate(r, d) PROVE Service!Invoke(r)
      BY <2>1, <3>2 DEF SendCreate
    <3>3. ASSUME NEW d \in Device, SendUpdate(r, d) PROVE Service!Invoke(r)
      <4>1. PICK e \in Device, i \in Item, c \in Cipher :
                Send(r, d, "update", i, c, cache[e][i])
        BY <3>3 DEF SendUpdate
      <4>2. cache[e][i] \in View \cup {None}
        BY <2>0 DEF TypeOK, Page
      <4> QED
        BY <2>1, <4>1, <4>2
    <3>4. ASSUME NEW d \in Device, SendDelete(r, d) PROVE Service!Invoke(r)
      BY <2>1, <3>4 DEF SendDelete
    <3> QED
      BY <2>2, <3>1, <3>2, <3>3, <3>4 DEF Client
  <2>g. ASSUME NEW r \in Req, NEW pc \in {"list", "exists"},
               req[r].pc \in {"sync", "update"}, req' = [req EXCEPT ![r].pc = pc],
               UNCHANGED <<users, items, born>>
        PROVE  UNCHANGED Service!svars
    <3>1. pc \in Stages
      BY DEF Stages
    <3>2. \A s \in Req : CallOf(req'[s]) = CallOf(req[s])
      BY <2>0, <2>g, <3>1, StageStep DEF CallOf
    <3> QED
      BY <2>g, <3>2 DEF Service!svars
  <2>e. ASSUME NEW r \in Req, req[r].pc \notin {"idle", "done"},
               Answer(r, "error", NoPage), UNCHANGED <<users, items, born>>
        PROVE  Service!Fail(r)
    BY <2>0, <2>np, <2>st, <2>e, AnswerReturns, PendingCall DEF Service!Fail, Calls
  <2>3. ASSUME NEW r \in Req, GetSync(r)
        PROVE  Service!ReadRefused(r) \/ UNCHANGED Service!svars
    <3>1. CASE Answer(r, "forbidden", NoPage) /\ Requester(r) \notin users
      <4>1. Service!Return(r, "forbidden", Service!NoItems)
        BY <2>0, <2>3, <2>np, <2>st, <3>1, AnswerReturns DEF GetSync
      <4>2. /\ Calls[r].st = "pending" /\ Calls[r].op = "sync"
            /\ Calls[r].user = Requester(r)
        BY <2>0, <2>3, PendingCall DEF GetSync, WellFormed
      <4> QED
        BY <2>3, <3>1, <4>1, <4>2 DEF Service!ReadRefused, Service!Pending, Calls, GetSync
    <3> QED
      BY <2>3, <2>g, <3>1 DEF GetSync
  <2>4. ASSUME NEW r \in Req, GetItems(r) PROVE Service!Read(r)
    <3>1. /\ Calls[r].st = "pending" /\ Calls[r].op \in {"sync", "list"}
          /\ Calls[r].user = Requester(r)
      BY <2>0, <2>4, PendingCall DEF GetItems, WellFormed
    <3>2. Service!Return(r, "ok", ListItems(Requester(r)))
      BY <2>0, <2>4, <2>st, AnswerReturns, ListPage DEF GetItems
    <3>3. ListItems(Requester(r)) =
              [i \in Item |-> IF Service!Visible(Calls[r].user, i)
                              THEN Service!Shown(items[i]) ELSE None]
      BY <3>1 DEF ListItems, Owned, ItemView, Service!Visible, Service!Shown
    <3> QED
      BY <2>4, <3>1, <3>2, <3>3 DEF Service!Read, Service!Pending, Calls, GetItems
  <2>5. ASSUME NEW r \in Req, CreateItem(r)
        PROVE  Service!Create(r) \/ Service!Fail(r)
    <3>1. ASSUME NEW i \in Item \ born, Requester(r) \in users,
                 LET row == [owner |-> Requester(r), cipher |-> req[r].cipher,
                             revision |-> 1] IN
                 /\ items' = [items EXCEPT ![i] = row]
                 /\ born' = born \cup {i}
                 /\ Answer(r, "created", OneItem(i, row))
          PROVE  Service!Create(r)
      <4> DEFINE row == [owner |-> Requester(r), cipher |-> req[r].cipher,
                         revision |-> 1]
      <4>1. row \in Row
        BY <2>0, <2>5, ConstantsAssumption DEF Row, Requester, CreateItem, WellFormed
      <4>2. /\ Calls[r].st = "pending" /\ Calls[r].op = "create"
            /\ Calls[r].user = Requester(r) /\ Calls[r].cipher = req[r].cipher
        BY <2>0, <2>5, PendingCall DEF CreateItem, WellFormed
      <4>3. row = [owner |-> Calls[r].user, cipher |-> Calls[r].cipher,
                   revision |-> 1]
        BY <4>2
      <4> HIDE DEF row
      <4>4. items' = [items EXCEPT ![i] = row] /\ Answer(r, "created", OneItem(i, row))
        BY <3>1 DEF row
      <4>5. Service!Return(r, "created", OneItem(i, row))
        BY <2>0, <2>5, <2>st, <4>1, <4>4, AnswerReturns, OneItemPage DEF CreateItem
      <4>6. OneItem(i, row) = [Service!NoItems EXCEPT ![i] = Service!Shown(items'[i])]
        <5>1. items'[i] = row
          BY <2>0, <4>4 DEF TypeOK
        <5> QED
          BY <2>np, <5>1 DEF OneItem, ItemView, Service!Shown
      <4>7. Service!Pending(r, {"create"}) /\ Calls[r].user \in users
        BY <2>5, <3>1, <4>2 DEF Service!Pending, Calls, CreateItem
      <4>8. /\ i \in Item \ born /\ born' = born \cup {i} /\ users' = users
            /\ items' = [items EXCEPT ![i] = [owner |-> Calls[r].user,
                                      cipher |-> Calls[r].cipher, revision |-> 1]]
        BY <2>5, <3>1, <4>3, <4>4 DEF CreateItem
      <4>9. Service!Return(r, "created",
                [Service!NoItems EXCEPT ![i] = Service!Shown(items'[i])])
        BY <4>5, <4>6
      <4> QED
        BY <4>7, <4>8, <4>9, Zenon DEF Service!Create, Calls
    <3>2. CASE Answer(r, "error", NoPage) /\ UNCHANGED <<items, born>>
      BY <2>5, <2>e, <3>2 DEF CreateItem
    <3> QED
      BY <2>5, <3>1, <3>2 DEF CreateItem
  <2>6. ASSUME NEW r \in Req, UpdateItem(r)
        PROVE  Service!Swap(r) \/ Service!Fail(r) \/ UNCHANGED Service!svars
    <3> DEFINE i == req[r].item
               nrow == Bumped(i, req[r].cipher)
    <3>1. /\ i \in Item /\ req[r].cipher \in Cipher /\ req[r].base \in View
          /\ req[r].pc = "update" /\ req[r].op = "update" /\ req[r].base # None
      BY <2>0, <2>6, ConstantsAssumption DEF UpdateItem, WellFormed
    <3>2. CASE /\ Matching(Requester(r), i, req[r].base.revision)
               /\ items[i].revision < MaxRevision
               /\ items' = [items EXCEPT ![i] = nrow]
               /\ Answer(r, "ok", OneItem(i, nrow))
      <4>1. /\ Calls[r].st = "pending" /\ Calls[r].op = "update"
            /\ Calls[r].user = Requester(r) /\ Calls[r].cipher = req[r].cipher
            /\ Calls[r].item = i /\ Calls[r].revision = req[r].base.revision
        BY <2>0, <3>1, PendingCall
      <4>2. nrow \in Row
        BY <2>0, <3>1, <3>2, BumpedRow DEF Matching, Owned
      <4>3. nrow = [owner |-> items[i].owner, cipher |-> Calls[r].cipher,
                    revision |-> items[i].revision + 1]
        BY <4>1 DEF Bumped
      <4> HIDE DEF nrow
      <4>4. Service!Return(r, "ok", OneItem(i, nrow))
        BY <2>0, <2>st, <3>1, <3>2, <4>2, AnswerReturns, OneItemPage
      <4>5. OneItem(i, nrow) = [Service!NoItems EXCEPT ![i] = Service!Shown(items'[i])]
        BY <2>0, <2>np, <3>1, <3>2 DEF OneItem, ItemView, Service!Shown, TypeOK
      <4>6. Service!Visible(Calls[r].user, i) /\ items[i].revision = Calls[r].revision
        BY <3>2, <4>1 DEF Matching, Owned, Service!Visible
      <4>7. UNCHANGED <<users, born>>
        BY <2>6 DEF UpdateItem
      <4> QED
        BY <3>2, <4>1, <4>3, <4>4, <4>5, <4>6, <4>7
           DEF Service!Swap, Service!Pending, Calls
    <3>3. CASE Answer(r, "error", NoPage) /\ UNCHANGED items
      BY <2>6, <2>e, <3>1, <3>3 DEF UpdateItem
    <3>4. CASE req' = [req EXCEPT ![r].pc = "exists"] /\ UNCHANGED items
      BY <2>6, <2>g, <3>1, <3>4 DEF UpdateItem
    <3> QED
      BY <2>6, <3>2, <3>3, <3>4 DEF UpdateItem
  <2>7. ASSUME NEW r \in Req, ItemExists(r)
        PROVE  Service!SwapConflict(r) \/ Service!NotFound(r)
    <3> DEFINE i == req[r].item
    <3>1. /\ i \in Item /\ req[r].base \in View /\ req[r].base # None
          /\ req[r].pc = "exists" /\ req[r].op = "update"
          /\ UNCHANGED <<users, items, born>>
      BY <2>0, <2>7, ConstantsAssumption DEF ItemExists, WellFormed
    <3>2. /\ Calls[r].st = "pending" /\ Calls[r].op = "update"
          /\ Calls[r].user = Requester(r) /\ Calls[r].item = i
          /\ Calls[r].revision = req[r].base.revision
      BY <2>0, <3>1, PendingCall
    <3>3. CASE Owned(Requester(r), i)
      <4>1. Service!Return(r, "conflict", Service!NoItems)
        BY <2>0, <2>7, <2>np, <2>st, <3>3, AnswerReturns DEF ItemExists
      <4>2. req[r].base.revision < items[i].revision
        BY <3>1, <3>3 DEF IInv, StaleAtCheck, Requester
      <4>3. items[i].revision \in Nat /\ req[r].base.revision \in Nat
        BY <2>0, <3>1, <3>3, ViewOfRow DEF TypeOK, Owned, View
      <4>4. Service!Visible(Calls[r].user, i) /\ items[i].revision # Calls[r].revision
        BY <3>2, <3>3, <4>2, <4>3 DEF Owned, Service!Visible
      <4> QED
        BY <3>1, <3>2, <4>1, <4>4 DEF Service!SwapConflict, Service!Pending, Calls
    <3>4. CASE ~Owned(Requester(r), i)
      <4>1. Service!Return(r, "notFound", Service!NoItems)
        BY <2>0, <2>7, <2>np, <2>st, <3>4, AnswerReturns DEF ItemExists
      <4>2. ~Service!Visible(Calls[r].user, i)
        BY <3>2, <3>4 DEF Owned, Service!Visible
      <4> QED
        BY <3>1, <3>2, <4>1, <4>2 DEF Service!NotFound, Service!Pending, Calls
    <3> QED
      BY <3>3, <3>4
  <2>8. ASSUME NEW r \in Req, DeleteItem(r)
        PROVE  Service!Remove(r) \/ Service!NotFound(r)
    <3> DEFINE i == req[r].item
    <3>1. i \in Item /\ req[r].pc = "delete" /\ req[r].op = "delete"
          /\ UNCHANGED <<users, born>>
      BY <2>0, <2>8 DEF DeleteItem, WellFormed
    <3>2. /\ Calls[r].st = "pending" /\ Calls[r].op = "delete"
          /\ Calls[r].user = Requester(r) /\ Calls[r].item = i
      BY <2>0, <3>1, PendingCall
    <3>3. CASE /\ Owned(Requester(r), i) /\ items' = [items EXCEPT ![i] = None]
               /\ Answer(r, "noContent", NoPage)
      <4>1. Service!Return(r, "noContent", Service!NoItems)
        BY <2>0, <2>np, <2>st, <3>1, <3>3, AnswerReturns
      <4>2. Service!Visible(Calls[r].user, i)
        BY <3>2, <3>3 DEF Owned, Service!Visible
      <4> QED
        BY <3>1, <3>2, <3>3, <4>1, <4>2 DEF Service!Remove, Service!Pending, Calls
    <3>4. CASE /\ ~Owned(Requester(r), i) /\ UNCHANGED items
               /\ Answer(r, "notFound", NoPage)
      <4>1. Service!Return(r, "notFound", Service!NoItems)
        BY <2>0, <2>np, <2>st, <3>1, <3>4, AnswerReturns
      <4>2. ~Service!Visible(Calls[r].user, i)
        BY <3>2, <3>4 DEF Owned, Service!Visible
      <4> QED
        BY <3>1, <3>2, <3>4, <4>1, <4>2 DEF Service!NotFound, Service!Pending, Calls
    <3> QED
      BY <2>8, <3>3, <3>4 DEF DeleteItem
  <2>9. ASSUME NEW r \in Req, StatementFails(r) PROVE Service!Fail(r)
    BY <2>9, <2>e DEF StatementFails, Busy
  <2>10. ASSUME NEW r \in Req, Deliver(r) \/ Lose(r) PROVE Service!Forget(r)
    <3>1. req' = [req EXCEPT ![r] = Idle] /\ req[r].pc # "idle"
          /\ UNCHANGED <<users, items, born>>
      BY <2>10 DEF Deliver, Lose
    <3>2. req'[r] = Idle /\ \A s \in Req \ {r} : req'[s] = req[s]
      BY <2>0, <3>1
    <3>3. CallOf(Idle) = Service!NoCall
      BY <2>np DEF CallOf, Idle, Service!NoCall
    <3>4. Calls' = [Calls EXCEPT ![r] = Service!NoCall]
      BY <3>2, <3>3 DEF Calls
    <3>5. Calls[r].st # "idle"
      BY <3>1 DEF Calls, CallOf
    <3> QED
      BY <3>1, <3>4, <3>5 DEF Service!Forget, Calls
  <2>11. ASSUME NEW u \in User, DeleteUser(u) PROVE Service!CloseAccount(u)
    BY <2>11 DEF DeleteUser, Service!CloseAccount, Service!Visible, Owned
  <2>12. CASE UNCHANGED vars
    BY <2>12 DEF vars, Service!svars
  <2> QED
    BY <2>2, <2>3, <2>4, <2>5, <2>6, <2>7, <2>8, <2>9, <2>10, <2>11, <2>12
       DEF Next, Server, Handler, Service!Next
<1> QED
  BY <1>1, <1>2, Invariance, PTL DEF Spec, Linearizable, Service!Spec

=============================================================================
