---------------------------- MODULE ItemService -----------------------------
(***************************************************************************)
(* What /api/items promises its clients, without statements, stages or     *)
(* browsers: every call takes effect at one instant between its start and  *)
(* its answer, and the answer is the one that instant justifies.  An       *)
(* update is a compare-and-swap on the revision.                           *)
(***************************************************************************)
EXTENDS Naturals

CONSTANTS User, Item, Cipher, Req, MaxRevision, None

VARIABLES users, items, born, call

svars == <<users, items, born, call>>

NoItems == [i \in Item |-> None]

NoCall == [st |-> "idle", op |-> "none", user |-> None, item |-> None,
           cipher |-> None, revision |-> 0, status |-> "none", got |-> NoItems]

Visible(u, i) == items[i] # None /\ items[i].owner = u

Shown(row) == [cipher |-> row.cipher, revision |-> row.revision]

Init ==
    /\ users = User
    /\ items = NoItems
    /\ born = {}
    /\ call = [r \in Req |-> NoCall]

Invoke(r) ==
    /\ call[r].st = "idle"
    /\ \E op \in {"sync", "list", "create", "update", "delete"}, u \in User,
          i \in Item \cup {None}, c \in Cipher \cup {None}, n \in 0..MaxRevision :
          call' = [call EXCEPT ![r] = [st |-> "pending", op |-> op, user |-> u,
                      item |-> i, cipher |-> c, revision |-> n,
                      status |-> "none", got |-> NoItems]]
    /\ UNCHANGED <<users, items, born>>

Return(r, status, page) ==
    call' = [call EXCEPT ![r] = [st |-> "done", op |-> call[r].op,
                user |-> call[r].user, item |-> call[r].item,
                cipher |-> call[r].cipher, revision |-> call[r].revision,
                status |-> status, got |-> page]]

Pending(r, ops) == call[r].st = "pending" /\ call[r].op \in ops

Read(r) ==
    /\ Pending(r, {"sync", "list"})
    /\ Return(r, "ok", [i \in Item |-> IF Visible(call[r].user, i)
                                       THEN Shown(items[i]) ELSE None])
    /\ UNCHANGED <<users, items, born>>

ReadRefused(r) ==
    /\ Pending(r, {"sync"})
    /\ call[r].user \notin users
    /\ Return(r, "forbidden", NoItems)
    /\ UNCHANGED <<users, items, born>>

Create(r) ==
    /\ Pending(r, {"create"})
    /\ call[r].user \in users
    /\ \E i \in Item \ born :
          /\ items' = [items EXCEPT ![i] = [owner |-> call[r].user,
                                 cipher |-> call[r].cipher, revision |-> 1]]
          /\ born' = born \cup {i}
          /\ Return(r, "created", [NoItems EXCEPT ![i] = Shown(items'[i])])
    /\ UNCHANGED users

Swap(r) ==
    LET i == call[r].item IN
    /\ Pending(r, {"update"})
    /\ Visible(call[r].user, i)
    /\ items[i].revision = call[r].revision
    /\ items[i].revision < MaxRevision
    /\ items' = [items EXCEPT ![i] = [owner |-> items[i].owner,
                    cipher |-> call[r].cipher, revision |-> items[i].revision + 1]]
    /\ Return(r, "ok", [NoItems EXCEPT ![i] = Shown(items'[i])])
    /\ UNCHANGED <<users, born>>

SwapConflict(r) ==
    LET i == call[r].item IN
    /\ Pending(r, {"update"})
    /\ Visible(call[r].user, i)
    /\ items[i].revision # call[r].revision
    /\ Return(r, "conflict", NoItems)
    /\ UNCHANGED <<users, items, born>>

Remove(r) ==
    LET i == call[r].item IN
    /\ Pending(r, {"delete"})
    /\ Visible(call[r].user, i)
    /\ items' = [items EXCEPT ![i] = None]
    /\ Return(r, "noContent", NoItems)
    /\ UNCHANGED <<users, born>>

NotFound(r) ==
    /\ Pending(r, {"update", "delete"})
    /\ ~Visible(call[r].user, call[r].item)
    /\ Return(r, "notFound", NoItems)
    /\ UNCHANGED <<users, items, born>>

\* An internal error is always possible and has no effect.
Fail(r) ==
    /\ call[r].st = "pending"
    /\ Return(r, "error", NoItems)
    /\ UNCHANGED <<users, items, born>>

\* The caller takes the answer, or gives up.
Forget(r) ==
    /\ call[r].st # "idle"
    /\ call' = [call EXCEPT ![r] = NoCall]
    /\ UNCHANGED <<users, items, born>>

CloseAccount(u) ==
    /\ u \in users
    /\ users' = users \ {u}
    /\ items' = [i \in Item |-> IF Visible(u, i) THEN None ELSE items[i]]
    /\ UNCHANGED <<born, call>>

Next ==
    \/ \E r \in Req : \/ Invoke(r) \/ Read(r) \/ ReadRefused(r) \/ Create(r)
                      \/ Swap(r) \/ SwapConflict(r) \/ Remove(r) \/ NotFound(r)
                      \/ Fail(r) \/ Forget(r)
    \/ \E u \in User : CloseAccount(u)

Spec == Init /\ [][Next]_svars

=============================================================================
