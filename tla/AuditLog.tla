------------------------------ MODULE AuditLog ------------------------------
(***************************************************************************)
(* The audit log: handlers append an event after what they did, accounts   *)
(* are deleted, and clients page through the activity of their account.    *)
(*                                                                         *)
(* An event is stamped with the time its INSERT starts (NOW()) and visible *)
(* when it commits.  recordEvent ignores errors: it is the last thing a    *)
(* handler does and never changes the answer.                              *)
(***************************************************************************)
EXTENDS Integers, Sequences, FiniteSets

CONSTANTS User,
          Req,           \* handlers that are recording an event
          Reader,        \* clients that page through their activity
          Limits,        \* values of the limit parameter
          MaxLimit,      \* the largest limit auditLimit accepts (100)
          DefaultLimit,  \* what it puts in place of a larger one (50)
          MaxEvents,     \* bound on the events appended
          MaxTime,       \* bound on the clock
          None

ASSUME AuditAssumption ==
    /\ Limits \subseteq Nat \ {0}
    /\ MaxLimit \in Nat \ {0} /\ DefaultLimit \in 1..MaxLimit
    /\ MaxEvents \in Nat /\ MaxTime \in Nat
    /\ None \notin User \cup Int

VARIABLES users,     \* ids in the users table
          log,       \* audit_events in the order of their commits; ids are positions
          now,
          req,       \* per handler: the event it is recording, or None
          reader     \* per client: the pages so far

vars == <<users, log, now, req, reader>>

Kind  == {"user_delete", "other"}
Event == [user : User \cup {None}, kind : Kind, at : 0..MaxTime]

\* An event about to be appended; at is None until its INSERT has started.
Recording == [user : User \cup {None}, kind : Kind, at : (0..MaxTime) \cup {None}]

\* seen: events shown; cursor: next_cursor; cursors: all cursors used; mine: the
\* events of the account that were visible when the first page was asked for.
Pages == [pc : {"idle", "reading", "done"}, user : User \cup {None},
          limit : Limits \cup {None}, cursor : Nat \cup {None}, seen : Seq(Nat),
          cursors : SUBSET Nat, mine : SUBSET Nat]

Id == 1..Len(log)

\* The one type invariant.
TypeOK ==
    /\ users \in SUBSET User
    /\ log \in Seq(Event) /\ Len(log) <= MaxEvents
    /\ now \in 0..MaxTime
    /\ req \in [Req -> Recording \cup {None}]
    /\ reader \in [Reader -> Pages]
    /\ \A p \in Reader : reader[p].mine \cup reader[p].cursors \subseteq Id

Closed == [pc |-> "idle", user |-> None, limit |-> None, cursor |-> None,
           seen |-> <<>>, cursors |-> {}, mine |-> {}]

Init ==
    /\ users = User /\ log = <<>> /\ now = 0
    /\ req = [r \in Req |-> None]
    /\ reader = [p \in Reader |-> Closed]

(***************************************************************************)
(* Handlers.                                                               *)
(***************************************************************************)
\* A handler has done its work and calls recordEvent, with the account it worked
\* for or, after a registration, with none.
Act(r, u) ==
    /\ req[r] = None /\ u \in users \cup {None}
    /\ req' = [req EXCEPT ![r] = [user |-> u, kind |-> "other", at |-> None]]
    /\ UNCHANGED <<users, log, now, reader>>

MOrphaned(u) == SelectSeq(log, LAMBDA e : e.user # u)

\* ON DELETE SET NULL.
Orphaned(u) == [i \in Id |-> IF log[i].user = u THEN [log[i] EXCEPT !.user = None]
                                                ELSE log[i]]

\* DeleteUser: the row goes, then recordEvent is called with its id.
DeleteUser(r, u) ==
    /\ req[r] = None /\ u \in users
    /\ users' = users \ {u}
    /\ log' = Orphaned(u)
    /\ req' = [req EXCEPT ![r] = [user |-> u, kind |-> "user_delete", at |-> None]]
    /\ UNCHANGED <<now, reader>>

\* The INSERT starts.
Stamp(r) ==
    /\ req[r] # None /\ req[r].at = None
    /\ req' = [req EXCEPT ![r].at = now]
    /\ UNCHANGED <<users, log, now, reader>>

MAppendEvent(r) ==
    /\ req[r] # None
    /\ IF req[r].user \in users \cup {None}
       THEN Len(log) < MaxEvents /\ log' = Append(log, req[r])
       ELSE UNCHANGED log
    /\ req' = [req EXCEPT ![r] = None]
    /\ UNCHANGED <<users, now, reader>>

\* Append: the foreign key must hold, or the statement fails and nothing but
\* the server's own log says so.
AppendEvent(r) ==
    /\ req[r] # None /\ req[r].at # None
    /\ IF req[r].user \in users \cup {None}
       THEN Len(log) < MaxEvents /\ log' = Append(log, req[r])
       ELSE UNCHANGED log
    /\ req' = [req EXCEPT ![r] = None]
    /\ UNCHANGED <<users, now, reader>>

\* Any other error of the database, or the process goes away.
AppendFails(r) ==
    /\ req[r] # None
    /\ req' = [req EXCEPT ![r] = None]
    /\ UNCHANGED <<users, log, now, reader>>

Tick ==
    /\ now < MaxTime
    /\ now' = now + 1
    /\ UNCHANGED <<users, log, req, reader>>

(***************************************************************************)
(* GET /api/activity.                                                      *)
(***************************************************************************)
Owned(u) == {i \in Id : log[i].user = u}

\* auditLimit.
AuditLimit(limit) == IF limit > MaxLimit THEN DefaultLimit ELSE limit

MBefore(i, cursor) == cursor = None \/ log[i].at <= log[cursor].at

\* Strictly older than the event the cursor names.
Before(i, cursor) == cursor = None \/ log[i].at < log[cursor].at

\* The answers ListAuditEventsByUser may give: newest first, at most n, events
\* of the same time in any order.
Newest(rows, n) ==
    LET len == IF Cardinality(rows) < n THEN Cardinality(rows) ELSE n IN
    {s \in [1..len -> rows] :
        /\ \A j, k \in 1..len : j < k => s[j] # s[k] /\ log[s[j]].at >= log[s[k]].at
        /\ \A i \in rows : len > 0 =>
              (\E j \in 1..len : s[j] = i) \/ log[i].at <= log[s[len]].at}

MListByUser(u, cursor, limit) ==
    Newest({i \in Owned(u) : Before(i, cursor)}, AuditLimit(limit))

\* One row more than the limit, to know whether there are more.
ListByUser(u, cursor, limit) ==
    Newest({i \in Owned(u) : Before(i, cursor)}, AuditLimit(limit) + 1)

Open(p, u, limit) ==
    /\ reader[p].pc = "idle" /\ u \in users
    /\ reader' = [reader EXCEPT ![p] = [Closed EXCEPT !.pc = "reading",
                    !.user = u, !.limit = limit, !.mine = Owned(u)]]
    /\ UNCHANGED <<users, log, now, req>>

\* GetActivity: rows beyond the limit are cut off, and their presence is what
\* makes the answer carry a cursor; the client follows it.
GetActivity(p) ==
    LET c == reader[p] IN
    /\ c.pc = "reading" /\ c.user \in users
    /\ \E rows \in ListByUser(c.user, c.cursor, c.limit) :
         LET hasMore == Len(rows) > c.limit
             events  == IF hasMore THEN SubSeq(rows, 1, c.limit) ELSE rows
             last    == events[Len(events)]
         IN reader' = [reader EXCEPT ![p] =
              [c EXCEPT !.seen = c.seen \o events,
                        !.cursor = IF hasMore THEN last ELSE None,
                        !.cursors = IF hasMore THEN c.cursors \cup {last} ELSE c.cursors,
                        !.pc = IF hasMore THEN "reading" ELSE "done"]]
    /\ UNCHANGED <<users, log, now, req>>

\* The client leaves the view, or its account is gone.
Close(p) ==
    /\ reader[p].pc # "idle"
    /\ reader' = [reader EXCEPT ![p] = Closed]
    /\ UNCHANGED <<users, log, now, req>>

Handler(r) ==
    \/ Stamp(r) \/ AppendEvent(r) \/ AppendFails(r)
    \/ \E u \in User : DeleteUser(r, u)
    \/ \E u \in User \cup {None} : Act(r, u)

Client(p) ==
    \/ GetActivity(p) \/ Close(p)
    \/ \E u \in User, limit \in Limits : Open(p, u, limit)

Next == Tick \/ (\E r \in Req : Handler(r)) \/ (\E p \in Reader : Client(p))

Spec == Init /\ [][Next]_vars

(***************************************************************************)
(* Properties.                                                             *)
(***************************************************************************)
\* The audit log is append-only: an event that was committed stays, with its
\* kind and time, whatever is deleted; only the account it names is forgotten
\* with the account (ON DELETE SET NULL).
AppendOnly ==
    [][/\ Len(log') >= Len(log)
       /\ \A i \in Id : /\ log'[i].kind = log[i].kind /\ log'[i].at = log[i].at
                        /\ log'[i].user \in {log[i].user, None}]_vars

Shown(p) == {reader[p].seen[k] : k \in 1..Len(reader[p].seen)}

\* However many events are appended while a client reads, its pages show events
\* of its own account only, none of them twice, newest first across pages
\* (the cursor condition of listAuditEventsByUser).
PagesGenuine ==
    \A p \in Reader : LET c == reader[p] IN
        /\ \A k \in 1..Len(c.seen) :
              log[c.seen[k]].user = IF c.user \in users THEN c.user ELSE None
        /\ \A j, k \in 1..Len(c.seen) :
              j < k => c.seen[j] # c.seen[k] /\ log[c.seen[j]].at >= log[c.seen[k]].at

\* Following the cursors to the end shows every event that was there when the
\* client began, except events stamped in the same instant as the last event
\* of a page.  A client that asks for more than auditLimit accepts is excepted:
\* the default takes the place of its limit, and hasMore does not know.
PagesComplete ==
    \A p \in Reader : reader[p].pc = "done" /\ reader[p].limit <= MaxLimit =>
        \A i \in reader[p].mine :
            i \in Shown(p) \/ \E c \in reader[p].cursors : log[i].at = log[c].at

=============================================================================
