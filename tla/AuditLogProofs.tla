--------------------------- MODULE AuditLogProofs ---------------------------
(***************************************************************************)
(* The audit log only grows, and paging through it shows the right events, *)
(* for any number of accounts, handlers, readers, events and page sizes.   *)
(*                                                                         *)
(* The inductive invariant speaks of one reader at a time.  Its cursor is  *)
(* the last event it was shown, which is the oldest one, so the events     *)
(* strictly older than the cursor are all new to it.  What is left of the  *)
(* events that were there when it began is older than the cursor, or was   *)
(* stamped in the instant of some cursor.                                  *)
(***************************************************************************)
EXTENDS AuditLog, FunctionTheorems, FiniteSetTheorems, SequenceTheorems, TLAPS

\* The events shown exist, are of the reader's account while there is one, and
\* are in order.
Genuine(c) ==
    /\ \A k \in 1..Len(c.seen) :
          /\ c.seen[k] \in Id
          /\ log[c.seen[k]].user = IF c.user \in users THEN c.user ELSE None
    /\ \A j, k \in 1..Len(c.seen) :
          j < k => c.seen[j] # c.seen[k] /\ log[c.seen[j]].at >= log[c.seen[k]].at

\* A reader asks for what is older than the last event it was shown.
AtCursor(c) ==
    /\ c.pc = "idle" => c.seen = <<>> /\ c.mine = {}
    /\ c.pc # "idle" => c.user \in User /\ c.limit \in Limits
    /\ c.pc = "reading" /\ c.cursor = None => c.seen = <<>>
    /\ c.pc = "reading" /\ c.cursor # None =>
          c.cursor \in Id /\ Len(c.seen) > 0 /\ c.cursor = c.seen[Len(c.seen)]

Tracked(c) ==
    /\ c.mine \subseteq Id /\ c.cursors \subseteq Id
    /\ \A i \in c.mine : c.user \in users => log[i].user = c.user

ReaderOK(c) == Genuine(c) /\ AtCursor(c) /\ Tracked(c)

IInv == TypeOK /\ \A p \in Reader : ReaderOK(reader[p])

ShownBy(c) == {c.seen[k] : k \in 1..Len(c.seen)}

\* An event was stamped in the instant of one of the cursors.
Tied(c, i) == \E d \in c.cursors : log[i].at = log[d].at

\* Nothing is lost: what a reader has not been shown is still ahead of it, if its
\* limit is one that auditLimit accepts.
NothingLost(c) ==
    \A i \in c.mine : c.limit <= MaxLimit =>
        \/ i \in ShownBy(c)
        \/ Tied(c, i)
        \/ c.pc = "reading" /\ Before(i, c.cursor)

CInv == IInv /\ \A p \in Reader : NothingLost(reader[p])

(***************************************************************************)
(* What a step may do to the log and to the accounts.                      *)
(***************************************************************************)

\* An event that was committed stays; the account it names may be forgotten.
Kept == /\ Len(log') >= Len(log)
        /\ \A i \in Id : /\ log'[i].kind = log[i].kind /\ log'[i].at = log[i].at
                         /\ log'[i].user \in {log[i].user, None}

\* An account goes with its name on every event, and no other name goes.
Forgets == /\ users' \subseteq users
           /\ \A u \in User \cup {None} : \A i \in Id :
                  log[i].user = (IF u \in users THEN u ELSE None)
                  => log'[i].user = (IF u \in users' THEN u ELSE None)

\* The database part of the type invariant.
LogType == /\ users \in SUBSET User
           /\ log \in Seq(Event) /\ Len(log) <= MaxEvents
           /\ now \in 0..MaxTime
           /\ req \in [Req -> Recording \cup {None}]

\* An event being recorded is a record, None is not, and a stamped one is an event.
LEMMA RecordingIsEvent ==
    ASSUME NEW e \in Recording, e.at # None PROVE e \in Event
  BY DEF Recording, Event

\* ON DELETE SET NULL on audit_events.user_id.
LEMMA OrphanedLog ==
    ASSUME log \in Seq(Event), NEW u \in User
    PROVE  /\ Orphaned(u) \in Seq(Event) /\ Len(Orphaned(u)) = Len(log)
           /\ \A i \in Id : /\ Orphaned(u)[i].kind = log[i].kind
                            /\ Orphaned(u)[i].at = log[i].at
                            /\ Orphaned(u)[i].user = IF log[i].user = u THEN None
                                                     ELSE log[i].user
  <1> DEFINE e(i) == IF log[i].user = u THEN [log[i] EXCEPT !.user = None] ELSE log[i]
  <1>1. Len(log) \in Nat /\ \A i \in Id : log[i] \in Event
    BY LenProperties, ElementOfSeq DEF Id
  <1>2. \A i \in Id : /\ e(i) \in Event /\ e(i).kind = log[i].kind /\ e(i).at = log[i].at
                      /\ e(i).user = IF log[i].user = u THEN None ELSE log[i].user
    BY <1>1 DEF Event
  <1>3. Orphaned(u) = [i \in 1..Len(log) |-> e(i)]
    BY DEF Orphaned, Id
  <1> HIDE DEF e
  <1>4. Orphaned(u) \in Seq(Event) /\ Len(Orphaned(u)) = Len(log)
    BY <1>1, <1>2, <1>3 DEF Id
  <1>5. \A i \in Id : Orphaned(u)[i] = e(i)
    BY <1>3 DEF Id
  <1> QED
    BY <1>2, <1>4, <1>5

\* Every step keeps the log and the type of the database part.
LEMMA LogStep ==
    ASSUME TypeOK, [Next]_vars
    PROVE  LogType' /\ Kept /\ Forgets
  <1>0. LogType /\ Len(log) \in Nat /\ \A i \in Id : log[i] \in Event
    BY LenProperties, ElementOfSeq DEF TypeOK, LogType, Id
  <1>1. ASSUME UNCHANGED <<users, log>>, now' \in 0..MaxTime,
               req' \in [Req -> Recording \cup {None}]
        PROVE  LogType' /\ Kept /\ Forgets
    BY <1>0, <1>1 DEF LogType, Kept, Forgets
  <1>2. CASE UNCHANGED vars
    BY <1>0, <1>1, <1>2 DEF vars, LogType
  <1>3. CASE Tick
    BY <1>0, <1>1, <1>3, AuditAssumption DEF Tick, LogType
  <1>4. ASSUME NEW p \in Reader, Client(p) PROVE LogType' /\ Kept /\ Forgets
    BY <1>0, <1>1, <1>4 DEF Client, GetActivity, Close, Open, LogType
  <1>5. ASSUME NEW r \in Req, Handler(r) PROVE LogType' /\ Kept /\ Forgets
    <2>1. CASE Stamp(r)
      <3>1. req[r] \in Recording
        BY <1>0, <2>1 DEF Stamp, LogType
      <3>2. [req[r] EXCEPT !.at = now] \in Recording
        BY <1>0, <3>1 DEF Recording, LogType
      <3>3. req' = [req EXCEPT ![r] = [req[r] EXCEPT !.at = now]]
        BY <2>1 DEF Stamp
      <3> QED
        BY <1>0, <1>1, <2>1, <3>2, <3>3 DEF Stamp, LogType
    <2>2. CASE AppendEvent(r)
      <3>1. /\ UNCHANGED <<users, now>> /\ req' = [req EXCEPT ![r] = None]
            /\ req[r] # None /\ req[r].at # None
        BY <2>2 DEF AppendEvent
      <3>2. req' \in [Req -> Recording \cup {None}] /\ req[r] \in Event
        BY <1>0, <3>1, RecordingIsEvent DEF LogType
      <3>3. CASE UNCHANGED log
        BY <1>0, <1>1, <3>1, <3>2, <3>3 DEF LogType
      <3>4. CASE Len(log) < MaxEvents /\ log' = Append(log, req[r])
        <4>1. /\ log' \in Seq(Event) /\ Len(log') = Len(log) + 1
              /\ \A i \in Id : log'[i] = log[i]
          BY <1>0, <3>2, <3>4 DEF LogType, Id
        <4>2. LogType'
          BY <1>0, <3>1, <3>2, <3>4, <4>1, AuditAssumption DEF LogType
        <4>3. Kept /\ Forgets
          BY <1>0, <3>1, <4>1 DEF Kept, Forgets
        <4> QED
          BY <4>2, <4>3
      <3> QED
        BY <2>2, <3>3, <3>4 DEF AppendEvent
    <2>3. CASE AppendFails(r)
      BY <1>0, <1>1, <2>3 DEF AppendFails, LogType
    <2>4. ASSUME NEW u \in User, DeleteUser(r, u) PROVE LogType' /\ Kept /\ Forgets
      <3>1. /\ users' = users \ {u} /\ log' = Orphaned(u) /\ UNCHANGED now
            /\ req' = [req EXCEPT ![r] = [user |-> u, kind |-> "user_delete", at |-> None]]
            /\ u \in users
        BY <2>4 DEF DeleteUser
      <3>2. /\ log' \in Seq(Event) /\ Len(log') = Len(log)
            /\ \A i \in Id : /\ log'[i].kind = log[i].kind
                             /\ log'[i].at = log[i].at
                             /\ log'[i].user = IF log[i].user = u THEN None ELSE log[i].user
        BY <1>0, <3>1, OrphanedLog DEF LogType
      <3>3. [user |-> u, kind |-> "user_delete", at |-> None] \in Recording
        BY DEF Recording, Kind
      <3>4. LogType'
        BY <1>0, <3>1, <3>2, <3>3 DEF LogType
      <3>5. Kept
        BY <1>0, <3>2 DEF Kept
      <3>6. Forgets
        BY <3>1, <3>2, AuditAssumption DEF Forgets
      <3> QED
        BY <3>4, <3>5, <3>6
    <2>5. ASSUME NEW u \in User \cup {None}, Act(r, u) PROVE LogType' /\ Kept /\ Forgets
      <3>1. [user |-> u, kind |-> "other", at |-> None] \in Recording
        BY DEF Recording, Kind
      <3> QED
        BY <1>0, <1>1, <2>5, <3>1 DEF Act, LogType
    <2> QED
      BY <1>5, <2>1, <2>2, <2>3, <2>4, <2>5 DEF Handler
  <1> QED
    BY <1>2, <1>3, <1>4, <1>5 DEF Next

(***************************************************************************)
(* The query.                                                              *)
(***************************************************************************)

\* Rows of a set, newest first and none twice.
Sorted(R, s) ==
    /\ s \in Seq(Nat)
    /\ \A j \in 1..Len(s) : s[j] \in R
    /\ \A j, k \in 1..Len(s) : j < k => s[j] # s[k] /\ log[s[j]].at >= log[s[k]].at

\* All of them.
Whole(R, s) == \A i \in R : \E j \in 1..Len(s) : s[j] = i

\* Those left out are no newer than the last one.
NewestOf(R, s) ==
    Len(s) > 0 => \A i \in R : \/ \E j \in 1..Len(s) : s[j] = i
                               \/ log[i].at <= log[s[Len(s)]].at

\* What an answer of ListAuditEventsByUser is: the newest rows of the set asked
\* for, as many as fit, and none is left out of an answer that is not full.
LEMMA NewestRows ==
    ASSUME log \in Seq(Event), NEW rows \in SUBSET Id, NEW n \in Nat,
           NEW s \in Newest(rows, n)
    PROVE  /\ Sorted(rows, s) /\ NewestOf(rows, s)
           /\ Len(s) <= n /\ (Len(s) < n => Whole(rows, s))
  <1>1. Len(log) \in Nat /\ Id \subseteq Nat
    BY LenProperties DEF Id
  <1>2. IsFiniteSet(Id)
    BY <1>1, FS_Interval DEF Id
  <1>3. IsFiniteSet(rows)
    BY <1>2, FS_Subset
  <1>4. PICK size \in Nat : size = Cardinality(rows)
    BY <1>3, FS_CardinalityType
  <1>5. PICK len \in Nat : len = (IF size < n THEN size ELSE n) /\ len <= n
    OBVIOUS
  <1>6. /\ s \in [1..len -> rows]
        /\ \A j, k \in 1..len : j < k => s[j] # s[k] /\ log[s[j]].at >= log[s[k]].at
        /\ \A i \in rows : len > 0 =>
              (\E j \in 1..len : s[j] = i) \/ log[i].at <= log[s[len]].at
    BY <1>4, <1>5 DEF Newest
  <1>7. s \in Seq(Nat) /\ Len(s) = len
    BY <1>1, <1>5, <1>6
  <1>8. ASSUME len < n PROVE \A i \in rows : \E j \in 1..len : s[j] = i
    <2>1. len = Cardinality(rows)
      BY <1>4, <1>5, <1>8
    <2>2. \A j, k \in 1..len : s[j] = s[k] => j = k
      BY <1>5, <1>6
    <2>3. s \in Injection(1..len, rows)
      BY <1>6, <2>2, Fun_IsInj
    <2>4. IsFiniteSet(1..len) /\ Cardinality(1..len) = len
      <3>1. 1 \in Int /\ len \in Int
        OBVIOUS
      <3>2. /\ IsFiniteSet(1..len)
            /\ Cardinality(1..len) = IF 1 > len THEN 0 ELSE len - 1 + 1
        BY <3>1, FS_Interval, Zenon
      <3> QED
        BY <3>2
    <2>5. s \in Surjection(1..len, rows)
      BY <1>3, <2>1, <2>3, <2>4, FS_Injection
    <2> QED
      BY <2>5 DEF Surjection
  <1>9. Sorted(rows, s)
    BY <1>6, <1>7 DEF Sorted
  <1>10. NewestOf(rows, s)
    BY <1>6, <1>7 DEF NewestOf
  <1> QED
    BY <1>5, <1>7, <1>8, <1>9, <1>10 DEF Whole

\* Cutting the answer to the first m rows keeps them the newest.
LEMMA CutRows ==
    ASSUME log \in Seq(Event), NEW R \in SUBSET Id, NEW s, Sorted(R, s), NewestOf(R, s),
           NEW m \in Nat, m > 0, m < Len(s)
    PROVE  LET page == SubSeq(s, 1, m) IN
           Sorted(R, page) /\ NewestOf(R, page) /\ Len(page) = m
  <1>1. s \in Seq(Nat) /\ Len(s) \in Nat
    BY LenProperties DEF Sorted
  <1>2. \A i \in Id : log[i].at \in Int
    <2>1. \A i \in Id : log[i] \in Event
      BY ElementOfSeq DEF Id
    <2> QED
      BY <2>1 DEF Event
  <1>3. \A j \in 1..m : s[j] \in Nat
    BY <1>1, ElementOfSeq
  <1>4. PICK page \in Seq(Nat) : /\ page = SubSeq(s, 1, m) /\ Len(page) = m
                                 /\ \A j \in 1..m : page[j] = s[j]
    <2>1. /\ SubSeq(s, 1, m) \in Seq(Nat) /\ Len(SubSeq(s, 1, m)) = m
          /\ \A j \in 1..m : SubSeq(s, 1, m)[j] = s[j]
      BY <1>3, SubSeqProperties
    <2> QED
      BY <2>1, Zenon
  <1>5. Sorted(R, page)
    <2>1. \A j \in 1..m : j \in 1..Len(s)
      BY <1>1
    <2>2. \A j \in 1..m : page[j] \in R
      BY <1>4, <2>1, Zenon DEF Sorted
    <2>3. \A j, k \in 1..m : j < k => page[j] # page[k] /\ log[page[j]].at >= log[page[k]].at
      <3> TAKE j, k \in 1..m
      <3>1. page[j] = s[j] /\ page[k] = s[k] /\ j \in 1..Len(s) /\ k \in 1..Len(s)
        BY <1>4, <2>1
      <3> QED
        BY <3>1, Zenon DEF Sorted
    <2> QED
      BY <1>4, <2>2, <2>3, Zenon DEF Sorted
  <1>6. ASSUME NEW i \in R
        PROVE  (\E j \in 1..m : page[j] = i) \/ log[i].at <= log[page[m]].at
    <2>0. Len(s) \in 1..Len(s) /\ m \in 1..Len(s)
      BY <1>1
    <2>1. s[Len(s)] \in Id /\ s[m] \in Id /\ i \in Id
      BY <2>0, Zenon DEF Sorted
    <2>2. log[s[m]].at >= log[s[Len(s)]].at
      BY <2>0, Zenon DEF Sorted
    <2>3. ASSUME NEW j \in 1..Len(s), s[j] = i
          PROVE  (\E k \in 1..m : s[k] = i) \/ log[i].at <= log[s[m]].at
      <3>1. CASE j <= m
        BY <2>3, <3>1
      <3>2. CASE m < j
        <4>1. log[s[m]].at >= log[s[j]].at
          BY <2>0, <2>3, <3>2, Zenon DEF Sorted
        <4>2. log[s[m]].at \in Int /\ log[i].at \in Int
          BY <1>2, <2>1
        <4> QED
          BY <2>3, <4>1, <4>2
      <3> QED
        BY <3>1, <3>2
    <2>4. log[i].at <= log[s[Len(s)]].at => log[i].at <= log[s[m]].at
      <3>1. log[i].at \in Int /\ log[s[m]].at \in Int /\ log[s[Len(s)]].at \in Int
        BY <1>2, <2>1
      <3> QED
        BY <2>2, <3>1
    <2>5. (\E k \in 1..m : s[k] = i) \/ log[i].at <= log[s[m]].at
      BY <1>1, <2>3, <2>4 DEF NewestOf
    <2> QED
      BY <1>4, <2>5
  <1>7. NewestOf(R, page)
    BY <1>4, <1>6 DEF NewestOf
  <1> QED
    BY <1>4, <1>5, <1>7

\* The rows a page is taken from.
Rows(c) == {i \in Owned(c.user) : Before(i, c.cursor)}

\* GetActivity answers with the newest rows.  When the limit is one auditLimit
\* accepts, nothing is left out of the last page.
LEMMA PageOfRows ==
    ASSUME log \in Seq(Event), NEW c \in Pages, c.limit \in Limits,
           NEW rows \in ListByUser(c.user, c.cursor, c.limit)
    PROVE  LET hasMore == Len(rows) > c.limit
               events  == IF hasMore THEN SubSeq(rows, 1, c.limit) ELSE rows
           IN  /\ Sorted(Rows(c), events)
               /\ hasMore => Len(events) > 0 /\ NewestOf(Rows(c), events)
               /\ ~hasMore /\ c.limit <= MaxLimit => Whole(Rows(c), events)
  <1>1. \A l \in Limits : l \in Nat /\ l > 0
    BY AuditAssumption
  <1>2. PICK m \in Nat : m = c.limit /\ m > 0
    BY <1>1
  <1>3. PICK n \in Nat : n = AuditLimit(m) + 1 /\ (m <= MaxLimit => n = m + 1)
    BY <1>2, AuditAssumption DEF AuditLimit
  <1>4. Rows(c) \in SUBSET Id
    BY DEF Rows, Owned
  <1>5. rows \in Newest(Rows(c), n)
    BY <1>2, <1>3 DEF ListByUser, Rows
  <1>6. /\ Sorted(Rows(c), rows) /\ NewestOf(Rows(c), rows)
        /\ Len(rows) <= n /\ (Len(rows) < n => Whole(Rows(c), rows))
    BY <1>4, <1>5, NewestRows
  <1>7. Len(rows) \in Nat
    BY <1>6, LenProperties DEF Sorted
  <1>8. CASE Len(rows) > m
    <2>1. /\ Sorted(Rows(c), SubSeq(rows, 1, m)) /\ NewestOf(Rows(c), SubSeq(rows, 1, m))
          /\ Len(SubSeq(rows, 1, m)) = m
      BY <1>2, <1>4, <1>6, <1>7, <1>8, CutRows
    <2> QED
      BY <1>2, <1>8, <2>1
  <1>9. CASE ~(Len(rows) > m)
    <2>1. m <= MaxLimit => Whole(Rows(c), rows)
      BY <1>3, <1>6, <1>7, <1>9
    <2> QED
      BY <1>2, <1>6, <1>9, <2>1
  <1> QED
    BY <1>8, <1>9

(***************************************************************************)
(* The readers.                                                            *)
(***************************************************************************)

\* A reader that does not move keeps what it knows, whatever is appended and
\* whoever is deleted meanwhile.
LEMMA ReaderKept ==
    ASSUME IInv, LogType', Kept, Forgets, NEW p \in Reader, reader'[p] = reader[p]
    PROVE  ReaderOK(reader[p])' /\ (NothingLost(reader[p]) => NothingLost(reader[p])')
  <1> DEFINE c == reader[p]
  <1>1. c \in Pages /\ c.user \in User \cup {None} /\ ReaderOK(c)
    BY DEF IInv, TypeOK, Pages
  <1>2. Len(log) \in Nat /\ Len(log') \in Nat /\ \A i \in Id : i \in Id'
    BY LenProperties DEF IInv, TypeOK, LogType, Kept, Id
  <1>3. \A i \in Id : log'[i].at = log[i].at
    BY DEF Kept
  <1>4. Genuine(reader[p])'
    <2>1. ASSUME NEW k \in 1..Len(c.seen)
          PROVE  /\ c.seen[k] \in Id'
                 /\ log'[c.seen[k]].user = IF c.user \in users' THEN c.user ELSE None
      <3>1. /\ c.seen[k] \in Id
            /\ log[c.seen[k]].user = IF c.user \in users THEN c.user ELSE None
        BY <1>1 DEF ReaderOK, Genuine
      <3> QED
        BY <1>1, <1>2, <3>1, Zenon DEF Forgets
    <2>2. ASSUME NEW j \in 1..Len(c.seen), NEW k \in 1..Len(c.seen), j < k
          PROVE  c.seen[j] # c.seen[k] /\ log'[c.seen[j]].at >= log'[c.seen[k]].at
      <3>1. /\ c.seen[j] \in Id /\ c.seen[k] \in Id
            /\ c.seen[j] # c.seen[k] /\ log[c.seen[j]].at >= log[c.seen[k]].at
        BY <1>1, <2>2 DEF ReaderOK, Genuine
      <3> QED
        BY <1>3, <3>1
    <2> QED
      BY <2>1, <2>2 DEF Genuine
  <1>5. AtCursor(reader[p])'
    BY <1>1, <1>2 DEF ReaderOK, AtCursor
  <1>6. Tracked(reader[p])'
    <2>1. c.mine \subseteq Id' /\ c.cursors \subseteq Id'
      BY <1>1, <1>2 DEF ReaderOK, Tracked
    <2>2. ASSUME NEW i \in c.mine, c.user \in users' PROVE log'[i].user = c.user
      <3>1. i \in Id /\ c.user \in users /\ log[i].user = c.user
        BY <1>1, <2>2 DEF ReaderOK, Tracked, Forgets
      <3> QED
        BY <1>1, <2>2, <3>1, Zenon DEF Forgets
    <2> QED
      BY <2>1, <2>2 DEF Tracked
  <1>7. ASSUME NothingLost(reader[p]) PROVE NothingLost(reader[p])'
    <2>1. \A i \in c.mine : i \in Id
      BY <1>1 DEF ReaderOK, Tracked
    <2>2. \A d \in c.cursors : d \in Id
      BY <1>1 DEF ReaderOK, Tracked
    <2>3. \A i \in c.mine : Tied(c, i) => \E d \in c.cursors : log'[i].at = log'[d].at
      BY <1>3, <2>1, <2>2 DEF Tied
    <2>4. \A i \in c.mine : c.pc = "reading" /\ Before(i, c.cursor) =>
             c.cursor = None \/ log'[i].at < log'[c.cursor].at
      BY <1>1, <1>3, <2>1 DEF Before, ReaderOK, AtCursor
    <2> QED
      BY <1>7, <2>3, <2>4 DEF NothingLost, ShownBy, Tied, Before
  <1> QED
    BY <1>4, <1>5, <1>6, <1>7 DEF ReaderOK

\* A client that asks for a page moves alone.
LEMMA ReaderMoved ==
    ASSUME IInv, UNCHANGED <<users, log, now, req>>, NEW p \in Reader,
           NEW c \in Pages, ReaderOK(c), reader' = [reader EXCEPT ![p] = c]
    PROVE  /\ IInv'
           /\ NothingLost(c) /\ (\A q \in Reader : NothingLost(reader[q]))
              => (\A q \in Reader : NothingLost(reader[q]))'
  <1>1. /\ reader' \in [Reader -> Pages]
        /\ \A q \in Reader : reader'[q] = IF q = p THEN c ELSE reader[q]
    BY DEF IInv, TypeOK
  <1>2. \A q \in Reader : ReaderOK(reader[q])'
    <2>1. \A d : ReaderOK(d)' <=> ReaderOK(d)
      BY DEF ReaderOK, Genuine, AtCursor, Tracked, Id
    <2>2. \A q \in Reader : ReaderOK(reader'[q])
      BY <1>1 DEF IInv
    <2> QED
      BY <2>1, <2>2
  <1>3. TypeOK'
    BY <1>1, <1>2 DEF IInv, TypeOK, ReaderOK, Tracked, Id
  <1>4. ASSUME NothingLost(c), \A q \in Reader : NothingLost(reader[q])
        PROVE  (\A q \in Reader : NothingLost(reader[q]))'
    BY <1>1, <1>4 DEF NothingLost, ShownBy, Tied, Before
  <1> QED
    BY <1>2, <1>3, <1>4 DEF IInv

\* Steps of the handlers.
LEMMA ReadersKept ==
    ASSUME IInv, [Next]_vars, UNCHANGED reader
    PROVE  /\ IInv'
           /\ (\A q \in Reader : NothingLost(reader[q]))
              => (\A q \in Reader : NothingLost(reader[q]))'
  <1>1. LogType' /\ Kept /\ Forgets
    BY LogStep DEF IInv
  <1>2. \A q \in Reader : /\ ReaderOK(reader[q])'
                          /\ NothingLost(reader[q]) => NothingLost(reader[q])'
    BY <1>1, ReaderKept
  <1>3. \A q \in Reader : reader'[q].mine \cup reader'[q].cursors \subseteq Id'
    BY <1>2 DEF ReaderOK, Tracked
  <1>4. TypeOK'
    BY <1>1, <1>3 DEF IInv, TypeOK, LogType
  <1> QED
    BY <1>2, <1>4 DEF IInv

\* A reader that has not begun, or has left.
LEMMA ClosedOK == ASSUME IInv PROVE Closed \in Pages /\ ReaderOK(Closed) /\ NothingLost(Closed)
  <1>1. Closed \in Pages
    BY DEF Closed, Pages
  <1>2. Closed.seen = <<>> /\ Closed.mine = {} /\ Closed.cursors = {} /\ Closed.pc = "idle"
    BY DEF Closed
  <1>3. Len(<<>>) = 0
    OBVIOUS
  <1> QED
    BY <1>1, <1>2, <1>3 DEF ReaderOK, Genuine, AtCursor, Tracked, NothingLost

\* The record of a client after a page, as GetActivity leaves it.
Turned(c, d, events, hasMore) ==
    /\ d.seen = c.seen \o events
    /\ d.cursor = IF hasMore THEN events[Len(events)] ELSE None
    /\ d.cursors = IF hasMore THEN c.cursors \cup {events[Len(events)]} ELSE c.cursors
    /\ d.pc = IF hasMore THEN "reading" ELSE "done"
    /\ d.user = c.user /\ d.limit = c.limit /\ d.mine = c.mine

\* What is shown after a page is what was shown before, and the page.
LEMMA ShownAfter ==
    ASSUME NEW a \in Seq(Nat), NEW b \in Seq(Nat)
    PROVE  /\ a \o b \in Seq(Nat) /\ Len(a \o b) = Len(a) + Len(b)
           /\ Len(a) \in Nat /\ Len(b) \in Nat
           /\ \A k \in 1..Len(a) : k \in 1..Len(a \o b) /\ (a \o b)[k] = a[k]
           /\ \A k \in 1..Len(b) : Len(a) + k \in 1..Len(a \o b) /\ (a \o b)[Len(a) + k] = b[k]
           /\ \A k \in 1..Len(a \o b) :
                 \/ k \in 1..Len(a)
                 \/ k > Len(a) /\ k - Len(a) \in 1..Len(b) /\ (a \o b)[k] = b[k - Len(a)]
  <1>1. Len(a) \in Nat /\ Len(b) \in Nat
    BY LenProperties
  <1>2. a \o b \in Seq(Nat) /\ Len(a \o b) = Len(a) + Len(b)
    BY ConcatProperties
  <1>3. \A k \in 1..Len(a) + Len(b) : (a \o b)[k] = IF k <= Len(a) THEN a[k] ELSE b[k - Len(a)]
    BY ConcatProperties
  <1>4. ASSUME NEW k \in 1..Len(b)
        PROVE  Len(a) + k \in 1..Len(a \o b) /\ (a \o b)[Len(a) + k] = b[k]
    <2>1. /\ Len(a) + k \in 1..Len(a) + Len(b) /\ ~(Len(a) + k <= Len(a))
          /\ Len(a) + k - Len(a) = k
      BY <1>1
    <2> QED
      BY <1>2, <1>3, <2>1
  <1>5. ASSUME NEW k \in 1..Len(a)
        PROVE  k \in 1..Len(a \o b) /\ (a \o b)[k] = a[k]
    BY <1>1, <1>2, <1>3
  <1>6. ASSUME NEW k \in 1..Len(a \o b)
        PROVE  \/ k \in 1..Len(a)
               \/ k > Len(a) /\ k - Len(a) \in 1..Len(b) /\ (a \o b)[k] = b[k - Len(a)]
    BY <1>1, <1>2, <1>3
  <1> QED
    BY <1>1, <1>2, <1>4, <1>5, <1>6

\* A page older than the cursor continues the pages before it.
LEMMA NextPage ==
    ASSUME IInv, NEW p \in Reader, reader[p].pc = "reading", reader[p].user \in users,
           NEW hasMore \in BOOLEAN, NEW events, Sorted(Rows(reader[p]), events),
           hasMore => Len(events) > 0 /\ NewestOf(Rows(reader[p]), events),
           NEW d \in Pages, Turned(reader[p], d, events, hasMore)
    PROVE  /\ ReaderOK(d)
           /\ NothingLost(reader[p]) /\ (~hasMore => Whole(Rows(reader[p]), events))
              => NothingLost(d)
  <1> DEFINE c == reader[p]
  <1>1. c \in Pages /\ c.seen \in Seq(Nat) /\ ReaderOK(c) /\ events \in Seq(Nat)
    BY DEF IInv, TypeOK, Pages, Sorted
  <1>2. /\ d.seen = c.seen \o events /\ d.user = c.user /\ d.limit = c.limit /\ d.mine = c.mine
    BY DEF Turned
  <1>3. /\ Len(d.seen) = Len(c.seen) + Len(events)
        /\ Len(c.seen) \in Nat /\ Len(events) \in Nat
        /\ \A k \in 1..Len(c.seen) : k \in 1..Len(d.seen) /\ d.seen[k] = c.seen[k]
        /\ \A k \in 1..Len(events) :
              Len(c.seen) + k \in 1..Len(d.seen) /\ d.seen[Len(c.seen) + k] = events[k]
        /\ \A k \in 1..Len(d.seen) :
              \/ k \in 1..Len(c.seen)
              \/ /\ k > Len(c.seen) /\ k - Len(c.seen) \in 1..Len(events)
                 /\ d.seen[k] = events[k - Len(c.seen)]
    BY <1>1, <1>2, ShownAfter
  <1>4. \A k \in 1..Len(events) : /\ events[k] \in Id /\ log[events[k]].user = c.user
                                  /\ Before(events[k], c.cursor)
    BY DEF Sorted, Rows, Owned
  <1>5. \A i \in Id : log[i].at \in Int
    <2>1. \A i \in Id : log[i] \in Event
      BY ElementOfSeq DEF IInv, TypeOK, Id
    <2> QED
      BY <2>1 DEF Event
  <1>6. ASSUME NEW j \in 1..Len(c.seen), NEW k \in 1..Len(events)
        PROVE  c.seen[j] # events[k] /\ log[c.seen[j]].at >= log[events[k]].at
    <2>1. Len(c.seen) > 0 /\ Len(c.seen) \in 1..Len(c.seen)
      BY <1>3
    <2>2. c.cursor # None /\ c.cursor \in Id /\ c.cursor = c.seen[Len(c.seen)]
      BY <1>1, <2>1 DEF ReaderOK, AtCursor
    <2>3. log[events[k]].at < log[c.cursor].at
      BY <1>4, <2>2 DEF Before
    <2>4. c.seen[j] \in Id /\ events[k] \in Id
      BY <1>1, <1>4 DEF ReaderOK, Genuine
    <2>5. log[c.seen[j]].at \in Int /\ log[events[k]].at \in Int /\ log[c.cursor].at \in Int
      BY <1>5, <2>2, <2>4
    <2>6. log[c.seen[j]].at >= log[c.cursor].at
      <3>1. CASE j = Len(c.seen)
        BY <2>2, <2>5, <3>1
      <3>2. CASE j < Len(c.seen)
        BY <1>1, <2>1, <2>2, <3>2 DEF ReaderOK, Genuine
      <3> QED
        BY <1>3, <3>1, <3>2
    <2>7. log[c.seen[j]].at > log[events[k]].at
      BY <2>3, <2>5, <2>6
    <2> QED
      BY <2>5, <2>7
  <1>7. Genuine(d)
    <2>1. ASSUME NEW k \in 1..Len(d.seen)
          PROVE  /\ d.seen[k] \in Id
                 /\ log[d.seen[k]].user = IF d.user \in users THEN d.user ELSE None
      <3>1. CASE k \in 1..Len(c.seen)
        BY <1>1, <1>2, <1>3, <3>1 DEF ReaderOK, Genuine
      <3>2. CASE k - Len(c.seen) \in 1..Len(events) /\ d.seen[k] = events[k - Len(c.seen)]
        BY <1>2, <1>4, <3>2
      <3> QED
        BY <1>3, <3>1, <3>2
    <2>2. ASSUME NEW j \in 1..Len(d.seen), NEW k \in 1..Len(d.seen), j < k
          PROVE  d.seen[j] # d.seen[k] /\ log[d.seen[j]].at >= log[d.seen[k]].at
      <3>1. CASE k \in 1..Len(c.seen)
        <4>1. j \in 1..Len(c.seen)
          BY <1>3, <2>2, <3>1
        <4>2. d.seen[j] = c.seen[j] /\ d.seen[k] = c.seen[k]
          BY <1>3, <3>1, <4>1
        <4> QED
          BY <1>1, <2>2, <3>1, <4>1, <4>2 DEF ReaderOK, Genuine
      <3>2. CASE /\ j \in 1..Len(c.seen) /\ k - Len(c.seen) \in 1..Len(events)
                 /\ d.seen[k] = events[k - Len(c.seen)]
        <4>1. d.seen[j] = c.seen[j]
          BY <1>3, <3>2
        <4> QED
          BY <1>6, <3>2, <4>1, Zenon
      <3>3. CASE /\ j - Len(c.seen) \in 1..Len(events)
                 /\ d.seen[j] = events[j - Len(c.seen)]
                 /\ k - Len(c.seen) \in 1..Len(events) /\ d.seen[k] = events[k - Len(c.seen)]
        <4>1. j - Len(c.seen) < k - Len(c.seen)
          BY <1>3, <2>2
        <4> QED
          BY <3>3, <4>1 DEF Sorted
      <3>4. \/ k \in 1..Len(c.seen)
            \/ k - Len(c.seen) \in 1..Len(events) /\ d.seen[k] = events[k - Len(c.seen)]
        BY <1>3
      <3>5. \/ j \in 1..Len(c.seen)
            \/ j - Len(c.seen) \in 1..Len(events) /\ d.seen[j] = events[j - Len(c.seen)]
        BY <1>3
      <3> QED
        BY <3>1, <3>2, <3>3, <3>4, <3>5, Zenon
    <2> QED
      BY <2>1, <2>2 DEF Genuine
  <1>8. AtCursor(d)
    <2>1. d.pc # "idle" /\ d.user \in User /\ d.limit \in Limits
      BY <1>1, <1>2 DEF Turned, ReaderOK, AtCursor
    <2>2. CASE hasMore
      <3>1. Len(events) \in 1..Len(events)
        BY <1>3, <2>2
      <3>2. events[Len(events)] \in Id /\ d.seen[Len(c.seen) + Len(events)] = events[Len(events)]
        BY <1>3, <1>4, <3>1
      <3>3. /\ d.cursor = events[Len(events)] /\ d.cursor \in Id
            /\ Len(d.seen) > 0 /\ d.cursor = d.seen[Len(d.seen)]
        BY <1>3, <2>2, <3>1, <3>2 DEF Turned
      <3>4. d.cursor # None
        BY <3>3, AuditAssumption DEF Id
      <3> QED
        BY <2>1, <3>3, <3>4 DEF AtCursor
    <2>3. CASE ~hasMore
      BY <2>1, <2>3 DEF AtCursor, Turned
    <2> QED
      BY <2>2, <2>3
  <1>9. Tracked(d)
    <2>1. d.cursors \subseteq Id
      <3>1. CASE hasMore
        <4>1. events[Len(events)] \in Id
          BY <1>3, <1>4, <3>1
        <4> QED
          BY <1>1, <3>1, <4>1 DEF Turned, ReaderOK, Tracked
      <3>2. CASE ~hasMore
        BY <1>1, <3>2 DEF Turned, ReaderOK, Tracked
      <3> QED
        BY <3>1, <3>2
    <2> QED
      BY <1>1, <1>2, <2>1 DEF ReaderOK, Tracked
  <1>10. ASSUME NothingLost(c), ~hasMore => Whole(Rows(c), events), NEW i \in d.mine,
                d.limit <= MaxLimit
         PROVE  i \in ShownBy(d) \/ Tied(d, i) \/ (d.pc = "reading" /\ Before(i, d.cursor))
    <2>1. i \in c.mine /\ i \in Id /\ log[i].user = c.user
      BY <1>1, <1>2 DEF ReaderOK, Tracked
    <2>2. CASE i \in ShownBy(c)
      BY <1>3, <2>2, Zenon DEF ShownBy
    <2>3. CASE Tied(c, i)
      BY <2>3 DEF Tied, Turned
    <2>4. CASE \E j \in 1..Len(events) : events[j] = i
      BY <1>3, <2>4, Zenon DEF ShownBy
    <2>5. CASE Before(i, c.cursor) /\ ~\E j \in 1..Len(events) : events[j] = i
      <3>1. i \in Rows(c)
        BY <2>1, <2>5 DEF Rows, Owned
      <3>2. hasMore
        BY <1>10, <2>5, <3>1 DEF Whole
      <3>3. events[Len(events)] \in Id
        BY <1>3, <1>4, <3>2
      <3>4. log[i].at <= log[events[Len(events)]].at
        BY <2>5, <3>1, <3>2 DEF NewestOf
      <3>5. log[i].at \in Int /\ log[events[Len(events)]].at \in Int
        BY <1>5, <2>1, <3>3
      <3>6. CASE log[i].at = log[events[Len(events)]].at
        BY <3>2, <3>6 DEF Tied, Turned
      <3>7. CASE log[i].at < log[events[Len(events)]].at
        BY <3>2, <3>7 DEF Before, Turned
      <3> QED
        BY <3>4, <3>5, <3>6, <3>7
    <2>6. c.limit <= MaxLimit
      BY <1>10 DEF Turned
    <2> QED
      BY <1>10, <2>1, <2>2, <2>3, <2>4, <2>5, <2>6 DEF NothingLost
  <1> QED
    BY <1>7, <1>8, <1>9, <1>10 DEF ReaderOK, NothingLost

\* GET /api/activity.
LEMMA GetActivityStep ==
    ASSUME IInv, NEW p \in Reader, GetActivity(p)
    PROVE  /\ IInv'
           /\ (\A q \in Reader : NothingLost(reader[q]))
              => (\A q \in Reader : NothingLost(reader[q]))'
  <1> DEFINE c == reader[p]
             hasMore(rows) == Len(rows) > c.limit
             events(rows)  == IF hasMore(rows) THEN SubSeq(rows, 1, c.limit) ELSE rows
             last(rows)    == events(rows)[Len(events(rows))]
             turned(rows)  == [c EXCEPT !.seen = c.seen \o events(rows),
                        !.cursor = IF hasMore(rows) THEN last(rows) ELSE None,
                        !.cursors = IF hasMore(rows) THEN c.cursors \cup {last(rows)} ELSE c.cursors,
                        !.pc = IF hasMore(rows) THEN "reading" ELSE "done"]
  <1>1. c.pc = "reading" /\ c.user \in users /\ UNCHANGED <<users, log, now, req>>
    BY DEF GetActivity
  <1>2. PICK rows \in ListByUser(c.user, c.cursor, c.limit) :
            reader' = [reader EXCEPT ![p] = turned(rows)]
    BY DEF GetActivity
  <1>3. c \in Pages /\ c.limit \in Limits /\ log \in Seq(Event)
    BY <1>1 DEF IInv, TypeOK, ReaderOK, AtCursor
  <1>4. PICK more \in BOOLEAN : more <=> hasMore(rows)
    <2>1. CASE hasMore(rows)
      BY <2>1, Zenon
    <2>2. CASE ~hasMore(rows)
      BY <2>2, Zenon
    <2> QED
      BY <2>1, <2>2
  <1>5. PICK page : page = events(rows)
    OBVIOUS
  <1>6. /\ Sorted(Rows(c), page)
        /\ more => Len(page) > 0 /\ NewestOf(Rows(c), page)
        /\ ~more /\ c.limit <= MaxLimit => Whole(Rows(c), page)
    BY <1>3, <1>4, <1>5, PageOfRows
  <1>7. PICK d : d = [c EXCEPT !.seen = c.seen \o page,
                        !.cursor = IF more THEN page[Len(page)] ELSE None,
                        !.cursors = IF more THEN c.cursors \cup {page[Len(page)]} ELSE c.cursors,
                        !.pc = IF more THEN "reading" ELSE "done"]
    OBVIOUS
  <1>8. reader' = [reader EXCEPT ![p] = d]
    BY <1>2, <1>4, <1>5, <1>7
  <1> HIDE DEF c
  <1>9. page \in Seq(Nat) /\ (more => page[Len(page)] \in Nat)
    BY <1>6, LenProperties, ElementOfSeq DEF Sorted
  <1>10. c.seen \o page \in Seq(Nat)
    BY <1>3, <1>9, ConcatProperties DEF Pages
  <1>11. d \in Pages /\ Turned(c, d, page, more)
    <2>1. PICK cur \in Nat \cup {None} : cur = IF more THEN page[Len(page)] ELSE None
      BY <1>9
    <2>2. PICK curs \in SUBSET Nat :
             curs = IF more THEN c.cursors \cup {page[Len(page)]} ELSE c.cursors
      BY <1>3, <1>9 DEF Pages
    <2>3. d = [c EXCEPT !.seen = c.seen \o page, !.cursor = cur, !.cursors = curs,
                        !.pc = IF more THEN "reading" ELSE "done"]
      BY <1>7, <2>1, <2>2
    <2>4. d \in Pages
      BY <1>3, <1>10, <2>3 DEF Pages
    <2>5. /\ d.seen = c.seen \o page /\ d.cursor = cur /\ d.cursors = curs
          /\ d.pc = IF more THEN "reading" ELSE "done"
          /\ d.user = c.user /\ d.limit = c.limit /\ d.mine = c.mine
      BY <1>3, <2>3 DEF Pages
    <2> QED
      BY <2>1, <2>2, <2>4, <2>5 DEF Turned
  <1>12. /\ ReaderOK(d)
         /\ NothingLost(reader[p]) /\ (~more => Whole(Rows(reader[p]), page)) => NothingLost(d)
    BY <1>1, <1>6, <1>11, NextPage DEF c
  <1>13. /\ IInv'
         /\ NothingLost(d) /\ (\A q \in Reader : NothingLost(reader[q]))
            => (\A q \in Reader : NothingLost(reader[q]))'
    BY <1>1, <1>8, <1>11, <1>12, ReaderMoved
  <1>14. NothingLost(reader[p]) => NothingLost(d)
    <2>1. CASE c.limit <= MaxLimit
      BY <1>6, <1>12, <2>1 DEF c
    <2>2. CASE ~(c.limit <= MaxLimit)
      <3>1. d.limit = c.limit
        BY <1>11 DEF Turned
      <3> QED
        BY <2>2, <3>1, Zenon DEF NothingLost
    <2> QED
      BY <2>1, <2>2
  <1> QED
    BY <1>13, <1>14

\* A client asks for its first page: all the events there are lie ahead.
LEMMA OpenStep ==
    ASSUME IInv, NEW p \in Reader, NEW u \in User, NEW limit \in Limits, Open(p, u, limit)
    PROVE  /\ IInv'
           /\ (\A q \in Reader : NothingLost(reader[q]))
              => (\A q \in Reader : NothingLost(reader[q]))'
  <1>1. PICK d : d = [Closed EXCEPT !.pc = "reading", !.user = u, !.limit = limit,
                                    !.mine = Owned(u)]
    OBVIOUS
  <1>2. reader' = [reader EXCEPT ![p] = d] /\ UNCHANGED <<users, log, now, req>>
    BY <1>1 DEF Open
  <1>3. Owned(u) \subseteq Id /\ Id \subseteq Nat
    BY LenProperties DEF Owned, Id, IInv, TypeOK
  <1>4. Closed \in Pages
    BY ClosedOK
  <1>5. d \in Pages
    BY <1>1, <1>3, <1>4 DEF Pages
  <1>6. /\ d.seen = <<>> /\ d.mine = Owned(u) /\ d.cursors = {} /\ d.pc = "reading"
        /\ d.cursor = None /\ d.user = u /\ d.limit = limit
    BY <1>1 DEF Closed
  <1>7. Len(<<>>) = 0
    OBVIOUS
  <1>8. Genuine(d)
    BY <1>6, <1>7 DEF Genuine
  <1>9. AtCursor(d)
    BY <1>6 DEF AtCursor
  <1>10. Tracked(d)
    BY <1>3, <1>6 DEF Tracked, Owned
  <1>11. NothingLost(d)
    BY <1>6 DEF NothingLost, Before
  <1> QED
    BY <1>2, <1>5, <1>8, <1>9, <1>10, <1>11, ReaderMoved DEF ReaderOK

(***************************************************************************)
(* The theorems.                                                           *)
(***************************************************************************)

\* An empty log and nobody reading.
LEMMA InvInit == Init => CInv
  <1> SUFFICES ASSUME Init PROVE CInv
    OBVIOUS
  <1>1. /\ log \in Seq(Event) /\ Len(log) = 0 /\ users \in SUBSET User
        /\ now \in 0..MaxTime /\ req \in [Req -> Recording \cup {None}]
    BY AuditAssumption DEF Init
  <1>2. /\ Closed \in Pages /\ Closed.seen = <<>> /\ Closed.mine = {}
        /\ Closed.cursors = {} /\ Closed.pc = "idle"
    BY DEF Closed, Pages
  <1>3. Len(<<>>) = 0
    OBVIOUS
  <1>4. \A p \in Reader : reader[p] = Closed
    BY DEF Init
  <1>5. TypeOK
    BY <1>1, <1>2, <1>4, AuditAssumption DEF Init, TypeOK
  <1>6. ReaderOK(Closed) /\ NothingLost(Closed)
    BY <1>2, <1>3 DEF ReaderOK, Genuine, AtCursor, Tracked, NothingLost
  <1> QED
    BY <1>4, <1>5, <1>6 DEF IInv, CInv

\* Every step of every handler and reader.
LEMMA InvStep ==
    ASSUME IInv, [Next]_vars
    PROVE  /\ IInv'
           /\ (\A q \in Reader : NothingLost(reader[q]))
              => (\A q \in Reader : NothingLost(reader[q]))'
  <1>1. CASE UNCHANGED reader
    BY <1>1, ReadersKept
  <1>2. ASSUME NEW p \in Reader, GetActivity(p)
        PROVE  /\ IInv'
               /\ (\A q \in Reader : NothingLost(reader[q]))
                  => (\A q \in Reader : NothingLost(reader[q]))'
    BY <1>2, GetActivityStep
  <1>3. ASSUME NEW p \in Reader, Close(p)
        PROVE  /\ IInv'
               /\ (\A q \in Reader : NothingLost(reader[q]))
                  => (\A q \in Reader : NothingLost(reader[q]))'
    BY <1>3, ClosedOK, ReaderMoved DEF Close
  <1>4. ASSUME NEW p \in Reader, NEW u \in User, NEW limit \in Limits, Open(p, u, limit)
        PROVE  /\ IInv'
               /\ (\A q \in Reader : NothingLost(reader[q]))
                  => (\A q \in Reader : NothingLost(reader[q]))'
    BY <1>4, OpenStep
  <1>5. UNCHANGED reader \/ \E p \in Reader : Client(p)
    BY DEF Next, vars, Tick, Handler, Stamp, AppendEvent, AppendFails, DeleteUser, Act
  <1> QED
    BY <1>1, <1>2, <1>3, <1>4, <1>5 DEF Client

\* The invariant holds in every reachable state.
LEMMA Invariance == Spec => []IInv
  <1>1. Init => IInv
    BY InvInit DEF CInv
  <1>2. IInv /\ [Next]_vars => IInv'
    BY InvStep
  <1> QED
    BY <1>1, <1>2, PTL DEF Spec

\* The log, the events being recorded and the readers keep their type, whatever
\* limit a client asks for.
THEOREM AuditLogType == Spec => []TypeOK
  <1>1. IInv => TypeOK
    BY DEF IInv
  <1> QED
    BY Invariance, <1>1, PTL

\* The log is append-only: no handler, failure or account deletion removes or
\* changes a committed event, beyond forgetting the account (ON DELETE SET NULL).
THEOREM AppendOnlyAlways == Spec => AppendOnly
  <1>1. IInv /\ [Next]_vars =>
          [/\ Len(log') >= Len(log)
           /\ \A i \in Id : /\ log'[i].kind = log[i].kind /\ log'[i].at = log[i].at
                            /\ log'[i].user \in {log[i].user, None}]_vars
    BY LogStep DEF IInv, Kept
  <1> QED
    BY Invariance, <1>1, PTL DEF Spec, AppendOnly

\* The pages a client has read show events of its account, once each, newest
\* first, whatever is appended or deleted between two pages and whatever limit
\* it asks for.
THEOREM PagesGenuineAlways == Spec => []PagesGenuine
  <1>1. IInv => PagesGenuine
    BY DEF IInv, ReaderOK, Genuine, PagesGenuine
  <1> QED
    BY Invariance, <1>1, PTL

\* A client whose limit is one that auditLimit passes on as it is (1 to 100, which
\* is what api/openapi.yaml allows) and which follows the cursors to the end sees
\* every event that was there at the beginning, except for ties with the last event
\* of a page, whatever other clients ask for.
THEOREM PagesCompleteAlways == Spec => []PagesComplete
  <1>1. CInv /\ [Next]_vars => CInv'
    BY InvStep DEF CInv
  <1>2. CInv => PagesComplete
    BY DEF CInv, NothingLost, ShownBy, Tied, PagesComplete, Shown
  <1> QED
    BY InvInit, <1>1, <1>2, PTL DEF Spec

=============================================================================
