----------------------------- MODULE LoginGuard -----------------------------
(***************************************************************************)
(* What stands in front of a password check: the per-IP and per-account    *)
(* rate limiters and the account lockout, shared by all login handlers.    *)
(*                                                                         *)
(* A login attempt is a process.  Each tracker has its own mutex, so each  *)
(* call of a tracker is one step and attempts interleave between calls.    *)
(*                                                                         *)
(* Times are kept relative to the present: a time stamp is its age and a   *)
(* deadline is the time left, and Tick moves them all.  Ages beyond every  *)
(* comparison of the code are not told apart, so time itself is unbounded. *)
(*                                                                         *)
(* A list of time stamps is a set of entries <<age, number>>: the code     *)
(* counts and prunes the list and never looks at its order, and numbers    *)
(* keep entries of one age apart.                                          *)
(***************************************************************************)
EXTENDS Integers, FiniteSets

CONSTANTS Email,      \* keys of the account limiter and of the lockout
          IP,         \* keys of the address limiter
          Attempt,    \* slots for login requests in flight
          IPLimit,    \* loginIPLimit
          AcctLimit,  \* loginAccountLimit
          Window,     \* loginIPWindow, loginAccountWindow and lockoutWindow
          Threshold,  \* lockoutFailureThreshold
          LockTime,   \* lockoutDuration
          None        \* no record, no deadline, no argument

ASSUME GuardAssumption ==
    /\ IPLimit \in Nat \ {0} /\ AcctLimit \in Nat \ {0}
    /\ Window \in Nat \ {0} /\ LockTime \in Nat \ {0}
    /\ Threshold \in Nat \ {0}
    /\ None \notin Email \cup IP \cup Int

VARIABLES ipSeen,    \* loginIP.windows: ages of the attempts recorded per address
          acctSeen,  \* loginAcct.windows: the same per account
          record,    \* lockout.records: email -> failureRecord, or None
          attempt,   \* the login requests in flight
          admitted,  \* history: ages of the attempts let through per account,
                     \* since its last success or the last restart
          failed     \* history: ages of the failures recorded per account, same

trackers == <<ipSeen, acctSeen, record>>

vars == <<ipSeen, acctSeen, record, attempt, admitted, failed>>

\* Ages the code, and the histories, no longer tell apart.
Old     == Window + 1
Ancient == Window + LockTime + 1

\* Lists of time stamps.
Ages(cap) == SUBSET ((0..cap) \X Nat)

\* lockedUntil is the time left; -1 once it has passed, None for the zero time.
Record == [failures : Nat, firstFail : 0..Old,
           lockedUntil : (-1..LockTime) \cup {None}]

Stages == {"idle", "isLocked", "ip", "acct", "verify", "failure", "resetIP",
           "resetAcct", "resetLock"}

\* The one type invariant.
TypeOK ==
    /\ ipSeen \in [IP -> Ages(Old)]
    /\ acctSeen \in [Email -> Ages(Old)]
    /\ record \in [Email -> Record \cup {None}]
    /\ attempt \in [Attempt -> [pc : Stages, ip : IP \cup {None},
                                email : Email \cup {None}]]
    /\ admitted \in [Email -> Ages(Window)]
    /\ failed \in [Email -> Ages(Window + LockTime)]

Idle == [pc |-> "idle", ip |-> None, email |-> None]

\* A server that has just started has empty trackers.
Init ==
    /\ ipSeen = [i \in IP |-> {}]
    /\ acctSeen = [e \in Email |-> {}]
    /\ record = [e \in Email |-> None]
    /\ attempt = [a \in Attempt |-> Idle]
    /\ admitted = [e \in Email |-> {}]
    /\ failed = [e \in Email |-> {}]

(***************************************************************************)
(* The limiters and the lockout, as functions of their state.              *)
(***************************************************************************)
MRecent(seen) == {x \in seen : x[1] < Window - 1}

\* t.After(now.Add(-window))
Recent(seen) == {x \in seen : x[1] < Window}

Within(seen, limit) == Cardinality(Recent(seen)) < limit

\* The present, as an entry that is not in use.
Now(used) == <<0, CHOOSE n \in 0..Cardinality(used) : <<0, n>> \notin used>>

\* Allow: prune, and record the attempt x unless the limit is reached.
Allowed(seen, limit, x) ==
    IF Within(seen, limit) THEN Recent(seen) \cup {x} ELSE Recent(seen)

Locked(e) == /\ record[e] # None
             /\ record[e].lockedUntil # None
             /\ record[e].lockedUntil > 0

\* IsLocked forgets a record whose lock has passed (not one that ends right now).
Lapsed(e) == /\ record[e] # None
             /\ record[e].lockedUntil # None
             /\ record[e].lockedUntil < 0

MRestarted(rec) ==
    IF rec # None THEN rec
    ELSE [failures |-> 0, firstFail |-> 0, lockedUntil |-> None]

\* More than a window after the first failure, counting starts over.
Restarted(rec) ==
    IF rec # None /\ rec.firstFail <= Window THEN rec
    ELSE [failures |-> 0, firstFail |-> 0, lockedUntil |-> None]

MFailure(rec) ==
    LET n == Restarted(rec).failures + 1 IN
    [failures |-> n, firstFail |-> Restarted(rec).firstFail,
     lockedUntil |-> IF n >= Threshold THEN LockTime + Window
                     ELSE Restarted(rec).lockedUntil]

\* RecordFailure.
Failure(rec) ==
    LET n == Restarted(rec).failures + 1 IN
    [failures |-> n, firstFail |-> Restarted(rec).firstFail,
     lockedUntil |-> IF n >= Threshold THEN LockTime
                     ELSE Restarted(rec).lockedUntil]

(***************************************************************************)
(* PostLogin, one action per call of a tracker.                            *)
(***************************************************************************)
Go(a, pc) == attempt' = [attempt EXCEPT ![a].pc = pc]

End(a) == attempt' = [attempt EXCEPT ![a] = Idle]

Start(a) ==
    /\ attempt[a].pc = "idle"
    /\ \E i \in IP, e \in Email :
          attempt' = [attempt EXCEPT ![a] = [pc |-> "isLocked", ip |-> i, email |-> e]]
    /\ UNCHANGED <<trackers, admitted, failed>>

MIsLoginLocked(a) ==
    LET e == attempt[a].email IN
    /\ attempt[a].pc = "isLocked"
    /\ \/ /\ Locked(e)
          /\ End(a)
          /\ record' = [record EXCEPT ![e].lockedUntil = LockTime]
       \/ /\ ~Locked(e)
          /\ Go(a, "ip")
          /\ record' = [record EXCEPT ![e] = IF Lapsed(e) THEN None ELSE @]
    /\ UNCHANGED <<ipSeen, acctSeen, admitted, failed>>

\* 429 while the account is locked; a limiter is then not even asked.
IsLoginLocked(a) ==
    LET e == attempt[a].email IN
    /\ attempt[a].pc = "isLocked"
    /\ \/ /\ Locked(e)
          /\ End(a)
          /\ UNCHANGED record
       \/ /\ ~Locked(e)
          /\ Go(a, "ip")
          /\ record' = [record EXCEPT ![e] = IF Lapsed(e) THEN None ELSE @]
    /\ UNCHANGED <<ipSeen, acctSeen, admitted, failed>>

\* CheckLoginLimit, left of the &&: the address limiter.
CheckIPLimit(a) ==
    LET i == attempt[a].ip IN
    /\ attempt[a].pc = "ip"
    /\ ipSeen' = [ipSeen EXCEPT ![i] = Allowed(@, IPLimit, Now(@))]
    /\ \/ Within(ipSeen[i], IPLimit) /\ Go(a, "acct")
       \/ ~Within(ipSeen[i], IPLimit) /\ End(a)
    /\ UNCHANGED <<acctSeen, record, admitted, failed>>

\* Right of the &&: the account limiter.  The address has been charged by now.
\* An admitted attempt is the same entry in the tracker and in the history.
CheckAcctLimit(a) ==
    LET e == attempt[a].email
        x == Now(acctSeen[e] \cup admitted[e]) IN
    /\ attempt[a].pc = "acct"
    /\ acctSeen' = [acctSeen EXCEPT ![e] = Allowed(@, AcctLimit, x)]
    /\ \/ /\ Within(acctSeen[e], AcctLimit)
          /\ Go(a, "verify")
          /\ admitted' = [admitted EXCEPT ![e] = @ \cup {x}]
       \/ /\ ~Within(acctSeen[e], AcctLimit)
          /\ End(a)
          /\ UNCHANGED admitted
    /\ UNCHANGED <<ipSeen, record, failed>>

\* The body is malformed (400), the user row cannot be read (500), the password
\* is wrong or the account unknown, or the password is right.
Verify(a) ==
    /\ attempt[a].pc = "verify"
    /\ End(a) \/ Go(a, "failure") \/ Go(a, "resetIP")
    /\ UNCHANGED <<trackers, admitted, failed>>

\* RecordLoginFailure.  The backoff it returns delays the 401 and nothing else.
RecordLoginFailure(a) ==
    LET e == attempt[a].email IN
    /\ attempt[a].pc = "failure"
    /\ record' = [record EXCEPT ![e] = Failure(@)]
    /\ failed' = [failed EXCEPT ![e] = @ \cup {Now(@)}]
    /\ End(a)
    /\ UNCHANGED <<ipSeen, acctSeen, admitted>>

\* ResetLoginLimit resets the three trackers one after the other.
ResetIP(a) ==
    /\ attempt[a].pc = "resetIP"
    /\ ipSeen' = [ipSeen EXCEPT ![attempt[a].ip] = {}]
    /\ Go(a, "resetAcct")
    /\ UNCHANGED <<acctSeen, record, admitted, failed>>

ResetAcct(a) ==
    LET e == attempt[a].email IN
    /\ attempt[a].pc = "resetAcct"
    /\ acctSeen' = [acctSeen EXCEPT ![e] = {}]
    /\ admitted' = [admitted EXCEPT ![e] = {}]
    /\ Go(a, "resetLock")
    /\ UNCHANGED <<ipSeen, record, failed>>

ResetLock(a) ==
    LET e == attempt[a].email IN
    /\ attempt[a].pc = "resetLock"
    /\ record' = [record EXCEPT ![e] = None]
    /\ failed' = [failed EXCEPT ![e] = {}]
    /\ End(a)
    /\ UNCHANGED <<ipSeen, acctSeen, admitted>>

\* The process is restarted: the trackers live in memory only.
Restart ==
    /\ ipSeen' = [i \in IP |-> {}]
    /\ acctSeen' = [e \in Email |-> {}]
    /\ record' = [e \in Email |-> None]
    /\ attempt' = [a \in Attempt |-> Idle]
    /\ admitted' = [e \in Email |-> {}]
    /\ failed' = [e \in Email |-> {}]

(***************************************************************************)
(* Time.                                                                   *)
(***************************************************************************)
Older(age, cap) == IF age < cap THEN age + 1 ELSE age

\* Entries past the window, which the next Allow drops anyway, may coincide.
OlderAll(seen) == {<<Older(x[1], Old), x[2]>> : x \in seen}

\* A history keeps what a property may still ask for.
OlderHistory(ages, cap) ==
    {<<x[1] + 1, x[2]>> : x \in {y \in ages : y[1] + 1 < cap}}

OlderRecord(rec) ==
    IF rec = None THEN None
    ELSE [failures |-> rec.failures, firstFail |-> Older(rec.firstFail, Old),
          lockedUntil |-> IF rec.lockedUntil \in {None, -1}
                          THEN rec.lockedUntil ELSE rec.lockedUntil - 1]

Tick ==
    /\ ipSeen' = [i \in IP |-> OlderAll(ipSeen[i])]
    /\ acctSeen' = [e \in Email |-> OlderAll(acctSeen[e])]
    /\ record' = [e \in Email |-> OlderRecord(record[e])]
    /\ admitted' = [e \in Email |-> OlderHistory(admitted[e], Old)]
    /\ failed' = [e \in Email |-> OlderHistory(failed[e], Ancient)]
    /\ UNCHANGED attempt

Step(a) ==
    \/ Start(a) \/ IsLoginLocked(a) \/ CheckIPLimit(a) \/ CheckAcctLimit(a)
    \/ Verify(a) \/ RecordLoginFailure(a) \/ ResetIP(a) \/ ResetAcct(a)
    \/ ResetLock(a)

Next == Tick \/ Restart \/ \E a \in Attempt : Step(a)

\* The clock goes on; nothing else is assumed, not even that attempts end.
Spec == Init /\ [][Next]_vars /\ WF_vars(Tick)

(***************************************************************************)
(* Properties.                                                             *)
(***************************************************************************)
\* The entries of a list whose age is within low..high.
Aged(ages, low, high) == {x \in ages : low <= x[1] /\ x[1] <= high}

\* In no window are more password checks let through for an account than
\* loginAccountLimit, however attempts interleave, until a success clears it.
AccountBudget ==
    \A e \in Email : Cardinality(Aged(admitted[e], 0, Window - 1)) <= AcctLimit

\* An account is locked only if, at the moment the lock was set, at least
\* lockoutFailureThreshold failures had been recorded for it within one window,
\* none of them before its last successful login.
LockJustified ==
    \A e \in Email : Locked(e) =>
        LET since == LockTime - record[e].lockedUntil IN
        Cardinality(Aged(failed[e], since, since + Window)) >= Threshold

\* A lock ends, even while attempts on the account go on: a refused attempt does
\* not extend it.
LockEnds == \A e \in Email : Locked(e) ~> ~Locked(e)

=============================================================================
