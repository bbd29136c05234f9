---------------------------- MODULE TimingProofs ----------------------------
(***************************************************************************)
(* The two guards that work by the clock alone: the limiters and the       *)
(* lockout in front of a login, and the inactivity lock of a tab.          *)
(*                                                                         *)
(* LoginGuard, for every number of addresses, accounts and attempts and    *)
(* every limit, window, threshold and lock time.  AccountBudget speaks of  *)
(* the admissions and the code keeps its own list, so the invariant ties   *)
(* the two: an admission of the last window is an entry of the list, and   *)
(* the list has no more recent entries than the limit.  LockJustified      *)
(* looks back at the moment a lock was set, so the invariant says at every *)
(* moment what a record has counted: as many failures as it says, all      *)
(* since its first one, as long as it may still be added to.               *)
(*                                                                         *)
(* AutoLock, for every timeout.  AutoLockTypeOK and IdleBounded are        *)
(* inductive together: Elapse takes from the timer what it adds to the     *)
(* idle time, and needs the range of the timer to know that nothing is     *)
(* capped.                                                                 *)
(***************************************************************************)
EXTENDS LoginGuard, AutoLock, FiniteSetTheorems, TLAPS

AddrInv(seen) == seen \in Ages(Old) /\ IsFiniteSet(seen)

\* Every admission of the last window is still in the tracker, and the tracker
\* holds no more of them than the limit.
AcctInv(seen, adm) ==
    /\ seen \in Ages(Old) /\ IsFiniteSet(seen)
    /\ adm \in Ages(Window) /\ IsFiniteSet(adm)
    /\ Recent(adm) \subseteq seen
    /\ Cardinality(Recent(seen)) <= AcctLimit

\* The failures a record still counts were recorded since its first one.
Counted(rec, fails) ==
    (rec # None /\ rec.firstFail <= Window) =>
        Cardinality(Aged(fails, 0, rec.firstFail)) >= rec.failures

Earned(rec, fails) ==
    (rec # None /\ rec.lockedUntil # None /\ rec.lockedUntil > 0) =>
        LET since == LockTime - rec.lockedUntil IN
        Cardinality(Aged(fails, since, since + Window)) >= Threshold

LockInv(rec, fails) ==
    /\ rec \in Record \cup {None}
    /\ fails \in Ages(Window + LockTime) /\ IsFiniteSet(fails)
    /\ Counted(rec, fails)
    /\ Earned(rec, fails)

\* An attempt under way has an address and an account.
Placed(at) == at.pc # "idle" => at.ip \in IP /\ at.email \in Email

Addresses ==
    /\ ipSeen \in [IP -> Ages(Old)]
    /\ \A i \in IP : AddrInv(ipSeen[i])

Accounts ==
    /\ acctSeen \in [Email -> Ages(Old)] /\ admitted \in [Email -> Ages(Window)]
    /\ \A e \in Email : AcctInv(acctSeen[e], admitted[e])

Locks ==
    /\ record \in [Email -> Record \cup {None}]
    /\ failed \in [Email -> Ages(Window + LockTime)]
    /\ \A e \in Email : LockInv(record[e], failed[e])

Slot == [pc : Stages, ip : IP \cup {None}, email : Email \cup {None}]

Attempts == attempt \in [Attempt -> Slot] /\ \A a \in Attempt : Placed(attempt[a])

IInv == Addresses /\ Accounts /\ Locks /\ Attempts

(***************************************************************************)
(* Entries.                                                                *)
(***************************************************************************)
Shift(S) == {<<x[1] + 1, x[2]>> : x \in S}

\* Now takes a number that is not in use: append never overwrites an entry.
LEMMA NowFresh ==
    ASSUME NEW used, IsFiniteSet(used)
    PROVE  /\ Now(used) \notin used
           /\ \E n \in Nat : Now(used) = <<0, n>>
<1>1. PICK c \in Nat : c = Cardinality(used)
  BY FS_CardinalityType
<1>2. \E n \in 0..c : <<0, n>> \notin used
  <2> SUFFICES ASSUME \A n \in 0..c : <<0, n>> \in used PROVE FALSE
    OBVIOUS
  <2> DEFINE f == [n \in 0..c |-> <<0, n>>]
  <2>1. f \in Injection(0..c, used)
    BY DEF Injection, IsInjective
  <2>2. Cardinality(0..c) <= Cardinality(used)
    BY <2>1, FS_Injection
  <2>3. Cardinality(0..c) = c + 1
    BY FS_Interval
  <2> QED
    BY <1>1, <2>2, <2>3
<1> DEFINE m == CHOOSE n \in 0..c : <<0, n>> \notin used
<1>3. m \in 0..c /\ <<0, m>> \notin used
  BY <1>2
<1>4. Now(used) = <<0, m>>
  BY <1>1 DEF Now
<1> QED
  BY <1>3, <1>4

\* Time passing neither loses nor merges entries that are not capped.
LEMMA ShiftCount ==
    ASSUME NEW S \in SUBSET (Nat \X Nat), IsFiniteSet(S)
    PROVE  /\ IsFiniteSet(Shift(S))
           /\ Cardinality(Shift(S)) = Cardinality(S)
<1> DEFINE f == [x \in S |-> <<x[1] + 1, x[2]>>]
<1>1. f \in [S -> Shift(S)]
  BY DEF Shift
<1>2. ASSUME NEW x \in S, NEW y \in S, f[x] = f[y] PROVE x = y
  <2>1. x[1] + 1 = y[1] + 1 /\ x[2] = y[2]
    BY <1>2
  <2> QED
    BY <2>1
<1>3. ASSUME NEW t \in Shift(S) PROVE \E x \in S : f[x] = t
  BY DEF Shift
<1>4. f \in Injection(S, Shift(S))
  BY <1>1, <1>2 DEF Injection, IsInjective
<1>5. f \in Surjection(S, Shift(S))
  BY <1>1, <1>3 DEF Surjection
<1>6. ExistsBijection(S, Shift(S))
  BY <1>4, <1>5 DEF ExistsBijection, Bijection
<1> QED
  BY <1>6, FS_Bijection

\* Nor does a capped list grow.
LEMMA OlderAllType ==
    ASSUME NEW seen, AddrInv(seen)
    PROVE  AddrInv(OlderAll(seen))
<1> DEFINE f == [x \in seen |-> <<Older(x[1], Old), x[2]>>]
<1>1. f \in [seen -> OlderAll(seen)]
  BY DEF OlderAll
<1>2. ASSUME NEW t \in OlderAll(seen) PROVE \E x \in seen : f[x] = t
  BY DEF OlderAll
<1>3. f \in Surjection(seen, OlderAll(seen))
  BY <1>1, <1>2 DEF Surjection
<1>4. IsFiniteSet(OlderAll(seen))
  BY <1>3, FS_Surjection DEF AddrInv
<1>5. OlderAll(seen) \in Ages(Old)
  <2> SUFFICES ASSUME NEW x \in seen
               PROVE  <<Older(x[1], Old), x[2]>> \in (0..Old) \X Nat
    BY DEF Ages, OlderAll
  <2>1. x[1] \in 0..Old /\ x[2] \in Nat /\ Old \in Nat
    BY GuardAssumption DEF AddrInv, Ages, Old
  <2>2. Older(x[1], Old) \in 0..Old
    BY <2>1 DEF Older
  <2> QED
    BY <2>1, <2>2
<1> QED
  BY <1>4, <1>5 DEF AddrInv

\* A pruned list has the type of the list.
LEMMA RecentType ==
    ASSUME NEW seen, IsFiniteSet(seen)
    PROVE  IsFiniteSet(Recent(seen)) /\ Recent(seen) \subseteq seen
BY FS_Subset DEF Recent

\* Allow keeps an address's list well formed.
LEMMA AddrAllowed ==
    ASSUME NEW seen, AddrInv(seen)
    PROVE  AddrInv(Allowed(seen, IPLimit, Now(seen)))
<1>1. PICK n \in Nat : Now(seen) = <<0, n>>
  BY NowFresh DEF AddrInv
<1>2. Old \in Nat
  BY GuardAssumption DEF Old
<1>3. AddrInv(Recent(seen))
  BY RecentType DEF AddrInv, Ages
<1>4. AddrInv(Recent(seen) \cup {Now(seen)})
  <2>1. IsFiniteSet(Recent(seen)) /\ Recent(seen) \subseteq (0..Old) \X Nat
    BY <1>3 DEF AddrInv, Ages
  <2>2. IsFiniteSet(Recent(seen) \cup {Now(seen)})
    BY <2>1, FS_AddElement
  <2>3. Now(seen) \in (0..Old) \X Nat
    BY <1>1, <1>2
  <2> QED
    BY <2>1, <2>2, <2>3 DEF AddrInv, Ages
<1> QED
  BY <1>3, <1>4 DEF Allowed

(***************************************************************************)
(* The account limiter.                                                    *)
(***************************************************************************)
\* The empty lists of a new process or of a success.
LEMMA AcctEmpty == AcctInv({}, {})
<1>1. IsFiniteSet({}) /\ Cardinality({}) = 0
  BY FS_EmptySet
<1>2. Recent({}) = {}
  BY DEF Recent
<1> QED
  BY <1>1, <1>2, GuardAssumption DEF AcctInv, Ages

\* Allow admits: the entry is new, so both lists gain exactly one.
LEMMA AcctAdmits ==
    ASSUME NEW seen, NEW adm, AcctInv(seen, adm), Within(seen, AcctLimit),
           NEW x, x = Now(seen \cup adm)
    PROVE  AcctInv(Allowed(seen, AcctLimit, x), adm \cup {x})
<1>1. IsFiniteSet(seen \cup adm)
  BY FS_Union DEF AcctInv
<1>2. PICK n \in Nat : x = <<0, n>>
  BY <1>1, NowFresh
<1>3. Old \in Nat /\ Window \in Nat /\ 0 < Window /\ AcctLimit \in Nat
  BY GuardAssumption DEF Old
<1> DEFINE S == Recent(seen) \cup {x}
<1>4. Allowed(seen, AcctLimit, x) = S
  BY DEF Allowed
<1>5. IsFiniteSet(Recent(seen)) /\ Recent(seen) \subseteq seen
  BY RecentType DEF AcctInv
<1>6. IsFiniteSet(S) /\ S \in Ages(Old)
  BY <1>2, <1>3, <1>5, FS_AddElement DEF AcctInv, Ages
<1>7. IsFiniteSet(adm \cup {x}) /\ adm \cup {x} \in Ages(Window)
  BY <1>2, <1>3, FS_AddElement DEF AcctInv, Ages
<1>8. Recent(adm \cup {x}) \subseteq S
  BY DEF Recent, AcctInv
<1>9. Cardinality(Recent(S)) <= AcctLimit
  <2>1. Recent(S) \subseteq S
    BY DEF Recent
  <2>2. Cardinality(Recent(S)) <= Cardinality(S) /\ Cardinality(S) \in Nat
    BY <2>1, <1>6, FS_Subset, FS_CardinalityType
  <2>3. Cardinality(S) <= Cardinality(Recent(seen)) + 1
    BY <1>5, FS_AddElement, FS_CardinalityType
  <2>4. Cardinality(Recent(seen)) < AcctLimit
    BY DEF Within
  <2>5. Cardinality(Recent(S)) \in Nat /\ Cardinality(Recent(seen)) \in Nat
    BY <2>1, <1>5, <1>6, FS_Subset, FS_CardinalityType
  <2> QED
    BY <2>2, <2>3, <2>4, <2>5, <1>3
<1> QED
  BY <1>4, <1>6, <1>7, <1>8, <1>9 DEF AcctInv

\* Allow refuses: what it prunes is outside the window of the history too.
LEMMA AcctRefuses ==
    ASSUME NEW seen, NEW adm, AcctInv(seen, adm), ~Within(seen, AcctLimit), NEW x
    PROVE  AcctInv(Allowed(seen, AcctLimit, x), adm)
<1>1. Allowed(seen, AcctLimit, x) = Recent(seen)
  BY DEF Allowed
<1>2. IsFiniteSet(Recent(seen)) /\ Recent(seen) \subseteq seen
  BY RecentType DEF AcctInv
<1>3. Recent(Recent(seen)) = Recent(seen) /\ Recent(adm) \subseteq Recent(seen)
  BY DEF Recent, AcctInv
<1> QED
  BY <1>1, <1>2, <1>3 DEF AcctInv, Ages

\* Time passes for the tracker and the history alike.
LEMMA AcctOlder ==
    ASSUME NEW seen, NEW adm, AcctInv(seen, adm)
    PROVE  AcctInv(OlderAll(seen), OlderHistory(adm, Old))
<1>1. /\ Old \in Nat /\ Window \in Nat /\ 0 < Window /\ AcctLimit \in Nat
      /\ Old = Window + 1
  BY GuardAssumption DEF Old
<1>2. AddrInv(OlderAll(seen))
  BY OlderAllType DEF AddrInv, AcctInv
<1> DEFINE kept == {y \in adm : y[1] + 1 < Old}
<1>3. OlderHistory(adm, Old) = Shift(kept)
  BY DEF OlderHistory, Shift
<1>4. kept \in SUBSET (Nat \X Nat) /\ IsFiniteSet(kept)
  <2>1. kept \subseteq adm /\ adm \subseteq (0..Window) \X Nat
    BY DEF AcctInv, Ages
  <2>2. (0..Window) \X Nat \subseteq Nat \X Nat
    BY <1>1
  <2> QED
    BY <2>1, <2>2, FS_Subset DEF AcctInv
<1>5. IsFiniteSet(Shift(kept))
  BY <1>4, ShiftCount
<1>6. Shift(kept) \in Ages(Window)
  <2> SUFFICES ASSUME NEW y \in kept
               PROVE  <<y[1] + 1, y[2]>> \in (0..Window) \X Nat
    BY DEF Ages, Shift
  <2>1. y[1] \in Nat /\ y[2] \in Nat /\ y[1] + 1 < Window + 1
    BY <1>1, <1>4
  <2> QED
    BY <2>1, <1>1
<1>7. Recent(Shift(kept)) \subseteq OlderAll(seen)
  <2> SUFFICES ASSUME NEW y \in kept, y[1] + 1 < Window
               PROVE  <<y[1] + 1, y[2]>> \in OlderAll(seen)
    BY DEF Recent, Shift
  <2>1. y[1] \in Nat /\ y \in adm
    BY <1>4
  <2>2. y \in seen
    BY <2>1, <1>1 DEF Recent, AcctInv
  <2>3. Older(y[1], Old) = y[1] + 1
    BY <2>1, <1>1 DEF Older
  <2> QED
    BY <2>2, <2>3 DEF OlderAll
<1>8. Cardinality(Recent(OlderAll(seen))) <= AcctLimit
  <2>1. IsFiniteSet(Recent(seen)) /\ Recent(seen) \subseteq seen
    BY RecentType DEF AcctInv
  <2>2. seen \subseteq (0..Old) \X Nat
    BY DEF AcctInv, Ages
  <2>3. Recent(seen) \in SUBSET (Nat \X Nat)
    BY <2>1, <2>2, <1>1
  <2>4. Recent(OlderAll(seen)) \subseteq Shift(Recent(seen))
    <3> SUFFICES ASSUME NEW y \in seen, Older(y[1], Old) < Window
                 PROVE  <<Older(y[1], Old), y[2]>> \in Shift(Recent(seen))
      BY DEF Recent, OlderAll
    <3>1. y[1] \in 0..Old
      BY <2>2
    <3>2. Older(y[1], Old) = y[1] + 1 /\ y[1] < Window
      BY <3>1, <1>1 DEF Older
    <3>3. y \in Recent(seen)
      BY <3>2 DEF Recent
    <3> QED
      BY <3>2, <3>3 DEF Shift
  <2>5. IsFiniteSet(Shift(Recent(seen)))
        /\ Cardinality(Shift(Recent(seen))) = Cardinality(Recent(seen))
    BY <2>1, <2>3, ShiftCount
  <2>6. /\ Cardinality(Recent(OlderAll(seen))) <= Cardinality(Shift(Recent(seen)))
        /\ IsFiniteSet(Recent(OlderAll(seen)))
    BY <2>4, <2>5, FS_Subset
  <2>7. /\ Cardinality(Recent(OlderAll(seen))) \in Nat
        /\ Cardinality(Recent(seen)) \in Nat
    BY <2>1, <2>6, FS_CardinalityType
  <2>8. Cardinality(Recent(seen)) <= AcctLimit
    BY DEF AcctInv
  <2> QED
    BY <2>5, <2>6, <2>7, <2>8, <1>1
<1> QED
  BY <1>2, <1>3, <1>5, <1>6, <1>7, <1>8 DEF AcctInv, AddrInv

(***************************************************************************)
(* The lockout.                                                            *)
(***************************************************************************)
\* Counting over more entries, or over a longer time, gives no less.
LEMMA AgedGrows ==
    ASSUME NEW S, NEW T, IsFiniteSet(T), NEW l, NEW h, NEW p, NEW q,
           Aged(S, l, h) \subseteq Aged(T, p, q)
    PROVE  /\ Cardinality(Aged(S, l, h)) <= Cardinality(Aged(T, p, q))
           /\ Cardinality(Aged(S, l, h)) \in Nat
           /\ Cardinality(Aged(T, p, q)) \in Nat
<1>1. Aged(T, p, q) \subseteq T
  BY DEF Aged
<1>2. IsFiniteSet(Aged(T, p, q))
  BY <1>1, FS_Subset
<1> QED
  BY <1>2, FS_Subset, FS_CardinalityType

\* No record, no claim about it: a new process, a lapsed lock, a success.
LEMMA LockForgets ==
    ASSUME NEW rec, NEW fails, LockInv(rec, fails)
    PROVE  LockInv(None, fails)
BY DEF LockInv, Counted, Earned

\* The lockout of a new process, or after a success.
LEMMA LockEmpty == LockInv(None, {})
BY FS_EmptySet DEF LockInv, Counted, Earned, Ages

\* RecordFailure: the failures since the first one are counted with this one,
\* or counting starts over with it; a lock is set only at the threshold, when
\* all of them are within a window.
LEMMA LockFailure ==
    ASSUME NEW rec, NEW fails, LockInv(rec, fails)
    PROVE  LockInv(Failure(rec), fails \cup {Now(fails)})
<1> DEFINE x == Now(fails)
           all == fails \cup {x}
           base == Restarted(rec)
           n == base.failures + 1
           lu == IF n >= Threshold THEN LockTime ELSE base.lockedUntil
<1>1. /\ Window \in Nat /\ LockTime \in Nat /\ Threshold \in Nat
      /\ 0 < LockTime /\ 0 < Threshold /\ Old = Window + 1 /\ None \notin Int
  BY GuardAssumption DEF Old
<1>2. x \notin fails /\ \E k \in Nat : x = <<0, k>>
  BY NowFresh DEF LockInv
<1>3. PICK k \in Nat : x = <<0, k>>
  BY <1>2
<1>4. IsFiniteSet(all) /\ all \in Ages(Window + LockTime)
  <2>1. IsFiniteSet(all)
    BY FS_AddElement DEF LockInv
  <2>2. <<0, k>> \in (0..(Window + LockTime)) \X Nat
    BY <1>1
  <2> QED
    BY <2>1, <2>2, <1>3 DEF LockInv, Ages
<1>5. /\ base \in Record /\ base.firstFail \in 0..Window /\ base.failures \in Nat
      /\ Cardinality(Aged(all, 0, base.firstFail)) >= n
  <2>1. CASE rec # None /\ rec.firstFail <= Window
    <3>1. base = rec /\ rec \in Record
      BY <2>1 DEF Restarted, LockInv
    <3>2. rec.firstFail \in 0..Window /\ rec.failures \in Nat
      BY <2>1, <3>1, <1>1 DEF Record
    <3>3. Cardinality(Aged(fails, 0, rec.firstFail)) >= rec.failures
      BY <2>1 DEF LockInv, Counted
    <3>4. Aged(all, 0, rec.firstFail) = Aged(fails, 0, rec.firstFail) \cup {x}
      BY <1>3, <3>2 DEF Aged
    <3>5. x \notin Aged(fails, 0, rec.firstFail)
      BY <1>2 DEF Aged
    <3>6. IsFiniteSet(Aged(fails, 0, rec.firstFail))
      BY FS_Subset DEF Aged, LockInv
    <3>7. Cardinality(Aged(all, 0, rec.firstFail))
            = Cardinality(Aged(fails, 0, rec.firstFail)) + 1
      BY <3>4, <3>5, <3>6, FS_AddElement
    <3>8. Cardinality(Aged(fails, 0, rec.firstFail)) \in Nat
      BY <3>6, FS_CardinalityType
    <3>9. Cardinality(Aged(all, 0, rec.firstFail)) >= rec.failures + 1
      BY <3>2, <3>3, <3>7, <3>8
    <3> QED
      BY <3>1, <3>2, <3>9
  <2>2. CASE ~(rec # None /\ rec.firstFail <= Window)
    <3>1. base = [failures |-> 0, firstFail |-> 0, lockedUntil |-> None]
      BY <2>2 DEF Restarted
    <3>2. 0 \in 0..Old /\ 0 \in 0..Window
      BY <1>1
    <3>3. base \in Record /\ base.firstFail = 0 /\ base.failures = 0
      BY <3>1, <3>2 DEF Record
    <3>4. {x} \subseteq Aged(all, 0, 0)
      BY <1>3 DEF Aged
    <3>5. IsFiniteSet(Aged(all, 0, 0))
      BY <1>4, FS_Subset DEF Aged
    <3>6. IsFiniteSet({x}) /\ Cardinality({x}) = 1
      BY FS_Singleton
    <3>7. Cardinality(Aged(all, 0, 0)) >= 1
      BY <3>4, <3>5, <3>6, FS_Subset, FS_CardinalityType
    <3> QED
      BY <3>2, <3>3, <3>7
  <2> QED
    BY <2>1, <2>2
<1> HIDE DEF base
<1>6. Failure(rec) = [failures |-> n, firstFail |-> base.firstFail, lockedUntil |-> lu]
  BY DEF Failure, base
<1>7. lu \in (-1..LockTime) \cup {None}
  BY <1>1, <1>5 DEF Record
<1>8. Failure(rec) \in Record
  <2>1. n \in Nat /\ base.firstFail \in 0..Old
    BY <1>1, <1>5
  <2> HIDE DEF lu, n
  <2> QED
    BY <2>1, <1>6, <1>7 DEF Record
<1>9. Counted(Failure(rec), all)
  <2> HIDE DEF n, lu
  <2> QED
    BY <1>5, <1>6 DEF Counted
<1>10. Earned(Failure(rec), all)
  <2>1. CASE n >= Threshold
    <3>1. Failure(rec).lockedUntil = LockTime
      BY <2>1, <1>6
    <3>2. Aged(all, 0, base.firstFail) \subseteq Aged(all, 0, Window)
      <4> SUFFICES ASSUME NEW y \in all, 0 <= y[1], y[1] <= base.firstFail
                   PROVE  y[1] <= Window
        BY DEF Aged
      <4>1. y[1] \in Int
        BY <1>4, <1>1 DEF Ages
      <4> QED
        BY <4>1, <1>1, <1>5
    <3>3. /\ Cardinality(Aged(all, 0, base.firstFail))
               <= Cardinality(Aged(all, 0, Window))
          /\ Cardinality(Aged(all, 0, base.firstFail)) \in Nat
          /\ Cardinality(Aged(all, 0, Window)) \in Nat
      BY <3>2, <1>4, AgedGrows
    <3>4. Cardinality(Aged(all, 0, Window)) >= Threshold
      BY <3>3, <2>1, <1>1, <1>5
    <3>5. LockTime - LockTime = 0 /\ 0 + Window = Window
      BY <1>1
    <3> QED
      BY <3>1, <3>4, <3>5 DEF Earned
  <2>2. CASE ~(n >= Threshold)
    <3>1. Failure(rec).lockedUntil = base.lockedUntil
      BY <2>2, <1>6
    <3>2. CASE rec # None /\ rec.firstFail <= Window
      <4>1. base = rec
        BY <3>2 DEF Restarted, base
      <4>2. SUFFICES ASSUME rec.lockedUntil # None, rec.lockedUntil > 0,
                            NEW s, s = LockTime - rec.lockedUntil
                     PROVE  Cardinality(Aged(all, s, s + Window)) >= Threshold
        BY <3>1, <4>1 DEF Earned
      <4>3. Cardinality(Aged(fails, s, s + Window)) >= Threshold
        BY <3>2, <4>2 DEF LockInv, Earned
      <4>4. Aged(fails, s, s + Window) \subseteq Aged(all, s, s + Window)
        BY DEF Aged
      <4> QED
        BY <4>3, <4>4, <1>1, <1>4, AgedGrows
    <3>3. CASE ~(rec # None /\ rec.firstFail <= Window)
      <4>1. base.lockedUntil = None
        BY <3>3 DEF Restarted, base
      <4> QED
        BY <3>1, <4>1 DEF Earned
    <3> QED
      BY <3>2, <3>3
  <2> QED
    BY <2>1, <2>2
<1> QED
  BY <1>4, <1>8, <1>9, <1>10 DEF LockInv

\* Time passes for the record and the history alike, and the history keeps
\* what a lock that still stands was set for.
LEMMA LockOlder ==
    ASSUME NEW rec, NEW fails, LockInv(rec, fails)
    PROVE  LockInv(OlderRecord(rec), OlderHistory(fails, Ancient))
<1>1. /\ Window \in Nat /\ LockTime \in Nat /\ Threshold \in Nat
      /\ 0 < LockTime /\ Old = Window + 1 /\ None \notin Int
      /\ Ancient = Window + LockTime + 1 /\ 0 < Window
  BY GuardAssumption DEF Old, Ancient
<1> DEFINE kept == {y \in fails : y[1] + 1 < Ancient}
           later == Shift(kept)
<1>2. OlderHistory(fails, Ancient) = later
  BY DEF OlderHistory, Shift
<1>3. fails \subseteq (0..(Window + LockTime)) \X Nat /\ IsFiniteSet(fails)
  BY DEF LockInv, Ages
<1>4. kept \in SUBSET (Nat \X Nat) /\ IsFiniteSet(kept) /\ fails \in SUBSET (Nat \X Nat)
  BY <1>3, <1>1, FS_Subset
<1>5. IsFiniteSet(later)
  BY <1>4, ShiftCount
<1>6. later \in Ages(Window + LockTime)
  <2> SUFFICES ASSUME NEW y \in kept
               PROVE  <<y[1] + 1, y[2]>> \in (0..(Window + LockTime)) \X Nat
    BY DEF Ages, Shift
  <2>1. y[1] \in Nat /\ y[2] \in Nat /\ y[1] + 1 < Window + LockTime + 1
    BY <1>1, <1>4
  <2> QED
    BY <2>1, <1>1
\* What is counted now was counted a tick ago.
<1>7. ASSUME NEW l \in Int, NEW h \in Int, h + 1 < Ancient, 0 <= l
      PROVE  /\ Cardinality(Aged(later, l + 1, h + 1)) >= Cardinality(Aged(fails, l, h))
             /\ Cardinality(Aged(later, 0, h + 1)) >= Cardinality(Aged(fails, l, h))
             /\ Cardinality(Aged(later, l + 1, h + 1)) \in Nat
             /\ Cardinality(Aged(later, 0, h + 1)) \in Nat
             /\ Cardinality(Aged(fails, l, h)) \in Nat
  <2> DEFINE A == Aged(fails, l, h)
  <2>1. A \in SUBSET (Nat \X Nat) /\ IsFiniteSet(A)
    BY <1>3, <1>4, FS_Subset DEF Aged
  <2>2. IsFiniteSet(Shift(A)) /\ Cardinality(Shift(A)) = Cardinality(A)
    BY <2>1, ShiftCount
  <2>3. ASSUME NEW y \in A
        PROVE  /\ <<y[1] + 1, y[2]>> \in later
               /\ y[1] \in Nat /\ l <= y[1] /\ y[1] <= h
    <3>1. y \in fails /\ y[1] \in Nat /\ l <= y[1] /\ y[1] <= h
      BY <2>1 DEF Aged
    <3>2. y[1] + 1 < Ancient
      BY <3>1, <1>7, <1>1
    <3>3. y \in kept
      BY <3>1, <3>2
    <3> QED
      BY <3>1, <3>3 DEF Shift
  <2>4. Shift(A) \subseteq Aged(later, l + 1, h + 1)
    <3> SUFFICES ASSUME NEW y \in A
                 PROVE  <<y[1] + 1, y[2]>> \in Aged(later, l + 1, h + 1)
      BY DEF Shift
    <3> HIDE DEF later, A
    <3>1. y[1] \in Nat /\ l <= y[1] /\ y[1] <= h
      BY <2>3
    <3>2. l + 1 <= y[1] + 1 /\ y[1] + 1 <= h + 1
      BY <3>1
    <3>3. <<y[1] + 1, y[2]>> \in later
      BY <2>3
    <3> QED
      BY <3>2, <3>3 DEF Aged
  <2>5. Shift(A) \subseteq Aged(later, 0, h + 1)
    <3> SUFFICES ASSUME NEW y \in A
                 PROVE  <<y[1] + 1, y[2]>> \in Aged(later, 0, h + 1)
      BY DEF Shift
    <3> HIDE DEF later, A
    <3>1. y[1] \in Nat /\ l <= y[1] /\ y[1] <= h
      BY <2>3
    <3>2. 0 <= y[1] + 1 /\ y[1] + 1 <= h + 1
      BY <3>1
    <3>3. <<y[1] + 1, y[2]>> \in later
      BY <2>3
    <3> QED
      BY <3>2, <3>3 DEF Aged
  <2>6. IsFiniteSet(Aged(later, l + 1, h + 1)) /\ IsFiniteSet(Aged(later, 0, h + 1))
    BY <1>5, FS_Subset DEF Aged
  <2> HIDE DEF A, later
  <2>7. /\ Cardinality(Shift(A)) <= Cardinality(Aged(later, l + 1, h + 1))
        /\ Cardinality(Shift(A)) <= Cardinality(Aged(later, 0, h + 1))
    BY <2>4, <2>5, <2>6, FS_Subset
  <2>8. /\ Cardinality(Aged(later, l + 1, h + 1)) \in Nat
        /\ Cardinality(Aged(later, 0, h + 1)) \in Nat
        /\ Cardinality(A) \in Nat
    BY <2>1, <2>6, FS_CardinalityType
  <2> QED
    BY <2>2, <2>7, <2>8 DEF A
<1> HIDE DEF kept, later
<1>8. CASE rec = None
  BY <1>8, <1>2, <1>5, <1>6 DEF OlderRecord, LockInv, Counted, Earned
<1>9. CASE rec # None
  <2> DEFINE lu == IF rec.lockedUntil \in {None, -1}
                   THEN rec.lockedUntil ELSE rec.lockedUntil - 1
             ff == Older(rec.firstFail, Old)
  <2>1. rec \in Record
    BY <1>9 DEF LockInv
  <2>2. /\ rec.failures \in Nat /\ rec.firstFail \in 0..Old
        /\ rec.lockedUntil \in (-1..LockTime) \cup {None}
    BY <2>1 DEF Record
  <2>3. OlderRecord(rec)
          = [failures |-> rec.failures, firstFail |-> ff, lockedUntil |-> lu]
    BY <1>9 DEF OlderRecord
  <2>4. lu \in (-1..LockTime) \cup {None}
    BY <2>2, <1>1
  <2>5. ff \in 0..Old /\ (ff <= Window => ff = rec.firstFail + 1)
    BY <2>2, <1>1 DEF Older
  <2>6. lu # None /\ lu > 0 =>
          /\ rec.lockedUntil # None /\ rec.lockedUntil > 0
          /\ lu = rec.lockedUntil - 1 /\ rec.lockedUntil \in 2..LockTime
    BY <2>2, <1>1
  <2> HIDE DEF lu, ff
  <2>7. OlderRecord(rec) \in Record
    BY <2>2, <2>3, <2>4, <2>5 DEF Record
  <2>8. Counted(OlderRecord(rec), later)
    <3> SUFFICES ASSUME ff <= Window
                 PROVE  Cardinality(Aged(later, 0, ff)) >= rec.failures
      BY <2>3 DEF Counted
    <3>1. ff = rec.firstFail + 1 /\ rec.firstFail \in Int /\ rec.firstFail <= Window
      BY <2>2, <2>5, <1>1
    <3>2. rec.firstFail + 1 < Ancient
      BY <3>1, <1>1
    <3>3. Cardinality(Aged(fails, 0, rec.firstFail)) >= rec.failures
      BY <3>1, <1>9 DEF LockInv, Counted
    <3>4. PICK z \in Int, f \in Int : z = 0 /\ f = rec.firstFail
      BY <3>1
    <3>5. f + 1 < Ancient /\ 0 <= z
      BY <3>2, <3>4
    <3>6. /\ Cardinality(Aged(later, 0, f + 1)) >= Cardinality(Aged(fails, z, f))
          /\ Cardinality(Aged(later, 0, f + 1)) \in Nat
          /\ Cardinality(Aged(fails, z, f)) \in Nat
      BY <3>5, <1>7
    <3> QED
      BY <3>1, <3>3, <3>4, <3>6, <2>2
  <2>9. Earned(OlderRecord(rec), later)
    <3> SUFFICES ASSUME lu # None, lu > 0, NEW s, s = LockTime - lu
                 PROVE  Cardinality(Aged(later, s, s + Window)) >= Threshold
      BY <2>3 DEF Earned
    <3>1. /\ rec.lockedUntil # None /\ rec.lockedUntil > 0
          /\ lu = rec.lockedUntil - 1 /\ rec.lockedUntil \in 2..LockTime
      BY <2>6
    <3>2. PICK r \in Int : r = LockTime - rec.lockedUntil
      BY <3>1, <1>1
    <3>3. s = r + 1 /\ s + Window = r + Window + 1 /\ 0 <= r /\ r + Window + 1 < Ancient
      BY <3>1, <3>2, <1>1
    <3>4. Cardinality(Aged(fails, r, r + Window)) >= Threshold
      BY <3>1, <3>2, <1>9 DEF LockInv, Earned
    <3>5. PICK h \in Int : h = r + Window
      BY <1>1
    <3>6. /\ Cardinality(Aged(later, r + 1, h + 1)) >= Cardinality(Aged(fails, r, h))
          /\ Cardinality(Aged(later, r + 1, h + 1)) \in Nat
          /\ Cardinality(Aged(fails, r, h)) \in Nat
      BY <3>3, <3>5, <1>7
    <3> QED
      BY <3>3, <3>4, <3>5, <3>6, <1>1
  <2> QED
    BY <2>7, <2>8, <2>9, <1>2, <1>5, <1>6 DEF LockInv
<1> QED
  BY <1>8, <1>9

(***************************************************************************)
(* Each action changes the parts it names and leaves the others alone.     *)
(***************************************************************************)
\* An attempt that moves on keeps its address and account.
LEMMA Goes ==
    ASSUME Attempts, NEW a \in Attempt, attempt[a].pc # "idle",
           NEW pc \in Stages, Go(a, pc)
    PROVE  Attempts'
<1>1. attempt[a] \in Slot /\ attempt[a].ip \in IP /\ attempt[a].email \in Email
  BY DEF Attempts, Placed
<1>2. attempt' = [attempt EXCEPT ![a] = [attempt[a] EXCEPT !.pc = pc]]
  BY DEF Go
<1>3. [attempt[a] EXCEPT !.pc = pc] \in Slot
  BY <1>1 DEF Slot
<1>4. Placed([attempt[a] EXCEPT !.pc = pc])
  BY <1>1 DEF Placed, Slot
<1> QED
  BY <1>2, <1>3, <1>4 DEF Attempts

\* An attempt that is answered leaves its slot.
LEMMA Ends ==
    ASSUME Attempts, NEW a \in Attempt, End(a)
    PROVE  Attempts'
<1>1. Idle \in Slot /\ Placed(Idle)
  BY DEF Idle, Slot, Placed, Stages
<1> QED
  BY <1>1 DEF Attempts, End

\* A request arrives.
LEMMA Starts ==
    ASSUME IInv, NEW a \in Attempt, Start(a)
    PROVE  IInv'
<1>1. PICK i \in IP, e \in Email :
        attempt' = [attempt EXCEPT ![a] = [pc |-> "isLocked", ip |-> i, email |-> e]]
  BY DEF Start
<1>2. /\ [pc |-> "isLocked", ip |-> i, email |-> e] \in Slot
      /\ Placed([pc |-> "isLocked", ip |-> i, email |-> e])
  BY DEF Slot, Stages, Placed
<1>3. Attempts'
  BY <1>1, <1>2 DEF Attempts, IInv
<1>4. UNCHANGED <<ipSeen, acctSeen, record, admitted, failed>>
  BY DEF Start, trackers
<1> QED
  BY <1>3, <1>4 DEF IInv, Addresses, Accounts, Locks

\* The lists of one address change.
LEMMA AddressesMove ==
    ASSUME Addresses, NEW i \in IP, NEW S, AddrInv(S), ipSeen' = [ipSeen EXCEPT ![i] = S]
    PROVE  Addresses'
BY DEF Addresses, AddrInv

\* The lists of one account change.
LEMMA AccountsMove ==
    ASSUME Accounts, NEW e \in Email, NEW S, NEW H, AcctInv(S, H),
           acctSeen' = [acctSeen EXCEPT ![e] = S],
           admitted' = [admitted EXCEPT ![e] = H]
    PROVE  Accounts'
<1>1. S \in Ages(Old) /\ H \in Ages(Window)
  BY DEF AcctInv
<1>2. acctSeen' \in [Email -> Ages(Old)] /\ admitted' \in [Email -> Ages(Window)]
  BY <1>1 DEF Accounts
<1>3. ASSUME NEW f \in Email PROVE AcctInv(acctSeen[f], admitted[f])'
  BY DEF Accounts
<1> QED
  BY <1>2, <1>3 DEF Accounts

\* The lockout record of one account changes.
LEMMA LocksMove ==
    ASSUME Locks, NEW e \in Email, NEW R, NEW F, LockInv(R, F),
           record' = [record EXCEPT ![e] = R],
           failed' = [failed EXCEPT ![e] = F]
    PROVE  Locks'
<1>1. R \in Record \cup {None} /\ F \in Ages(Window + LockTime)
  BY DEF LockInv
<1>2. record' \in [Email -> Record \cup {None}]
  BY <1>1 DEF Locks
<1>3. failed' \in [Email -> Ages(Window + LockTime)]
  BY <1>1 DEF Locks
<1>4. ASSUME NEW f \in Email PROVE LockInv(record[f], failed[f])'
  BY DEF Locks
<1> QED
  BY <1>2, <1>3, <1>4 DEF Locks

\* IsLoginLocked.
LEMMA IsLoginLockedStep ==
    ASSUME IInv, NEW a \in Attempt, IsLoginLocked(a)
    PROVE  IInv'
<1>1. PICK e : e = attempt[a].email
  OBVIOUS
<1>2. attempt[a].pc = "isLocked" /\ attempt[a].pc # "idle"
  BY DEF IsLoginLocked
<1>3. e \in Email /\ Attempts /\ Locks
  BY <1>1, <1>2 DEF IInv, Attempts, Placed
<1>4. UNCHANGED <<ipSeen, acctSeen, admitted, failed>>
  BY DEF IsLoginLocked
<1>5. CASE End(a) /\ UNCHANGED record
  <2>1. Attempts'
    BY <1>3, <1>5, Ends
  <2> QED
    BY <2>1, <1>4, <1>5 DEF IInv, Addresses, Accounts, Locks
<1>6. CASE /\ Go(a, "ip")
           /\ record' = [record EXCEPT ![e] = IF Lapsed(e) THEN None ELSE record[e]]
  <2>1. Attempts'
    BY <1>2, <1>3, <1>6, Goes DEF Stages
  <2>2. PICK R : R = IF Lapsed(e) THEN None ELSE record[e]
    OBVIOUS
  <2>3. LockInv(record[e], failed[e])
    BY <1>3 DEF Locks
  <2>4. LockInv(R, failed[e])
    BY <2>2, <2>3, LockForgets
  <2>5. failed' = [failed EXCEPT ![e] = failed[e]]
    BY <1>3, <1>4 DEF Locks
  <2>6. Locks'
    BY <1>3, <1>6, <2>2, <2>4, <2>5, LocksMove
  <2> QED
    BY <2>1, <2>6, <1>4 DEF IInv, Addresses, Accounts
<1> QED
  BY <1>1, <1>5, <1>6 DEF IsLoginLocked

\* CheckLoginLimit, the address.
LEMMA CheckIPLimitStep ==
    ASSUME IInv, NEW a \in Attempt, CheckIPLimit(a)
    PROVE  IInv'
<1>1. PICK i : i = attempt[a].ip
  OBVIOUS
<1>2. attempt[a].pc = "ip" /\ attempt[a].pc # "idle"
  BY DEF CheckIPLimit
<1>3. i \in IP /\ Attempts /\ Addresses
  BY <1>1, <1>2 DEF IInv, Attempts, Placed
<1>4. AddrInv(Allowed(ipSeen[i], IPLimit, Now(ipSeen[i])))
  BY <1>3, AddrAllowed DEF Addresses
<1>5. ipSeen' = [ipSeen EXCEPT ![i] = Allowed(ipSeen[i], IPLimit, Now(ipSeen[i]))]
  BY <1>1 DEF CheckIPLimit
<1>6. Addresses'
  BY <1>3, <1>4, <1>5, AddressesMove
<1>7. Go(a, "acct") \/ End(a)
  BY DEF CheckIPLimit
<1>8. Attempts'
  BY <1>2, <1>3, <1>7, Goes, Ends DEF Stages
<1>9. UNCHANGED <<acctSeen, record, admitted, failed>>
  BY DEF CheckIPLimit
<1> QED
  BY <1>6, <1>8, <1>9 DEF IInv, Accounts, Locks

\* CheckLoginLimit, the account.
LEMMA CheckAcctLimitStep ==
    ASSUME IInv, NEW a \in Attempt, CheckAcctLimit(a)
    PROVE  IInv'
<1>1. PICK e : e = attempt[a].email
  OBVIOUS
<1>2. attempt[a].pc = "acct" /\ attempt[a].pc # "idle"
  BY DEF CheckAcctLimit
<1>3. e \in Email /\ Attempts /\ Accounts
  BY <1>1, <1>2 DEF IInv, Attempts, Placed
<1>4. PICK x : x = Now(acctSeen[e] \cup admitted[e])
  OBVIOUS
<1>5. AcctInv(acctSeen[e], admitted[e])
  BY <1>3 DEF Accounts
<1>6. acctSeen' = [acctSeen EXCEPT ![e] = Allowed(acctSeen[e], AcctLimit, x)]
  BY <1>1, <1>4 DEF CheckAcctLimit
<1>7. CASE /\ Within(acctSeen[e], AcctLimit) /\ Go(a, "verify")
           /\ admitted' = [admitted EXCEPT ![e] = admitted[e] \cup {x}]
  <2>1. Attempts'
    BY <1>2, <1>3, <1>7, Goes DEF Stages
  <2>2. AcctInv(Allowed(acctSeen[e], AcctLimit, x), admitted[e] \cup {x})
    BY <1>4, <1>5, <1>7, AcctAdmits
  <2>3. Accounts'
    BY <1>3, <1>6, <1>7, <2>2, AccountsMove
  <2> QED
    BY <2>1, <2>3 DEF IInv, Addresses, Locks, CheckAcctLimit
<1>8. CASE ~Within(acctSeen[e], AcctLimit) /\ End(a) /\ UNCHANGED admitted
  <2>1. Attempts'
    BY <1>3, <1>8, Ends
  <2>2. AcctInv(Allowed(acctSeen[e], AcctLimit, x), admitted[e])
    BY <1>5, <1>8, AcctRefuses
  <2>3. admitted' = [admitted EXCEPT ![e] = admitted[e]]
    BY <1>3, <1>8 DEF Accounts
  <2>4. Accounts'
    BY <1>3, <1>6, <2>2, <2>3, AccountsMove
  <2> QED
    BY <2>1, <2>4 DEF IInv, Addresses, Locks, CheckAcctLimit
<1> QED
  BY <1>1, <1>4, <1>7, <1>8 DEF CheckAcctLimit

\* The password check itself touches no tracker.
LEMMA VerifyStep ==
    ASSUME IInv, NEW a \in Attempt, Verify(a)
    PROVE  IInv'
<1>1. attempt[a].pc # "idle" /\ Attempts
  BY DEF Verify, IInv
<1>2. End(a) \/ Go(a, "failure") \/ Go(a, "resetIP")
  BY DEF Verify
<1>3. Attempts'
  BY <1>1, <1>2, Goes, Ends DEF Stages
<1>4. UNCHANGED <<ipSeen, acctSeen, record, admitted, failed>>
  BY DEF Verify, trackers
<1> QED
  BY <1>3, <1>4 DEF IInv, Addresses, Accounts, Locks

\* RecordLoginFailure.
LEMMA RecordLoginFailureStep ==
    ASSUME IInv, NEW a \in Attempt, RecordLoginFailure(a)
    PROVE  IInv'
<1>1. PICK e : e = attempt[a].email
  OBVIOUS
<1>2. attempt[a].pc # "idle"
  BY DEF RecordLoginFailure
<1>3. e \in Email /\ Attempts /\ Locks
  BY <1>1, <1>2 DEF IInv, Attempts, Placed
<1>4. LockInv(Failure(record[e]), failed[e] \cup {Now(failed[e])})
  BY <1>3, LockFailure DEF Locks
<1>5. /\ record' = [record EXCEPT ![e] = Failure(record[e])]
      /\ failed' = [failed EXCEPT ![e] = failed[e] \cup {Now(failed[e])}]
  BY <1>1 DEF RecordLoginFailure
<1>6. Locks'
  BY <1>3, <1>4, <1>5, LocksMove
<1>7. Attempts'
  BY <1>3, Ends DEF RecordLoginFailure
<1> QED
  BY <1>6, <1>7 DEF IInv, Addresses, Accounts, RecordLoginFailure

\* ResetLoginLimit, tracker by tracker.
LEMMA ResetStep ==
    ASSUME IInv, NEW a \in Attempt, ResetIP(a) \/ ResetAcct(a) \/ ResetLock(a)
    PROVE  IInv'
<1>1. attempt[a].pc # "idle"
  BY DEF ResetIP, ResetAcct, ResetLock
<1>2. PICK i, e : i = attempt[a].ip /\ e = attempt[a].email
  OBVIOUS
<1>3. i \in IP /\ e \in Email /\ Attempts /\ Addresses /\ Accounts /\ Locks
  BY <1>1, <1>2 DEF IInv, Attempts, Placed
<1>4. CASE ResetIP(a)
  <2>1. AddrInv({})
    BY FS_EmptySet DEF AddrInv, Ages
  <2>2. ipSeen' = [ipSeen EXCEPT ![i] = {}]
    BY <1>2, <1>4 DEF ResetIP
  <2>3. Addresses'
    BY <1>3, <2>1, <2>2, AddressesMove
  <2>4. Attempts'
    BY <1>1, <1>3, <1>4, Goes DEF ResetIP, Stages
  <2> QED
    BY <2>3, <2>4, <1>4 DEF IInv, Accounts, Locks, ResetIP
<1>5. CASE ResetAcct(a)
  <2>1. /\ acctSeen' = [acctSeen EXCEPT ![e] = {}]
        /\ admitted' = [admitted EXCEPT ![e] = {}]
    BY <1>2, <1>5 DEF ResetAcct
  <2>2. Accounts'
    BY <1>3, <2>1, AcctEmpty, AccountsMove
  <2>3. Attempts'
    BY <1>1, <1>3, <1>5, Goes DEF ResetAcct, Stages
  <2> QED
    BY <2>2, <2>3, <1>5 DEF IInv, Addresses, Locks, ResetAcct
<1>6. CASE ResetLock(a)
  <2>1. record' = [record EXCEPT ![e] = None] /\ failed' = [failed EXCEPT ![e] = {}]
    BY <1>2, <1>6 DEF ResetLock
  <2>2. Locks'
    BY <1>3, <2>1, LockEmpty, LocksMove
  <2>3. Attempts'
    BY <1>3, <1>6, Ends DEF ResetLock
  <2> QED
    BY <2>2, <2>3, <1>6 DEF IInv, Addresses, Accounts, ResetLock
<1> QED
  BY <1>4, <1>5, <1>6

\* A process that has just started.
LEMMA InitInv == Init => IInv
<1> SUFFICES ASSUME Init PROVE IInv
  OBVIOUS
<1>1. {} \in Ages(Old) /\ {} \in Ages(Window) /\ {} \in Ages(Window + LockTime)
  BY DEF Ages
<1>2. AddrInv({})
  BY <1>1, FS_EmptySet DEF AddrInv
<1>3. Addresses
  BY <1>1, <1>2 DEF Init, Addresses
<1>4. Accounts
  BY <1>1, AcctEmpty DEF Init, Accounts
<1>5. Locks
  BY <1>1, LockEmpty DEF Init, Locks
<1>6. Idle \in Slot /\ Placed(Idle)
  BY DEF Idle, Slot, Placed, Stages
<1>7. Attempts
  BY <1>6 DEF Init, Attempts
<1> QED
  BY <1>3, <1>4, <1>5, <1>7 DEF IInv

\* A restart, whatever was in flight.
LEMMA RestartStep == ASSUME Restart PROVE IInv'
<1>1. {} \in Ages(Old) /\ {} \in Ages(Window) /\ {} \in Ages(Window + LockTime)
  BY DEF Ages
<1>2. AddrInv({})
  BY <1>1, FS_EmptySet DEF AddrInv
<1>3. Addresses'
  BY <1>1, <1>2 DEF Restart, Addresses
<1>4. Accounts'
  BY <1>1, AcctEmpty DEF Restart, Accounts
<1>5. Locks'
  BY <1>1, LockEmpty DEF Restart, Locks
<1>6. Idle \in Slot /\ Placed(Idle)
  BY DEF Idle, Slot, Placed, Stages
<1>7. Attempts'
  BY <1>6 DEF Restart, Attempts
<1> QED
  BY <1>3, <1>4, <1>5, <1>7 DEF IInv

\* Time passes.
LEMMA TickStep == ASSUME IInv, Tick PROVE IInv'
<1>1. Addresses'
  <2>1. ASSUME NEW i \in IP PROVE AddrInv(OlderAll(ipSeen[i]))
    BY OlderAllType DEF IInv, Addresses
  <2>2. ipSeen' = [i \in IP |-> OlderAll(ipSeen[i])]
    BY DEF Tick
  <2>3. \A i \in IP : OlderAll(ipSeen[i]) \in Ages(Old)
    BY <2>1 DEF AddrInv
  <2> QED
    BY <2>1, <2>2, <2>3 DEF Addresses
<1>2. Accounts'
  <2>1. ASSUME NEW e \in Email
        PROVE  AcctInv(OlderAll(acctSeen[e]), OlderHistory(admitted[e], Old))
    BY AcctOlder DEF IInv, Accounts
  <2>2. /\ acctSeen' = [e \in Email |-> OlderAll(acctSeen[e])]
        /\ admitted' = [e \in Email |-> OlderHistory(admitted[e], Old)]
    BY DEF Tick
  <2>3. \A e \in Email : /\ OlderAll(acctSeen[e]) \in Ages(Old)
                         /\ OlderHistory(admitted[e], Old) \in Ages(Window)
    BY <2>1 DEF AcctInv
  <2> QED
    BY <2>1, <2>2, <2>3 DEF Accounts
<1>3. Locks'
  <2>1. ASSUME NEW e \in Email
        PROVE  LockInv(OlderRecord(record[e]), OlderHistory(failed[e], Ancient))
    BY LockOlder DEF IInv, Locks
  <2>2. /\ record' = [e \in Email |-> OlderRecord(record[e])]
        /\ failed' = [e \in Email |-> OlderHistory(failed[e], Ancient)]
    BY DEF Tick
  <2>3. \A e \in Email :
          /\ OlderRecord(record[e]) \in Record \cup {None}
          /\ OlderHistory(failed[e], Ancient) \in Ages(Window + LockTime)
    BY <2>1 DEF LockInv
  <2> QED
    BY <2>1, <2>2, <2>3 DEF Locks
<1>4. Attempts'
  BY DEF IInv, Tick, Attempts
<1> QED
  BY <1>1, <1>2, <1>3, <1>4 DEF IInv

\* Whatever the next step is.
LEMMA StepInv == IInv /\ [Next]_vars => IInv'
<1> SUFFICES ASSUME IInv, [Next]_vars PROVE IInv'
  OBVIOUS
<1>1. CASE Tick
  BY <1>1, TickStep
<1>2. CASE Restart
  BY <1>2, RestartStep
<1>3. ASSUME NEW a \in Attempt, Step(a) PROVE IInv'
  BY <1>3, Starts, IsLoginLockedStep, CheckIPLimitStep, CheckAcctLimitStep,
     VerifyStep, RecordLoginFailureStep, ResetStep DEF Step
<1>4. CASE UNCHANGED vars
  BY <1>4 DEF vars, IInv, Addresses, Accounts, Locks, Attempts
<1> QED
  BY <1>1, <1>2, <1>3, <1>4 DEF Next

\* The inductive invariant holds of every behaviour.
LEMMA GuardInvariance == Spec => []IInv
BY InitInv, StepInv, PTL DEF Spec

\* The trackers, records and attempts keep their types.
THEOREM LoginGuardType == Spec => []TypeOK
<1>1. IInv => TypeOK
  BY DEF IInv, Addresses, Accounts, Locks, Attempts, Slot, TypeOK
<1> QED
  BY <1>1, GuardInvariance, PTL

\* Whatever the limit and the window are and however many attempts interleave,
\* the account limiter lets no more password checks through per window.
THEOREM AccountBudgetAlways == Spec => []AccountBudget
<1>1. IInv => AccountBudget
  <2> SUFFICES ASSUME IInv, NEW e \in Email
               PROVE  Cardinality(Aged(admitted[e], 0, Window - 1)) <= AcctLimit
    BY DEF AccountBudget
  <2>1. AcctInv(acctSeen[e], admitted[e])
    BY DEF IInv, Accounts
  <2>2. Window \in Nat /\ AcctLimit \in Nat
    BY GuardAssumption
  <2>3. Aged(admitted[e], 0, Window - 1) \subseteq Recent(acctSeen[e])
    <3> SUFFICES ASSUME NEW y \in admitted[e], y[1] <= Window - 1
                 PROVE  y \in Recent(acctSeen[e])
      BY DEF Aged
    <3>1. y[1] \in 0..Window
      BY <2>1 DEF AcctInv, Ages
    <3>2. y[1] < Window
      BY <3>1, <2>2
    <3> QED
      BY <3>2, <2>1 DEF AcctInv, Recent
  <2>4. IsFiniteSet(Recent(acctSeen[e]))
    BY <2>1, RecentType DEF AcctInv
  <2>5. /\ Cardinality(Aged(admitted[e], 0, Window - 1))
             <= Cardinality(Recent(acctSeen[e]))
        /\ IsFiniteSet(Aged(admitted[e], 0, Window - 1))
    BY <2>3, <2>4, FS_Subset
  <2>6. /\ Cardinality(Aged(admitted[e], 0, Window - 1)) \in Nat
        /\ Cardinality(Recent(acctSeen[e])) \in Nat
    BY <2>4, <2>5, FS_CardinalityType
  <2>7. Cardinality(Recent(acctSeen[e])) <= AcctLimit
    BY <2>1 DEF AcctInv
  <2> QED
    BY <2>2, <2>5, <2>6, <2>7
<1> QED
  BY <1>1, GuardInvariance, PTL

\* Whatever the threshold, the window and the lock time are, an account is
\* locked only after that many failures within one window.
THEOREM LockJustifiedAlways == Spec => []LockJustified
<1>1. IInv => LockJustified
  <2> SUFFICES ASSUME IInv, NEW e \in Email, Locked(e),
                      NEW s, s = LockTime - record[e].lockedUntil
               PROVE  Cardinality(Aged(failed[e], s, s + Window)) >= Threshold
    BY DEF LockJustified
  <2>1. Earned(record[e], failed[e])
    BY DEF IInv, Locks, LockInv
  <2> QED
    BY <2>1 DEF Earned, Locked
<1> QED
  BY <1>1, GuardInvariance, PTL

(***************************************************************************)
(* The inactivity lock.                                                    *)
(***************************************************************************)
Bounded == AutoLockTypeOK /\ IdleBounded

\* A freshly loaded page is locked and has no timer.
LEMMA InitBounded == AutoLockInit => Bounded
  <1> SUFFICES ASSUME AutoLockInit PROVE Bounded
    OBVIOUS
  <1>1. idle \in IdleTime
    BY AutoLockAssumption, SMT DEF AutoLockInit, IdleTime
  <1>2. IdleBounded
    BY Zenon DEF AutoLockInit, IdleBounded
  <1>3. lockTimer \in (0..AutoLockMs) \cup {NoTimer}
    BY Zenon DEF AutoLockInit
  <1>4. running \in SUBSET Operation
    BY Zenon DEF AutoLockInit
  <1>5. /\ vaultKey \in BOOLEAN /\ listening \in BOOLEAN /\ hidden \in BOOLEAN
        /\ mode \in {"loading", "auth", "vault"}
    BY Zenon DEF AutoLockInit
  <1> QED
    BY <1>1, <1>2, <1>3, <1>4, <1>5, Zenon DEF Bounded, AutoLockTypeOK

\* Each callback, effect and operation keeps the timer within the timeout.
LEMMA NextBounded == Bounded /\ [AutoLockNext]_tabVars => Bounded'
  <1> SUFFICES ASSUME Bounded, [AutoLockNext]_tabVars PROVE Bounded'
    OBVIOUS
  <1> USE AutoLockAssumption DEF Bounded, AutoLockTypeOK, IdleBounded, IdleTime
  <1>1. CASE Interact
    BY <1>1 DEF Interact, resetTimer
  <1>2. CASE TimeOut
    BY <1>2 DEF TimeOut, lock
  <1>3. CASE Hide
    BY <1>3 DEF Hide, lock
  <1>4. CASE Show
    BY <1>4 DEF Show
  <1>5. CASE Elapse
    <2>1. lockTimer # 0 /\ lockTimer' = (IF lockTimer = NoTimer THEN NoTimer ELSE lockTimer - 1)
      BY <1>5 DEF Elapse
    <2>2. idle' = (IF idle > AutoLockMs THEN idle ELSE idle + 1)
      BY <1>5 DEF Elapse
    <2>3. UNCHANGED <<vaultKey, listening, hidden, mode, running>>
      BY <1>5 DEF Elapse
    <2>4. idle' \in IdleTime
      BY <2>2
    <2>5. lockTimer' \in (0..AutoLockMs) \cup {NoTimer}
      BY <2>1
    <2>6. IdleBounded'
      BY <2>1, <2>2, <2>3
    <2> QED
      BY <2>3, <2>4, <2>5, <2>6
  <1>6. CASE React
    BY <1>6 DEF React, Listen, CryptoLoaded, ShowMode
  <1>7. CASE LoggedOut
    BY <1>7 DEF LoggedOut, lock
  <1>8. ASSUME NEW op \in Operation, Submit(op) PROVE Bounded'
    BY <1>8 DEF Submit, resetTimer
  <1>9. ASSUME NEW op \in Operation, Unlock(op) PROVE Bounded'
    BY <1>9 DEF Unlock, setVaultKey, resetTimer
  <1>10. ASSUME NEW op \in Operation, Reject(op) PROVE Bounded'
    BY <1>10 DEF Reject
  <1>11. CASE UNCHANGED tabVars
    BY <1>11 DEF tabVars
  <1> QED
    BY <1>1, <1>2, <1>3, <1>4, <1>5, <1>6, <1>7, <1>8, <1>9, <1>10, <1>11
    DEF AutoLockNext

\* The state of VaultProvider and AppShell keeps its type.
THEOREM AutoLockType == AutoLockSpec => []AutoLockTypeOK
  <1>1. Bounded => AutoLockTypeOK
    BY DEF Bounded
  <1> QED
    BY InitBounded, NextBounded, <1>1, PTL DEF AutoLockSpec

\* Whatever AUTO_LOCK_MS is, the key never stays in memory for longer than that
\* after the last interaction or unlock.
THEOREM IdleBoundedAlways == AutoLockSpec => []IdleBounded
  <1>1. Bounded => IdleBounded
    BY DEF Bounded
  <1> QED
    BY InitBounded, NextBounded, <1>1, PTL DEF AutoLockSpec

=============================================================================
