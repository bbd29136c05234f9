------------------------------ MODULE AutoLock ------------------------------
(***************************************************************************)
(* When one browser tab holds the vault key in memory: VaultProvider's     *)
(* inactivity timer and hidden-tab lock, against the operations that set   *)
(* or clear the key when their promises settle.                            *)
(*                                                                         *)
(* JavaScript callbacks are steps.  React runs the effect that attaches    *)
(* and detaches the interaction listeners some time after a state change.  *)
(* A timer that is due fires before time passes any further: the browser   *)
(* is assumed to run timers on time.                                       *)
(***************************************************************************)
EXTENDS Integers

CONSTANTS AutoLockMs,  \* AUTO_LOCK_MS, in ticks
          NoTimer      \* no timeout is pending

ASSUME AutoLockAssumption == AutoLockMs \in Nat \ {0} /\ NoTimer \notin Int

VARIABLES vaultKey,   \* whether the key is in memory
          lockTimer,  \* time left of the pending timeout, or NoTimer
          listening,  \* the interaction listeners are attached
          hidden,     \* document.visibilityState = "hidden"
          mode,       \* what AppShell shows
          running,    \* operations whose promise has not settled
          idle        \* history: time since the last interaction or setVaultKey

tabVars == <<vaultKey, lockTimer, listening, hidden, mode, running, idle>>

Operation == {"login", "change", "logout"}

\* Times beyond the timeout are not told apart.
IdleTime == 0..(AutoLockMs + 1)

\* The one type invariant.
AutoLockTypeOK ==
    /\ vaultKey \in BOOLEAN /\ listening \in BOOLEAN /\ hidden \in BOOLEAN
    /\ lockTimer \in (0..AutoLockMs) \cup {NoTimer}
    /\ mode \in {"loading", "auth", "vault"}
    /\ running \in SUBSET Operation
    /\ idle \in IdleTime

AutoLockInit ==
    /\ vaultKey = FALSE /\ lockTimer = NoTimer /\ listening = FALSE
    /\ hidden = FALSE /\ mode = "loading" /\ running = {} /\ idle = 0

(***************************************************************************)
(* VaultProvider.                                                          *)
(***************************************************************************)
lock == vaultKey' = FALSE /\ lockTimer' = NoTimer

\* clearTimeout and setTimeout(lock, AUTO_LOCK_MS).
resetTimer == lockTimer' = AutoLockMs

MsetVaultKey == vaultKey' = TRUE /\ UNCHANGED lockTimer /\ idle' = 0

setVaultKey == vaultKey' = TRUE /\ resetTimer /\ idle' = 0

\* mousemove, keydown, click, touchstart.
Interact ==
    /\ ~hidden
    /\ IF listening THEN resetTimer ELSE UNCHANGED lockTimer
    /\ idle' = 0
    /\ UNCHANGED <<vaultKey, listening, hidden, mode, running>>

\* The effect on vaultKey catches up.
Listen ==
    /\ listening # vaultKey
    /\ listening' = vaultKey
    /\ UNCHANGED <<vaultKey, lockTimer, hidden, mode, running, idle>>

TimeOut ==
    /\ lockTimer = 0
    /\ lock
    /\ UNCHANGED <<listening, hidden, mode, running, idle>>

\* visibilitychange.
Hide ==
    /\ ~hidden
    /\ hidden' = TRUE
    /\ lock
    /\ UNCHANGED <<listening, mode, running, idle>>

Show ==
    /\ hidden
    /\ hidden' = FALSE
    /\ UNCHANGED <<vaultKey, lockTimer, listening, mode, running, idle>>

Elapse ==
    /\ lockTimer # 0
    /\ lockTimer' = IF lockTimer = NoTimer THEN NoTimer ELSE lockTimer - 1
    /\ idle' = IF idle > AutoLockMs THEN idle ELSE idle + 1
    /\ UNCHANGED <<vaultKey, listening, hidden, mode, running>>

(***************************************************************************)
(* AppShell.                                                               *)
(***************************************************************************)
\* getCrypto settled, either way.
CryptoLoaded ==
    /\ mode = "loading"
    /\ mode' = "auth"
    /\ UNCHANGED <<vaultKey, lockTimer, listening, hidden, running, idle>>

\* The effect on vaultKey and mode.
ShowMode ==
    /\ \/ vaultKey /\ mode # "vault" /\ mode' = "vault"
       \/ ~vaultKey /\ mode = "vault" /\ mode' = "auth"
    /\ UNCHANGED <<vaultKey, lockTimer, listening, hidden, running, idle>>

(***************************************************************************)
(* The operations that end in setVaultKey or lock.                         *)
(***************************************************************************)
\* Submitting LoginForm, ChangePasswordModal (not while the key is gone) or
\* pressing Log Out is an interaction.
Submit(op) ==
    /\ ~hidden /\ op \notin running
    /\ mode = (IF op = "login" THEN "auth" ELSE "vault")
    /\ op = "change" => vaultKey
    /\ running' = running \cup {op}
    /\ IF listening THEN resetTimer ELSE UNCHANGED lockTimer
    /\ idle' = 0
    /\ UNCHANGED <<vaultKey, listening, hidden, mode>>

\* finishLogin, and the end of ChangePasswordModal.handleSubmit: whatever
\* happened to the tab meanwhile.
Unlock(op) ==
    /\ op \in running \ {"logout"}
    /\ running' = running \ {op}
    /\ setVaultKey
    /\ UNCHANGED <<listening, hidden, mode>>

\* The catch clauses.
Reject(op) ==
    /\ op \in running \ {"logout"}
    /\ running' = running \ {op}
    /\ UNCHANGED <<vaultKey, lockTimer, listening, hidden, mode, idle>>

\* handleLogout locks in its finally clause, also when the request failed.
LoggedOut ==
    /\ "logout" \in running
    /\ running' = running \ {"logout"}
    /\ lock
    /\ UNCHANGED <<listening, hidden, mode, idle>>

React == Listen \/ CryptoLoaded \/ ShowMode

AutoLockNext ==
    \/ Interact \/ TimeOut \/ Hide \/ Show \/ Elapse \/ React \/ LoggedOut
    \/ \E op \in Operation : Submit(op) \/ Unlock(op) \/ Reject(op)

AutoLockSpec == AutoLockInit /\ [][AutoLockNext]_tabVars

\* Time passes and callbacks that are due run; people, and the operations
\* they start, may or may not.
AutoLockFairSpec ==
    AutoLockSpec /\ WF_tabVars(Elapse) /\ WF_tabVars(TimeOut) /\ WF_tabVars(React)

(***************************************************************************)
(* Properties.                                                             *)
(***************************************************************************)
\* The key is never in memory for longer than AUTO_LOCK_MS after the last
\* interaction or unlock: a timer is pending whenever the key is there, and it
\* is due no later than that, however the unlocks, locks, late listeners and
\* timers follow each other (resetTimer clears the one before).
IdleBounded ==
    vaultKey => lockTimer # NoTimer /\ idle + lockTimer <= AutoLockMs

\* A vault left alone locks: unless somebody keeps interacting or an operation
\* that sets the key keeps settling, the key leaves memory.
LeftAloneLocks == []<>(~vaultKey \/ idle = 0)

=============================================================================
