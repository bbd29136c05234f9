# Formal models of go-vault

go-vault is a zero-knowledge password vault: a Go server that keeps ciphertext
in PostgreSQL, and a React client that encrypts and decrypts in the browser
through a Go/WASM crypto core. This directory holds TLA+ models of its stateful
parts, TLC configurations that check them on small instances, and proofs, checked
by TLAPS, that hold for every value of the constants.

Paths below are relative to the repository. `PROJECT.json` maps each definition
to the source lines it models and lists the runs, hazards, findings and theorems.

## 1. Inventory

| Component | Code | State | Operations |
|---|---|---|---|
| Vault items | `internal/api/handlers.go` (sync, items), `internal/storage/items.go`, `VaultList.tsx`, `AddItemModal.tsx`, `EditItemModal.tsx` | table `vault_items` (ciphertext, revision); the list a device shows | list, sync, create, update guarded by the revision, delete |
| Sessions | `internal/auth/session.go`, `internal/storage/sessions.go`, `middleware.go`, auth handlers | table `sessions` (two token hashes, two expiries) | issue, refresh (rotate), check, log out, revoke all |
| Login guard | `internal/auth/ratelimit.go`, `lockout.go`, `session.go` | two sliding-window maps and a failure map, in memory, each under its own mutex | allow, record failure, reset, is locked |
| Two-factor | `handlers_phase5.go`, `internal/storage/mfa.go` | `users.totp_enabled`, `recovery_codes`, `mfa_challenges` | challenge, consume, spend a code, enrol, regenerate, disable |
| Vault keys | `ChangePasswordModal.tsx`, `RegisterForm.tsx`, `LoginForm.tsx`, `TwoFactorSettings.tsx`, `vault-export.ts`, PUT `/api/user/key` | the wrapped key on the users row; the key in each tab; the key every blob is under | register, log in, change password, rotate, export, import, enrol |
| Auto-lock | `VaultContext.tsx`, `App.tsx`, `LoginForm.tsx` | key in memory, timer, listeners, visibility | unlock, interact, time out, hide, lock |
| Audit log | `internal/api/audit.go`, `internal/storage/audit.go`, `handlers_phase5.go` (activity) | table `audit_events` | append after an operation, page by cursor |
| Alerts, device notices | `internal/audit/alert.go`, `api/audit.go` | failure times in memory, table `user_device_hashes` | count, warn in the server log |
| Browser session | `client.ts`, `cookies.go` | the cookies all tabs share, one refresh in flight per tab | fetchWithAuth, refresh, retry |
| Login parameters | GET `/api/login/kdf-params` | none | answer stored or default parameters |
| Router and middleware | `router.go`, `middleware.go`, `helpers.go` | none shared | decide on one request by itself |
| Crypto core, WASM | `internal/crypto`, `cmd/wasm`, `web/src/crypto/service.ts` | none; what it makes is on the users row and in the tabs | derive, stretch, wrap, unwrap, seal, open |
| Storage layer | `internal/storage`, `sqlcgen`, `migrations` | the tables above | one statement each |
| Server process | `cmd/server`, `internal/config` | the trackers die with it | start, stop |

**How they interact.** A request passes the session check (one SELECT), then its
handler runs one or more SQL statements on a pool with autocommit; only the
replacement of recovery codes uses a transaction (disabling 2FA is two statements,
`mfa.go:33-43`). Foreign keys
cascade from `users` to every table except `audit_events`, whose `user_id` is set
to NULL. The browser keeps a list of items per tab, changes it from answers as
they arrive, and holds the vault key in React state. Tabs share the cookies.

**What is hard.** Handlers interleave between any two statements. Two statements
that look like one operation (UPDATE then EXISTS; SELECT by hash then UPDATE by
id; list codes then mark one; revoke sessions then delete the account) see
different states. Answers are lost or overtake each other. A rotation of the
vault key is a chain of requests with no transaction around it. Rate limiters
forget on restart. Timers and promises settle in any order.

**What makes each part correct.** Items: no update is lost, answers are true,
accounts are isolated. Sessions: revoked stays revoked, one live pair per login,
access only for the right account and in time. Login guard: the budget per window
holds and locks are earned and end. Two-factor: codes and challenges are single
use. Vault keys: whatever is stored can be opened. Auto-lock: the key leaves
memory in time. Audit log: it only grows, and a client that follows the cursors
sees it. Browser session: every call ends, and the cookies that are left work. Key
hierarchy: nothing the server is sent opens anything, and the row of an account
always fits together.

## 2. Modules

Each module models one component. In all of them **one SQL statement or one
critical section is one step**, a request in flight is a record with a program
counter, and any statement may fail (`StatementFails`, `Fail`, `Abort`). Appending
an audit event at the end of a handler touches no table of the other modules and
is modelled in `AuditLog` only. A database error after a commit leaves the state
of a lost answer, which is modelled.

### VaultItems, ItemService
`items` is `vault_items`, `cache` the list each device shows, `req` the requests.
`Send*` are the browser's calls, `GetSync`, `GetItems`, `CreateItem`,
`UpdateItem`, `ItemExists`, `DeleteItem` the statements of the handlers,
`Deliver` applies an answer to the list as the components do, `Lose` drops a
request or an answer at any point, `DeleteUser` is the cascade. `UpdateItem` is
`UPDATE ... WHERE id, user_id, revision`; when it matches nothing, `ItemExists`
is the second statement that tells 404 from 409. A revision at the top of its
INTEGER column makes the UPDATE fail. A ciphertext is a model value; item type
and time stamps are folded into it. A list is a function from ids to views, so
its order and duplicates are not seen. `ItemService` is the abstract
specification: the same calls, each taking effect in one step. `Linearizable`
says that `VaultItems` implements it.

### Sessions
A pair of tokens is a number drawn by `minted`; `session` maps the id of the login
that inserted a row to its row, with the pair whose hashes it holds. `token`
records what each pair was issued for (history). `GetByRefreshHash` and
`RotateTokens` are the two statements of `RefreshSession`; `SessionAuth` is the
middleware, after which `Use`, `PostLogout` or `RevokeAllSessions` and `DeleteUser`
run. Looking a row up and testing its expiry is one step: nothing another process
does in between changes the outcome of the test but the clock, and the clock of
the lookup is the one used. With `AccessTTL = 0` a token is valid in the instant it
was issued.

### LoginGuard
An attempt is a process: `IsLoginLocked`, `CheckIPLimit`, `CheckAcctLimit`, `Verify`,
then `RecordLoginFailure` or `ResetIP`, `ResetAcct`, `ResetLock`. Times are ages
relative to the present and ages beyond every comparison of the code are not told
apart, so time is unbounded. A slice of time stamps is a set of pairs of an age and a
number: the code counts and prunes the slice and never looks at its order, and the
numbers, which it does not have, keep entries of one instant apart. `Now` takes the
least number that is free. `admitted` and `failed` are histories; an admission is the
same pair in `admitted` as in the limiter's list. `Restart` forgets the trackers and the
requests.

### TwoFactor
Login with a challenge, the second factor (TOTP, a yes or no, or a recovery code),
enrolment, regeneration, disabling, deletion of the account. Disabling is two
statements with autocommit, the UPDATE of the users row (`DisableTOTP`) and the DELETE of
the codes (`ClearCodes`, `RemoveCodes`); the transaction of `ReplaceRecoveryCodes` runs
under READ COMMITTED, PostgreSQL's default: the DELETE removes the rows that are committed when it starts
(`ReplaceDelete`), keeps them locked (`RowLocked`), and the inserts appear on
`ReplaceCommit`. `overlap` and `mixed` are history: which replacements ran while another
did, and whether the last to commit was one of them. OneCodeSet needs them.

### VaultKeys
A key is a number, a blob a record with the key it is under; opening it with
another key throws. `Submit`, `Sync`, `Reencrypt`, `Put`, `Fail` are the steps of
`handleSubmit` in `ChangePasswordModal`; `ReencryptUnheard` and `PutUnheard` are
requests that were carried out and whose answer never came. A tab runs one change
at a time; a second tab gives the concurrency. A failing crypto call throws, as
`cmd/wasm/main.go:9` says, and the tab goes on. In fact a panic ends the Go program
of the tab and later calls throw until a reload, which leaves fewer behaviours.
So `EditItem`, which may save over an item that did not open because the edit form
offers it, allows more than a tab with a dead module can do; every property checked
is a safety property, which the additional behaviours can only make harder. An
import uploads the items of a file in any order.

### KeyHierarchy
Bytes are symbolic terms: `<<"argon2id", input, salt, params>>`, `<<"hkdf", ...>>`,
`<<"sealed", key, plaintext, aad>>`. The operators with the names of `internal/crypto`
build them and those with the names of `cmd/wasm` compose them as the forms do.
`users` is the row with its parameters, hash, salt, wrapped key and wrapped TOTP
secret; `seen` is the history of every secret-dependent value that reached the
server, in rejected and duplicate requests too. An address is a name and a way to
type it, and `NormalizeEmail` removes the difference. Tabs may run bundles of
different releases with different default parameters, which is what storing
`kdf_params` is for. `GetLoginKdfParams`, `PostLogin`, `PostLoginMfa` are the requests of a
login, between which other tabs change the row; `ChangeSync`, `Reencrypt`,
`PutUserKey` are the requests of a password change. VaultKeys asks which vault key
a blob is under; this module asks which password and parameters get at that key,
and who learns what. Sealing an item stands for its POST or PUT; which items are
stored is the business of VaultItems and VaultKeys. `EnrollTotp` is one step although the
handler checks the status in a statement of its own: TwoFactor has that race, and it
changes neither what is sent nor what is stored. A PUT of new credentials that fails
after it was received (`ChangeFails`) adds its values to `seen`.

`Makes` and `Analysed` say what can be computed from a set of values: a hash from its
inputs, a key from its secret, the content of a blob from its key. Guessing a
password is outside of this: a value is either known or not.

### BrowserSession
The other side of Sessions: instead of any client that presents any token, the
program's own. `jar` is the pair of cookies all tabs share, `call` the calls of the
tabs with the cookies they were sent with and the answers under way, `refresh` the
requests to `/api/auth/refresh`, `flight` the variable `refreshInFlight` of each tab.
`Begin` is a call of `api`, `SessionAuth`, `PostLogin`, `PostLogout`, `GetByRefreshHash` and
`RotateTokens` are the statements of the handlers, `Deliver` and `DeliverRefresh` the
arrival of an answer with its cookies and what `fetchWithAuth` does next, `Lose` and
`LoseRefresh` a fetch that rejects. `spoilt` is history: an answer was lost, or
refreshes of two tabs overlapped. Reloading a tab is a call that nobody waits for. A
guarded request ends with 401 in the middleware or in the handler, when it refuses a
second factor; `fetchWithAuth` treats both alike. DELETE `/api/user` is not among the routes:
`client.ts` has a function for it that no component calls (its statements are in
Sessions).

### AutoLock
`vaultKey`, `lockTimer`, `listening`, `hidden` are the state of `VaultProvider`, `mode`
and `running` that of the shell and its unsettled operations. `lock`, `resetTimer` and
`setVaultKey` are the functions of the same names; `React` is the effects that run
after a state change (attaching the listeners, showing the right screen). `idle`
is history. Timers are assumed to fire when due: `Elapse` does not pass a due timer. The
names of the specification carry the prefix `AutoLock` because `TimingProofs` extends this
module and LoginGuard.

### AuditLog
`Act` and `DeleteUser` are operations that report an event, `Stamp` the DEFAULT
`now()` of the INSERT, `AppendEvent` its commit with the foreign key check,
`AppendFails` a dropped error. `GetActivity` is one request for a page with
`AuditLimit`, `ListByUser` and the cursor. Two stamps may be equal and commits may
come out of the order of the stamps.

### Proof modules
`VaultItemsProofs`, `SessionsProofs`, `TwoFactorProofs`, `VaultKeysProofs`,
`KeyHierarchyProofs`, `BrowserSessionProofs` and `AuditLogProofs`, one for each module of
that name, and `TimingProofs` for LoginGuard and AutoLock, see section 5. The `MC*` modules add symmetry sets and values for TLC. An operator whose name is that of
another with `M` in front is a wrong version of it, used to show that the
properties notice the difference.

## 3. Runs

| Run | Checks | What it shows |
|---|---|---|
| `items` | TypeOK, ViewsGenuine, AnswersFinal, Isolation, NoOrphans, NoLostUpdate, OwnerOnly, Linearizable | whatever order requests, answers, losses and account deletions come in, no update is lost, every view held anywhere is what the row said at that revision, 404/409 stay true, and the two-statement handlers implement `ItemService` |
| `sessions` | TypeOK, SessionsOwned, RevokedForGood, OneSessionPerLogin, GrantsJustified, GoneForGood | the sessions table under racing logins, refreshes, logouts, deletions and expiry |
| `login_guard` | TypeOK, AccountBudget, LockJustified, LockEnds | the budget of an account holds, locks are earned, and a lock ends although attempts go on |
| `browser_session` | TypeOK, JarCurrent, WaitersServed, NeverSetBack, CallsSettle | a caller waits only for a refresh of its own tab that is under way; nothing sets a call back, and every call of two tabs settles through the shared refresh and its one retry; when nothing is in flight the cookies that are left are those of a live session, unless an answer was lost or two tabs refreshed at a time |
| `two_factor` | TypeOK, CodeSpentOnce, ChallengeOpensOnce, OneCodeSet | single use under races, failures and expiry; replaced codes are gone unless two replacements overlapped |
| `key_hierarchy` | TypeOK, ZeroKnowledge, PasswordOpens | overlapping logins, enrolments and password changes from tabs of different releases: the server can make no password, key or plaintext from all it received, and the row always has a password that is accepted and opens it |
| `vault_keys` | TypeOK, ListMoved | overlapping password changes from two tabs: a rotation that installs its key left no item of its list behind |
| `vault_file` | KeysOnceInstalled, RotationKeepsText | one tab with an export, imports and 2FA: nothing but a half-done rotation seals under a key the server never held (proved for any number of tabs), and a rotation racing edits never puts back an old text |
| `auto_lock` | IdleBounded, LeftAloneLocks | the key leaves memory in time; a vault left alone locks |
| `audit_log` | TypeOK, PagesGenuine, PagesComplete, AppendOnly | the log only grows; pages show the account's events once, in order, and miss at most events of the instant at a page's end |

Two runs expect a violation: each states a sentence of the documentation that
the code does not keep.

| Run | The code |
|---|---|
| `logout_ends_session` | a refresh that rotates the row between the access check and the DELETE of a logout keeps the session alive after the 204 |
| `items_readable` | a rotation that stops half-way leaves items under a key nobody has. Further ways to such an item are in the instance and end where TLC stops: a password change that overlaps a rotation, an import of an older export, an answer to the PUT of the new key that is lost |

Other behaviours met while modelling. The models contain the steps that lead to
them; no run is about them.

* Two racing refreshes of one token are both answered with a new pair
  (`session.go:159`); `sessions` shows that only the later one is live.
* The lockout counts failures from the first one of a fixed window and starts over
  when that window has passed (`lockout.go:69`). Five failures within fifteen minutes
  that straddle two windows do not lock, and a failure verified before the lock was set
  and recorded after the window ends the lock at once, other than
  `docs/THREAT_MODEL.md:303` and the comment at `lockout.go:23` ("sliding window") say.
  LockJustified is the direction that holds.
* Two overlapping replacements of the recovery codes under READ COMMITTED leave two
  valid sets (`mfa.go:66`), other than `docs/RECOVERY.md:32` says. OneCodeSet excepts
  the states after such a commit, until a replacement that ran alone commits.
* A login or password change that settles in a hidden tab puts the key into its
  memory (`VaultContext.tsx:44`), other than `docs/THREAT_MODEL.md:368` says; IdleBounded
  still bounds for how long.
* Refreshes of two tabs share nothing but the cookies. When both rotate the same row
  the answer that arrives last may carry the pair that is dead, and when one comes too
  late its 401 clears the cookies the other has just set (`handlers.go:287`): the user
  has to log in again. JarCurrent excepts overlapping refreshes of two tabs. So does a
  lost answer of a refresh.
* Within a tab, a 401 that arrives after the shared refresh has ended starts another,
  which outdates the cookies of the retries already sent: such a call ends with its
  second 401 (`client.ts:49`) although the session is alive.
* A mistyped password is sent twice when an old refresh cookie is still good
  (`client.ts:49`) and counts as two failures.
* A password change derives keys with the address in the field labelled "for export
  metadata", or with `user@vault.local` (`VaultList.tsx:192`). With the wrong address the
  wrapped key does not open and the change stops before anything is sent; this is the
  only check of the current password, and PasswordOpens rests on it.
* A password changed between the two answers of a login with a second factor makes
  that login fail after the challenge is spent (`LoginForm.tsx:42`).
* A panic in `cmd/wasm` returns undefined to the caller and ends the module
  (`main.go:9` says it becomes a JS error). Disabling 2FA or a login with a code whose
  TOTP secret does not open then sends a request without a secret, which the server
  refuses, after spending the challenge in the case of the login.
* Failures recorded between the end of a login's lockout reset and its
  `login_success` event count for the lockout and not for the alert (`api/audit.go:46`).
* A sync that lists a new item before the answer to its creation arrives leaves it
  twice in the list shown (`VaultList.tsx:85`); the copies are equal.
* An enrolment that fails after switching 2FA on leaves the account without
  recovery codes (`handlers_phase5.go:184`).
* An item added while a rotation runs is not in the list the rotation works from
  and stays under the old key (`ChangePasswordModal.tsx:65`); ListMoved is what does
  hold.
* A rotation leaves the TOTP secret under the old key (`ChangePasswordModal.tsx:76`).
* The cursor of the activity list skips events of the same instant
  (`audit.sql.go:43`); PagesComplete is what does hold.
* A limit above 100 becomes 50 in the query and not in the handler (`convert.go:79`,
  `handlers_phase5.go:297`): the page has no cursor although there are more events. The
  contract excludes such limits (`api/openapi.yaml:290`), and PagesComplete excepts them.
* The event of an account deletion violates the foreign key and is dropped
  (`handlers.go:337`).
* The comment on the backoff gives `min(2^n * 250ms, 8s)`; the code starts at 250 ms
  for the first failure.
* `GetItem`, `DeleteByRefreshHash`, `UpdateProtectedKey`, `CleanupExpiredMFAChallenges`
  and `CountRecentLoginFailures` are not called.

## 4. Bounds and fairness

* Items: two accounts with a device each, either with any of two requests in
  flight, so that requests race within an account and reach across accounts; each
  property is broken, if at all, by two overlapping requests. Lost answers leave a
  list behind its row as a second device of the account would. One item, as
  statements name one row; two ciphertexts; `MaxRevision` 3 gives an update over an
  update and the failure at the top. The proofs remove all these bounds.
* Sessions: two accounts, two requests, three pairs (a login and two rotations of
  it), times 0 to 2 so that both lifetimes end. The proofs remove the bounds on the
  sets, pairs and lifetimes.
* LoginGuard: two attempts at a time, any number in all, on one account from one
  address, because emails and addresses are keys of independent entries; limits 2
  and 3, threshold 2, window and lock of 2 units, so that two attempts fill the
  window and later ones fall inside or outside it. The proofs remove these bounds.
* TwoFactor: one account (no statement touches two), one code per set, three sets (two
  whose replacements may overlap, and one after them), two challenges, two requests.
* VaultKeys: `MaxKey` 3 is registration and two rotations, from two tabs, with one
  item; `MaxRev` 3 in `vault_file` is a text, an edit and a write over the edit, which
  is what a rotation from an old list would need to lose one. An edit by the tab
  that runs the rotation reaches the server as one of another tab would. One export
  and one enrolment.
* KeyHierarchy: two tabs with different default parameters, one address typed in two
  ways and the fallback address, two passwords, one text. `MaxRandom` 5 is a
  registration (key and salt) and three more draws: a rotation with its salt and an
  enrolment, or three password changes. Deadlock is checked: a tab can always be
  reloaded or log in.
* BrowserSession: two calls, in one tab or two, each with its refresh and retry, on
  the session of an earlier login; `MaxPairs` leaves room for every pair two logins and
  two refreshes mint. What can go wrong takes two calls: one that refreshes and one
  whose request, answer or refresh falls into it. Deadlock is not checked: when the
  calls are over the browser rests.
* AutoLock: a timeout of 3 units; proved for every timeout.
* AuditLog: three events, three instants, limits of one, two (the largest accepted) and
  three, which `AuditLimit` replaces by one. Deadlock is not checked: once all
  accounts are deleted and the clients are done nothing is left to do.

Symmetry is declared for sets of interchangeable model values, and not in the runs
with a liveness property.

Fairness. `login_guard`: weak fairness of `Tick` only, as time passes; attempts need
not end. `auto_lock`: time passes, due timers fire and React runs its effects;
people and servers need not act. `browser_session`: the server brings every handler
to its end, since none waits for another request, and every fetch settles, with an
answer or an error; nobody has to begin a call and no token has to expire.

## 5. Proofs

**VaultItemsProofs**, for any sets of users, devices, items, ciphertexts and
requests. `TInv` (types, and that a request's fields fit its stage) is inductive by
itself. The rest goes through three facts about every step, proved once:
`StepAdvances` (what a step may do to rows: a row keeps its owner, its revision
never falls, and with the same revision it is the same row), `StepSources` (where
a view in a list, an answer or an edit comes from) and `StepStages` (how a request
reaches an answer). `IInv` adds to the properties what makes them inductive:
`RowsBorn` (an id with a row was handed out, so a deleted id never returns with
revision 1), `StaleAtCheck` (a request between its two statements sent a revision
that can never match again) and `AnswersIsolated`. `Linearizability` maps a request
to a call that takes effect at the UPDATE when it matches and at the second
statement when it does not, and shows every step to be a step of `ItemService` or
a stutter.

**SessionsProofs**, for any accounts, requests, lifetimes and numbers of pairs.
`IInv` adds `Drawn` (only drawn pairs are in rows, tokens and requests), `Expiring`
(the expiries of a row are those of its pair) and `AllGood` (what a request at each
stage knows about the row it will touch). `Minting` and `Removal` treat the two
kinds of change to the table once for all actions.

**TwoFactorProofs**, for any number of requests, codes and challenges. `IInv` ties the
tables to the requests that still run. `CodesDrawn`: a code that has a row, was spent,
or is in the snapshot of a DELETE under READ COMMITTED comes from a set already
drawn, so what a replacement inserts is none of these; `UnusedUnspent` then
gives `CodeSpentOnce`. `AloneSeesAll`: two replacements under way both count as
overlapping, and one that runs alone has every stored code in its snapshot, since only
replacements insert codes; so its commit leaves the set it inserts, which is OneCodeSet. `OneHolder`: a stored challenge has opened nothing, and of the
requests past consuming it there is one at most.

**VaultKeysProofs**, for any number of tabs, items, keys and revisions. `IInv` has a part
per tab (`TabOK`): a list a tab works from is never ahead of the table and agrees with
it at the same revision, because every write adds one and no id comes twice; a
rotation has moved every listed row that is not on its todo list (`Moved`). The rest
says where keys come from (`ServerOK`, `FileOK`). `Evolves` treats the ways the table
changes once for all actions. `RotationKeepsTextAlways` is an action property: the
UPDATE matches the listed revision, hence the listed row.

**KeyHierarchyProofs**, for any tabs, addresses, passwords, texts and cost parameters.
`Parts` and `Blobs` say what the terms are made of and what opens them. Secrecy is an
argument about terms: all the server receives is of five kinds (`Received`), every
blob among them is sealed under a `Safe` key, a safe key cannot be made from such
terms (`SafeKeys`), so analysing opens nothing (`NothingOpened`) and `Learnt` is what was
sent. The invariant adds that the columns of a row (`RowOK`), and the values a change
is about to send (`ChangeOK`), are those of one password and of the address of the
account. The step that matters is `ChangeSyncOK`: the form derives with whatever
address was typed, but the current password opens the wrapped key only if that is the
address of the row (`Unwrapped`).

**BrowserSessionProofs**, for any tabs and calls. `Budget` counts the pairs drawn and the
calls that may still log in or refresh against two per call begun; it is what bounds
`minted` and so the type. `JarOK` says that the pair in the jar is live, or that an
answer which replaces it is on its way: the cleared cookies of the logout that ended
its session, or the pair of the refresh that rotated it. That is inductive because a
pair on its way is known to nobody (`Fresh`, `Unknown`), so no logout and no refresh can
end its session before it arrives, and because one refresh runs at a time and the row
it has looked up holds the same pair or is gone (`OneRefresh`). These three are claimed
only while `spoilt` is false; `FlightsOK` and `CallsOK` hold always.
The last section is the safety half of `CallsSettle`. `WaitersServed` is inductive together with
`IInv`: `flight` is per tab and a running refresh is the `flight` of its starter's tab, so a
refresh that ends is the one all its callers are on, and the callers of other tabs are on
another (`RefreshEnds`). `NeverSetBack` has a measure, `Steps`: the steps left of the first
request, of the shared refresh and of the retry. `CostTable` gives its value for each state
of a call and `StepsBounded` its bound of nine; every step of the server or the network lowers
it for the call it is about and raises it for none that has begun (`Nearer`). Only `Begin` can
raise it, of a call that is over. What fairness adds is that such a step happens.

**AuditLogProofs**, for any accounts, handlers, readers and events. `ReaderOK` speaks of
one reader: its cursor is the last event it was shown and the oldest, so what is older
is new to it (`PagesGenuine`). `NothingLost`: what it has not been shown is older than the
cursor or was stamped in the instant of a cursor (`PagesComplete`). Both `NothingLost` and
`PagesComplete` speak of the readers with a limit up to `MaxLimit`, which is what
`api/openapi.yaml` allows a client to ask for; others may read beside them.

**TimingProofs** holds two components that share nothing but the kind of argument.
LoginGuard, for any accounts, addresses and attempts and any limits, window, threshold
and lock time. The invariant has a part per key, stated of values and not of variables,
so that each operation of a tracker is one lemma. `AcctInv` ties the history of
`AccountBudget` to the list the code keeps: an admission of the last window is an entry of
the list, and the list has at most `AcctLimit` recent entries. It needs that an entry is
new when it is added (`NowFresh`, a pigeonhole argument) and that a tick neither loses nor
merges entries within the window (`ShiftCount`, a bijection). `LockInv` adds `Counted` to
`LockJustified`: as long as a record can be added to, at least as many failures as it says
were recorded since its first one. So when the threshold is reached they all lie within
a window, and the history is kept long enough (`Ancient`) for a lock that still stands
(`LockOlder`). AutoLock, for every timeout: `AutoLockTypeOK /\ IdleBounded` is inductive.

The theorems assume nothing beyond the named ASSUMEs on the constants in
the modules. Those of VaultKeys, KeyHierarchy and BrowserSession say that `None`, which
stands for NULL or for nothing, is not one of the values it is told apart from.
The invariants `IInv` of KeyHierarchy, BrowserSession and LoginGuard were checked by TLC on the
instances of the runs before they were proved.

Only model-checked:

- the liveness properties `CallsSettle`, `LockEnds` and `LeftAloneLocks`: fairness is out
  of the prover's reach (`NeverSetBackAlways` is the part of `CallsSettle` that is not about
  fairness);
- `LogoutEndsSession` and `ItemsReadable`, which the code violates.

## 6. Not modelled

The algorithms behind the crypto operators (functions of byte strings; KeyHierarchy
says which function of what a value is), base64 and the zeroing of buffers, the TOTP
computation, timing (equal delays for known and unknown addresses, the backoff
sleep), generated types, the request-local middleware (request ids, headers, CORS,
body limit, access log, panic recovery), reading the configuration, migrations, the
password generator, breach check and clipboard. Failure alerts and device notices
only decide what is written to the server's log. The limiter in front of
registration is another instance of the type in LoginGuard.

## 7. Plan

Done, in this order: VaultItems with ItemService and their proofs; Sessions and
its proofs; LoginGuard; TwoFactor; VaultKeys; AutoLock and its proofs; AuditLog;
KeyHierarchy; BrowserSession; the proofs for TwoFactor, AuditLog, VaultKeys,
BrowserSession and KeyHierarchy, and OwnerOnly for VaultItems; the proofs for LoginGuard,
for which its lists of time stamps became sets; the measure behind `CallsSettle`. Every safety property a passing run
checks is now a theorem.

What could follow:

1. The rest of `recordEvent`: known devices and failure alerts, in LoginGuard, whose
   attempts they count a second time with a different window.
2. Duplicates in the list of VaultList, with lists as sequences.
3. BrowserSession as a client of Sessions, by refinement, in place of its own copy of
   the table.
