# Verification of 대외비 (daeoebi)

대외비 is a single-user vault: an API (NestJS, PostgreSQL through Prisma) and a
web client (Next.js) that encrypts secrets and ledger details before they leave
the browser. This directory holds a TLA+ model of its logic, the TLC runs that
check it on small instances and TLAPS proofs for all instances.

## 1. Inventory

| Part | State it keeps | Operations | Hard behaviour |
|---|---|---|---|
| Authentication API (`apps/api/src/auth`) | rows `WebauthnCredential`, `RecoveryWrap`; in memory: sessions, recovery sessions, two challenge slots, one back-off counter, two rate windows | register / login options and verify, recovery verify, logout, guard, dev login | handlers interleave at every `await`; memory is lost on restart while rows stay; the decision "first registration" is taken long before the commit |
| Ledger API (`apps/api/src/asset`) | `AssetCategory`, `Expense`, `RecurringExpense`, `Income`, `SavingsAccount`, `SavingsBoxTxn`, `InvestmentPosition` | CRUD, slot listing, soft removal, cascades, upsert of the position | check-then-write without a transaction; the unique slot (recurring, period) is the only guard against double materialisation |
| Ledger client (`apps/web/app/(vault)/asset`) | month view, templates, instances, open form | materialise the fixed expenses of a month, propagate a change, stop from here on, save an expense | two tabs and a reload materialise the same month; multi-request saves that fail half-way; results that arrive after the month changed |
| Savings, budget and categories (`asset/_components`) | accounts, petty-cash box, investment, the month's budget, the open sheet | save and delete in each sheet, reload after a write, sums of the dashboard | reloads that overtake each other, a sheet that closes before its answer, a contribution asked for before its category is known |
| Vault API (`apps/api/src/vault`) | `Site`, `Secret` | CRUD, search, export, import (reject / skip / replace) | export reads two tables without a snapshot; import is one transaction over rows that others go on changing |
| Vault client (`EntriesScreen`, `[id]/page`, `SecretForm`, `BackupPanel`, `use-default-site`) | list, password page, draft, backup panel, the site of the tab | search, open, create, edit, delete, delete a field, export, restore | answers that come in another order than the questions, saves whose answer is lost, one look-up of the default site per tab |
| Vault gate (`VaultGate.tsx`, `UnlockScreen.tsx`, `OnboardingScreen.tsx`) | view, vault key in memory, idle countdown | unlock, recover, onboard, lock, auto-lock | the timer, the logout call and the user's activity race |
| Client helpers (`CopyField`, `clipboard-clear`) | clipboard timer | copy and clear | timers that outlive their screen |
| Crypto (`lib/vault-crypto.ts`, `lib/webauthn.ts`) | none | wrap and unwrap the vault key, encrypt payloads | external here: a key is a value, a wrap opens with its own key only |

Parts interact through HTTP calls with two cookies (`sm_session`,
`sm_recovery`) that all tabs of a browser share. The API process holds all of
its sessions in memory; the database is the only durable state.

What makes each part correct:

- *Authentication*: one vault key behind all rows, a registered vault stays
  registered and recoverable, a challenge is used once, devices are added by
  signed-in clients, the shared back-off is bounded and ends.
- *Ledger*: one instance at most for a template and a month, an instance lies in
  its month, a removed month is not brought back, a template that ended does
  not produce, a repeated load changes nothing.
- *Savings*: a settled tab shows what was saved, its net worth is the money there
  is, a change of a goal or a return leaves what was sealed with it, a budget that
  is saved again is never gone.
- *Vault*: every request acts as if at one moment, an import all or nothing, and
  every secret has a site; a settled page shows what is stored, no draft is lost,
  nothing spins for ever, no password is hidden.
- *Gate*: an idle vault is locked; a locked vault holds no key; locking does not
  end a session that was opened after it.

## 2. Plan

The order follows what would hurt most: losing the key, charging a month twice,
leaving the key in memory, losing or hiding passwords, wrong sums.

1. `AuthMemory`, `Auth`, `AuthProperties`, `MCAuth`, `AuthProofs`: done.
2. `LedgerStore`, `Ledger`, `LedgerProperties`, `MCLedger`, `LedgerProofs`: fixed
   expenses, from the tables to the tabs of a browser; `LedgerTabProofs` for what
   holds in one tab only. Done; every safety property is proved.
3. `Gate`, `GateProperties`, `MCGate`, `GateProofs`: the tab with its countdown, its
   calls in flight and the sessions they open and end. Done; checked with one
   tab, proved for any number where one is not assumed.
4. `VaultStore`, `AtomicVault`, `Vault`, `VaultProperties`, `MCVault`, `VaultProofs`:
   the API of the passwords, what it promises and the refinement between them,
   checked and proved. Done.
5. `VaultClient`, `VaultClientProperties`, `MCVaultClient`, `VaultClientProofs`,
   `VaultShownProofs`: the pages on top of an API whose calls act at one moment, which
   is what 4 shows. Done; every safety property is proved, two of them for one tab.
6. `SavingsStore`, `Savings`, `SavingsProperties`, `MCSavings`, `SavingsProofs`: budget,
   categories and the savings tab. Done; checked with one tab, every property proved
   for any number.
7. Left: an abstract month (the set of slots it has charged) and the refinement of
   `Ledger` to it; the clipboard timer; the migration of category names together with
   the contents of expenses.

## 3. Authentication

### Modules

- `AuthMemory`: what the process keeps in memory, as operators on values.
  Deadlines are ticks left, so that time is unbounded and the state space is not.
- `Auth`: the state machine. A request is a record that waits either for the
  database or for the event loop; each handler is split at its awaits and at
  nothing else. `RegisterVerify` → `CountCredentials` → `RegisterVerifyAdmit` →
  (`RegisterDelete`) → `RegisterCommit` → `RegisterVerifyReply` is
  `registerVerify()`; the other handlers follow the same pattern. `DatabaseError`
  fails any query, `Tick` is time, `Restart` loses the memory. Two awaits are not
  split: `generateRegistrationOptions()` / `generateAuthenticationOptions()`
  between the rate check and the challenge slot, and the WebAuthn verification,
  which reads nothing that can change while it runs.
- `AuthProperties`: what it promises. `MCAuth`: instances. `AuthProofs`: proofs.

A vault key is a model value; a row holds the key its wrap opens to. A request
carries the key its client wraps: an onboarding client makes a fresh one, any
other client uses one that a row gave it. `OverlappingOnboarding` and
`OnboardingCookies` say what onboarding clients may do: register at the same
time as another, and carry a session (a screen left open in a browser that has
logged in since). The history variable `recoveryUses` records what a recovery token was used for.

### Runs

| Run | Shows |
|---|---|
| `auth_login` | login, recovery, logout, guard, dev login, errors, restarts, two requests in flight: `TypeOK`, `FailuresBounded`, `BlockEventuallyLifts` |
| `auth_races` | two registrations under the weakest client assumptions: `RecoverableOnceRegistered`, `NeverUnregistered`, `ChallengeSpentOnce` |

`VaultKeyAgreement` and `DeviceAdditionAuthenticated` are stated in `AuthProperties` and
in no run: they hold only for clients that onboard one at a time and signed out
(`OneAtATime`), for which they are proved below. The races that break them are the
next items.

Things the model shows that no run repeats:

- With `OverlappingOnboarding` TRUE, two first registrations that both found the
  table empty (`auth.service.ts:130`) both commit, although INV-3
  (`docs/ssot/authentication.md:34`) has the second refused: `VaultKeyAgreement` and
  `DeviceAdditionAuthenticated` fail.
- One recovery session serves two registrations: the token is checked at their
  start (`auth.controller.ts:73`) and revoked after the commit, so
  `RecoverySessionOneShot` fails, against `session.service.ts:11` and
  `docs/ssot/authentication.md:53`.
- With `OnboardingCookies` TRUE, `VaultKeyAgreement` fails: a stale onboarding screen
  in a browser that has logged in brings a second key.
- A session is not tied to the credential it was issued for, so one that a lost
  device holds outlives the recovery registration that deletes the credential of
  the device.

Bounds: two requests in flight are enough for every race between a read and a
commit (the code never waits for two others); two challenges let one be pending
while another is being verified, or both be verified at the same time; two
credentials and two keys let a second one appear, though not two recoveries that
both commit, for which `RegisteredForEver` below is the evidence; durations of one or two ticks make expiry reachable between any two
steps and let a block be prolonged. Requests, tokens, challenges, rows and keys
are symmetric; `auth_login` checks liveness and uses no symmetry.

Fairness: only time (`WF_vars(Tick)`). Requests come from a user and a query may
never return, so nothing else is promised, and `BlockEventuallyLifts` needs
nothing else.

### Proofs

`AuthProofs` proves for any number of requests, tokens, challenges, rows and keys:

- `TypeCorrect`: `TypeOK`.
- `AlwaysRecoverable` and `RegisteredForEver`, through `RecoverableInv`: a request
  that found the table non-empty found a wrap with it; an admitted one brings a
  wrap or does not need to, and its key is not empty.
- `OneVaultKey` and `AdditionsAuthenticated`, assuming `OneAtATime`, through
  `OneKeyInv`: a client that holds a key holds the vault's; an onboarding client
  that passed the checks finds the vault still empty when it commits, because
  nobody but an onboarding client registers in an empty vault.

`StepsOfRegistration` reduces the 24 actions to the five that touch tables or a
registration in flight.

and, of the limits on guessing:

- `OneResponsePerChallenge`: `ChallengeSpentOnce`, which is inductive only together
  with `SlotsDiffer`: the slots of the two ceremonies never hold one challenge, so
  emptying one slot takes the challenge out of the memory altogether.
- `GuessingBounded`: `FailuresBounded` for any finite set of requests. The counter
  alone says too little; `FailuresInv` bounds the sum of the failures counted and
  the requests that were admitted and may still fail. A failure moves one from the
  second to the first, and admission needs a counter below the limit, because
  `FailuresInv` also keeps a full counter armed.

The liveness property `BlockEventuallyLifts` is model-checked only.

## 4. Ledger: fixed expenses

### Modules

- `LedgerStore`: the tables `RecurringExpense` and `Expense` with the constraints
  PostgreSQL enforces (unique slot, foreign key, cascade) and the queries of the
  API, as operators on values. A month is a number.
- `Ledger`: the state machine. Three sorts of processes run over the tables:
  - a *load* (`load()` of `asset/page.tsx`): its reads are answered one by one
    (`Read`), then it decides what is missing (`Decide`), creates the instances in
    any order (`Materialize`) and shows the month (`ShowLoad`). It outlives the
    month the user looks at (`stale`, the `loadSeq` check) and the page itself
    (`silent`);
  - a *form* (`ExpenseForm.tsx`): `Save` turns the user's choice into a script of
    API calls that run one after the other; a failure reopens the form with the
    template it has created;
  - a *request*: `PATCH /expenses/:id` reads and checks its row (`CheckUpdate`) and
    writes it later (`WriteUpdate`). Patches of a propagation are sent together
    and answered in any order.
- `LedgerProperties`: what it promises. `MCLedger`: instances. `LedgerProofs` and
  `LedgerTabProofs`: proofs.

Three switches name the assumptions of a run. `Overlapping`: a load, a save or
the turn of the month may happen while a load is in flight. `Failures`: a call may
fail without effect, or take effect and be taken for failed (the client gives up
after 15 s). `Operations`: the saves the user makes.

Not in the model: amounts, items, categories and the day of the month; the two
reads of `load()` that serve other parts of the page (categories, incomes) and the
migration of category names; `saveRecurringMethod`, which writes a field no
instance is compared by; a form that is left while its save is running. Opening
the form of a row reads row and template in one step. An expense or a template is
created in one step, whether or not its reply arrives.

### Runs

| Run | Shows |
|---|---|
| `ledger_months` | one tab, three months, every save; nothing begins during a load: types, `DateInPeriod`, `SettledInTerm`, `SkippedStaysSkipped`, `ShownOnce`, `ShownIsComplete`, `SaveDoesItAll` |
| `ledger_tab` | loads that overlap each other, saves, removals and the turn of the month: `NoDoubleCount`, `ShowsSelectedMonth`, `SkippedStaysSkipped`, `ShownOnce` |
| `ledger_faults` | failing calls and lost replies: `OneTemplatePerForm`, `SpinnerIsBacked`, `LoadsEnd`, `SavesEnd` |
| `ledger_race` | violated: two tabs patch one row, one moves its date while the other makes it the instance of a template, and `DateInPeriod` fails |

In `ledger_race` the check of `expense.service.ts:161` has read the row before it was an
instance; INV-4 of `docs/ssot/ledger.md:39` rules the outcome out. `DatesStay` below shows
that nothing but this conversion can do it. Two months and one row are enough for it.

Which switch a property needs is part of what the runs show. `NoDoubleCount`,
`ShowsSelectedMonth`, `SkippedStaysSkipped`, `ShownOnce` and `DateInPeriod` hold for
overlapping loads of one tab; `ShownIsComplete` and `SettledInTerm` do not (a page that was left
creates the first instance of a template before the form does, the save ends in
409 and is retried with another month on the template it kept). A lost reply of
`createRecurring` makes the form create a second template it does not know of the
first; `OneTemplatePerForm` speaks of those it heard of.

Things the model shows that no run repeats:

- With `Overlapping`, `ShownIsComplete` fails: a load that loses the race for a slot
  takes the 409 for done (`asset-recurring.ts:200`) and shows the month from reads
  that are older than the winner's row (`page.tsx:422`), so the page is ready without
  an instance that the database has.
- At midnight of the last day of a month, between materialising and projecting, an
  instance is neither created nor drawn until the next load.

Bounds: three months give a past, a current and a future one; four rows hold a
template's instance in each month and a single expense; two loads in one tab race
like two tabs do, since a load knows its tab only through `stale` and `silent`.
`ledger_faults` has one month, where every call of a script can fail and be
repeated; its state space is that of replies, not of months. Ids, templates and
loads run out, as they never do in the code, and the model then stops: deadlock is
not checked. `FreshExpense` and `FreshTemplate` reuse an id when nothing in the
system remembers it.

Fairness (`FairSpec`, used by `ledger_faults`): every call ends, because the API
answers or the client's timeout of 15 s fires, so a load, a save and a request on the
server go on while they can. The user owes nothing.

### Proofs

`LedgerProofs`, for any number of tabs, loads, templates, rows and months,
overlapping loads and failures included:

- `TypeCorrect` (`TypeOK`). `TypeInv` adds what types alone do not
  keep: a load in flight has a tab and a month (`LoadsPlaced`), a form that saves
  has what its calls need and sends only calls of its kind (`FormsFit`), and no row
  refers to a template that is gone (`ForeignKey`), without which opening a form
  could read a template that does not exist.
- `MonthOnScreen` (`ShowsSelectedMonth`) and `SpinnerEnds`
  (`SpinnerIsBacked`), through `PageInv`: a page listens to at most one load
  (`OneAnswers`), the one of the month it is on (`AnswersFit`), exactly while it
  says "loading" (`LoadingIsAnswered`), and a form covers the page (`FormCovers`).
  The last conjunct needs to know that a failing call never reopens a form that
  has been left: a call is awaited by a save that is under way (`AwaitedBySave`).
- `OneTemplate` (`OneTemplatePerForm`), through `Once`: creating the template is
  the first call of a save or none, and none once the form knows its template.
- `DatesStay` (`DateInPeriod`) and `ChargedOnce` (`NoDoubleCount`), both for every
  set of operations without "convert", which turns a single expense into a fixed
  one. `RowsInv` keeps the unique key and the date in its period (`TableFits`); what
  makes the write of a PATCH harmless although its check is old is that the slot
  of a row then never changes: an open form knows it (`FormFits`) and a call under
  way does not touch it (`RequestFits`). With the conversion both are false for two
  tabs, as said above.

`LedgerTabProofs`, for one tab (`OneTab`) whose calls are answered (`~Failures`), any
number of loads, templates, rows and months, and every operation:

- `DatesStayAlone` (`DateInPeriod`) and `ChargedOnceAlone` (`NoDoubleCount`) with the
  conversion. `AloneInv` says what a save knows: the row of its form is there as
  the form read it, until the call that closes the save is answered (`KnowsRow`,
  `Ordered`), and each call in flight is about that row or carries the change of a
  template to a row of it (`Own`, `Carries`). A load left behind only adds rows
  (`RowsOnlyAdded`), so it disturbs none of this.
- `SkipsAreForGood` (`SkippedStaysSkipped`) and `OnceOnScreen` (`ShownOnce`).
  `SkipInv`: a skipped slot is occupied by a removed row, which nobody ever
  restores, so the unique key keeps every load out of it. `LoadsInv`: what a load
  read of rows and slots fits the tables still, because until it ends rows are
  only added or removed; `ScreensInv` carries that over to what the page shows.

and, if nothing begins while a load is under way (`~Overlapping`):

- `SettlesInTerm` (`SettledInTerm`). `TermInv`: a row outside the term of its template
  is `Condemned`: a call in flight deletes it, or a save that shortened the
  template has still to list the rows beyond its cut. `NoSaveInLoad` and `PlansInv`
  keep what a load is about to create inside the terms as they are.
- `SavesAreComplete` (`SaveDoesItAll`), through `CutsInv`: once listInstances is
  answered, every row beyond the cut has a call in flight that deletes it.
- `ReadyIsComplete` (`ShownIsComplete`), through `CompleteInv`: there is one load; what
  it has read so far is complete, a slot it found occupied still is, and a removed
  row is in `skipped`, so the only instances it may leave out are those.

The hypotheses are needed. TLC finds counterexamples to `SkippedStaysSkipped`,
`ShownOnce`, `DateInPeriod` and `SaveDoesItAll` with two tabs, to `ShownOnce`,
`DateInPeriod`, `NoDoubleCount`, `SettledInTerm` and `ShownIsComplete` with one tab
whose calls may fail or lose their replies (the client believes that a write which
took effect did not), and to the last three theorems' properties with `Overlapping`.
It has found none to `SkippedStaysSkipped` and `SaveDoesItAll` with failing calls.

The proofs use `StoreAssumption` (None is no id, no month and no row) and
`LedgerAssumption`. `LoadsEnd` and `SavesEnd` rest on fairness and are model-checked
only.

## 5. Vault gate

### Modules

- `Gate`: browser tabs, the two cookies they share, the sessions of the API and the
  calls between them. `VaultGate.tsx` is `view`, `idle` and the steps `LoadPage`
  (mount and `refresh()`), `Open` (`handleUnlocked`), `HandleLock` and `Lock` (the two
  halves of `handleLock`, before and after its await), `ResetIdle` and `Tick` (the
  interval). `busy` is the state of the screen below it: `UnlockScreen.tsx` and
  `OnboardingScreen.tsx`. `Press` starts a chain of calls, `Reply` and `Fail` continue
  or end it.
- `GateProperties`: what it promises. `MCGate`: instances. `GateProofs`: proofs.

A call is a record with the cookies of the moment it was sent; `Serve` is the API's
part of it, `Reply` sets the cookies of its answer. `Fail` is the client's timeout
or a network error at any time before the answer; the call may still be served
afterwards (its client is gone and nobody sets its cookies) or not (`Lose`). An
unlock is its `verify` call: the `options` call and the prompt of the device before
it change nothing here, and what they can refuse, `Refuse` refuses. The API decides in
one step, since module `Auth` models what goes on inside it.

Time is the second of the countdown, per tab. A call whose client still listens
has `left` seconds; a tick waits until the calls that ran out have failed, which is
what the timeout of 15 s (`vault-client.ts:16`) does. The last second of the
countdown and every later one send a logout, because the interval goes on while
the view is unlocked. `HastyUser` says whether the user may press an unlock button
while a logout of the tab is under way.

Not in the model: the fields and messages of the screens and the countdown after
429; the development login; a browser that slows down the timers of a hidden tab;
the vault calls that touch a session (a session may end at any time, `Expire`).

### Runs

| Run | Shows |
|---|---|
| `gate` | one tab, a patient user: `TypeOK`, `UnattendedBounded`, `BusyIsBacked`, `LockEndsSession` |
| `gate_late_lock` | violated: a hasty user unlocks between the answers of two logouts, and the second locks the vault without ending its session |

Bounds: a countdown of two seconds sends a first logout and, since a call takes up
to two seconds, others after it, so three calls let two logouts and an unlock, or
three logouts, be in flight; two tokens let an old and a new session, or a session
and a recovery session, exist together. A call that finds no free slot waits; tokens
that nothing remembers are used again. The system may wait for a token or for a call
for ever in so small an instance: deadlock is not checked.

No property needs fairness. That the vault is locked in time is
`UnattendedBounded`, a bound in seconds of the tab itself: a tick cannot pass a call
that has run out.

### Proofs

`GateProofs` proves all four properties for any number of tabs, calls and tokens, and
for any countdown and timeout, from `GateAssumption` alone (both are at least one
tick); `LockEndsSession` also assumes one tab and `HastyUser` FALSE, without which it is
false.

- `TypeCorrect`: a call that a client waits for is not free and belongs to a tab, and
  the API refuses no status and no logout (`SoundCall`).
- `KeyDoesNotLinger` (`UnattendedBounded`): the bound alone is not inductive.
  `Counting` says why it holds: either the countdown runs, and the time the tab was
  left alone plus what remains is within it; or some logout is under way, and the time
  since is what it has used of its timeout. Every later logout of the interval leaves
  the first one its witness; any end of any logout locks the tab.
- `ButtonsComeBack` (`BusyIsBacked`), through `Backed`.
- `LockIsEffective` (`LockEndsSession`), through `LockInv`: a screen does one thing at a
  time (`WorksAlone`), the browser and every logout of an open vault carry the session
  it was opened with (`OwnSession`), and the API no longer knows the session of a
  logout it has answered (`EndedAtAPI`).

### What no run repeats

With two tabs a second login takes the
cookie, so locking the first tab ends the second one's session and the first
session goes on until it expires. The key stays in the tab for as long as the
logout takes after the countdown, up to 15 s more than the three minutes of
`OnboardingScreen.tsx:214`. And the first registration is committed before the
recovery code is on the screen: a reload or a lost answer leaves a vault whose
recovery code nobody has seen, although `RecoveryCodeDisplay.tsx:2` has it shown
before the user goes on.

## 6. Vault API

### Modules

- `VaultStore`: the tables `Site` and `Secret`, their foreign key and cascade, the files
  of a backup, requests and answers, as operators on values. A secret's label and
  ciphertext are one value; the label of a site stands for its icon too.
- `AtomicVault`: the promise. A request acts on both tables at one moment between call
  and answer, or fails and does nothing. Two exceptions are part of it, because
  clients can see them: an export reads each table at a moment of its own, and an
  import judges conflicts by what it has read.
- `Vault`: the API, one action per statement. `EnsureSite` and `CreateSecret` /
  `ListBySite` are the two queries of `secret.service.ts`; an import is `ReadSites`,
  `ReadSecrets`, `DecideImport`, `ReplaceSite` (one per conflict), `CreateSites`,
  `ReplaceSecret`, `CreateSecrets`, `Commit`. Statements run at READ COMMITTED,
  PostgreSQL's default, which nothing in the code changes. What a transaction has
  written is kept apart (`newSites`, `newSecrets`) until it commits; its rows, and the
  sites that its secrets refer to, are locked, and a statement that needs one waits,
  which is the action not being enabled. `Abort` is the database away, a deadlock
  broken by PostgreSQL, or Prisma's 5 s for a transaction: 500, nothing written.
- `VaultProperties`: what it promises, `ActsAtOnce` among them: `AtomicVault` under a
  refinement mapping that forgets where a request stands and what its transaction
  has not committed. `MCVault`: an instance. `VaultProofs`: proofs.

Not in the model: rows are not split into columns, so an update of the label and one
of the ciphertext are the same; the limits of the DTOs; `updatedAt`.

### Run

| Run | Shows |
|---|---|
| `vault_api` | two requests of every kind and mode: `TypeOK`, `EverySecretHasItsSite`, `ActsAtOnce` |

Bounds: two requests are every pair of a step and the rows it depends on; a backup of
one site with its secret has a conflict or not in each table, and lets one of them
vanish while the import runs; the second id of each table is for rows that the API
creates. The file without the site shows the refusal of an open backup. Requests may
wait for a lock for ever in the model (an `Abort` is possible, not promised), and ids
run out: deadlock is not checked. Nothing here needs fairness.

### Proofs

`VaultProofs` proves all three properties for any number of requests, sites and
secrets and for any requests that pass the DTOs (`QueriesAssumption`), from
`StoreAssumption`, which only says that no row, file or answer is `None`:

- `TypeCorrect` (`TypeOK`) and `NoOrphans` (`EverySecretHasItsSite`), through `Inv`.
  The foreign key alone is not inductive, since a
  commit writes rows that were judged many steps earlier. `ImportsApart` is what
  PostgreSQL's row locks give: an assumption about the database in the guards of
  the model, and no result about this code. `Staged` says what a
  request has at each stage, `Admitted` that an import which goes on has a closed file
  and no conflict its mode forbids, `Written` which of the file's rows are written by
  then, and `Fits` that they still fit the tables: a written row is what the file and
  the table of now make of it, it is there if and only if the import read it, and its
  site is in the table or among the new ones. `Fits` survives the steps of others
  because of the locks: `Keeps` is what each of them leaves alone, and `FitsKept` is
  the lemma that every action is brought to.
- `ActsAsOneStep` (`ActsAtOnce`): each step is a step of `AtomicVault` or is not seen.
  A request takes its effect with the step that answers it. For `Commit` this is
  `CommittedRows`: what is written is the file's rows themselves (reject), those that
  were new (skip), or the file over the table of now (replace), although it was put
  together row by row.

## 7. Vault client

### Modules

- `VaultClient`: the pages of the unlocked vault in the tabs of a browser, over the two
  tables. A call of the API acts at one moment of its way, which is what section 6
  shows of every operation but the two that read first; here those act on the rows
  of one moment as well. `Serve` is that moment, `Fail` a call that never had an effect,
  `Lose` one whose answer is lost after it had one (a network error, the timeout of
  15 s), `Deliver` what the pages do with an answer. `Mount` and `Goto` are navigation:
  a page that goes leaves its calls behind, unheard (`live`). `RetrySite`, `Resolve`,
  `HearSites`, `HearCreated` and `SiteFailed` are `use-default-site.ts` with its promise
  shared by all pages of a tab; the other actions are named after the handlers of
  `EntriesScreen`, `[id]/page`, `SecretForm` and `BackupPanel`.
- `VaultClientProperties`: what the pages promise. `MCVaultClient`: instances.
  `VaultClientProofs` and `VaultShownProofs`: proofs.

The user opens or edits a form only when no write of the tab is in flight, reloads a
tab only at rest, and makes one backup in a run. Without the first of these a save
that is answered late takes a form away that the user has opened since
(`new/page.tsx:34`).

Not in the model: values and memos of fields, sealing (the inverse of opening, under
the one key of the session), debounce times, messages. Tabs that did not hear of a
write are in `doubt` until they load again: the code has no way to tell them, and the
properties excuse them. What they then write does undo the others' work
(`[id]/page.tsx:108`).

### Runs

| Run | Shows |
|---|---|
| `vault_client` | one tab, every page and handler, navigation at any time, failures, lost answers, reloads: `TypeOK`, `ShownIsCurrent`, `NothingHidden`, `NoDraftLost`, `BusyEnds` |
| `vault_hidden` | violated: a backup that is older than the vault is restored and `NothingHidden` fails, against the comment of `use-default-site.ts:14` |

Bounds: one password, with another title or other fields after an edit, is what a list
can be wrong about; two calls in flight let one overtake the other; two sites let a
tab create one beside the one that exists. A second tab adds nothing to these
properties beyond `doubt`, which a page left in mid-call gives already.

Fairness: `Answered`, for each kind of call of each tab. A call ends because the API
answers or the client's timeout fires. The user owes nothing.

### Proofs

`VaultClientProofs` proves, for any number of tabs, calls, passwords and sites:

- `TypeCorrect` (`TypeOK`), through `TypeInv`: a page has the password or the site that
  what it shows needs (`TabFits`), and a call was made by a page that could make it,
  unless that page has gone (`AtHome`), carries what its kind carries (`Carries`) and
  brings what its kind brings (`Brings`). Without these a late answer could put the
  rows of one page on another. That the review step has a body without duplicate names
  is part of it (`TabFits`), and is what keeps such a body out of the database. The
  site that is picked exists: among finitely many moments of birth there is a first
  one (`Least`, `Oldest`), which is proved without induction over data, from a minimal
  element of a well-founded order.

`VaultShownProofs`, for any number of tabs:

- `ShownCurrent` (`ShownIsCurrent`), through `AskedInv` and `ShownInv`. `AsksInv`: a page
  waits for the list of the query in its search box and for its own password, for
  no other (`Asks`), and for one answer of a kind at most (`Twins`); while a save or
  the deletion of a field is in flight its page does not load. `CurrentInv`: a tab
  that is not in doubt, and in which no write of its own took effect without its
  having loaded since (`Aware`), shows what is stored, and the answers under way to it
  are what is stored too (`AnswerIsCurrent`). A write makes all others doubtful; the
  page that wrote shows nothing until it has loaded again.

for one tab (`OneTab`):

- `DraftsAreKept` (`NoDraftLost`). `DraftInv`: while a form is being saved the tab has one
  write in flight, heard by this form, with the content of the draft, and once it has
  succeeded that content is in the database. With two tabs the property is false: the
  other may change or delete the password before the first hears of its save.

and for one tab and no backup of another time (`Backups = {}`):

- `NothingIsHidden` (`NothingHidden`). `SitesInv`: there is one site at most, because there
  is one call for it at most and, as long as it is not answered, a tab has none
  (`CallKnows`, `OneSiteCall`); a look-up that found nothing is true until the creation
  that follows it; the sites of a tab are in the database (`TabKnows`), and so are
  those of the user's backups (`Known`), so a restore brings none. `vault_hidden` shows
  that an older backup breaks this; so do two tabs that start on an empty vault.

The proofs use `StoreAssumption` and `ClientAssumption`: contents are those of the form,
`None` is no title, term or field, the states of the site's hook and cache are no
sites, and the bounds are positive. `Named` is a recursive function and not `SelectSeq`,
because the theorems about the latter take an operator as a parameter, which the
installed provers cannot instantiate. `BusyEnds` rests on fairness and is model-checked
only.

## 8. Savings, budget and categories

### Modules

- `SavingsStore`: the five tables as sets of rows, whose ids are numbers in the order
  of creation, and the sums the page makes of them. A blob opens to what was sealed
  or is `Corrupt`.
- `Savings`: the page without its expenses. A sheet is what the user edits, a call is
  what it has sent, and `Hear` is what the page does with the outcome: the reload after
  each write, the steps of a budget (`Follows`), the manager of categories with its
  dirty flag. A reload closes the sheet of its write and no other (`SheetsOf`); the
  history of the box stays open. Calls that look something up before they write are split there
  (`CheckCategory` / `WriteCategory`, `FindInvestment` / `WriteInvestment`). `Navigate`
  leaves the page and comes back; what it wrote goes on unheard and races with what
  the next page begins.
- `SavingsProperties`: what it promises. `MCSavings`: an instance.

Assumed of the user: sheets are modal, a form that is saving is not left for another
one, a row of the box is not deleted twice while its deletion is in flight. The
parallel reads of a load are taken at one moment. Not in the model: accounts and rows
of the box that do not open, which the page leaves out of its sums; colours, dates,
memos, the list of recent contributions, the migration of expenses without category.

### Run

| Run | Shows |
|---|---|
| `savings` | every sheet, over an empty database, one of an earlier version and one with a position that does not open: `TypeOK`, `ShownIsSaved`, `WorthIsKept`, `BasesKept`, `PositionStays`, `BudgetNotLost` |

Bounds: two writes that users begin and one fault, so that a write can be repeated
after it failed or lost its answer, or two can race; the three databases put a budget
in two rows, an account with a base, a position with and without a readable base, and
a fixed category added since the last start of the API. One tab: a page that was left
is a second actor already, and two tabs make more than five million states. All
properties are about states and steps: no fairness.

`ShownIsSaved` and `WorthIsKept` excuse a tab that heard of a failure or has writes
behind its back. What they excuse is real: a reload of the box has no sequence number
(`page.tsx:626`), a manager of categories that closes before its answer does not make
the page load (`CategoryManager.tsx:59`, against its own comment at 38), and an account
saved again after a lost answer is counted twice (`SavingsAccountAddSheet.tsx:53`).

### Proofs

`SavingsProofs` proves, for any number of tabs, any databases that are `Consistent`, any
rows and any number of saves and faults:

- `TypeCorrect` (`TypeOK`), `RestsOnTheSaved` (`ShownIsSaved`), `BasesStay` (`BasesKept`),
  `FirstPositionStays` (`PositionStays`), `BudgetStays` (`BudgetNotLost`) and `WorthStays` (`WorthIsKept`), from the assumptions of `Savings` and `SavingsStore`:
  the databases a run begins with are consistent and have ids left, contributions are
  finitely many, `None` and `Corrupt` are nobody's values.

`Inv` is the inductive invariant, a conjunction of seven parts that need each other:

- `TypeInv`: `TypeOK`, what each kind of call carries (`Sends`) and brings (`Brings`), what a
  sheet knows (`Asked`), and that there are ids left for what may still be created (`Room`).
- `BudgetInv`: below each row that a budget's steps delete, or will delete, there is a row
  with a smaller id. So the first row is never deleted, whichever steps fail and whoever
  else deletes: the client updates the first row and deletes the others
  (`BudgetSheet.tsx:58-79`), and a row read once as first stays first.
- `TabInv`, `SheetInv`: a sheet, a write or a reload of the savings tab means that its rows have
  come; the steps of a budget belong to a sheet that is saving, one step after the
  other; a reload can only close a sheet of its own write. These say what a user can
  have in flight, without which a step of an older sheet could be taken for a newer one.
- `BasesInv`: whatever a tab shows, a sheet edits, a call carries or an answer brings about a
  row that is there has the base of that row. Only the base is known; rates and goals
  may be stale, and are when two tabs save. A row of the position that was first is first for good:
  a new row has a larger id than all others, and none is ever deleted. Two saves that
  found no position do make two rows (`investment.service.ts:39`), of which the later is
  never read.
- `FixedInv`: the fixed categories are those of the code once a page is ready.
- `ShownInv`: a tab that is not in doubt shows the rows as they are, or a step of its own is
  under way that will read them again (`Writing`, `Reading`, `Listing`), and what a read of it
  has brought is what is there, unless a write of its own is under way.

`ShownIsSaved` of a settled tab is then the case in which nothing is under way. That a
set of rows has a first one is proved without induction over data: `Smallest` takes a
minimal element of a well-founded order on sets (`WFMin`), `Least` and `FirstIsLeast` are
what `First` and `BaseOf` need of it.

`WorthStays` (`WorthIsKept`) follows from `ShownIsSaved`, from `Asked` (a savings tab that is
ready has asked for the contributions of both categories) and from what the sums are:
`SavedIs` (the bases and the contributions to each name, once, if no two accounts share
one), `ValueIs`, `InIs` (what went into the box is cash or was moved from savings). The
sums are folds of the library over finite sets. That such a fold exists and has a
value (`SumsExist`, `SumSteps`), that its order does not matter (`SumWithout`) and that it
distributes over pointwise sums and disjoint unions (`SumPlus`, `SumUnion`) is proved from
minimal elements as well: `SubsetInduction` is an induction over the subsets of a finite
set that takes the set of the good ones as its parameter and no operator, which the
installed provers could not instantiate. Every property of this section is proved.

## 9. Not modelled

- The clipboard timer (`CopyField.tsx`, `clipboard-clear.ts`): one timer per field and a
  clipboard that other programs write.
- The migration of category names and of expenses without a category
  (`asset-migrate-categories.ts`): it runs once per device, and needs the contents of
  expenses, which `Ledger` leaves out.
- Amounts, items, categories and days of expenses; what the dashboard's charts draw.
- Cryptography and WebAuthn: external; a wrap opens with its own key only, an
  authenticator answers the challenge it was given.
- HTTP infrastructure, build files, the demo, presentational components: no shared
  state and no order to check. The schema's constraints are part of the models; its
  migrations are not.
