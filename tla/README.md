# Verification of the canteen manager

TLA+ models, TLC runs and TLAPS proofs for the prison canteen system in `src/`:
a NestJS backend over PostgreSQL (or SQLite in the desktop build), a Python
scanner service, a React frontend and an Electron shell. Paths below are
relative to `src/canteen-manager/backend/src/` unless they start with `src/`;
`fe/` stands for `src/canteen-manager/frontend/src/`.

## 1. The system

### Parts, their state and how they interact

| Part | State | Operations that change it | Talks to |
|---|---|---|---|
| Accounts (`accounts/`) | `prisoner_accounts.balance`, the append-only `account_transactions` | `getOrCreate`, `credit`, `debit` (both through `mutate`) | called by Orders and Counter inside their transactions |
| Orders (`orders/`) | `orders`, `order_items`, `tg8_documents` | `createOrReplace`, `acceptRelativeOrder`, `rejectRelativeOrder` | Accounts, Menu rows, purchase limits |
| Counter (`counter/`) | none of its own | `lookup`, `topup`, `acceptOrder`, `rejectOrder`, `listPendingOrders` | Users, Accounts, Orders |
| Kiosk (`kiosk/`) | none of its own | `prisonerView`, `placeOrder` (a visitor's, "relative", order) | Orders, payment configuration |
| Front desk pages (`fe/features/canteen`, `fe/features/counter`) | screens, carts, forms, a polled queue | lookups, submissions, polls, idle reset | Counter and Kiosk over HTTP |
| Verification (`scans/verify/`) | sheets, issued forms | `confirm` (issued, generic and scanner sheets), `reject`, `skip`, artifact retry, identity selection | Orders |
| Verification page (`fe/features/verify`) | queue, draft, selection, previews, dialogs | load, preview, confirm, reject, skip, navigate | Verification over HTTP |
| Menu, purchase limits | `menu_items`, `purchase_limit_config` | edits by administrators | read by Orders under share locks, by OMR forms under the catalogue lock |
| Legacy sync (`legacy-sync/`) | `users.is_active`, `sync_runs` | one run at a time, nightly or by hand | external MSSQL database |
| Scan intake and admission (`scans/`) | `sheets` rows, image files, in-memory counters and lock chains | `submit`, `enter`, release | OMR client, processor |
| Scan processor (`scans/scan-processor.service.ts`) | sheet status, a serial promise chain | `enqueue`, boot sweep, 30 s sweep | OMR service, issued forms |
| Scanner webhook (`scans/webhook/`) | received events, artifact jobs, sheets | `ingest`, artifact import with leases | scanner service |
| Scanner service (`src/scanner/`) | inbox, staging, receipts, SQLite (sources, jobs with leases, results, outbox), artifacts | ingest, recognise, claim, heartbeat, complete, fail, recover, deliver, retry, replay, reconcile | webhook over HTTP |
| Storage, retention (`scans/scan-*.service.ts`) | image files against rows | save, purge, reconcile | Scan intake, webhook |
| OMR forms (`omr-forms/`) and their page (`fe/features/order-form`) | issued forms, template versions, roster and masters on the page | `generateForm`, `activate`, `issueBatch`, `getGenericMaster` | Menu, Users, the renderer, Processor, Verification |
| Desktop shell (`src/canteen-electron/`) | child process, timers, window, `config.json` | first launch, start, stop, quit | backend by IPC, its database and port |

### What is hard

* Requests of several operators, kiosks and the sync run concurrently in READ
  COMMITTED transactions. Correctness rests on which rows are locked, when, and
  on partial unique indexes that only one of the two schemas has.
* Node code holds in-memory counters across awaits (admission), and React code
  holds closures over what was on the page when a request was sent (front desk,
  verification): answers come late, out of order, or not at all.
* Scanner workers and artifact importers work under leases that may run out
  under them; the same job can be in the hands of two processes.
* Callbacks are lost, late and repeated; the manager must record each event once.
* Files and rows cannot be written together: ingestion, imports, the purge and
  the sweep of orphans each order them in their own way.
* One rule is written several times: what makes a scanner result confirmable is
  in the scanner, in the grading, in the page and in the confirmation.
* Processes die at any point; recovery is by lease expiry, by sweeps, by receipts
  and by a start that has to cope with what the last one left.

At this commit the root module of the backend (`app.module.ts`, loaded by `main.ts`)
does not import `ScansModule` (`scans/scans.module.ts:54`), and no other module does:
intake, processor, webhook and verification are modelled as the code and its tests
have them, but no route of theirs is served until the module is wired in.

`PROJECT.json` lists these hazards at the lines where they bite, each with the
properties that would catch it, or a note saying why none does.

## 2. Modules

| Module | Models | Uses |
|---|---|---|
| `AccountLedger` | what an account promises: the abstract specification | |
| `OrdersLedger` | orders, money and settlement, lock by lock | `INSTANCE AccountLedger WITH ...` |
| `OrdersLedgerProofs` | theorems about the accounts and the orders in `OrdersLedger` (TLAPS) | `OrdersLedger` |
| `ScanAdmission` | admission of uploads, await by await | |
| `ScanAdmissionProofs` | theorems about `ScanAdmission` and `PrintedForms` (TLAPS) | both |
| `ScannerQueue` | scanner jobs, workers, outbox, dispatcher, receipt by the manager | |
| `ScannerQueueProofs` | theorems about `ScannerQueue` and `ScannerIngestion` (TLAPS) | both |
| `OmrSheets` | issued and generic forms, the sheets scanned from them, processor, operators, purge | |
| `OmrSheetsProofs` | theorems about `OmrSheets` (TLAPS) | `OmrSheets` |
| `PrintedForms` | the menu, templates, batches of personal forms, masters, and the pages that ask for them | |
| `ScannerIngestion` | inbox to jobs in the scanner: copy, receipt, rows, replay at start, disk pressure | |
| `ScannerRecognition` | readings of a page to a result: fields, ranking, validation, contract (pure) | |
| `ScannerReview` | review of one result: grading, page, server's checks, menu edits | extends `ScannerRecognition` |
| `CallbackInbox` | what the manager promises about callbacks: the abstract specification | |
| `ScannerWebhook` | receipts, import of artifacts, decisions, purge, sweep at the manager | `INSTANCE CallbackInbox WITH ...` |
| `ScannerWebhookProofs` | theorems about `ScannerWebhook` (TLAPS) | `ScannerWebhook` |
| `VerifyScreen` | the verification page with its calls, and rival operators | |
| `VerifyScreenProofs` | theorems about `VerifyScreen`, `ScannerReview` and `ScannerRecognition` (TLAPS) | all three |
| `FrontDesk` | kiosk and counter pages with their calls | |
| `FrontDeskProofs` | theorems about `FrontDesk` (TLAPS) | `FrontDesk` |
| `DesktopShell` | Electron shell and start of its backend | |
| `DesktopShellProofs` | theorems about `DesktopShell` (TLAPS) | `DesktopShell` |
| `MC*` | finite instances for TLC | |

Three proof modules are about two components each, whose names are therefore kept
apart: the initial states, steps and specifications are `FormsInit`, `FormsNext`,
`FormsSpec` in `PrintedForms`, `IngestionInit`, ... in `ScannerIngestion` and
`ReviewInit`, ... in `ScannerReview`.

How they fit together: a form is printed in `PrintedForms`, and what becomes of its
sheet is in `OmrSheets`. A page for the scanner goes from `ScannerIngestion` (file to job) to
`ScannerQueue` (job to callback), `ScannerWebhook` (callback to sheet and images),
`VerifyScreen` and `ScannerReview` (sheet to confirmation) and `OrdersLedger`
(confirmation to order and money). What a module takes as one nondeterministic
step is what its neighbour takes apart: a receipt is one step in `ScannerQueue`
and four in `ScannerWebhook`; a confirmation is one step in `ScannerWebhook`, a
predicate in `ScannerReview` and eight steps in `OrdersLedger`.

### OrdersLedger

A *client* is one HTTP request and its one database transaction; `tx[c]` is what
the request holds in memory and the locks it has. An action is one statement (or
a run of statements with no lock and no read that another transaction can
change). Locks are PostgreSQL row locks, kept until commit; writes appear at
commit; every action can instead roll back, and `Crash` rolls back whatever runs.

The path of an order is that of `createOrReplaceWithOutcome`:
`OpenConfirm`/`OpenRelative` → `LockExact` → `LockCatalog` (scanner sheets) →
`LockAccount` (prisoner orders) → `ShareItem` for each row of the cart but the last →
`ResolveMenu` → `CheckLimits` → `FindExisting` → `Settle` → `CommitOrder`.
`OpenConfirm` reads the existing order *before* the account lock, as `confirm` does,
and has the share lock on the prisoner's row; a scanner sheet that bears another
prisoner's number shares that row too (`LockExact`). `OpenTopup` checks `is_active`
outside the transaction, as `CounterService.topup` does. `LockPending`,
`CommitAccept` and `CommitReject` are the cashier.

The other writers of what an order reads are transactions that write one row after
another and keep what they have written. `OpenEdit` takes the catalogue lock of
`MenuService`; `WriteItem` waits for whoever shares the next row. An edit of one row is
`updateItem` or the soft removal; an edit of several is `reorder` or the hard removal,
refused once a form is generated (`GenerateForm`, `printed`). `OpenSync` and `WriteUser`
are one statement of the legacy sync, an upsert of up to 500 prisoners or the
deactivation of the absent. Both may fail and leave no trace. `UpdateLimits` writes the
one policy row. That row is there from the migration that creates the table
(`database/migrations/20260715154402-create-purchase-limit-config.ts:34`), and nothing
deletes it, so the insertion of a missing one in `purchase-limit-config.service.ts:36`
is left out: only a SQLite database comes without the row, and there it is inserted
by the first request that reads it.

Abstracted: names, texts, codes, notes and times; a cart is a function from two
items to quantities; amounts are integers. `Indexes` is the set of partial unique
indexes of the deployed schema, so that both schemas can be asked about.

The refinement: `AccountLedgerSpec` is `AccountLedger!Spec` instantiated with the
account rows of `OrdersLedger`. Every step of a request credits, debits or
replaces as the abstract account allows, or leaves the accounts alone.

### ScanAdmission

An upload passes through `ScanAdmissionService.enter` and
`ScansService.submitAdmitted`. Each step ends at an await. `Count` is the moment
the database takes its snapshot, `Decide` the moment the answer is compared: rows
may appear in between, which is what the reservations and deferred releases of
the code are for. Any await may fail. `Restart` forgets everything in memory.

### ScannerQueue

One storage method is one `BEGIN IMMEDIATE` transaction and one step. A lease is
a flag, live or not; a live lease under a working heartbeat stays live unless a
fault (`HeartbeatMissed`) ends it, any other one runs out at some time. A worker
holds the job and epoch it claimed, so a stale worker goes on until a fenced
write tells it. Workers get new names at each start in the code; in the model
the epoch alone tells claims apart, which is weaker. Requests on the `wire`
survive the dispatcher: a timed-out request can arrive after its retry. `Receive`
is the manager's receipt as one step. `body` is the epoch of the claim that
produced the result, standing for its content: two different results of one page
have different bodies. Recognition is a nondeterministic outcome: done, failed for
good, or failed for now. `max_job_attempts` can change at a restart, within `Limits`.

### OmrSheets

A sheet goes `pending` → `processing` → `flagged` (an operator must decide) →
`verified` or `rejected`; a form is `issued`, then `consumed` or `void`. `Submit`
is intake, `IssueBatch` and `CreateDemoRecord` make forms, `Activate` and `Retire`
are the template versions of one form mode.

The processor is the serial promise chain of `scan-processor.service.ts`:
`Load` → `MarkProcessing` → `Recognise` → `ResolveIssued` or `ResolveGeneric`. It
keeps the row it loaded (`proc.row`) and writes it back whole, as `repo.save`
does, so a write of the processor can in principle undo someone else's; that
nobody else touches an unprocessed sheet is checked, not assumed. `queue` holds
the entries, double ones included: `RecoverDueWork` appends whatever is pending.
`Recognise` stands for both calls of the recognition service; its answer is
nondeterministic, its checks of form and template are reads without a lock, made
again under locks by the resolve step. The conflict branch of `resolveIssuedToken`
takes two steps, since it reads the other sheets of the form without locking them;
the form and the sheet stay locked in between (`FormFree`, `SheetFree`).

`ConfirmIssued`, `ConfirmGeneric` and `Reject` lock before they look, so each is
one step; refusals change nothing and are left out. What a confirmation does to
orders and money is `OrdersLedger`; here `orders` records that it happened. Dates
are day numbers: a sheet and a form are for the day after they were made, except
that a batch whose rendering passes midnight is for the same day. `PurgeDue` is
the nightly purge, files before rows. `paper` is what the code on the image refers
to. `stranded` is history: sheets a database error left in `processing`.

Not in this module: sheets of the scanner webhook (`ScannerWebhook`), the workflow
mode `scanner_webhook` in which this part is switched off, zones and
authorisation, the images themselves, batches of the purge beyond 100 rows.

### PrintedForms

The menu is the sequence of the items ever added, with label, code, position and
status; `AddItem`, `UpdateItem`, `RemoveItem` and `Reorder` are the four methods of
`menu.service.ts` behind the rows and dialogs of its page. They, `Activate` and
`CommitBatch` take the catalogue lock, so each is one step. What takes several steps
is whatever waits for the renderer: `StartTemplate` → `Activate` (`generateForm`);
`Send` → `LoadSelection` → `LoadTemplate` → `MatchCatalog` → `CommitBatch`
(`issueBatch`); `AskMaster` → `RenderMaster` → `MasterComes` (`getGenericMaster`). Each
can fail at any of its steps. In between the menu is edited, templates are activated
and the sync moves prisoners (`MoveUser`).

`page` is the order form page: the modes that were available when it was opened, and
the roster of the place that is chosen. A batch is ticked on a roster that may be old.
`template[t].drawn` and `.known` are history: the rows the renderer was given, and the
items that were on the menu when the template was activated.

Abstracted: prices and full names (a label stands for both), geometry, the zones of
operators, serials; there is one service date, so forms of different dates are not
compared. `retire` of a template has no caller in the code and is no action.

### ScannerIngestion

Writers put files into the shared inbox at any time: `Write`, `MarkReady`,
`Remove`. `Poll` lists them in order, `Observed` is the stability window, and one
ingestion runs through `StartCopy` → `CopyRest` → `CheckCopy` → `Decode` →
`WriteReceipt` → `Promote` → `Record`, with `Reject` for a file the code gives up.
An empty or too large file is refused before or while it is copied (`Fits`).
The bytes that were read are a pair of halves, so a copy taken during a write is a
pair that no writer wrote. A version of a file is known by its stamp, standing for
size and modification time. `CallFails` fails any of the calls, `Crash` stops the
service between any two of them; `Start` and `Replay` are `reconcile_startup`,
which checks and finishes what receipts promise. `Upgrade` restarts with another
bundle. `Refreshed` is the hysteresis of `runtime.py`. `Publish` is a worker that
cites the artifacts; `Servable` is what the artifact endpoint asks of them.

### ScannerRecognition and ScannerReview

`ScannerRecognition` has no state: it is the function from the hypotheses of the
recognition backend for the crops of a page to the result of that page. The edit
distance, the accent-insensitive score, the ranking with its margin, the rules for
cells, rooms and quantities, `validate_page` and the contract of `contracts.py` are
there as operators; scores are in percent. What the code computes in loops is written
with recursive functions (`Sifted`, `Scored`, `Ordered`, `Settled`), so that it can be
proved about. `ScannerReview` starts from such a
result, or from any result the contract allows, and lets an operator edit, select,
explain and confirm while the menu changes. It has the four places where the rules
about a result are written: `ReviewState` (grading), `BuildDraft`/`ReasonKind`
(page), `NeedsReason`/`RowReviewed` (server), `ConfirmScanDto` (in `Accepts`).

### ScannerWebhook

`persistReceipt` is split at its two advisory locks (`LockEvent`, `LockResult`,
`CommitReceipt`); `Deliver` is the first look without a lock. An importer claims,
downloads, writes and finishes in separate steps, fenced by its claim token. The
confirmation, the rejection, the retry of an artifact and the purge lock what they
read and are one step each. `reconcile` reads rows first and deletes files later.
File ages are "young" or "old" against the grace period, and `Rest` says that a
download or a sweep does not last a day. `stray` is history: files an importer
wrote after it had lost its claim.

The refinement: `CallbackInboxSpec` is `CallbackInbox!Spec` instantiated with
`InboxView`, the rows of the events and whether each has a sheet. `CommitReceipt` is a
`Receive` or a `Quarantine`, a delivery that finds its event with other bytes is a
`Dispute`, and everything else, from the locks to the sweep, is a stutter. No run lists
it; TLC agrees with it on the instance of the run `scanner_webhook`.

### VerifyScreen

One operator with the page, a server, and rivals who decide the same sheets. Each
read and each decision is sent, served and answered in separate steps and in any
order; a decision carries what its closure captured: the sheet, the user, the
draft it was made of, the preview shown. A turn of the page (`Turn`: new queue, range or
address) changes what is shown; draft, selection, previews and loads follow in the
passive effects of that drawing (`due`, `Effects`), and a click may come before them
(`hasty`). `saving` is the ref `inFlight` and the state `saving`, of which a skip sets
the first only. The confirmation of an order that replaces another waits in `ack` for
the warning.

### FrontDesk

The kiosk (`CanteenPage`, `MenuCalculator`) and a cashier's `CounterPage` with its
two forms and its polled queue. Calls may be lost on either way and may come back
to a component that is gone (`live`). A cart is one cart and a catalogue is its
price, its limit and whether bank transfers are offered; two catalogues alternate.
A prisoner has one relative order of the day that is pending or paid; `past` is one whose
day is over. The checks of an acceptance are refusals without effect here
(`RefuseAcceptance`) and in detail in `OrdersLedger`;
decisions of other counters are `DecidedElsewhere`; the rate limit of the kiosk is
a call that fails. `told` is history: what a cashier was told of each order.

### DesktopShell

The shell (`Launch`, `AnswerPrompt`, `StartBackend`, `ReceiveMessage`,
`ReceiveExit`, `StartTimeout`, `KillTimeout`, `Quit`, window) beside every backend
process it ever forked (`Create`, migrations, `CountUsers`, `Seed`, `Listen`,
`Shutdown`). A crash of the shell runs no handler and leaves its backend behind.
Statements are committed one by one: the SQLite migrations run without a
transaction, the seed has none. Two statements stand for the first migration, one
step for each loop of the seed. The single-instance lock is not modelled.

## 3. Runs

| Run | Bounds | Shows |
|---|---|---|
| `orders` | 2 prisoners (the second has visitors and a number on another's receipt), 2 requests, 2 orders, 1 day, 2 rows of the menu, edits of 1 and 2 rows, sync statements of 1 and 2 users, 2 limit policies, 3 routes, 1 top-up of 1, 1 reference | ledger = balance; supersede trail; settlement whole, once, one order per bank reference; one active order per channel; orders and ledger agree; refinement of `AccountLedger`; price and limit as of commit; debits only of active prisoners; no circle of waiting requests without a transaction of several rows |
| `scan_admission` | 3 uploads, 2 credentials, 3 images, limits 2/1/2 | queue bound, accounting of reservations, limits per credential; the lock chain serves on |
| `scanner_queue` | 2 pages, 2 workers, attempt limits 1 and 2, 1 fault, 1 replay | one result per page, faithful receipts, bounded attempts; final jobs stay; pages and events end |
| `omr_sheets` | 2 sheets, 2 forms, 1 template, 1 prisoner, 2 attempts, 2 days, queue of 2, 1 fault | a form and a sheet pay once and in step; a disputed form is dead, one valid form; decisions are final |
| `omr_progress` | 2 sheets, 1 form, 1 template, 1 day, otherwise the same | every sheet settles |
| `printed_forms` | 2 prisoners, 2 places, 2 labels, 3 items, 2 templates, 2 calls of `issueBatch`, 1 batch, 2 edits or moves | what is printed stays true of the menu; a batch is current and whole when it is committed |
| `scanner_webhook` | 1 document revision as 4 payloads, 2 requests, 2 importers, 2 days, 1 fault | one review per revision; an image that is not yet purged is not lost, one that is purged stays away; imports and loose files settle |
| `verify_screen` | 3 sheets of 3 kinds, 2 prisoners, 2 days, 4 gestures, 1 failed call | decisions carry their sheet, but for hasty ones of issued sheets; only decided sheets leave; the page never stays locked |
| `scanner_review` | 2 items, pages and results of up to 2 rows, 2 edits or menu changes | screen, grading and server agree; recognised results are deliverable and an unambiguous one has no near rival |
| `scanner_ingestion` | 2 names, 5 scans, 2 writes, 1 day change, 1 upgrade, 1 fault | jobs are backed by whole bytes and receipts; refusals have a cause; every file settles |
| `front_desk` | 1 prisoner, 2 orders, 2 calls under way, 3 asked, 2 typed, 2 catalogues | what was quoted is owed; one settlement per order and decision; the polled queue catches up |
| `desktop_shell` | 2 starts of the backend | no quit leaves an orphan; the window shows a whole database; every quit ends, and every start whose backend does not end silently |

Several properties are conjunctions of named parts, each with its own comment:
`CapacityHeld` (`QueueBounded`, `ReservationsAccounted`, `CredentialBounded`),
`ResultsSound` (`OneResultPerPage`, `ReceiptsFaithful`, `AttemptsBounded`),
`WorkEnds` (`PagesEnd`, `EventsEnd`), `OrdersSound` (`PaysOnce`, `OrdersBacked`),
`FormsSound` (`ConflictStopsForm`, `OneValidForm`), `RecognitionSound`
(`ResultsDeliverable`, `NoRivalInReach`), `ShellSettles` (`StartupSettles`,
`QuitEnds`).

Why the bounds are enough to be interesting:

* *Orders.* Two requests are the smallest number that races, and two orders are one
  and its replacement, or the orders of two visitors that are paid with one bank
  reference; the second row of the menu is free, retired and in the other category, so
  prices, categories and limits change under a running order. Orders cost up to 2 and
  the top-up is 1: a replacement whose price has risen meanwhile fails for funds after
  its reversal. Two rows of the menu, and two prisoners in a statement of the sync, are
  what a circle of locks needs. Generic sheets open like those of the scanner, with no
  first look at a prior order, and go on like issued ones; they are left out of the run.
  An order that is replaced twice, other days, more prisoners and larger ledgers do not
  occur in the run: the proofs cover them.
* *Admission.* Three uploads over a limit of two, two of them of one credential,
  overlap a count with an insert and a release.
* *Scanner queue.* Two workers and one fault let a job be claimed twice with both
  claimants alive; the requests that time out are no faults and need no budget.
* *Sheets.* Two sheets and two forms let a paper be scanned twice and a form be
  reissued under a waiting sheet; a second day makes the first one's sheets due for
  the purge; two attempts (the code has three) give a retry and an exhausted budget.
* *Printed forms.* Two places, one of them without a zone, and two prisoners make the
  roster, the cell check of generic forms and a batch that spans cells differ; two
  templates let an active one be replaced under a batch; a menu of two items, with room
  for a third and a printed list of at most two, meets the capacity; two changes fall
  between any two steps. One batch is committed, by either of two calls that race.
* *Webhook.* The same event with other bytes, the same revision under a second id
  and a malformed payload are the classes `persistReceipt` tells apart; two
  importers are the smallest number that shares an expired lease.
* *Verification page.* Four gestures suffice for select, preview, confirm and move
  on while an answer is under way; three sheets leave one ahead and one behind.
* *Ingestion.* Two writes let a file be replaced while it is copied; the five scans are
  a good one, one that does not align, one that does not decode, an empty one and one
  that is too large.
* *Front desk.* Two calls may cross, of three that are asked in all; both catalogues
  offer bank transfers. Two prisoners, and an order without a transfer, are left to the
  proofs.
* *Shell.* Two starts are what an orphan and its successor need.

Uploads, credentials and images, sheets and forms, prisoners, labels and calls are
symmetric in `scan_admission`, `omr_sheets` and `printed_forms`. Runs that check
liveness use no symmetry.

`CHECK_DEADLOCK FALSE` stands where the system rests: everything is decided or
delivered and the bounded faults, replays, gestures, starts or days are used up.

### Fairness

* `OrdersLedger`: none. That requests end is not claimed: circles are possible, and what
  ends them is PostgreSQL's deadlock detector, which aborts a member (`Crash`,
  `EditFails`, `SyncFails`). `CirclesNeedBatches` says which circles there can be.
* `ScannerQueue`: weak fairness of each live worker, of the dispatcher, of the
  manager's answer, of time, and of the recovery in the main loop; none of ingestion,
  replay or faults. One worker is assumed to survive until the next restart: the
  service does not replace worker processes (a listed hazard).
* `OmrSheets`: weak fairness of the boot, the processor's steps, the 30-second sweep
  and the passing of a retry time; none of operators, uploads, days or faults. A
  database error in the processor strands a sheet until the next boot, which nothing
  guarantees; `SheetsSettle` says so.
* `ScannerWebhook`: weak fairness of the importers' steps (a cron starts them), of
  lease and retry times and of the sweep; strong fairness of the ageing of a file,
  since `Rest` disables it while a download or a sweep is under way. None of
  operators, callbacks, days or faults.
* `VerifyScreen`: requests are served and answered (an answer may be an error), and
  whoever opened the reject dialog decides or closes it. Nothing else of the operator.
* `ScannerIngestion`: the loop goes on, the unit starts the service again
  (`Restart=on-failure` in `order-scanner.service.j2`), workers take their jobs.
  Writers, faults and the disk owe nothing.
* `FrontDesk`: the timer of the queue fires and its answer is read or fails.
* `DesktopShell`: a living shell handles what came and fires its two timers. Nothing
  of the backend, which may hang anywhere, or of people.

## 4. What the models show about the code and its documents

None of these is a run of its own; the models contain the steps, and the properties
are stated so that they hold of what the code does.

Orders and money
* `orders/orders.service.ts:411`: a reused bank reference "trips the partial UNIQUE
  index". The SQLite schema has no such index (nor the others of `Indexes`); without
  it one reference settles two orders. The runs take the PostgreSQL schema.
* `scans/verify/verify.service.ts:530` reads whether an order will be replaced inside
  the transaction but before the account is locked; a sheet confirmed in between
  makes the answer wrong, not the money.
* Lock orders. A visitor's order shares the rows of its cart in the order of ids
  (`orders/orders.service.ts:206`) without the catalogue lock, while a reordering or a
  hard removal writes the rows in the order of positions (`menu/menu.service.ts:206`,
  `:253`); and `confirmScanner` shares the row of the prisoner and then that of the number read
  (`scans/verify/verify.service.ts:639`, `:646`), while the sync writes up to 500 users in one
  statement. Either pair can wait for each other; PostgreSQL then aborts one, a
  request with an error or the sync with a failed run that the next one makes up for.
* `users/users.service.ts:343`: money paths must reject inactive prisoners. A top-up
  checks before its transaction (`counter/counter.service.ts:112`) and can credit a
  prisoner whom the sync has released since. Debits hold the prisoner's row.
* A limit disabled with no amount keeps a zero that the next edit refuses; a menu
  reorder accepts an id twice.

Menu and printed forms
* `menu/menu-item.entity.ts:18`: codes are never reused. Before a form has been
  generated, an item is deleted for good and the next one gets its code if it was the
  highest; `PrintedRowsStay` is about what was printed.
* `getGenericMaster` never compares a full list with the menu: only the page's
  capabilities do, once, when it is opened. A master may show items that have changed
  since, and the page keeps what it was given until it is opened again. `BatchIsCurrent`
  is about personal forms, which are compared at the commit.
* The catalogue hash has codes, labels and positions but no prices, though the list
  that is printed from it shows them; after an edit of a price it still matches.
* The rows of the menu page are told that nothing is locked
  (`fe/features/menu-config/menu-config-page.tsx` passes `locked={false}`), though
  `menu-config-row.tsx:8` expects otherwise: the server refuses instead.
* `retire` in `omr-forms/omr-form-templates.service.ts` has no caller, and
  `roi_generated_at`, which `isFormGenerated` also reads, is set by the demo seed only.

Sheets and scanner results
* `scans/scan-processor.service.ts:393`: the other sheets of a disputed form are read
  without a lock and later saved whole; a purge in between is undone in the row, while
  the file stays deleted. `OrdersSound` and `DecidedStays` are not affected.
* A late retry of an artifact can bring an image back after the purge when
  `SCANNER_ARTIFACT_RETENTION_DAYS` exceeds `SCAN_RETENTION_DAYS`
  (`scans/verify/verify.service.ts:389`, `scans/scan-retention.service.ts:107`);
  `PurgedKeepsNothing` is checked with equal periods, and except for files of an
  importer that writes after it lost its claim (`stray`).
* The scanner sends the candidates of a quantity as text (`contracts.py:64`,
  `recognition.py:138`); the server takes an explicit choice only of an integer among
  them (`scans/verify/verify.service.ts:826`), so a row with such candidates cannot be
  confirmed. The server's tests use numbers. A row whose item is not among its own item
  candidates cannot be confirmed either.
* The shipped scanner configures no calibrators, so nothing it sends is ever graded
  ready; `quantity_max` is 999 in the scanner and 99 in the manager's contract.
* `PROJECT-OVERVIEW.md:266`: results lead to an order automatically or are flagged.
  The code never creates an order from a scanner result without an operator.
* In mode `legacy_omr` the event of a scanner is stored and never gets a sheet.
* `omr-forms/omr-forms.service.ts` takes PostgreSQL advisory locks in `commitBatch`,
  which SQLite has not; under SQLite row locks are dropped (`common/sqlite-safe-lock.ts`).

Scanner service
* Worker processes are not replaced (`cli.py:265`). An `ArtifactStoreError` ends the
  service; a passing disk or database error during ingestion rejects that version of
  the file until a receipt brings it back; a changed bundle fails the jobs queued for
  the old one; staging is cleaned only at a start.

Pages
* The warning about a replaced order (`fe/features/verify/supersede-warning.tsx:14`)
  shows the order as of when the queue was loaded, not as of the confirmation; and
  the acknowledged confirmation does not look again whether another is under way
  (`use-verify-actions.ts:113`).
* The draft follows the sheet shown in a passive effect (`fe/features/verify/use-verify-queue.ts:88`),
  after the drawing that shows the sheet. For an issued sheet nothing else of the page
  waits for it (`verify-page.tsx:115`), so a confirmation in between posts the lines of
  the sheet before for the sheet shown (`use-verify-actions.ts:129`). The window is short;
  `DecisionsCarryTheirSheet` excepts exactly these confirmations. Generic and scanner sheets are
  protected by `identitySheetId`, which the same effects set.
* A late answer navigates with the queue it captured and drops edits made since; the
  key R opens the reject dialog while a decision is being saved;
  `OMR_FORM.TEMPLATE_MISMATCH` is missing from `TERMINAL_FORM_CODES`; the cleanup of a
  retried image load is discarded (`use-warped-image.ts:130`).
* A late answer at the kiosk can show the previous visitor's screen; at the counter a
  draft stays under the next prisoner looked up, and a top-up whose answer was lost is
  credited twice if it is sent again.

Desktop
* `src/canteen-electron/src/main/index.ts:21`: an exit handler kills the backend after
  "crash, SIGKILL, etc."; no handler runs then, and the backend is orphaned. An orphan
  keeps the port and may migrate and seed beside the next start.
* A first migration that is torn makes every later start fail. Half a seed is never
  completed, though `database/seeds/mvp-seed.ts:3` calls it safe to run again: the
  start counts users and nothing else. `config.json` is written in place.
* A backend that exits with code 0 or by a signal before it is ready does not end the
  start; the start timer has been cleared (`backend-process.ts:267`). A backend that
  dies after it was ready is not restarted, and a second launch focuses a window that
  may be hidden. `ShellSettles` is about every other start, and about every quit;
  `ServedWhole` promises whole demo data only if no backend was ended or left behind
  inside its start.

## 5. Proofs

Every theorem is about the unbounded specification: any number of prisoners,
requests, sheets, workers, uploads or deliveries, any amounts, limits and fault
budgets. What is assumed of the constants is named in the module that declares
them and evaluated by TLC: NULL is no value, amounts and bounds are natural
numbers, routes, modes and indexes are those of the code, the sets whose members
are counted are finite. Each component has one inductive invariant, written in
its own module under "Inductive invariant" (in `OrdersLedger` the lock
discipline and "Why the orders are right"). Each was checked by TLC on the
instances of section 3, alone and with larger bounds, before it was proved.

| Theorem | States | Rests on |
|---|---|---|
| `OrdersLedgerProofs!TypeCorrect` | `[]TypeOK` | |
| `OrdersLedgerProofs!DisciplineHolds` | `[]LockDiscipline` | `TypeOK` |
| `OrdersLedgerProofs!MoneyIsSound` | `[]LedgerExplainsBalance` | `LockDiscipline` |
| `OrdersLedgerProofs!OrdersImplementLedger` | `AccountLedgerSpec` (refinement) | `LockDiscipline` |
| `OrdersLedgerProofs!OrdersInvHolds` | `[]Sound`: `TypeOK`, `LockDiscipline`, `OrdersInv`, `RowsApart` | inductive |
| `OrdersLedgerProofs!TrailIsSound` | `[]SupersedeTrail` | `Sound` |
| `OrdersLedgerProofs!LedgerAgrees` | `[]OrdersAndLedgerAgree` | `Sound` |
| `OrdersLedgerProofs!ChannelsHoldOne` | `[]OneActivePerChannel` | `Sound`, index `active_source` |
| `OrdersLedgerProofs!DecisionsAreWhole` | `[]SettlementIsWhole` | `Sound`, index `transfer_reference` |
| `OrdersLedgerProofs!PricesHoldAtCommit` | `PricedAtCommit` (action) | `Sound` |
| `OrdersLedgerProofs!ActiveAtCommit` | `DebitsOnlyActive` (action) | `Sound` |
| `OrdersLedgerProofs!CirclesBounded` | `[]CirclesNeedBatches` | `Sound`, `Waits` |
| `ScanAdmissionProofs!CapacityIsHeld` | `[]CapacityHeld` | `IInv` |
| `ScanAdmissionProofs!ChainsAreServed` | `[]ChainServed` | `IInv` |
| `ScanAdmissionProofs!PaperOutlivesTheMenu` | `[]PrintedRowsStay` | `FormsInvariant` |
| `ScanAdmissionProofs!BatchesAreCurrent` | `BatchIsCurrent` (action) | `FormsInvariant` |
| `ScannerQueueProofs!ResultsAreSound` | `[]ResultsSound` | `IInv` |
| `ScannerQueueProofs!FinalJobsAreFinal` | `FinalJobsStay` (action) | `IInv` |
| `ScannerQueueProofs!JobsAreBacked` | `[]JobsBacked` | `IngestionInvariant` |
| `ScannerQueueProofs!RefusedForCause` | `[]RejectedForCause` | `IngestionInvariant` |
| `OmrSheetsProofs!OrdersAreSound` | `[]OrdersSound` | `IInv` |
| `OmrSheetsProofs!FormsAreSound` | `[]FormsSound` | `IInv` |
| `OmrSheetsProofs!DecisionsStay` | `DecidedStays` (action) | `IInv` |
| `ScannerWebhookProofs!RevisionsAreReviewedOnce` | `[]OneReviewPerRevision` | `ReceiptsInv` |
| `ScannerWebhookProofs!WebhookImplementsInbox` | `CallbackInboxSpec` (refinement) | `ReceiptsInv` |
| `ScannerWebhookProofs!EvidenceIsKept` | `[]EvidenceKept` | `EvidenceInv`, `ArtifactDays <= RetentionDays` |
| `ScannerWebhookProofs!PurgesAreComplete` | `[]PurgedKeepsNothing` | the same |
| `FrontDeskProofs!QuotesAreOwed` | `[]QuotedIsOwed` | `IInv` |
| `FrontDeskProofs!DecisionsAreTrue` | `[]SettledOnce` | `IInv` |
| `VerifyScreenProofs!CarriedWhole` | `[]DecisionsCarryTheirSheet` | `IInv` |
| `VerifyScreenProofs!LeaversAreDecided` | `OnlyDecidedLeave` (action) | `IInv`, `KeptIs` |
| `VerifyScreenProofs!ReasonsAreAsked` | `[]ReasonAskedWhenNeeded` | `ReviewAssumption` |
| `VerifyScreenProofs!ReadyIsTaken` | `[]ReadyIsConfirmable` | `ReviewInvariant` |
| `VerifyScreenProofs!ScannerIsSound` | `[]RecognitionSound` | `ReviewInvariant`, `ContractKept`, `NoRival` |
| `DesktopShellProofs!NoOrphans` | `[]NoOrphanAfterQuit` | `IInv` |
| `DesktopShellProofs!WhatIsServedIsWhole` | `[]ServedWhole` | `IInv` |

Every invariant and every action property that a run checks is among them.
`IInvHolds` in the modules of admission, queue, sheets, front desk, verification page and shell, and `ReceiptsInvHolds`
and `EvidenceInvHolds` for the webhook, state that the invariants hold. `TypeOK` and
`LockDiscipline` of the orders, and the inductive invariants of the others, are
proved and not checked again in the runs.

The arguments:

* *Accounts.* `LedgerExplainsBalance` is not inductive: `CommitOrder` and
  `CommitTopup` write `read + delta`, a value computed from an earlier read. The
  strengthening is `LockDiscipline`: the account row has at most one holder
  (`AccountMutex`), order ids drawn by running requests are unused and distinct
  (`DrawnIdsAreNew`), a request past `LockAccount` holds the row (`CreatingInOrder`),
  and so what it read is still the balance (`ReadIsFresh`).
* *Orders.* What a request knows when it writes (`Informed`): under its share locks the
  quote, the limits and the prisoner's activity are still those of the tables; under
  the account lock, the order it found is the one active scanned order of that
  prisoner and date, or there is none; under the row lock, the order it settles is
  pending, and it is the only request that settles it (`DecidedByOne`). That gives
  `OneScanned` without any index. With `RowsNameOrders` (a ledger row names an order
  that exists, so a fresh order has no rows) a commit adds exactly the debit, and the
  reversal of the one order it replaces. Relative orders take no account lock: their
  half of `OneActivePerChannel`, and the uniqueness of bank references, come from the
  two partial unique indexes, and the theorems say so. The SQLite schema has neither
  index; without `active_source` or `transfer_reference` the theorem does not apply,
  and two requests that race do break the property.
* *Circles.* A row that a running edit or statement of the sync has written is shared by no
  request, and nobody has the catalogue beside an edit (`RowsApart`). A request takes its
  locks in one order, users, catalogue, account, menu rows (`Orderly`), so a member of a
  circle, which waits, holds only what comes before what it waits for. A request that
  waits for a menu row waits for an edit that has written one and has more to write,
  hence before the first form is printed (`Waits`), and is a visitor's: confirmations of
  scanner sheets need the catalogue, those of forms a printed form. If no member waits for a menu
  row, none waits for an account, then none for the catalogue, and none holds a menu row, so the
  editor is not a member: what is left is the sync, with several users to write, and
  the confirmations of scanner sheets that ask it for a second user.
* *Admission.* A count compares a snapshot that may be old. It is right because
  whatever was inserted since is still on the books, held by its upload or as a
  deferred release (`SnapshotsCovered`); hence every upload that was let through has
  room (`RoomKept`). The limits of a credential hold because the lock chain lets one
  upload at a time between check and count (`LimitsChecked`, from `ChainServed`).
* *Queue.* A stale worker is harmless because a completion is fenced by the epoch, and
  a result's body is the epoch that committed it (`OutboxIsOfResults`); everything the
  dispatcher holds, every request on the wire and every receipt has that body
  (`SentIsCommitted`), so no retry, replay or late request can be a second body.
* *Sheets.* The processor writes whole rows from memory. That undoes nobody's decision
  because a sheet in its hands is undecided and unbound (`ProcessorHolds`), operators
  decide flagged sheets only, and a sheet is bound to a form only when it is flagged
  (`SheetsInOrder`). The conflict branch rejects all sheets of a form because the set
  it read is complete until it writes: the form stays locked, still issued.
* *Webhook, receipts.* Past the first advisory lock a delivery is the only one of its
  event, which has no row yet; past the second it is the only one of its revision, and
  its look for another row of the revision still stands (`LocksHold`). Before
  `LockResult` its look could be stale, which is the mutant of `OneReviewPerRevision`.
  This is also why the refinement holds: the commit does what a receipt in one step would
  do then, because what it read before is still so.
* *Webhook, evidence.* A finished download under its own claim is on disk and young;
  a file the sweep has seen no row of is offered only while young, and the sweep
  deletes old ones (`FilesGuarded`). A sheet that is due for the purge has no import
  under way and cannot get one, since a retry is refused once the artifact has expired:
  this needs `SCANNER_ARTIFACT_RETENTION_DAYS <= SCAN_RETENTION_DAYS`, which is a
  hypothesis of the two theorems. It holds of the 30 days that `docker-compose.yml` sets
  for the one and the importer takes for the other by default; the operator may set both,
  and no code compares them. With 2 days against 1 and two artifacts TLC finds a retry
  after the purge that puts a file back behind a purged sheet.
* *Front desk.* An order never changes owner or amount once it is stored, so whatever
  was read of it is still right (`RowsOfOrders`, `CallsFit`): a poll that is older than a
  decision, a transfer made after the prices changed, an answer that comes back to the
  next visitor. For decisions, a success that is still on its way counts like one that
  was told (`DecidedOnce`): the order is then no longer pending, so no second call can
  be answered with a success before the first arrives.
* *Verification page.* Whatever turns the page (`Turn`: a queue, a decision's answer, a
  step to another sheet) is followed by effects that reset the work and cancel the
  previews of the sheet that goes; no answer is handled in between. Once they have run, what is
  shown, and what may still arrive, is of the sheet that is there (`WorkOfCurrent`,
  `PreviewsOfWork`), and a confirmation is put together from just that. Before, the work
  and its previews are still of one sheet, the one before, and a confirmation of a
  generic or scanner sheet needs the work of its own; one of an issued sheet does not
  and is `hasty`. A
  sheet leaves the queue with an answer that says it was decided, and such an answer is
  true (`DecidedWasDecided`). That every other sheet stays rests on what the filter of
  a sequence keeps (`KeptIs`), an induction over its length; the library's induction
  theorems cannot be instantiated here, so the proof looks at the least counterexample
  (`LeastOf`, from the well-foundedness of the natural numbers).
* *Ingestion.* A version that was listed is known by a stamp that is given out once
  (`StampsGivenOut`), so if its file is still there it has not changed, and the bytes
  that were read are both halves of one scan; if it is not, the second look rejects the
  copy (`TaskSound`). What each phase has stored is what the next one needs: crops before
  the receipt, the receipt before the promotion, the promotion before the rows. A crash
  leaves the receipt, from which the start makes the same job again (`ReceiptsSound`).
  That a listing has only stamps that were given out is an induction over the names,
  again by a least counterexample (`ListingType`).
* *Review.* `ReadyIsConfirmable` and `ReasonAskedWhenNeeded` compare the four places in
  which the rules are written. The result stays what was received (`ResultTypeOK`), a
  draft nobody edited is `BuildDraft` of it (`DraftAsBuilt`), and for such a draft each
  condition of the server is implied by one of the grading, row by row.
* *Recognition.* For any catalogue, page and thresholds: what `validate_page` accepts
  passes the contract (`ContractKept`), field by field; and an item that is settled on
  has the highest score, reaches the minimum, and beats every other by the margin
  (`NoRival`). The scores rest on the edit distance, a table filled row by row: it is a
  natural number, so no score is beyond 100 and the highest one exists (`LevenshteinIs`,
  `SimilarityIs`, `LeaderIs`).
  Recursive functions over data are unfolded by one lemma, `Recursion`, which says of
  any table filled from 0 to n that it exists and satisfies its equation, from the least
  length at which it would not (`UpTo`); that the ranking takes one leader after the
  other, and settles on the first, follows from it (`OrderedIs`, `SettledIs`).
* *Printed forms.* A menu of n items has the positions 0 to n - 1, each once, and no code
  is beyond the number of items ever added (`ItemsAreTold`), so the next code and the
  next position are unused (`HighestCode`, `HighestPosition`). When an item goes the
  others take as position the number of items before them, which is again each
  position once (`RanksDiffer`, `PositionsFill`). Names, order and deletion are refused as
  soon as there is a template (`PaperStays`). A job past the selection has a zone
  (`JobsArePlaced`); everything else a batch says is compared under the locks at the
  commit. Batches are numbered from 1 without a gap (`BatchesAreNumbered`), so that a new
  one is new, and is therefore seen by `BatchIsCurrent`.
* *Desktop shell.* A backend that lives is the child the shell holds or was left by a
  crash (`ChildrenHeld`). A quit that sees an exit in the mail may end without a kill,
  because that exit is of the child, which is dead (`MailOfTheChild`). The port belongs to
  the process that said ready (`PortOfTheReady`), hence to the child and not to an orphan.
  As long as no backend ended inside its start, the only process in the seed is the child,
  and the demo data is what it has written so far, or all of one process (`SeedKept`).

Only model-checked:

* liveness under fairness (`WorkEnds`, `SheetsSettle`, `EvidenceSettles`,
  `ActionsEnd`, `FilesSettle`, `QueueCatchesUp`, `ShellSettles`) and whatever needs
  ENABLED: out of the prover's reach.

Neither proved nor checked: that `Levenshtein` is the least number of edits. The
properties need no more of it than that it is a number.

## 6. What is not modelled

* Image processing, OCR and the neural models (numeric work; the models take any
  outcome of them), local scanning, the external OMR service.
* Authentication, zones and operator accounts; the log, thresholds, health and other
  one-row settings; printing, TG8 documents and reports; read-only APIs; pages of
  administration.
* Of the legacy sync only its statements' effect on `is_active` and on where a prisoner
  is; its run record and flag are not.
* The geometry of templates and forms, demo records made from the form page.
* Transactions under SQLite: the desktop build drops row locks and shares one
  connection, so the interleavings of its requests are not those of the models.
* The kiosk's rate limit (a call that fails), the storage watermark of the manager (a
  download that is tried again), the single-instance lock of the shell.
* The decoding of JSON forms and catalogues; wording and layout.

## 7. Plan

Every invariant and action property of the runs is proved. What could follow, in order
of importance:

1. Refinements: the one-step `Receive` of `ScannerQueue` as a step of `CallbackInbox`;
   `ScannerReview!Accepts` as the guard of the confirmation in `ScannerWebhook`.
2. Models: the run record of the legacy sync.
3. Pure algorithms against reference definitions: limits, normalisation of zones and
   cells, matching of identities.
