# SlipScan in TLA+

A verification development kept beside the SlipScan sources: TLA+ modules for
the parts of the program where several processes, several transactions, stale
reads or crashes meet, TLC configurations that check them on small instances,
and proofs (TLAPS) of what should hold on every instance. Paths below are
relative to `src/`; `service.rs`, `db.rs`, `pay.rs`, `slip.rs`, `vat.rs`,
`repo/...`, `datadir.rs`, `sync/...`, `device/...` and the migrations are under
`crates/slipscan-core/src/`, `email/...` under
`crates/slipscan-ingest/src/`, `install.rs`, `trust.rs` and `plan.rs` under
`crates/slipscan-packs/src/`, `ops.rs` under `crates/slipscan-server/src/`,
`extractor.rs` under `crates/slipscan-cli/src/`.

To check: `tlc -config <file>.cfg <module>.tla`. `Ledger_*.cfg` belong to
`MCLedger`, `Sales_*.cfg` to `MCSales`, `Pay_*.cfg` to `MCPay`, `Office*.cfg`
and `Household.cfg` to `MCOffice`, `Devices*.cfg` to `MCDevices`. To prove:
`tlapm <module>.tla` for each of the eight modules named `...Proofs`.

## 1. The system

SlipScan keeps a household's or a small company's books in one SQLite file:
documents and bank lines come in, are read, matched and categorised, become
journals of a double-entry ledger; quotes, orders, invoices, purchases, stock
and assets feed the same ledger; watched payments fire webhooks. Around the
file there are a movable data folder, a mailbox polled for documents, a signed
log of the writes, and the identity of the device with the peers it trusts.

### How it runs

* All logic is in `CoreService` (`service.rs`), which owns one SQLite
  connection. A process holds it behind a mutex
  (`crates/slipscan-server/src/lib.rs:173`), so inside a process operations are
  serial.
* **Several processes share a database file**: the desktop application, the
  server, `slipscan` commands. `db.rs` opens it in WAL mode with a busy timeout,
  and `service.rs:299-312` names this as a supported deployment.
* An operation has a fixed shape: it reads what it needs with plain statements,
  checks it, opens a DEFERRED transaction, writes (often a *whole row* as it was
  read), appends an audit row, commits. What was read before the transaction can
  be stale when it commits. What is read *inside* it is either current at the
  commit or, if another process committed after that read, the first write fails
  with `SQLITE_BUSY` (`service.rs:4293-4310`): so a transaction is atomic, and
  only the reads before it can be stale.
* Nothing is sent between processes. They interact through the file, the OS
  keychain, the data-folder pointer, and what receivers, mail providers and
  peers answer.

This is the same in every module: an operation is an action that reads
(`GetBook`, `PoGet`, `MemberCalls`, ...; `Read` of `Connections`) and an action
that is its transaction; between the two other processes may do anything, and
`Abandon` is a refusal, a `SQLITE_BUSY` or the death of the process.

### Components

| Component | State | Operations | What is hard | What makes it correct |
|---|---|---|---|---|
| General ledger (`service.rs`, `repo/ledger.rs`, `repo/close.rs`, `repo/book.rs`) | journals with lines, chart of accounts, lock date, audit log | post, reverse, create and archive accounts, close, reopen, set the lock date | lock date read before the transaction; chains of reversals of any length | debits = credits per currency; one reversal per journal; one live journal per source; closed stays closed; the audit log replays to the book |
| Sales (`repo/sales.rs`) | quotes, orders, their lines, stock movements, invoices, payments | edit, send, accept, confirm, cancel, invoice, pay | whole rows written back; stock, journals and status in one transaction; people reversing generated journals | stock and ledger follow the order's status; revenue once; a quote becomes one order |
| Payment watches (`pay.rs`, `repo/pay.rs`, the server's loop) | watches, endpoints, secrets, delivery queue | add, enable, remove; detect at import; dispatch | network calls between read and write, several dispatchers, crashes, retries, two-transaction vault operations | every delivery is in the end settled, for a reason; nothing removed comes back |
| Purchasing and stock (`repo/purchasing.rs`) | purchase orders, lines, receipts, movements | order, edit, receive, transfer, delete | whole rows written back, receipts against orders others edit or delete | goods, receipts and the inventory account agree; receipts keep their order |
| Recurring schedules (`recurrence.rs`, `repo/recurring.rs`) | schedules, template lines, runs | create, edit, pause, skip, run what is due | a row held across many transactions, several runners | each occurrence once; none passed over; a run ends |
| Reconciliation (`repo/recon.rs`) | matches of bank lines with slips and journals | suggest, confirm, reject | everything read before the transaction | one active match per line and per counterpart; rejected stays rejected |
| Fixed assets (`repo/assets.rs`) | assets, depreciation runs | register, edit, dispose, run | floors; runs taken back; terms restated | periods in order, adding up to cost less residual |
| Members (`repo/member.rs`) | members, splits, attributions, capabilities | add, edit, remove with reassignment, revoke, grant, attribute, split | guards before the transaction, foreign keys inside it | splits without rest; no history lost |
| Packs (`install.rs`, `trust.rs`, `plan.rs`, `ops.rs`) | installs, pins, trusted signers, category maps, merchant mappings | preflight, install, adopt, upgrade, remove, trust, revoke | gates that read and write one by one; three sources of one mapping | corrections win; nothing seeded survives its pack; the preflight tells the truth |
| Net worth (`repo/networth.rs`) | snapshots nothing may change | capture, backfill, series | transactions booked for past days; two ways of counting | the series is the ledger's balance, day by day |
| Documents (`repo/document.rs`, `slip.rs`, `vat.rs`, `extractor.rs`) | documents, extractions, generated journals | import, transition, record, run extraction, generate | a run that waits for a provider; VAT rounding | one document per content; reviewed stands; a journal says what its paper says |
| Data folder (`datadir.rs`) | pointer, locks, move journal, files | resolve, copy, check, commit, clean up | crash after any file operation; a second process | at any moment the pointer names a complete database; a move can be resumed |
| Mail (`email/`) | cursors, documents, files, acknowledgements | list, fetch, import, acknowledge | rounds that die; three kinds of cursor; mail that vanishes | nothing readable skipped; everything readable gets through |
| Operation log (`sync/`, `crates/slipscan-sync`) | captures, sealed operations, hybrid clock | capture by trigger, coalesce, seal | writes while sealing, two sealers, a clock set back | replaying the log gives the tables |
| Device identity and pairing (`device/`) | vault entry, identity row, rotations, invites, peers | initialise, rotate, reset, invite, accept, confirm, revoke | three commits for one change; blobs repeated, lost or misdirected | identity and key belong together; both sides chose each other |
| Vault (`secrets/`) | sealed secrets | store, replace, revoke | a transaction of its own beside its users' | no user of a secret without it |
| Budgets, FX client, extraction providers, HTTP routes, command line, desktop shell | none, rows, or caches | rows and I/O | timeouts | see section 6 |

`PROJECT.json` lists each with its sources and status, and under `hazards`
everything found that tests hardly reach, at its line, with the properties that
watch it.

## 2. The modules

| Module | Models |
|---|---|
| `Sums` | the total of a function's values: the `SUM` of queries, the `iter().sum()` of services |
| `Journal` (EXTENDS `Sums`, as do `Purchasing`, `Assets`, `Members`, `NetWorth`) | lines, the checks on them, reversal, the parity walk of `is_net_reversed` |
| `Ledger` (EXTENDS `Journal`) | the ledger of one book used by several connections |
| `Book` | abstract: a list of balanced entries, each cancelled at most once |
| `Sales` (EXTENDS `Journal`) | quotes, orders, invoices, payments, stock, the journals they post |
| `Pay` | watches, endpoints, webhook queue, dispatchers |
| `Connections` | processes on one database: reading, holding what was read, the transaction, the mutex of a process |
| `Recurrence` | the dates of a schedule's occurrences |
| `Recurring` | schedules, runs, `recurring_run_due` |
| `Purchasing` | purchase orders, receipts, stock moved by hand, inventory journals |
| `Recon` | suggestions, confirmations, rejections |
| `Assets` | the asset register and depreciation |
| `Members` | people, splits, attributions, capabilities |
| `Packs` | installs gate by gate, legacy index, trust, mappings |
| `NetWorth` | snapshots, backfill, the series |
| `Papers` | documents, extraction runs, VAT of a slip, generated journals |
| `MCOffice` | composes the eight above on one pair of connections |
| `DataDir` | the move of the data folder, with crashes and other processes |
| `MovableBooks` | abstract: one book, somewhere, added to and moved in one step |
| `Mailbox` | mail rounds of the IMAP, Gmail and Graph connectors |
| `Oplog` | capture, sealing, the hybrid clock, replay |
| `Pairing` | identity of a device, and two devices pairing |
| `MCDevices` | composes `DataDir`, `Mailbox`, `Oplog` and `Pairing` |
| `MCLedger`, `MCSales`, `MCPay` | instances for TLC |
| `SumsProofs` | lemmas: the laws of totals |
| `JournalProofs` | lemmas: what lists of lines move, what journals net to |
| `LedgerProofs`, `SalesProofs`, `PayProofs` | theorems about the module of that name |
| `OfficeProofs` | theorems about `Recurrence`, `Recurring`, `Purchasing`, `Recon`, `Assets`, and the four in `MCOffice` |
| `HouseholdProofs` | theorems about `Members`, `Packs`, `NetWorth`, `Papers`, and the four in `MCOffice` |
| `DevicesProofs` | theorems about `DataDir`, `Mailbox`, `Oplog`, `Pairing` |

Every definition that translates code is in `PROJECT.json` under `map` with its
lines. Definitions commented *Mutation of ...* or *As if ...* are deliberately
wrong variants, each the plausible bug that some property must detect; no action
uses them.

### Ledger

State: `journals` (a sequence; a journal's id is its position, as rows are never
updated or deleted), `coa` (absent, open, archived), `lock` (0 for none),
`audit`, and per connection `seen`, what it read before its transaction.
`GetBook` takes those reads — the lock date, the dates at which the trial
balance balances (what `build_close_report` looks at), how many journals exist;
`JournalPost`, `JournalReverse`, `CoaCreate`, `CoaArchive`, `ClosePeriod`,
`ReopenPeriod` and `BookSetLockDate` are the transactions. `PostJournal` is
`post_journal_in_tx`: the lock it tests is the one the connection read; the line
checks, the source guard and the accounts are read inside, so they are current.

Abstractions: amounts are small integers with `MAX_LINE_AMOUNT_MINOR` scaled to
2 (the sum of 64-bit amounts cannot overflow under that bound, which is what it
is for); dates are 1..`MaxDate`; a source is one value for the pair
(type, id); memos and names are left out. `coa_seed` and `coa_map_set` are
outside: the chart starts seeded.

### Sales

State: quotes with the order they became, their lines, orders (status and
whether a location is set), their lines, the sum of each order's stock
movements, invoices with payments, journals, which of the five accounts that
trade posts to the chart holds, whether the orders' period is closed, and `seen`. A line is a quantity per row
id; a row id stands for one item, `Goods` for those with a stock-tracked
variant. Every transaction writes the row it read with its own columns changed,
as the SQL does. Journals go through the guards of `post_journal_in_tx`
(period, source, lines), and a failing journal rolls the whole operation back,
which here is the action not being enabled. Each leg of a sale looks up its own
two accounts (`service.rs:7197-7199`), and so do invoices and payments: `Entries`
leaves out the journal whose accounts are not both in `chart`, or whose amount is
zero, and the operation goes on with the others. `CoaSeed` adds what the book's kind
is given, `CoaCreate` one account by hand, between any two operations.

### Pay

State: endpoints, the secrets the vault holds, watches, imported lines, and the
table of deliveries by (endpoint, watch, line); per dispatcher, the rows it
listed and not yet handled (`todo`) and the POST made and not yet recorded
(`posted`). `TransactionCreate` imports a line and queues what it fires, in one
transaction. `StartPass` lists what is due; `Post` signs and sends one;
`Record` writes its outcome — computed from the row **as listed** — over the
whole row, or over nothing if it is gone; `PassDies` forgets the rest of the
pass. Adding and removing an endpoint are two transactions each (the vault's and
the table's), with `EndpointCutShort` for a death in between.
`BackoffElapses` is the clock reaching `next_attempt_at`.
`answers` and `tries` record what happened, for the properties; no guard reads
them. `stranded` marks an endpoint whose add or remove was cut short; its id is
a fresh random one in the code, hence never used again.

Abstractions: an answer is `ok` (2xx), `rejected` (4xx) or `error` (everything
else: other statuses, no connection, time-out, unsigned); the text matching that
finds a code in a line is the constant `Carries`; time is only whether the
backoff has passed; payloads and signatures are left out. A watch code's
`Carries` is fixed, so re-adding a removed watch is a new id.

### The office: Recurring, Purchasing, Recon, Assets

They share `Connections`: `team` is the set of processes that have the database
open, chosen once per behaviour, and `seen[c]` is what the call of process `c`
has read. With one process (`Alone`) a call runs to its end before the next
begins, which is the mutex of `AppState`; with two the calls interleave.

`Recurring` keeps the schedules' rows, how many template lines each has, the
runs (`reached`) and how many invoices or transactions each occurrence produced
(`issued`). Every edit is `GetSchedule` and then a write of the whole row as it
was read. `ListDue` begins `recurring_run_due`; then, schedule by schedule,
`RunOccurrence` processes one occurrence in a transaction (`run_exists`, what it
produces, the run row, the advanced schedule), `Reread` reads the row again,
`RunFails` takes a failing schedule off the list, `CaughtUp` and `RunReturns`
end it. Occurrence *n* is always computed from the start date (`OccurrenceDate`
of `Recurrence`, month ends clamped), and *past the end* is tested after the
step, as the code does. What an occurrence produces is abstracted to that it
does; `Close` stands for the locks and archived contacts that make it fail.

`Purchasing` keeps orders and lines as rows, receipts and movements as sums per
line and place, what receipts' journals added to inventory, and whether a line
was repriced after it was received (the code values a later receipt at the line's
price then). `PoReceive` checks the order and its line as they were read; the
insert's foreign keys, the stock movement and the lookup of the two accounts are
inside. A receipt whose accounts are not both in `coa` posts nothing, then or later
(`JournalOf`); `unposted` counts what such receipts say arrived. The accounts
come by `CoaSeed` or `CoaCreate` at any time, also between two receipts of a line. `MayGo` is the foreign
key of receipts, without which deletions would go further. Suppliers, tax
tables and wording are left out.

`Recon` keeps the matches in order and the counterparts there are. `ReconRead`
takes all of what `recon_suggest` reads before its transaction; `Chosen` allows
any best choice of pairs among `Fits` (scores are abstracted), and `LinesFree` is
the unique index. `ReconSetState` writes the state whatever it has become.

`Assets` keeps the register and the runs with whether each one's journal is
net-live. `DepreciationAmount` and `Target` are the code's arithmetic on minor
units and basis points. `AssetDispose` reverses the live runs past the disposal;
`JournalReversed` is a person reversing one by hand.

### The household: Members, Packs, NetWorth, Papers

`Members` keeps rows, the attribution of each transaction, its shares, and
capabilities. `...Read` actions hold the guards that the code evaluates before
its transaction, the others the statement and what SQLite enforces in it: the
partial unique index on active labels, and foreign keys, which drop the
capabilities of a deleted member, clear the attributions left and refuse while a
share is theirs. `Reassigned` folds a share onto one the target holds already.
`DefaultOwner` is the first member whose account the transaction is on.

`Packs` has an action per gate of an install — `AdoptFirst`, `PinGate`,
`SignerGate`, `TrustGate`, `Install` — because each reads or writes on its own;
only `Install` is a transaction (pin, version, categories, rules, seeded
mappings). `Plan` is the preflight, recorded when an attempt begins. `List` and
`AdoptFirst` adopt the packs of the legacy index that are not installed.
`mappings` is what the book thinks of each merchant and `chosen` the user's last
correction, kept for the properties. A rule is a merchant, a category and whether
it is exact; which of several rules of a tier wins is open. Signatures are
verified before anything here; sources, bundles, benchmarks and mail rules are
left out.

`NetWorth` keeps per account and day the sum of that day's transactions, and the
snapshots. `Capture` takes `Balance`, as `balance_as_of` sums it; `Backfill`
takes `WalkedBack`, from today's total over later days' movements. Accounts are
listed before the transaction; one deleted since fails a capture by its foreign
key. `outdated` and `filled` are for the property.

`Papers` keeps each document's status and current extraction and the net-live
journal generated for a document or a bank transaction. The extraction run is
`BeginRun`, then `RunTakes` per document, `Transition`, `ProviderAnswers` or
`ProviderFails`, and `EndRun`; any refusal ends the whole run, as its `?` does.
`VatGroups`, `DocumentLines` and `TransactionLines` are the arithmetic of
`slip.rs` and of the two generators, with `VatWithin` rounding half away from
zero as `vat.rs` does. A slip is total, stated VAT, breakdown and items.

### DataDir

State: the folder the pointer names; per folder the database, the partial copy
and that copy's write-ahead log; the move journal; who holds SQLite's exclusive
lock; how far each move is; what each other process has resolved and opened.
A move is one action per file operation, `Resolve` to `Finish`, in the order of
`prepare_copy`, `begin_commit` and `commit_move`; `Crash` may come after each,
for a death of the process or for an error (which, unlike a death, closes the
copy). The other processes `Start` (read the pointer once), `Open` (which waits
for a lock and creates what is missing), `Commit` and `Leave`.

Abstractions: the content of a database is the set of changes committed to it;
an attempt at a move adds one, its audit row, so that equal content is equal
checksum. A log left beside a file is replayed over it when it is opened: its
changes are there, and any of the others may be hidden (`Opened`), noticed by
the integrity check or not (`CopyIsBroken`, `OpenCopy`). The documents store,
paths inside the database and what a power loss makes of unsynced directories
are left out. `Opened` is the behaviour of SQLite, not of this code.

### Mailbox

Messages are numbered as they arrive; a message may not parse, be filtered by
the allowlist, be a bank alert, carry an attachment. A round (`round`, in memory)
goes `ListNew`, `FetchMessages`, then per message, oldest first,
`ImportDocument`, `WriteFile`, `ImportAlert`, `MarkProcessed`, and
`RoundReturns`; `RoundFails` may come anywhere. IMAP's cursor is the last message
acknowledged; Gmail's and Graph's is a position in the provider's history,
stored when everything of a listing was acknowledged, with `Baseline` before the
first listing and `Resync` when the provider has forgotten it. `missed` records
what a new baseline passed over.

### Oplog

State: the replicated rows, the outbox the triggers fill, the log, the persisted
clock, the system's clock, the device's key, and per process what it has listed
to seal. `Write` and `Delete` are a table's write with its trigger; `DrainList`
reads the outbox before the transaction; `Seal` coalesces by row, reads the rows
as they are by then, mints a stamp per operation with the bounded clock, appends
and clears the outbox up to the last entry listed; `SealFails` rolls back.
`SystemClock` sets the clock to anything, `KeyChanges` rotates the author.
Contents are the number of the write that made them; encodings and signatures
are left out.

### Pairing

Per device the vault's key, the identity row, the rotation log, peers and
invites; `accepted` are the acceptance blobs there are, which may be delivered
any number of times or never, and to any device. `Initialize`, `Rotate` and
`Reset` are one action per commit (`VaultSet`, `VaultReplace`, `RotationLogged`,
`WriteIdentity`, `ResetRows`), and `Dies` ends a call in between. `PairAccept`
pins and `PairAnswer` makes the blob; `PairConfirm` checks it and `PairBurn` is
its transaction. What a blob says is what was signed, and by which key.

## 3. The runs

| Run | Instance | Shows |
|---|---|---|
| `ledger_race` | 2 connections, 3 accounts (one fixed to ZAR, one not yet created), 2 currencies, 2 dates, 3 journals, 3 commits | books balance at every date; reversals form chains; nothing lands on an archived account; the audit log replays to the book; `Ledger` implements `Book` |
| `ledger_single` | 1 connection, 4 journals, 5 commits | parity of the chain = net effect on every account; one unreversed journal per source; closed stays closed |
| `sales_one` | 1 connection, goods and labour, 1 quote, 2 orders, 1 invoice, 4 journals | stock and ledger follow the orders, whichever legs the chart of the day can hold; revenue once per sale; a quote becomes one order, even when that order is deleted |
| `sales_cancel` | 1 connection, 1 order, 6 journals | **violated**: what is live of a confirmed order can be reversed |
| `pay_fair` | 3 dispatchers, 1 endpoint, 1 watch, 1 line, 3 attempts, 1 restart of the loop | settled for a reason; secrets follow endpoints; every delivery is in the end settled |
| `pay_done` | 2 dispatchers, same | **violated**: delivered stays delivered |
| `office` | 1 and 2 processes; 2 schedules with 3 occurrences; 1 order of 2 lines, 2 places, a chart that grows; 2 bank lines and 2 counterparts, 3 matches; 1 asset of two kinds, 4 months | `OncePerOccurrence`, `NothingIsPassedOver`, `RunEnds`; `InventoryMeetsGoods`, `ReceiptsKeepTheirOrder`; `MatchedOnce`; `WrittenDownInOrder` |
| `household` | 1 and 2 processes; 2 members, 1 transaction; 2 packs in 2 versions, 1 merchant, a publisher's key and the seed key; 1 account, 3 days, 2 bookings; 1 document or bank line at a time, 22 slips, 3 VAT rates | `SplitsCoverTheirTransaction`, `HistoryIsKept`; `MappingsHaveTheirReason`, `PlanTellsTheInstall`; `SeriesTellsTheLedger`; `VouchersSayWhatPapersSay`, `ReviewStands` |
| `asset_stuck` | 1 process, 1 asset of 6 months at 30 % | **violated**: a period before the end of the asset's life can be run |
| `devices` | 1 mover, 1 user, 2 folders, 4 attempts, 2 crashes; 4 messages, 3 kinds of mailbox, 2 failures; 2 rows, 3 writes, 2 sealers, 2 keys; 2 devices, 3 programs, 1 invite, 1 death | `PointerNamesBooks`, `TheirBooksUntouched`, `MovesAreResumed`, `DataDir` implements `MovableBooks`; `CursorPassesNothing`, `MailGetsThrough`; `ReplayGivesTheTables`; `PairingIsMutual`, `IdentityIsWhole` |
| `datadir_log` | the folder alone, 3 attempts, 1 crash | **violated**: what the pointer names loses nothing, moves included |
| `mail_crash` | the mailbox alone | **violated**: acknowledged mail has its file stored |

`office` and `household` also check one type invariant each, of all the modules
they compose; those of the other modules are theorems only. In `office`,
`household` and `devices` a behaviour is about one subject (`focus`): the subjects
share no table, so interleaving them would multiply states and add no behaviour.

Why the bounds are enough. A race in the ledger needs two connections, each
with one stale read, and a commit of the other in between: three commits are the
close, the posting and one that prepares them. Parity needs a chain of three
reversals on one journal, so four journals; re-posting a source needs
post, reverse, post, reverse. The drafts contain one list for each check of the
posting path: balanced and not, per currency or only in total, wrong currency
for a fixed account, one line, negative, above the bound, naming an account that
does not exist yet. Sales operations touch one order, and a quote needs a second
to be sold twice. A shop starts with two accounts made by hand that complete neither
leg (`Begun`); seeding completes the revenue leg, an account by hand the cost leg
(`Charts`), so one order lives through no leg, either one, and both; a second order
or a quote comes once the chart is complete. Each delivery is a row of its own, and deliveries only meet in
a dispatcher's list, where an item can wait arbitrarily long; one delivery with
three dispatchers therefore has all the interleavings of stale rows. Three
attempts distinguish the first, a middle and the last.

In the office, one schedule is monthly from 31 January 2024, so its second
occurrence is clamped to a leap day and its third must not be, with an end by
date or by count; the other comes every four weeks from 26 February over the same
days. A line of a purchase order is received up to twice and corrected, before,
between and after the seeding that brings payables and the account made by hand that
brings inventory, while a second line comes and goes once both are there; with two
processes they are there first, as each receipt looks them up inside its transaction. Two bank lines and two counterparts that all fit
give every clash of a pair with a pair. The assets are a straight line of
9 over 4 periods and a reducing balance of 50 % of 10, so floors, the last
period's remainder and the residual all occur. Two members hold shares of one
transaction, so a removal folds; an amount of two minor units splits one and
one, or whole. Pack `local` exists in two versions with another category and
another exact rule, and shares a category with the pack in the binary. Three days
allow a movement before, between and after snapshots; two bookings make one of
them late. The slips hold a discount among groups, items whose rounding drifts
from the stated VAT by a cent, mixed and missing rates; the rates 0, 50 % and
100 % round and do not. `OfficeBounds` names what is left to one process only,
where two would multiply states: assets, the second schedule, closed periods,
the second line, movements by hand, the legacy index, slips with items, editing
and revoking members. `PapersInUse` keeps to one document or bank line, as a
journal concerns one.

A move of the data folder and its re-run need two attempts and a crash between;
four attempts and two crashes allow a move there and back, each interrupted
once, over files the other left. Books of other people appear at a folder only
while no move is running, and one process moves the folder: the desktop is the
only surface that offers it. The four messages are one with a slip, one that does not parse, an alert and
an advertisement, the last two with the slip's content again; two failures are
a death and a re-run's, or a death and a message that vanishes. In the log a row
is written and deleted around a seal of another process, under a clock that goes
back; `LogBounds` lets two processes seal under the first key only. In pairing
`PairingBounds` gives a second key to one of the two devices, and starts the
second program of the laptop once there is an answer to be confirmed twice.

`CHECK_DEADLOCK FALSE` in the Pay, Office, Household and Devices
configurations: when everything a bound allows has come and gone, nothing is left to do,
as in a program nobody calls.

### Fairness

Four properties need any.

`EventuallySettled`: weak fairness of the server loop's `StartPass`, `Post` and
`Record` and of `BackoffElapses`: `pay_delivery_loop` runs a pass every
`PAY_DELIVERY_INTERVAL` and goes on after one that failed
(`crates/slipscan-server/src/lib.rs:148-170`), the transport has time-outs so a
POST ends, and clocks advance. It assumes no panic inside a service call, which
would poison the mutex and end all later passes. The other dispatchers get no
fairness: they may stop at any point and hold a stale row for ever. The server's
own passes may die `MaxRestarts` times; a loop that always dies settles nothing.
Why it holds: the smallest attempt count among the row and all stale copies of
it never decreases, and each recorded attempt is one more than the copy it came
from. A stale write can take the row back, but each stale copy is written at
most once, so the server's own attempts prevail.

`RunEnds`: weak fairness of each process' `RunStep`, the next step of a
`recurring_run_due` under way: a process that runs goes on. Others may edit,
skip, pause and run the same schedules throughout.

`MovesAreResumed`: weak fairness of each step of a move and of `Resolve`: a move
that does not die goes on (its steps are local file operations, and a busy
source is refused, not waited for), and one that died or was refused is asked
for again, which is up to the user. The property itself assumes that the other
processes are in the end closed; they have no fairness.

`MailGetsThrough`: weak fairness of asking for a listing, of the first baseline,
and of the steps of a round: mail is polled again and again, and a round that does not fail
goes on. Failures are bounded by `MaxFailures`; the provider promises nothing.

## 4. What is proved

By TLAPS, for all values of the constants that satisfy the named assumptions of
the modules (each TLC run evaluates them for its own values). *One process* is a
hypothesis where it is named: `team` with one member, or `SoleConnection`,
`SoleMover`. It is how the runs check the property as well, and section 5 says what
goes wrong with two. Everything else holds for any number of processes.

**Totals** (`SumsProofs`). A total is a fold over a finite set in an order of its
own, and everything to do with money and stock rests on it. What it computes is
proved without induction over a formula: among the finite sets for which a claim
fails there would be one with no smaller one in it (`LeastSubset`, from the
well-foundedness of strict inclusion). So the fold exists, its order is immaterial,
and totals split, add, swap and grow as sums do (`TotalSplit`, `TotalAdd`,
`TotalSwap`, `TotalMono`, ...).

**Ledger** (`LedgerProofs`).
`LedgerTypeOK` and `ReversalChains` are inductive with the lemma that a step
appends at most one journal (`JournalsGrow`) and that a journal's lines are
what `WellFormed` accepted; `ReversalOfWellFormed` says flipping keeps that, so
only lock date and accounts can refuse a reversal. `OneUnreversedPerSource`
rests on `NetReversedIsReversed`: the guard demands that every journal of the
source is net-reversed, hence reversed, whatever the parity walk computes beyond
that. `OneProcessKeepsPeriodsClosed` assumes a single connection and uses
`SoleInv`: what that connection has read is still so, and the lock is at least
as late as any close after which only postings and closes followed. Without the
assumption the statement is false (section 5).

`BooksBalance`: every journal's net over all accounts is zero, hence so is that of
any set of them, and a trial balance is the net of such a set. `ArchivedStaysQuiet`
and `AuditReplays` hold for any interleaving, as accounts are read inside the
transaction and an audit row is appended with what it records: posting rows give
the journals, the last lock row the lock date, and the last create or archive row of
an account its state, the seeded chart where there is none (`ChartReplayed`).
`ReversalParity`:
the walk of `is_net_reversed` and the net effect of a chain both lead from a journal
to its reversal, which is later, so both are settled from the last journal down
(`FromTheLast`). `LedgerImplementsBook` is the refinement: a step of the ledger
appends one balanced entry to the abstract book or leaves it alone.

**Sales** (`SalesProofs`), for one connection. `QuotesBecomeOneOrder` and
`StockIsOutWhileSold` use `ShopInv`: what the connection read of an order or a
quote is what is there, and an accepted quote became one order. `LedgerAgreesWithOrders`
and `RevenueIsOncePerSale` also assume that people reverse by hand no journal but
the revenue of orders (`OnlyRevenueByHand`), the instance of `sales_one`; other reversals
break them, as `sales_cancel` shows. `LedgerInv` says of each journal what it says of its
order, invoice or payment, and whether it is reversed. It is stated of any list of
journals, so that a transaction that posts two is two steps of the argument; each
posts or not by its own accounts (`PostsOnly`), and no more is said of one that did
not than that nothing of its source is there.

**Pay** (`PayProofs`).
`PayTypeOK` is not inductive alone: that no row counts more than `MaxAttempts`
needs that no *stale* row in a pass does either, and that each counts fewer
attempts than were made. That is `Counted`, and `QueueInv` is both.
`SettledMeansAnswered` follows from it, since `Record` writes an answer that
was given to a row with one attempt more. `SecretsFollow` needs
`HalfDone`: where an endpoint stands between the two transactions of its add or
remove. `RemovedStaysRemoved` (`QueueHasItsParents`: an outcome recorded late
never brings a delivery back) is inductive given types: only detection makes
rows. `OneDispatcherIsDone` assumes the server's loop is the only dispatcher and
proves with `NothingStale` — the table holds each listed row as it was listed,
or not at all — what `pay_done` refutes for two.

**Recurring** (`OfficeProofs`). `OccurrencesOnce`: an occurrence is generated
at most once, and never after it was skipped, however many processes hold
whatever old rows. `OnceInv` says little of the rows — they count in natural
numbers — because the counter of a stale row may be anything lower; what decides
is that `issued` and `reached` agree, and that a transaction which finds a run
produces nothing. `OccurrencesInTurn`, for one process: `PassInv` adds that the runs
of a schedule are those before the occurrence its row calls next, and that a run
over what is due still holds the rows as they are.

**Purchasing** (`OfficeProofs`). `ReceiptsNeverLoseTheirOrder`. `ReceiptInv`
adds that a line's order is there, for lines never received too, and that the row
a call holds can be written back without bringing an order back from the dead.
The deletes keep it by the foreign keys (`MayGo`), the whole-row writes because
`UPDATE` finds nothing to write over once the order is gone.
`GoodsAreWorthTheirPrice`, for any number of processes: `GoodsInv` says place by
place that receipts moved what they received, that transfers move nothing on the
whole, and that a line never received may get any price while one that was left
its price for every unit that came with both accounts there (`PaidFor`) or is marked
as repriced. The chart may change at any step: what a receipt finds of it decides
whether its goods count in `inventory` or in `unposted`.

**Recon** (`OfficeProofs`). `ActiveMatchesAreUnique`. For any number of processes a
line has one active match by the index; for one process `ReconInv` adds that what
its call read is still so, whence one match per counterpart and no pair twice.

**Assets** (`OfficeProofs`). `AssetsAreWrittenDown`, for one process and an asset
none of whose runs was reversed by hand: `AssetInv` keeps a number *n* for each
asset with which its runs are `Ordered`: the *i*-th is of period *i*, live exactly
if *i* ≤ *n*, and the first few of them, however many, wrote
off no more than cost less residual, those of a whole life exactly that (`Written`). A disposal
lowers *n*; the floors of the two methods matter only in that no period writes off
more than is left.

**Members** (`HouseholdProofs`). `RemovalKeepsHistory`: one process that removes a
member loses no history. `MemberInv`: who may do anything is a principal, since
the first grant made them one, and what a removal or a grant read of a member is
still so when it writes. With several processes it is false: a removal that found
nothing to move clears what another process attributes in between.
`SplitsAreWhole` holds for any number of them: a reassignment folds the share of the one who
leaves into that of the one who takes over, which keeps the total
(`ReassignedTotal`), and a split is validated before its transaction against an
amount nothing changes.

**Packs** (`HouseholdProofs`). `MappingsAreAnsweredFor`, for any number of processes:
`PackInv` adds that a pack owns every category the installed version of its file
declares, so that what a rule of an installed pack proposes has an owner; that a
file's rules name only its own categories is `PacksAssumption` (`validate` in
`crates/slipscan-packs/src/model.rs` refuses any other). `PreflightIsTrue`, for one
process: what the preflight said of a call under way is what it would say now
(`CallInSight`); accepting a signer changes no answer, as the only refusal trust
makes by itself is of the seed key, which cannot be accepted.

**Net worth** (`HouseholdProofs`). `SeriesIsTrue`. `WorthInv`: a snapshot no later
booking made wrong is the balance of its day, and after a backfill every day that
moved has one. The two ways of counting agree because movements up to a day and
movements after it are all movements (`WalkIsBalance`).

**Papers** (`HouseholdProofs`). `ReviewedDocumentsStand`, for one process: `PaperInv`
is that what a call under way found of its document is still so, and no move leads
away from *reviewed*. `VouchersSay` and `PapersTyped`, for any number of processes: the
journal generated for a paper moves the bank, the expense and the VAT as the slip, or the
bank line, says, with roles of the right side. `VoucherInv` says it of the lines a call has worked out and not yet posted
as well (`CallHolds`), since slips never change and only one journal of a source is
live. The lines themselves are an argument about totals, with three laws of
`SumsProofs`: a sum may be taken group by group (`TotalGrouped`: items by VAT rate),
in any order (`TotalRenamed`: groups sorted) and with zeros left out (`TotalPadded`: lines
of nothing are not written). What rounding and discounts leave of the total goes into one
line, so that nothing rests on how `VatWithin` rounds.

**DataDir** (`DevicesProofs`), for one mover. `PointerFindsBooks`, `OthersBooksStay` and
`FoldersTyped` share `FolderInv`, which says what a move has done so far still stands at
each of its steps (`MoveStands`: copy, checked content, the folder named, the pointer), that
the journal's checksum is of a database a move put its audit row into (`Marked`), and
that books somebody else put into a folder (`Foreign`) are where nobody works and no move
past its first checks leads. So an interrupted move's journal never matches them.

`FolderImplementsBooks`, also for one mover, is the refinement: to whoever follows the
pointer there is one book, which its users add to and which is now and then elsewhere,
with every change, in one step (`MovableBooks`). The swap of the pointer is that step; all
others are a commit to the book the pointer names, or a stutter, processes that still write
into a folder left behind among them. `BooksInv` adds to `FolderInv` that the books
stand still while a move holds their lock (`LockHolds`), so what was copied is still all there
is; that each attempt's mark is fresh; and that the log a dead attempt left beside
its copy bears a mark found nowhere else (`LogsApart`). If that log is replayed into a
later copy, the book shows the mark of the dead attempt beside its own: that is the one
way to lose changes, `Spoil` in the abstract book, and the one `datadir_log` exhibits.

**Mailbox** (`DevicesProofs`). `CursorsPassNothing`. `MailInv`: whatever a round
listed is waited for (`Waiting`), behind the cursor, or dealt with (`Passed`);
an IMAP cursor moves over the oldest message waited for, the others' when the
last one is acknowledged, so in both cases over nothing still waited for. `MailTyped`
is the module's type invariant.

**Oplog** (`DevicesProofs`). `LogReplays` and `OplogTyped`, for any number of sealers and any
settings of the system's clock. `LogInv`: what is on a list or in the outbox was noted by a
write of its own (`Noted`); a list reaches back, so clearing the outbox up to its last entry
clears nothing unsealed (`ListsReachBack`); the persisted clock is ahead of every
stamp, so the newest operation of a row is the one sealed last (`LogFollows`, `Settled`).

**Pairing** (`DevicesProofs`). `PairsAreMutual`, for any programs, blobs and deaths:
`PairInv` says that a key has one owner and one life, so that a key given up is never on
its way to being an identity again (`KeysOwned`), that whatever an acceptance answers was
pinned by who signed it (`AnswersPinned`), and that an invite that let something in is
closed (`LetIn`). `KeysTyped` is its part about types. `IdentitiesAreWhole` is proved with `WholeInv`:
what a program that is alone on its device finds in vault, identity row and rotation
log at each of its steps, unless a change was cut short.

**The compositions** (`OfficeProofs`, `HouseholdProofs`). `OfficeTyped` and `HouseholdTyped`:
`OfficeSpec` keeps the types of all parts. `OfficeInv` and `HouseholdInv` compose the
invariants above: those of the part in `focus` hold, as `seen` is then its own, and
the types of all, since the others stand still. Most of it is that rows are
*written back whole*, so the row a call holds must have the type of a row. For schedules
that includes that the date reached is a date of the calendar (`OccurrenceIsDate`,
`DueIsDate`): adding days walks from month to month by a recursive function, and that
this walk is there and ends within the calendar's months is, again, that there is no
least number for which it fails (`WalkIsThere`, `WalkStaysInCalendar`). `MaxLines` and
`MaxBookings` are numbers, purchase lines and places are finitely many: assumptions
added for these proofs, which say of the bounds and of tables what they are.

Only model-checked:

* the four liveness properties, `EventuallySettled`, `RunEnds`, `MovesAreResumed` and
  `MailGetsThrough`: liveness under fairness is outside what TLAPS proves;
* the five violations, which are of particular instances.

Every invariant and every action property that a passing run checks, and both
refinements, are theorems. What the provers cannot do, induction over a formula, is
replaced by the well-foundedness of a set: a least counterexample does not exist.


## 5. Where code and documentation disagree

### With a run

Five runs find a violation of what the documentation says; `findings` in
`PROJECT.json` quotes it.

1. `sales_cancel` — after a sale's journal was reversed and revived by hand the
   order cannot be cancelled: its journal is live, and was reversed already.
2. `pay_done` — two dispatchers: a delivered delivery is made `failed` by the
   other's stale outcome.
3. `datadir_log` — a move that dies while checking its copy leaves the copy's
   log; the next attempt opens a newer copy with it, and a commit made in
   between is lost when the pointer swaps. It is the only way: `MovableBooks` allows a
   move to lose changes only as `Spoil`, with the mark of the dead attempt in the book.
4. `mail_crash` — a round that dies between a document's row and its file leaves
   a row without a file; the next finds a duplicate, writes nothing, and
   acknowledges the mail.
5. `asset_stuck` — a reducing balance whose rate floors to zero writes no run,
   so the period after it is out of order for ever.

### With two processes

The following hold for one process, which is how the runs check them, and fail
for two, because a guard is evaluated before the transaction.

* `ClosedPeriodStaysClosed`: the lock date is read before a posting's
  transaction (`service.rs:5939`), and closed by another in between
  (`service.rs:6508-6510`).
* `StockFollowsOrders`, `QuoteBecomesOneOrder`: an order is confirmed that was
  deleted since, or cancelled twice (`service.rs:4098`, `4159-4161`,
  `3843-3844`); a quote is accepted twice (`service.rs:3631`).
* `NothingIsPassedOver`: a runner or an edit writes an older row back, and with
  it the counter and the next date (`service.rs:5643`). `OncePerOccurrence`
  still holds.
* `MatchedOnce`, for counterparts: two suggestions give one slip to two lines.
* `WrittenDownInOrder`: a period is run while another process disposes of the
  asset.
* `HistoryIsKept`: between the guards of `member_remove` and its transaction the
  member is granted a capability, and is deleted as a principal, which "remove
  is refused even with a reassignment target" says cannot be
  (`service.rs:1473-1507`); or is given a transaction, whose attribution is
  then cleared. The comment in `0006_members.sql:112-116`, that `member_remove`
  makes sure of it before the constraint is reached, is true of one process.
* `PlanTellsTheInstall`, `ReviewStands`: another install or revocation between
  preflight and attempt; a transition read before a review and written after.

### Read off the models

Seen while modelling; no run states them.

* Post, reverse, post again, reverse the reversal: the last one posts as Manual
  and skips the source guard, so two journals of one source are net-live, where
  `service.rs:6039-6042` says at most one. `OneUnreversedJournalPerSource` is
  what does hold.
* Bounds of a schedule narrowed to what was already generated: the next
  occurrence is generated once more before the end is noticed, as the test comes
  after the step (`service.rs:5568`; `0017_recurring.sql:144-148`).
* A journal of a depreciation run reversed by hand blocks its period, which has
  a row already; revived later, it takes the book value below the residual
  (`0016_assets.sql:22-27` names `journal_reverse` as the way to correct).
* Gmail and Graph keep an unreadable message among those pending, so a listing
  that contains one is never complete, the cursor stays, and the messages
  beside it are fetched and acknowledged again each round (`email/mod.rs:116`,
  `119-121`). `MailGetsThrough` therefore speaks of them only while all their
  mail can be read.
* Packs: a pack of the legacy index that is uninstalled is adopted again by
  the next call that looks (`ops.rs:436`, `443-447`), and while one is pending
  the preflight answers by tables that the attempt changes first
  (`plan.rs:154-155`). Removing a pack drops mappings another pack seeded into a
  category both declare (`install.rs:295`), and an upgrade that no longer has an
  exact rule leaves the mapping it seeded. `needs_signer_acceptance` is false for a
  signer that is pinned but revoked, which the attempt refuses (`plan.rs:101-103`,
  `110-111`). A signer accepted for an attempt that is then refused as a
  downgrade stays trusted.
* An extraction run that is killed between `processing` and its record leaves the
  document in `processing`, which no run lists and `document_transition` takes
  only to `failed`; two runs over one document end the whole second run; and
  nothing calls the `failed` to `pending` transition that `extractor.rs:5-7` calls
  retryable.
* Goods received before the book has both accounts are never posted, also not when
  the chart is completed later; a correction after that posts the full amount the
  other way (`service.rs:7136-7142`), so inventory goes below what was ever put in.
  A sale confirmed without its accounts has no such sequel, as cancelling reverses
  only the journals there are. `InventoryMeetsGoods` says what does hold.
* A one-cent item at a VAT rate of 100 % leaves a line of zero, which the posting
  path refuses: no journal can be generated.
* A snapshot made wrong by a later booking "is fixed by fixing the transaction"
  (`service.rs:636-637`), but no operation changes a transaction's amount or
  date.
* Two moves of the data folder at once: the second resolved the old folder before
  the first swapped the pointer, takes the journal for its own and removes books
  that are live by now (`datadir.rs:485`). The runs have one mover.

## 6. Not modelled

* Budgets: one row per month and category, no state machine.
* Foreign exchange: conversion is arithmetic, the client caches a row per day.
* Extraction providers: a chain of fallbacks with bounded retries around
  external models; `Papers` has what they answer.
* HTTP routing and authentication, the command line, the desktop application:
  each is one process of the models, calling the operations.
* Parsers, text matching, protocol clients, signatures, encryption, encodings,
  report rendering: data handling or I/O without state of their own.
* Migrations: they run once, before any of this. Key wrapping and versions of
  the vault: the modules see a secret that is there or not.
* Within modelled parts: `coa_map_set`, rotation of an endpoint's secret, number
  series, tax on lines of sales (with tax the revenue leg needs a third account,
  `service.rs:7314-7327`), archived accounts outside `Ledger` and closed periods
  in `Purchasing` (a journal that is refused takes its whole operation back, as
  in `Sales`), currencies of net worth, pack sources, benchmarks and mail rules,
  the folder watch and imports of files, the documents store that moves with the
  data folder, a second mover.

## 7. Plan

1. The properties of section 5 for two processes, restated with what does hold:
   `RemovalKeepsHistory` with the foreign keys alone, the occurrences passed over
   as those behind a row written back.
2. The vault: key versions and re-keying beside the rotation of an endpoint's
   secret.
3. The folder watch, beside `Mailbox`, and pack sources, beside `Packs`.
