# A verification of the transfer and payout path

This directory models the repository from the customer's sign-in to the payout:
how a customer gets an account, a quote and a transfer, how the web client pays
it, how the watchers and the customer report the deposit and how it funds the
transfer, how the payout is dispatched, gated by the sweep of the deposit, and
executed by the payout orchestrator, how the idempotency wrapper guards the
mutating endpoints, and how reconciliation looks at all of it. The modules are
checked by TLC on small instances, and the properties that matter most are
proved by TLAPS for every value of the constants. Paths below are relative to
`src/`.

## 1. The system

A customer creates a transfer and funds it with a stablecoin on Base or Solana;
when the deposit is confirmed, a local bank pays the recipient. The services
share one PostgreSQL database and call each other over HTTP.

| Part | State it keeps | Operations | Correct when |
|---|---|---|---|
| customer-auth (`services/customer-auth`) | users and sessions (of a library), `customer_account`, `customer_auth_link`, `sender_kyc_profile` | sign up, sign in, exchange a session for a token, sign out of one or all | one account per person; who has signed out stays out |
| web client (`apps/web`) | per tab: auth session and token, draft, payment id, last transaction | lock a quote, choose a recipient, create a transfer, pay it, ask for verification | what is ordered and paid is what is shown; no step is done twice by accident |
| core-api (`services/core-api`) | `transfers`, `onchain_funding_event`, `funding_submission_attempt`, `outbox_event` (written here), quotes, KYC, recipients, watcher checkpoints | quote, create a transfer, accept a customer's transaction hash, accept a watcher's report, manual payout retry, KYC webhooks | a deposit is credited once; a transfer is funded by one deposit within the limits; its event and settlement record are written with it |
| offshore-collector (`services/offshore-collector`) | deposit routes, its own idempotency records | create a transfer with its deposit address, verify a transaction on chain | one transfer per key; the amount and address it reports are those of the chain |
| payout-orchestrator (`services/payout-orchestrator`) | `payout_instruction`, `transfers.status` after funding, its own idempotency rows | `initiate`, `status-callback` | only funded transfers are paid; the status never runs ahead of the bank; repeated requests are answered alike |
| reconciliation-worker, dispatcher (`modules/outbox`) | `outbox_event.status`, `attempt_count` | claim, post, mark | every event is settled within its attempts; nothing is forgotten unpaid |
| reconciliation-worker, reconcile | reconciliation runs and issues | compare transfers, events and payouts | alarms are true; a run covers its scope; a completed run is shown whole |
| base-sweeper-worker | `settlement_record` | claim, broadcast, wait for the receipt, mark | `swept` means the funds are in treasury; every record is resolved |
| watchers (`workers/base-watcher`, `workers/solana-watcher`, Go) | cursor, seen events (through core-api) | poll, filter, publish | every deposit is reported at least once |
| `packages/http` idempotency | `idempotency_record` | reserve, run, store, replay | one owner, one response per key |
| exchange rate (`packages/adapters`) | a cached rate per process | ask the provider, serve the cache | a quote is made at a rate the provider had |
| admin-api, ops-cli, ledger-service, shared packages | none, none, in-memory entries, none | forward, print | out of scope, section 8 |

Interactions: rows written by one process and read by another (`outbox_event`
from core-api to the dispatcher, `settlement_record` from core-api to the
sweeper and from there to the dispatcher's query); HTTP calls (dispatcher and
core-api to the orchestrator, watchers and collector to core-api, orchestrator
to the bank); callbacks (bank to orchestrator).

What is hard here is that no lock spans two steps. A handler reads a status,
awaits, calls a partner and writes later; rows are guarded by unique constraints
and by the `where` clauses of updates, some of which name only an id; workers
take over each other's claims after a time limit without telling the previous
owner; an HTTP caller that gives up does not stop its callee; retries repeat
calls whose effect is unknown. `PROJECT.json` lists each place as a hazard with
the properties that would fail if it were handled wrongly.

## 2. The modules

| Module | Models | Extends / instantiates |
|---|---|---|
| `TransferStates` | `packages/domain/src/transfer.ts`: states and allowed transitions | |
| `Session` | customer-auth and the tabs of a browser | |
| `FxQuotes` | the exchange rate, its cache, and the forms that lock a quote | |
| `Draft` | one tab from the quote to the transfer: draft, transfer page, recipient section | |
| `Checkout` | KYC, recipient, and the creation of transfers through core-api and the collector | |
| `Wallet` | the pay panels and what they leave in the tab | |
| `Funding` | `applyFundingConfirmation`, the watcher's reports and the customer's submissions | `TransferStates` |
| `Watcher` | the Base watcher: runner, source of deposits, and the store endpoints of `routes/watchers.ts` | |
| `SolanaWatcher` | the Solana watcher and the two ways a payment on Solana reaches core-api | |
| `Idempotency` | `withIdempotency` | |
| `PayoutContract` | what the payout side promises: one atomic step per fact | `TransferStates` |
| `Payout` | the orchestrator's two endpoints, its callers and the bank | `TransferStates`; implements `PayoutContract` |
| `Dispatch` | the outbox dispatcher | |
| `Sweep` | the base sweeper and the chain it writes to | |
| `Workers` | several workers of each of the last two on their own records | `Dispatch`, `Sweep` |
| `PayoutPath` | the composition of funding, dispatcher, sweeper and orchestrator on one transfer | `Payout`, `Dispatch`, `Sweep` |
| `Reconcile` | reconciliation runs, and the views operators and customers read | `TransferStates` |
| `MC*` | instances for TLC: symmetry sets, initial states, the cases a behaviour is about | the module named |
| `MCCustomer` | the five parts a customer meets, one of them per behaviour | `Session`, `FxQuotes`, `Draft`, `Checkout`, `Wallet` |
| `SafeguardProofs` | theorems of `Idempotency` and `Reconcile` | both |
| `CustomerProofs` | theorems of `Session`, `FxQuotes`, `Draft`, `Checkout` and `Wallet` | all five |
| `FundingProofs`, `WatcherProofs`, `SolanaProofs`, `PayoutProofs`, `WorkersProofs` | theorems of the module named | that module |
| `PayoutPathProofs` | theorems of `PayoutPath` | `PayoutPath`; instantiates `PayoutProofs` and `WorkersProofs` |

Definitions named as a "mutated form" are not part of a specification: each is
the version of an action with a plausible bug, and shows that the property it is
paired with would notice.

### Correspondence with the code

The granularity is the same everywhere: **one database transaction, one query
outside a transaction, or one remote call is one step**. JavaScript runs
without interruption between two awaits, and a transaction that locks or
conditionally updates the rows it depends on is atomic, so these are all the
interleavings the program has.

*Idempotency.* `row`, `rowHash`, `rowResponse` are an `idempotency_record`;
`response_status = -1` is `"reserved"`. `Reserve` is the insert that did
something, `FindReserved` the insert that hit the conflict; the owner goes
through `Execute` / `HandlerThrows`, `Store` / `StoreFails`, `Release`; the
others through `PollMissing`, `PollConflict`, `Replay`, `PollTimeout`. Neither
`Store` nor `Release` names the owner, as in the code. The loop of 50 polls is
one nondeterministic step that may time out at any moment.

*Payout.* Each request slot carries the endpoint's handler: the wrapper
(`Reserve`, `FindReserved`, `Poll`, `Record`, `Release`, the hash left out
because both callers derive payload and key from one another), then
`initiatePayout`: `Lookup`, `Check`, `Select`, `Insert`, the adapter call with
its retries (`BankAccepts`, `BankUnavailable`, `BankRejects`), `MarkInitiated` or
`MarkReviewRequired`, `Save`. The status callback is two steps, because the code
reads the instruction and later writes it. The bank accepts one payout per key,
may accept a call whose answer is lost, settles what it accepted at any time,
and repeats callbacks. `PostAuto` posts any transfer, funded or not, because the
endpoint trusts any service token; `PostOpsRetry` follows the guard of
`routes/ops.ts`. The shipped transport behind the adapter is a stub
(`app.ts:45-50`); the model takes the partner from the adapter's interface.

*Dispatch.* A worker is one `runBatch` in progress; the timer of `server.ts`
starts another while the last still runs, and replicas run their own, hence
several workers. `Claim` is `claimNext` with its gate and its take-over of
claims older than 60 seconds (`Due`), and counts the attempt. `Finish` writes by
event id alone. `MarkFails` is a failed mark, which the code has inside the
`try` of the post and therefore treats as a failed post.

*Sweep.* As Dispatch, with `Broadcast`, a receipt or its absence, `MarkSwept`
followed by its audit row, whose failure also lands in the `catch`. A broadcast
that nobody waits for any more may still be mined (`airborne`).

*PayoutPath.* Shares the variables that the processes share (`transfer`,
`settlement`) and adds `conn`, the HTTP call that joins a worker to a request.
`Confirm` is the one transaction that writes the transfer, the event and the
settlement record. A lost answer leaves the request running (`Orphaned`).

*Funding.* `Apply` is `applyFundingConfirmation`, split by outcome. The watcher
calls it with the index of the log, the customer path with 0
(`routes/transfers.ts:609`). `Submit` … `Abandon` are the awaits of the customer
route. Amounts are integers (cents),
and the tolerance is compared exactly: `SolanaWatcher` has the roundings.

*Watcher.* A runner is one process of `workers/base-watcher`; a deployment that
overlaps two, or replicas, give several, which share the cursor, the rows of
`watcher_event_dedupe` and the transfers. `ReadHead`, `GetLogs` and `Scan` are
`Poll`: the head is read first, the routes and logs later, and a log whose block
cannot be read is left out (`dropped`). `Check`, `RouteNotFound` / `Deliver` /
`Refuse`, `Mark` are the loop of `runOnce`; `Complete`, `Save`, `Reload` its end
and the next tick. The first poll of a process does not reload (`initial`). A
call of the chain (`RpcFails`) or of a store (`StoreFails`) may fail before or
after its effect, and any failure ends the poll. `stuck` are the reports whose
key a core-api that died has left reserved, until `Purge`, the retention job.
Blocks are numbers; a deposit is a member of a set, and its block is chosen by
the chain.

*SolanaWatcher.* A transaction holds a list of pay events of the program, each
naming its transfer by a reference hash, and credits of addresses; `Contents` of
the MC module lists what may be in one. The source lists the newest `Limit`
signatures of the treasury account, then those of each address, after it has
read the head; what it cannot read, or what is beyond the limit, is `missed`.
`Key` is `buildEventKey`: transaction and event index, where a credit of an
address always has index 0, so that two payments may share one (`Shadowed`). A
customer submits any final hash, and the collector's verifier answers for the first pay
instruction or, where there is none, for a credit of the address or of the treasury.
`Record` is `applyFundingConfirmation` with the amounts it refuses (`Reject`: too
little, over the limit, or more than expected when overpayments are not accepted) and
the amount to send that it raises, for a duplicate too (`Accept`). Only amounts are
data: base units, `Unit` of them to a cent, rounded to either side at half a cent and
compared in binary floating point, which at exact equality may answer either way.

*Session.* A client is the form or menu of a tab, or the page of the tab that
exchanges by itself. `Find`, `InsertAccount`, `Refind` are the queries of
`ensureCustomerLink`; the unique link decides whose account stays, in one
transaction with the account. Cookies are shared by the tabs, tokens are not. A
token stays valid until it expires whatever happens to its session.

*Draft.* Effects of a rendered page run in a step of their own (`Effects`), with
the values of that rendering; answers come to the page that asked, or to nobody
when it has been left, and are written to the draft all the same.

*Checkout.* A request is a call of core-api (`kyc`, recipient and expiry are
checked there) which goes on in the collector inside two idempotency records:
`outer`, the wrapper's, and `inner`, the service's own, written after the
transfer. Faults are failed queries, lost answers and the death of either
service; `unsaved` and `released` record what they leave. The provider of KYC
decides, and its webhooks arrive in any order and repeatedly. The recipient's
account is read when the transfer is funded, in the transaction of the outbox
event (`Fund`).

*FxQuotes.* A form reads the cache, and asks the provider if the entry is too old:
the entry it has read serves if the provider fails. An answer, asked for or cached,
may not list the currency (`Unlisted`): `getRate` throws then as it does when the
provider has failed. Time is a tick of an hour; the answer of the provider may be on
its way when one strikes. Nothing else in the project needs a clock.

*Wallet.* A panel is mounted, closed, or reloaded; a payment goes on when its
panel is closed. On the program's route it carries a payment id kept in the
storage of the tab, and the program refuses an id that it has seen.

*Reconcile.* A run reads pages by offset; for each page the rows of the other
tables are read by queries that run in parallel, one step each, while the
services move the transfers in their own transactions. An operator reads a run
and its issues in two queries; a customer or operator reads the detail of a
transfer as a run reads a page.

Common abstractions: time is absent but in `FxQuotes`, so that a delay or
backoff may be over at any moment, with a constant (`MaxStalls`, `SlowSweepers`)
that says whether, or how often, a process may outlive its claim; append-only
rows that no modelled code reads (`audit_log`, `transfer_transition`,
`payout_status_event`) are left out.

## 3. Runs

"Pass" runs must hold; "violation" runs are the disagreements of section 5. The
counts are of distinct states.

| Run | Question | Instance |
|---|---|---|
| `Idempotency_wrapper` | Can two calls own a key? Do callers see one response, does a handler complete twice, is every call answered? | 3 calls, 2 keys, 2 hashes, 2 responses, all faults, fair (0.4 million) |
| `Payout_safety` | Does the orchestrator implement `PayoutContract`? Are stored answers true, do the two rows of a payout agree? | 1 transfer, 2 requests, 2 callbacks, the automatic and 1 manual key, 2 attempts, 2 faults (3.7 million) |
| `Workers_settle` | Are attempts bounded, is every event settled? Does `swept` mean treasury, is every record resolved? | 2 dispatchers, 2 transfers (one on Base), 2 attempts, 1 slow worker; or 2 slow sweepers and 2 records; 1 fault, fair (0.5 million) |
| `Path_paid` | Is a funded transfer forgotten, or paid before its sweep? Does it leave `FUNDING_CONFIRMED`? | 1 Base transfer, 2 workers, 2 requests, 1 sweeper; 1 fault and 1 slow worker, or a manual retry; fair (0.8 million) |
| `Funding_backed` | Credited once, backed, complete, truthful | 2 transfers, 2 hashes, 2 indices, amounts below, at and above the tolerances (4.5 million) |
| `Funding_credited` | Is an exact deposit credited in the end? | the same transfers, up to 3 related deposits, exact or too much, batched or not, 1 submission at a time, fair (0.3 million) |
| `Watcher_reports` | Does the cursor pass a deposit that was not reported, is every deposit reported in the end? | 2 runners, 2 blocks, a span of 1, an ordinary, a foreign and a refused deposit, 1 fault, fair (0.4 million) |
| `Solana_reports` | The same of the Solana source; is what was reported funded, and the tolerance honoured? | 1 runner and the customers, 2 transactions, one of 16 kinds, 2 slots, a limit of 1, 1 fault, fair (0.4 million) |
| `Customer` | Ten properties of the customer's side, section 4 | 2 tabs and 2 sessions; 2 quotes, recipients, visits and orders; 3 creation calls with 2 faults; 2 forms, 2 rates and answers without one; 2 payments and 3 panels (4.1 million) |
| `Reconcile_pages` | Are alarms true, is the scope covered, is a completed run shown whole? | 2 transfers, pages of 1, a scheduled and a triggered run, 2 details, 1 fault (2.1 million) |
| `Payout_double`, `Reconcile_mismatch` | the disagreements of section 5 | the smallest instance that shows them, or that of the passing run |

The type invariants are not among the recorded properties: add `INVARIANT
TypeOK` (`ReconcileTypeOK` in `Reconcile_pages`; `SessionTypeOK`, `DraftTypeOK`,
`FxTypeOK`, `WalletTypeOK` beside it in `Customer`) to the `.cfg` of a run; they
hold on the same instances, and all of them are proved (section 6).

**Why these bounds are enough to be interesting.** Transfers share no row, so one
suffices in `Payout` and `PayoutPath`; two appear where one is gated and the other
is not or where workers hop between records (`Workers`), and where one transaction
may pay two (`Funding`, `SolanaWatcher`). Deposits that share neither a transaction
nor a transfer with another do not meet, so `Funding_credited` leaves them out
(`Related`), and `Solana_reports` gives the second transaction a payment that meets
the first. Two requests under two keys give every pair of concurrent handlers, two
callbacks every pair of callbacks. Two attempts are the smallest number with a first
and a last one (a retry exists and the limit is reached). Faults are counted by
`faults` (`dropped`, `lost`) and bounded so that TLC terminates: each run admits a
failed query, crash or lost answer at every step where one can occur. Two faults
matter in `Checkout`, where a second transfer of one key needs two of them to hit
one call, and in `Payout`. Workers that outlive their claim are counted by `stalls`,
bounded by `MaxStalls`. In `Watcher` two blocks and a span of one make a runner poll
twice to catch up, and leave a second runner behind the cursor; in `SolanaWatcher` a
limit of one and two transactions make the list too short. `MaxDeposits` is 2 in
`Funding_backed`: a duplicate, a second funding and a batched pair all need two. It
is 3 in `Funding_credited`, where a batched pair may change what the third waits
for. The amounts of `Funding` are chosen around `Quote = 10`, `Tolerance = 1` and
`OverpayMax = 13`: 8 is underpaid, 9 within the tolerance, 12 adjusted, 15 over the
limit (`Funding_credited` has the exact one and the adjusted one); those of
`SolanaWatcher` are half cents about the tolerance and the limit, and one that is
adjusted. Two tabs, two forms, two calls of one key and two visits are the smallest
numbers that can meet; three panels allow one to be left, opened again and reloaded.
In `FxQuotes` 98 and 100 are about the tolerance of two per cent, and differ on
which of them is compared with which. Pages of one row and two transfers give a
second page whose offset has moved.

`Workers`, `MCCustomer`, `MCPayoutPath` and `MCReconcile` let the initial state
choose what a behaviour is about: parts that share no variable, or faults that
need not be multiplied with each other. Every choice is explored.

**Symmetry** is used in `Funding_backed` and `Customer` only, which check no
liveness: over transactions, customers and transfers, and over quotes and
recipients, which no action distinguishes (`Funding_backed` puts both transfers on
Base for that reason).

**Constraint.** `Reconcile_pages` follows a behaviour until the run, the detail and
the operator it is about are done: later states differ in the transfers only.

**Deadlock** is checked in `Payout_safety` and `Watcher_reports`, where there is
always a step: a request can be posted again, and a runner polls for ever. The
other systems come to rest when the calls, transfers, deposits, faults or visits
of the instance are used up.

**Fairness.** `Idempotency`: weak fairness of the steps of each call in progress;
the event loop runs what is ready, and every await ends (queries have time limits,
the poll loop is bounded). `Workers`: weak fairness of each worker's work, because a
timer starts batches for ever, and of the orchestrator's answer, because an HTTP
call ends one way or the other; no fairness of crashes, faults, or of the
environment that moves the settlement or mines a transaction. `PayoutPath`: the same
for each process, and of the orchestrator's handlers; that a request slot is free is
part of the action. `Funding`: weak fairness of the watcher's reports of a deposit
until it has been answered, which is what `EveryDepositReported` says of the
watcher. `Watcher`, `SolanaWatcher`: weak fairness of each runner's steps (a ticker
starts polls for ever and every call has a time limit) and, in `Watcher`, of the
retention job, which a scheduler starts every hour unless it is switched off. The
customer, the bank and the chain are never assumed to act.

## 4. What the properties say

Each is stated above its definition. The ones worth knowing:

- `SingleOwner`, `OneResponsePerKey`, `AtMostOneExecution`: the wrapper excludes
  concurrent owners, although its update and delete name only the key.
- `PaidOnlyIfFunded`, `AnswerTruthful`, `ImplementsContract`: the orchestrator's
  stale reads do no harm, because its writes to `transfers` are guarded and the
  order of the steps is right. It refines a machine with six atomic actions, from
  which `StatusTruthful` and `LegalTransitions` follow (section 6).
- `RowsAgree`: instruction and transfer agree, as long as nothing fails and
  nobody retries by hand.
- `RetryBudget`, `EventSettles`: the dispatcher counts in one query and limits in
  another, and still settles every event in a bounded number of attempts.
- `SweptTruthful`, `SettlementResolves`: likewise for the sweeper.
- `NoLostPayout`, `SweptBeforePayout`, `FundedIsPaid`: properties of no single
  process. An event may be marked processed only if the transfer has left
  `FUNDING_CONFIRMED`; the bank is called for a Base transfer only when its
  deposit is in treasury; without faults, funded transfers do get paid.
- `CreditedOnce`, `PayoutBacked`, `FundedCompletely`, `SubmissionTruthful`,
  `DepositCredited`: two reporters that number the same deposit differently
  still fund a transfer once, and completely. An exact deposit funds its transfer in
  the end, but for two effects of a submission for another transfer that the same
  transaction pays, which section 5 describes.
- `CursorSafe`, `ReportsFinal`, `EveryDepositReported`: publishing, marking and
  saving the cursor are three calls of a process that may die between any two,
  next to another process that saves an older cursor; still no deposit is passed
  over, except those of a dropped log, and none waits for ever, except behind a
  deposit that core-api refuses.
- `CursorSafe`, `EveryPaymentReported`, `ReportedIsFunded`, `ToleranceHonoured` of
  `SolanaWatcher`: the same, with its own exceptions: unread signatures, those
  beyond the limit, and payments that share a key; what was reported is funded,
  unless its amount was refused, or its key was taken for another transfer: one
  that the same transaction pays, or one of the program, for which a plain transfer
  to the treasury was submitted. An amount is refused only beyond the tolerance,
  although duplicates raise what is expected.
- `OneAccount`, `SignedOutStaysOut`: concurrent sign-ins end with one account, and
  a late exchange is the only thing that brings a token back.
- `QuoteBacked`: what a quote's rate has been compared with, through a cache, a
  failing provider, answers without the currency and overlapping calls.
- `DraftConsistent`, `OneOrderPerVisit`: answers that come late, to pages that were
  left, do not mix two choices, and a visit orders once although each press of
  the button has a new key.
- `OneTransferPerKey`, `AnswersHold`, `KycLatest`, `PaidToRecipient`: two records of
  one key, two endpoints and any two failures; a caller's answer against the
  tables; the status against the order of webhooks; the account paid against the
  recipient's history.
- `PaidOnce`: presses, retries, reloads and closed panels pay a transfer once, with
  the exceptions it names on the routes that have no payment id.
- `NoTornAlarm`, `PagesCoverScope`, `ViewComplete`: reads of several queries beside
  the services that write; what a run misses is bounded by what has moved.

## 5. Where the code and its documents disagree

Two disagreements are runs that TLC must find violated; `PROJECT.json` quotes
the lines.

| Run | Property | What happens |
|---|---|---|
| `Payout_double` | `NoDoublePayout` | a manual retry uses a new key, and the bank is asked to pay twice |
| `Reconcile_mismatch` | `MismatchMeansConflict` | a run raises `PAYOUT_STATUS_MISMATCH` for every completed transfer it reads, because the code expects its instruction to be still initiated |

Other places where the models reach a state that a reader of the documents would
not expect. They follow from the same actions, and the properties of section 4
are stated so as to except exactly them:

- An event whose key an orchestrator that died has left reserved is dead-lettered,
  and its transfer stays in `FUNDING_CONFIRMED`: `markDeadLetter` writes the event
  alone (`payout-dispatcher.ts:229`), and `docs/ARCHITECTURE.md:138` has "Terminal
  failures transition transfer to `PAYOUT_REVIEW_REQUIRED` and create audit event"
  (`FundedIsPaid` excepts faults).
- A sweeper whose claim was taken over, or whose audit insert failed, writes
  `pending_sweep` or `review_required` over `swept`, because the marks name only
  the transfer (`sweeper/repository.ts:97`); `docs/RUNBOOK_BASE_SWEEPER.md:34`
  has `pending_sweep -> sweeping -> swept`.
- A log whose block timestamp cannot be read is left out of the poll and the
  cursor passes it (`source_rpc.go:232`; `CursorSafe` excepts it).
- A deposit that core-api refuses (`amountUsd` 0) ends every poll at
  the same place, and the deposits of later blocks wait behind it
  (`runtime.go:131`; `EveryDepositReported` excepts it).
- A process dies with a key reserved, and every retry is told "in progress" until
  retention removes the row three days later
  (`packages/http/src/idempotency.ts:114`, comment at line 67).
- Storing a response fails after the handler succeeded: the key is released and
  the handler may run again (`idempotency.ts:47`; `AtMostOneExecution` excepts it).
- A manual retry that fails at the bank after a callback has concluded the
  transfer puts the instruction alone under review (`repository.ts:163-240` of
  the orchestrator; `RowsAgree` excepts manual retries).
- Two callbacks pass the terminal check before either writes, and the second
  overwrites the instruction (`app.ts:204-226`).
- The manual retry of a payout under review is always refused by the state check
  (`service.ts:49-56`), although `system_design.md:110-114` shows it.
- A report that is answered "duplicate" may have raised `send_amount_usd`
  (`funding-confirmations/repository.ts:249`; `PayoutBacked` holds nevertheless). The
  transfer then waits for the larger amount, and an exact deposit that follows is
  refused as underpaid (`DepositCredited` excepts it).
- The customer path confirms a deposit under index 0 whatever its position
  (`routes/transfers.ts:609`): when one transaction pays two transfers and the
  customer of one submits it, the other may find its index taken and stay in
  `AWAITING_FUNDING` (`DepositCredited` excepts it). On Solana the same happens to
  payments that share a key (`Shadowed`), and to a credit of an address whose
  transaction the customer of another transfer has submitted before as a plain
  transfer to the treasury. The verifier asks of such a transaction only that the
  balance of the treasury has grown (`verifier.ts:432`), which is the account of all
  transfers of the program, so that it may fund any of them (`ReportedIsFunded`
  excepts both).
- The Solana source advances its cursor past what it could not read and past
  signatures beyond its limit (`source_rpc.go:146`; `CursorSafe` excepts them).
- A key that is used on both endpoints of the collector makes two transfers, and so
  does one whose transfer was made without the inner record and whose outer
  record was released (`OneTransferPerKey` excepts both).
- An exchange that is under way when the tab signs out stores its token afterwards
  (`lib/session.ts:96`; `SignedOutStaysOut` excepts it).
- A provider that fails while the cached rate is too old leaves the rate of the
  form unchecked, and so does an answer that does not list the currency, which is
  cached like any other (`exchange-rate-api.ts:28`, `quotes.ts:97`; `QuoteBacked`
  excepts both).
- Two effects of the recipient section may undo each other's choice
  (`recipient-section.tsx:50`), and a late confirmation clears the draft of a newer
  transfer (`use-payment-verification.ts:129`): reachable, and stated by no property.
- A run whose process dies stays `running`; the `failed` of the schema is never
  written.

## 6. Proofs

`tlapm` checks eight proof modules; no leaf is taken on trust. Every safety
property that a run checks is a theorem for every value of the constants, and so
are the type invariants and the refinements of `PayoutContract`. The assumptions
named below are `ASSUME`s of the modules, which TLC evaluates in every run; a bound
on faults, stalls or lost answers is any natural number.

**Idempotency** (assumptions: the sets of responses and refusals are disjoint,
`Hash` is not empty, `Faults` names known faults). `TypeCorrect`, then
`MutualExclusion` and `OwnersRow` for any faults: the inductive invariant is the
two properties together, since the row of an owner can be removed only by its
owner or by retention, and retention comes after its owner has gone.
`UniqueResponse` strengthens the property with the fact that a response some
caller was given is still in the row, until the row is purged; `ExecutedOnce`
with the fact that a key that has been executed and not been hit by a failed
store or by retention has a row, and that nobody is about to execute or release
it. The history variable `hit` records per key which of the two has happened.

**Payout** (assumptions: `MaxAttempts` is positive, the automatic key is not a
manual one; any number of transfers, requests, callbacks, keys and faults). The
two safety properties are not inductive: that a request at the bank was checked
against a funded transfer is true because of where the request *is*. The
inductive invariant `Inv` therefore adds, per request, what its step and result
remember (`Remembered`: past the check, the transfer is funded; with result
`"initiated"`, the bank has accepted under its key; past the mark, the transfer
has left `FUNDING_CONFIRMED`), and per callback that its status is one the bank
has reported. `NextMonotone` shows that no step takes a transfer back or makes
the bank forget, so that what one request remembers survives every step of the
others; each action is then proved only for the request that takes it.
`Implementation` maps each step to a step of the contract or a stutter, with
lemmas on what a change of one bank entry does to `Settled`.
`ContractIsTruthful` and `ContractIsLegal` are proved of whatever implements the
contract, by an invariant over its six actions; `StatusIsTruthful` and
`TransitionsLegal` are these two applied to `Implementation`.

`RowsAreOne` (`RowsAgree`) needs two facts more, which hold as long as nothing has
failed: the owner of a reservation holds a row that says so and is the only one
(`OwnersReserve`), and once the instruction of a transfer is marked, no request of
the event can mark it again (`MarkedOnce`). Both rows are written by the owner in
one step, or by a callback that reports the one payout there is; a second request
that could write one of them alone would have to own the reservation. A retry by
hand, which the property excepts, is never undone.

**Watcher** (assumptions: `Span` is positive; any number of runners, deposits,
blocks and faults). `CursorSafe` is not inductive: what makes a saved cursor safe
is what its runner did since its last reload. `Inv` in `WatcherProofs` adds, per
runner, that every deposit up to the cursor it started from is accounted for
(`BehindFrom`), that once the scan is over every deposit up to `to` is accounted
for or still in the queue (`Scanned`), that the queue holds final deposits and is
empty when the cursor is saved, and that no deposit is made before its route
exists (`RoutedFirst`). `OutsideInv` covers the chain, core-api and retention,
`RunnerStep` says that a runner that forgets nothing disturbs no other, and each
action of a runner is then proved for that runner alone. `TypeCorrect`,
`NothingPassedOver` and `ReportsAreFinal` follow.

**SolanaWatcher** (assumptions: the limit of signatures, the unit, the expected
amount, the tolerance and the limit of overpayments are positive; any number of
runners, transactions, contents, strangers and faults). The argument for
`CursorSafe` is that of `Watcher` with one more stage: what a runner knows (`Known`)
is that the payments behind its cursor are accounted for (`Behind`); after it has
read the treasury, so are those the program made up to `to`, or they are in the
queue; after the addresses, all are (`Scanned`). That the routes are listed after
the slot was read matters here: a payment up to `to` was made to an address that had
been handed out (`PaidOpened`), and so is on the list. `ReportedIsFunded` needs that
a marked key is one that was reported (`SeenReported`), that an event credits a
transfer its transaction pays, or a transfer of the program when it names none
(`EventClaimed`), and that a reported payment was refused or has found its transfer
funded or its key taken (`Settled`). `ToleranceIsHonoured` rests on `CentsBounds`
and `ExceedsFacts`, which bound the rounding to cents and the comparisons for every
unit; a funded transfer's amount does not rise any more, and what was expected at a
refusal is recorded with it.

**Session** (assumptions: the two bounds are natural numbers; any number of tabs,
sessions and lost answers). `Linked` is `OneAccount` with what a client remembers:
one at `refind` has seen that a link exists, one at `reply` holds the account the
link names. The link and its account are written by one transaction, and no step
writes a link that is there, so what a client remembers stays true. `Departed` is
`SignedOutStaysOut` with why: a session a tab has signed out of is dead, and a
client of that tab that still exchanges one was doing so at that moment.
`TypeStep`, `LinkedStep` and `DepartedStep` have one step per action.

**Wallet** (assumptions: the two bounds are positive; any number of presses, panels,
reloads and verifications). `PaidOnce` says nothing of the payments in flight, so
`Inv` adds why the next one cannot be a second: payments are numbered by the presses
(`Numbered`); on the program's route all that were pressed carry the id in the
storage, and of one id one payment lands (`OneIdentifier`); a mounted panel shows the
payment it has in flight or was answered (`Known`), so that the next press from it
follows an error (`Errors`). `TypeStep`, `NumberedStep`, `OneIdentifierStep`,
`KnownStep` and `ErrorsStep` have one step per action or group of actions that change
the same part of the state.

**FxQuotes** (assumptions: rates are positive, and the three limits are in the order
in which the code has them). `QuoteBacked` is about the moment of the insert, and
what is inserted was read from a cache, or answered by the provider, some steps
earlier. `Traced` says of each entry that is remembered anywhere, in the cache or by
a form that is waiting, that the provider had its rate, or none, no longer ago than
the age of the entry, and one hour, which may have struck while the answer was on
its way; `Backed` says of a form at `insert` what the property says of the quote.

**Draft** (assumptions: the bounds are natural numbers; `MaxLost` bounds the lost
answers of each opened page). `OneOrderPerVisit` counts transfers. `VisitsInv` says
when another one may come: a visit has one call at most, and none that is not
pending on its own page; as long as the page shows no transfer, those the visit has
made are all lost answers. A late answer belongs to an earlier visit, or to the quote
the page still shows, hence `DraftConsistent`.

**Checkout** (assumptions: accounts can be named; any number of requests, keys,
quotes and faults). For each call that has made a transfer, `Shielded` says what
stops another of its scope: the outer row that it holds, the inner record of its
key, that all quotes have expired, or else the double failure that
`OneTransferPerKey` names. The code takes down one shield only when the next is up:
the inner record is written before the outer row is answered or released, and
retention deletes the two only when no quote can be used any more. `Stages` says how
far a call has come, `HeldOnce` that one call holds an outer row, `MadeOnce` that
whoever is about to release it has left an inner record or has failed to.
`AnswersTrue` is `AnswersHold` with the answers that are stored, `PaidInv` and
`KycInv` relate the recipient and the status to their histories.

**Funding** (assumptions: indices are numbers and 0 is one; amounts, the quote and
the tolerances are positive; any number of transfers, hashes, deposits and
submissions). The four properties `CreditedOnce`, `PayoutBacked`,
`FundedCompletely` and `SubmissionTruthful` are inductive together with the types,
and not each alone: what a duplicate may raise is bounded by the event that was
credited, and a submission may be confirmed as its transfer has left
`AWAITING_FUNDING`. `ApplyKeeps` proves them of `applyFundingConfirmation` for both
callers, with one lemma per outcome; the deposit that the customer path numbers 0
is one of the deposits but for its index (`Backed`). The rest of the proof is that
nobody else writes these rows.

**Workers** (assumptions: `DispatchMax` and `SweepMax` are positive, `Worker` is
finite; any number of transfers, faults and stalls). `RetryBudget` bounds attempts
although the limit is read by one query and the attempt counted by another. `Budget`
counts *tokens*: an event that can be claimed holds one, and so does each worker
that has claimed it and would leave it another attempt. A claim turns the event's
token into the worker's, an answer turns it back, and only a fault or a stall makes
one; from the limit on, each attempt uses one up. `SweptIsInTreasury` is inductive
with what a task past its receipt knows: its deposit is in treasury, where it stays.

**PayoutPath** (assumptions: those of its parts, and that an idle worker's call is
no request). A step of the path is a step of one part, or of two that share a
variable, and `PartsStep` takes over the invariants of `PayoutProofs` and
`WorkersProofs`, which are instantiated and not proved again. Added are the facts
that join the parts: each call is carried by one request of the event its worker
holds (`Calls`); an answer that reports an outcome comes after the outcome
(`Answers`, `Delivered`); whatever goes further than the dispatcher's claim has
passed the gate of the sweep for good (`Gated`). `NoPayoutIsLost` and
`SweptBeforePaid` follow, and `PathImplements`: the whole path, with its workers,
sweepers, lost calls and manual retries, implements `PayoutContract`, so that the
theorems about the contract hold of it too: `PathIsTruthful` and `PathIsLegal`.
`PathRowsAgree` and `PathAnswersTruthful` carry the two others of the orchestrator
over.

**Reconcile** (assumptions: a page holds at least one row; the two kinds of readers
are distinct; any number of transfers, runs, readers and faults). `AlarmsAreReal` is
the order of the reads against that of the writes: a status and the rows an alarm
misses are written by one transaction (`Written`) and never deleted, and the status
is read first (`Backed`). `ScopeIsCovered` is a count. The place of a transfer on
the pages is the number of newer ones in the scope, its rank (`Rank`). `Accounted`
bounds the transfers that have slipped in front of the next page unread (`Skipped`)
by those that left the scope, and those that will be read a second time (`Again`),
with the rows read twice already, by those that came: one departure moves every rank
by one at most, and so moves one transfer past the edge (`RankDeparts`,
`RankArrives`, `OneMore`). That a page with fewer rows than its size is the last
follows from `RankOnto`: ranks are distinct and less than the cardinality of the
scope, so that every number below it is one, which the proof has from the
cardinality of finite sets and not by induction over the pages. `ViewsAreComplete`
needs that issues are written before the run is completed, and deleted before the
run is (`RowTrue`, `ViewTrue`).

**Model-checked only.** Liveness (`EveryCallAnswered`, `EventSettles`,
`SettlementResolves`, `FundedIsPaid`, `DepositCredited`, `EveryDepositReported`,
`EveryPaymentReported`) is out of the prover's reach: it needs fairness, and so
`ENABLED`. The two disagreements of section 5 are counterexamples and have no
theorem.

## 7. Plan

Done: the components of section 1 but those of section 8, and the proofs of every safety
property and type
invariant.

Next, to prove: that `Funding` and `Checkout` implement contracts of their own, as
the orchestrator does, with one step per fact (a deposit is credited, a transfer is
made), so that a composition can rest on the contracts.

Next, to model: the composition of the watchers with `Funding`, whose fairness of
reports it would replace.

## 8. Not modelled

- admin-api and ops-cli forward requests; configuration, logging, rate limits,
  encryption and token checks have no protocol state.
- The markup, styling and wording of the web client, and its pages that keep no
  state. In `FxQuotes` a form makes one call at a time, as its buttons do.
- mark-reviewed and the read-only routes of `routes/ops.ts`: they write history
  rows only, or nothing.
- The decoding of receipts, logs and instructions: a verifier or a source answers
  as a function of what the transaction holds. A call of the program's pay
  instruction and its event go together: other programs that call it are left out.
- Rows created in the same microsecond: `Reconcile` orders transfers by their
  creation, so that a page boundary between two equal `created_at` is left out.
- `Funding` has transfers with an address of their own; those that pay the program
  are in `SolanaWatcher`.
- A deposit to an address before its transfer is recorded: the address is told to
  the customer after that.
- Reorganisations of a chain: both reporters wait for confirmations, and no
  block with enough of them changes in `Watcher`; `Funding` starts from final
  deposits.
- `ledger-service` is in memory and called by no other service.
