# VindraPay in TLA+

VindraPay verifies mobile-money payments by reading the operator's SMS. A
merchant's phone captures the SMS and uploads it; the backend reads it with the
first SMS template that matches and records a *transaction*; a customer's TrxID
is then *verified* against an *order*, which becomes paid. These modules model
the path of a payment, from the broadcast on the phone to the paid order, and
what it depends on: the templates and the language they are written in, the
credentials of merchants and phones, and the lists an administrator reads. One
database statement is one step, and the properties must hold however requests,
phones, jobs, processes and faults interleave.

    OrderLedger.tla        what verification promises (abstract specification)
    Verify.tla             verification, orders, rate limit, sweeper, calibration
    VerifyProofs.tla       theorems about Verify: orders, payments, the ledger
    AnswersProofs.tla      theorems about Verify: answers, audit rows, balances
    SmsTemplate.tla        the template language: compiler, match, its grammar
    SmsTemplateProofs.tla  the compiler accepts the grammar, for every text
    Reading.tla            what a template and its script make of an SMS
    SmsInbox.tla           what ingestion promises (abstract specification)
    Ingest.tla             SMS ingestion and template choice
    IngestProofs.tla       theorems about Ingest
    Templates.tla          the table of templates, its editors and the seeder
    TemplatesProofs.tla    theorems about Templates
    Credentials.tla        keys, phones, businesses: issue, use, withdrawal
    CredentialsProofs.tla  theorems about Credentials
    Paging.tla             management lists and the SDK's walk through them
    PagingProofs.tla       theorems about Paging
    Outbox.tla             what the phone promises (abstract specification)
    Capture.tla            the phone: gate, table, upload worker, heartbeat
    CaptureProofs.tla      theorems about Capture
    MC*.tla, MC*_*.cfg     instances for TLC
    PROJECT.json           components, runs, definitions -> source lines, hazards

Run `tlc -config MCVerify_contention.cfg MCVerify` (and so on), and `tlapm` on
each of the eight modules named `...Proofs.tla`, in this directory.

## 1. The system

### Backend (Go, PostgreSQL)

| Part | State | Operations | Correct when | Module |
| --- | --- | --- | --- | --- |
| Orders (`handlers/orders.go`, `orders.sql`) | table `orders` | create (idempotent per external id), get | a row's price and expiry never change; paid and expired are final | Verify |
| Verification (`services/verify.go`) | reads all tables, writes `orders`, `verification_attempts` | verify: read order, find transaction, compare amount, check balance trail, claim, log | one transaction pays one order, in full, in its own business; answers and audit rows are truthful | Verify |
| Rate limit (`middleware/ratelimit.go`) | counts `verification_attempts` | before each verify; fails open | a business is limited by its own attempts only | Verify |
| Sweeper (`cmd/api/main.go:55-76`) | `orders` | every 60 s: pending and past its expiry becomes expired | never touches a paid order; every order with an expiry settles | Verify |
| Balance trail (`handlers/device.go`, `balance_calibrations.sql`) | `balance_calibrations` | calibrate, read latest point | an accepted balance is justified by the trail | Verify |
| Ingestion (`services/ingest.go`, `handlers/device.go`) | `raw_messages`, `transactions` | store SMS, match templates, record transaction, mark SMS | one SMS is one transaction, read by the right template with the amounts it states; retries change nothing | Ingest |
| Parser (`smsparser`) | none | compile a template or a regular expression, match | accepts the language, and a match yields its fields | SmsTemplate |
| Scripts (`scripting`, `runProviderScript`) | none | run, check and round what comes back | a script prices a payment and changes nothing else | Reading |
| Templates (`handlers/providers.go`, `manage_more.go`) | `providers` | create, update, deactivate, get, test | what is stored compiles to its pattern; tenants stay apart; deactivated is final | Templates |
| Seeder (`services/seed.go`) | `providers` | at each start, before serving | builtins are there, edits and deactivations survive | Templates |
| Credentials and tenants (`middleware/auth_*.go`, `handlers/manage.go`) | `businesses`, `api_keys`, `devices`, a map of usage stamps in memory | issue, revoke, suspend, deactivate, authenticate, heartbeat, stamp | a caller acts as itself; what is withdrawn is out at once and for good | Credentials |
| Lists (`handlers/manage*.go`, `db/manage.sql.go`) | none | a page and a count, in two statements | the page and the count use the same filters; a walk misses nothing | Paging |

All state but the usage stamps is in PostgreSQL. Handlers are goroutines that
share nothing else and open **no database transaction**: each statement is
atomic, and anything may run between two of them. That is where the hard
behaviour is: concurrent verifications, repeated uploads, the sweeper, two
administrators at once, statements that fail in the middle or are committed
without their caller learning so, and process death.

### Around it

| Part | State | Hard behaviour | Module |
| --- | --- | --- | --- |
| Android capture (`CaptureRepository.kt`, `UploadWorker.kt`, `MonitoringService.kt`) | Room tables of captured SMS and synced templates | unique work with KEEP, retries, a batch acknowledged in part, a gate that drops SMS until the first heartbeat | Capture |
| Android multipart (`MultipartAssembler.kt`) | shared preferences, one entry per (sender, reference, total) | reused references, lost parts, process death after the last part | none |
| SDK (`sdk/src/core`) | none | offset paging while rows are inserted, retries | Paging, in part |
| Studio server (`studio/src/server`) | login throttle in memory, signed sessions | eviction at the bound, window reset | none |

The phone calls `/device/v1/heartbeat` and `/device/v1/messages`, the merchant
`/api/v1`, Studio and the SDK `/manage/v1`. How the modules meet:

- Ingest extends Reading and Reading extends SmsTemplate: a template of Ingest
  is compiled, matched and scripted by their operators. Templates extends
  SmsTemplate: what it stores is what Ingest compiles again before it matches.
- `Verify!InsertTransaction` is what `Ingest!InsertTransaction` does to the
  table verification reads. Ingest guarantees that its rows are storable, typed
  and final (`AsTheSmsSays`, `RecordsAreFinal`); Verify assumes no more of its
  inputs.
- `Ingest!Deactivate` is what deactivation does in Templates; there it is checked
  and proved to be final (`DeactivatedIsFinal`), which is why Ingest never adds to
  `active`.
- `Capture!Accepts` is the validation in front of Ingest; `Capture` and Ingest
  share the rule that what is acknowledged is never sent again.
- Credentials stands in front of all handlers: the `OwnerOf` of Ingest and
  Verify is the business of the row by which a phone is authenticated.

## 2. How the modules correspond to the code

### Verify

A verify request `r` has a program counter `pc[r]` naming the statement it
executes next, and the values it has read (`order[r]`, `tx[r]`, `anchor[r]`).
The actions follow `VerifyService.Verify` from top to bottom:

| Action | Code |
| --- | --- |
| `CheckRateLimit` | the middleware: counts logged attempts, refuses, or lets through (also when the count fails) |
| `ReadOrder` | verify.go:35-58, not_found / order_expired / order_not_pending |
| `FindTransaction` | 60-101, the latest row with the TrxID in the business, then direction and amount |
| `ReadLaterCalibration`, `CountTransactionsAfter`, `ReadPreviousBalance` | 103-162, the three reads behind the balance verdict |
| `Claim`, `ClaimRefused` | 164-203, the conditional UPDATE and its unique index |
| `RereadOrder` | 181-196, the row that explains a refused claim |
| `LogAttempt` | 208-219, whose error is dropped |
| `Abort` | any statement fails, the client leaves, or the process dies |

`Claim` may commit and still leave its caller with an error. The environment is
the rest of the program as far as it writes these tables: `CreateOrder`,
`InsertTransaction`, `CalibrateBalance`, `ExpireStaleOrders`, `Tick`.

Abstractions: an amount is a number of a small set (the code compares decimals
exactly, so only equality and the sum with a balance matter); a time is a tick;
ties in an `ORDER BY ... LIMIT 1` are broken arbitrarily; the id of an order or a
transaction is its unique key. The process and the database share one clock.

`received_at` and `calibrated_at` are `DEFAULT now()`, the start of the INSERT,
and a row can be read only when the statement has committed. So `InsertTransaction`
and `CalibrateBalance` take any earlier instant, `since`, as the row's time and
happen when the row becomes visible: a row with an older time may appear between
two reads of a verification, or after all of them. `visibleAt` is history, the
instant at which a row appeared.

### OrderLedger

An order is absent, pending, paid or expired; a payment has a worth, a business
with an amount. `Pay` settles a pending order with a payment of exactly its
worth that settles no other. `Verify` implements it under the mapping `Ledger`
at the end of Verify.tla: a debit is worth nothing, so it can never pay.

### SmsTemplate and Reading

| Operator | Code |
| --- | --- |
| `normalizeText`, `tokenize`, `Compile` | compiler.go, the template mode: blanks, placeholders, adjacency, required fields; a group named twice is refused by RE2 |
| `CompileRegex` | the regex mode: only known groups, both required ones |
| `ByteLength`, `TooLong` | `maxTemplateLength`, in bytes of the text without superfluous blanks, in both modes |
| `Match` | what was captured becomes fields, or an error when a required group took no part, or a group captured nothing or no number where one is due (`Unusable`) |
| `senderGate`, `Run`, `Output` | ingest.go, scripting.go: who the template listens to; how a script ended, the checks of each key, its rounding, the keys ignored unless `ALLOW_UNSAFE_SCRIPTS` |
| `Columns`, `Storable`, `Read` | the columns of InsertTransaction and their constraints; all of it together |

A text is a sequence of lexemes, and `Bytes` is the length of each; "word" is one
byte of other text. RE2 and goja are external: what a pattern
captures in a body (`Found`) and how a script ends (`Endings`) are constants. A
pattern in template mode captures only what its sub-patterns allow, never an
empty group and never text that is no number, so `IngestAssumption` leaves
`Unusable` to the regex mode, and an amount there may be any number, below zero
too.
Amounts in an SMS are counted in thousandths and stored in hundredths, so that
rounding to 0.00 and to the neighbouring cent both occur. `Grammatical` and
`PlaceholdersOf` tell the language without a scanner, by where the braces are.

### Ingest

An upload `u` takes the messages of its batch one at a time:

| Action | Code |
| --- | --- |
| `Upload` | CaptureRepository.kt:169-185, what has no answer yet; an earlier upload may still run |
| `ListProviders` | ingest.go:42, once per batch; its error is kept and answered per message |
| `InsertRawMessage` | 56-73, stored, duplicate or error |
| `ReadMessage` | 75-143, the first template that does not pass over the SMS |
| `InsertTransaction`, `FetchTransaction` | 144-165 |
| `MarkRawMessage` | 93-122 and 167-177, whose error is dropped |
| `Respond` | the answer, and the phone's markSent of everything it lists |
| `Crash` | the process dies |
| `Deactivate` | a template is switched off meanwhile |

A statement that fails may or may not have been committed; one that violates a
CHECK always fails. `hit` remembers the messages a fault touched; it is the only
history variable. `Readings` is a constant because it is the same in every
state; the assumption says that it equals `AllReadings`, which calls `Read`, and
an instance tabulates it once. Texts are not edited here: that is Templates.

### SmsInbox

An SMS is absent, pending or settled, and a payment was recorded from one SMS or
from none. `Record` needs a pending SMS that has brought no payment yet, that
tells of this one, and that no template on offer reads before the one it is
recorded under; `Settle` as "parsed" needs a payment the SMS tells of on record,
and as anything else that it brought none. There are no uploads, retries or
failures in it. `Ingest` implements it under the mapping `Inbox`: `offered` is
`active`, `status` the inbox, `source` the SMS of each transaction.

### Templates

A call that validates its body and executes one statement is one action
(`Create`, `CreateProvider`, `UpdateTemplate`, `UpdateProviderTemplate`,
`Deactivate`, `Get`); each may be committed and answered with an error. The
administrator's deactivation is an UPDATE and, if it found nothing, a reread
(`DeactivateProvider`, `RereadProvider`). A process seeds when it starts,
`GetGlobalProviderByName` and `SeedBuiltin` for each builtin, then serves; it may
fail or be stopped at any statement and start again, next to another. Calls are
served only while some process serves. `found` is history: which builtins had a
row when the process started.

### Credentials

| Action | Code |
| --- | --- |
| `CreateBusiness`, `SetBusinessStatus`, `CreateApiKey`, `CreateDevice` | manage.go, manage_more.go; the check of the business is a statement of its own |
| `LoadKey`, `RevokeApiKey`, `RevokeFindsNothing`, `RereadKey` | ManageHandler.RevokeApiKey, its three statements |
| `LoadDevice`, `DeactivateDevice` | the device's, which answers what it read first |
| `CallFails` | a statement of either fails |
| `Present`, `AuthenticateKey`, `AuthenticateDevice` | auth_apikey.go, auth_device.go: candidates by prefix, then the hash, then the revocation |
| `ServeMerchant`, `Heartbeat`, `UpdateDeviceMeta`, `RequestFails` | the handler behind it, later |
| `TouchApiKeyLastUsed` | the goroutine that writes `last_used_at`; its error is dropped |
| `Restart` | the process dies: requests, stamps and the throttle's map are gone |

A token is its 24 random bytes, `PrefixOf` the eight characters it is looked up
by. `lastAuth` (the last use of a key) and `lost` (stamps that were dropped) are
history.

### Paging

A walk `w` is `paginate` of the SDK: `Start`, then for each page the handler's
two statements `ReadPage` and `CountRows`, then `Collect`, which yields the items
and decides whether to go on; `RequestFails` is a lost or failed request and its
bounded retries. `Insert` and `Change` are the rest of the program: rows appear
in the order of their commits, which is not the order of `created_at`, and leave
a list when their status changes. `ListedBy` and `CountedBy` hold, per table, the
columns the two statements filter on. `collected` is the client's count of what
it has yielded, from which it derives the next offset, and which makes it throw at
the first item beyond `MaxItems` (`Runaway`, `Yielded`); `begun`, `listed`,
`arrived`, `left` and `sent`, the number of requests, are history.

### Capture

The phone has one coroutine per received SMS, one upload job, a heartbeat loop
and a connectivity watcher. They share the Room tables and the job, and each has
a variable that says what it does next:

| Variable | Actions | Code |
| --- | --- | --- |
| `stage[s]` | `Receive`, `Gate`, `Insert`, `EnqueueUpload`, `InsertFails` | SmsReceiver.kt:12-30, `handleIncoming` (CaptureRepository.kt:105-137) |
| `worker` | `StartWork`, `ReadBatch`, `SendBatch`, `SendFails`, `MarkSent`, `MarkFails`, `FinishWork`, `StopWork` | UploadWorker.kt:18-46, `uploadOnce` (169-209) |
| `heartbeat` | `Heartbeat`, `StoreProviders`, `CountPending`, `HeartbeatEnqueue` | MonitoringService.kt:62-96, `replaceProviders` (85-103) |
| `watch` | `WatchConnectivity`, `WatchEnqueue` | MonitoringService.kt:98-104 |
| `service`, `online` | `Pause`, `Resume`, `Kill`, `RestartService`, `GoOffline`, `GoOnline`, `RetryPending` | HomeScreen.kt:87-100, BootReceiver.kt, HistoryScreen.kt:69-76, Android |

`worker` is also the state of the unique work: `"none"` is the only value at
which `enqueueUniqueWork` with KEEP has an effect, so the results `"success"`,
`"retry"` and `"failure"` are states of their own, in which the worker will read
no more and an enqueue is still dropped. A row has the name of the SMS it came
from, which stands for its random `client_msg_id`. A batch is a set: the order
inside it matters to the server only. Of a template list the gate needs the
sender ids; `NULL` is a template without one. The server accepts a batch or
refuses all of it (`Accepts`, device.go:42-51 and 115-119); what it then does
with the messages is Ingest. A broadcast stands for one complete SMS, whose
parts are already joined. Notifications, settings that change only the
display, and the backoff's length are left out.

### Outbox

A message is kept under one id, carried in batches of what is kept and not noted
as sent, handed to the server, noted only when the server has its id, and given
up, to be taken again, at any moment. `Capture` implements it under the mapping
`Sending`: a message is a dedup key, its id the row that got the key, `carried`
the batch of the worker, `handed` the rows the server accepted, `sent` the rows
marked sent. The death of the process, a failed request and a failed update are
`Drop`, a request whose answer is lost is `Hand`, and a repeated broadcast is a
stutter.

## 3. What is checked

Runs that pass:

| Run | Instance | Shows |
| --- | --- | --- |
| `contention` | 2 requests, 2 orders of one price (one may expire), 1 payment, 3 instants, fairness | `SingleClaim`, `SuccessIsExclusive`, `AlreadyUsedTruthful`, `AuditTruthful`, `OrdersSettleOnce`; `ExpiredIsRefused`, `EveryOrderSettles`; every behaviour is one of `OrderLedger` |
| `tenancy` | 2 businesses with a phone each, 2 templates that extract the same TrxID, 6 kinds of transaction (credit, debit, scripted amount), a limit of one attempt | `PaidByMatchingPayment`, `LimitIsOwn`, and `ReadsStayTrue`, the part of the inductive invariant about requests in flight |
| `balance` | 1 request, 4 transactions on two trails, a calibration that may come at any time, 3 instants, each row visible at once or later than it is stamped | `PaidContinuity` |
| `ingestion` | 2 uploads, 3 SMS of 2 phones (two tell of one transfer, one of a fee below half a cent), a business's scripted template and a global regular expression, fairness | `OneTransactionPerMessage`, `RightTemplate`, `AsTheSmsSays`, `ParsedIsRecorded`, `RecordsAreFinal`, `DeactivatedIsUnused`, `StoredMessagesSettle`; every behaviour is one of `SmsInbox` |
| `seeding` | 2 processes, 2 rows, 2 businesses, one withdrawal, 4 bodies (with defaults, a regular expression, two to refuse); all texts up to the lengths given below | `StoredIsUsable`, `TenantsApart`, `DeactivatedIsFinal`, `SeedsOnlyMissing`, `ServesSeeded`; `CompilesTheLanguage` |
| `credentials` | 2 businesses, 2 keys, 1 phone, 2 tokens of one prefix, 2 requests, 2 administrators, 2 instants, an interval of 1 | `ActsAsItself`, `WithdrawnIsOut`, `RevocationIsReported`, `LastUsedIsFresh`, `CredentialsAreFinal` |
| `walk` | each of the 7 lists, 4 rows committed in another order than their times, two of one time, pages of one, one retry, a limit of 2 items | `TypeOK`, `NothingSkipped`, `RepeatsNeedArrivals`, `WalksAreBounded` |
| `delivery` | a repeated broadcast and a second SMS, batches and runs of one, one fault of any kind, fairness | `SentWasHandled`, `OneIdPerMessage`, `PendingIsSent`, `ListedIsDelivered`; every behaviour is one of `Outbox` |

Runs that find a disagreement with the documentation, one property each:

| Run | Sentence | What happens |
| --- | --- | --- |
| `late_payment` | "expiry after which the order can no longer be paid" (SDK) | the claim does not repeat the expiry test, so an order that expires in between is paid late |
| `shadowing` | "if two active templates match the same SMS, the earliest-created wins silently" (docs, and the backend's README in nearly the same words) | templates are ordered by priority and, within one, a business's own come before the global ones; age decides only after that, so a younger own template reads what an older global one also reads |
| `acknowledged_loss` | "Any returned status counts as acknowledged because the server dedups" | an SMS whose storing failed is answered "error" and marked sent |
| `refused_batch` | "they upload automatically when connectivity returns" | a batch with one body that is empty or over 4096 characters is refused whole, and the same oldest rows are sent again for ever |

**Bounds and why they are enough.**

- *Verify.* Two requests race; whoever observes the outcome is the invariant. Two
  orders and one payment are enough for a double spend, and two payments of one
  trail plus a calibration for every order of the trail's points, with three
  instants so that each pair may be earlier, equal or later, in the times they
  bear and in those at which they appear. `MaxClock` bounds
  `Tick` and nothing else. `MaxAttempts` is out of the way (9) except in
  `tenancy`, where it is 1.
- *Ingest.* Two uploads are the smallest number that overlap, in one batch of
  two messages and batches of one, so that a message follows another that
  failed, and a batch is repeated while its first upload runs. The own template
  is younger than the global one: ownership and age disagree. Its script would
  rewrite TrxID and balance; `AllowUnsafe` is FALSE in the runs and any Boolean
  in the proofs. The global template is a regular expression: it finds a balance
  below zero in one SMS and one that is no number in another, so that `Match`
  fails. `MaxMoney` is small and never reached in the runs, and no script there
  rejects or skips an SMS; the proofs are for every end of a script.
- *Templates.* Two rows let two processes both insert one builtin; one builtin
  suffices, since the seeder treats each alone. `BoundedTexts` are all texts of
  up to 7 lexemes out of 5, of up to 4 pieces out of 10 (braces that are nested,
  stray or empty, optional names, unknown names) and of up to 5 pieces out of 4:
  both required placeholders with something between them take 7 lexemes. The
  limit on their length is 22 bytes in the run (1024 in the code), and `Filled`
  are texts of both modes with up to 6 bytes or blanks more, which end below it,
  on it and beyond it, some of them beyond it only for blanks that do not count.
- *Credentials.* For a token to be taken for another's there must be two keys, of
  two businesses, whose prefixes are the same, so that the candidate list has two
  entries and the hash decides; while only one token is issued the other has the
  prefix and is nobody's. Two calls on one key race for the same UPDATE; two
  requests and two instants put a use in an interval of one and at its very end.
  Two phones of one prefix, three tokens and longer intervals are left to the
  proofs, which are for any number.
- *Paging.* A walk may collect two items and the list may have four rows: it ends,
  or throws at its third item, and without that guard it would send more requests
  than it may. Two rows have one time, so that their order changes from page to
  page. The requested page size, 2, is above the server's `MaxLimit`, 1, so the
  client's and the server's idea of a page differ. The walk through the businesses
  filters by name only, so a row that leaves a list and comes back is left to the
  proofs.
- *Capture.* A batch and a run of one are enough to fill both: with two rows
  pending a run ends with a backlog. One fault, at any moment and of any kind, is
  the bound `MaxFaults`; lost wake-ups need none.

Symmetry sets (requests in `tenancy` and `balance`, the businesses, keys, tokens,
requests and calls of `credentials`, rows and processes in `seeding`) are sets
that no definition tells apart, and are used only in runs without liveness.

Capture is checked for deadlock and has none: the heartbeat goes on, or the user
may resume it. The others say `CHECK_DEADLOCK FALSE`: the real system stops when
nobody calls it. In the models requests, uploads, calls and walks are served
once and the clock is bounded, so a behaviour may end in such a state.

**Fairness.** `Verify!Fairness`: a handler that can take its next step takes it
(goroutines are scheduled; a statement returns or fails, and `Abort` stands for
the failure), the sweeper's ticker fires again after every tick (main.go:56-76,
`continue` after an error), and time passes. Orders, SMS, calibrations, aborts
and crashes are never forced. `Ingest!FairSpec`: a running upload keeps
running, no more. `Capture!Fairness`: coroutines and the heartbeat loop run,
WorkManager starts a job whose constraint holds, the network comes back, and the
system (START_STICKY, BootReceiver, the next start of the app) restarts a killed
service. Nothing forces a paused service to resume, hence the exception in
`PendingIsSent` and `ListedIsDelivered`; it is a real one, since the receiver
captures while the service is paused and only the heartbeat makes up for an
enqueue that KEEP dropped. Templates, Credentials and Paging promise nothing that must
eventually happen and have no fairness: what a walk promises is a bound on the
requests it sends.

Each property has at least one mutant in PROJECT.json: an operator `Name_Bug` next to
`Name`, with a plausible bug (the unique index missing, a tenant filter dropped,
`<=` for `<`), under which TLC finds the property violated.

## 4. What is proved

VerifyProofs.tla proves, for all sets of businesses, orders, phones, payments
and requests, all inputs, limits and clocks that satisfy `VerifyAssumption`
(amounts are positive, each phone has one owner, NULL is no value, requests are
finitely many, inputs are well typed):

| Theorem | Property |
| --- | --- |
| `Invariance` | `Spec => []Inv` |
| `TypeCorrect` | `Spec => []TypeOK` |
| `TransactionPaysOnce` | `Spec => []SingleClaim` |
| `PaidInFull` | `Spec => []PaidByMatchingPayment` |
| `OneSuccess` | `Spec => []SuccessIsExclusive` |
| `ReadsHold` | `Spec => []ReadsStayTrue` |
| `SettledIsFinal` | `Spec => OrdersSettleOnce` |
| `LedgerRefinement` | `Spec => ImplementsLedger` |

**The argument.** The claim tests only that the order is pending and the
transaction unclaimed. That the transaction exists, belongs to the business, is
a credit and has the right amount was tested several statements earlier, on rows
read then. So none of the safety properties is inductive by itself: the
induction needs to know that what a request has read *stays* true. This is
`ReadsStayTrue`: `KnowsOrder(r)` (the order exists and has the price r read) from
the second statement on, `KnowsPayment(r)` (the transaction exists, is the
business's, a credit, worth that price) from the fourth. It is kept because
orders never change their price, transactions are never updated, and no step of
another request writes r's locals; these are the frame lemmas `TablesFrame` and
`RequestsFrame`. `Inv` is the conjunction of `TypeOK`, `OrdersArePriced`,
`SingleClaim`, `PaidByMatchingPayment`, `ReadsStayTrue` and
`SuccessIsExclusive`; `InductiveStep` has one lemma per kind of step, and
`ClaimInv` is the one in which all parts meet. The refinement proof shows the
same steps again on the ledger's side: `CreateOrderOpens`,
`InsertTransactionReceives`, `SweepExpires`, `ClaimPays`, and a stutter for
everything else.

AnswersProofs.tla goes on from there, under the same assumptions:

| Theorem | Property |
| --- | --- |
| `AnswersKeep` | `Spec => [](Inv /\ Answers /\ Trails)` |
| `UsedMeansUsed` | `Spec => []AlreadyUsedTruthful` |
| `AuditIsTrue` | `Spec => []AuditTruthful` |
| `OwnLimit` | `Spec => []LimitIsOwn` |
| `BalancesContinue` | `Spec => []PaidContinuity` |
| `TooLateIsRefused` | `Spec => ExpiredIsRefused` |

**The argument.** An answer is worth what it was given for, so it is enough that
neither changes. A request that knows its answer only logs it (`AnswerStays`), its
audit row is written once (`RowStays`), and an order that holds a payment holds it
for good (`PaymentStays`). `Answers` says of each request what its row repeats and
what its answer rests on. That `UsedMeansUsed` holds of the transaction *found*
needs the `KnowsPayment` of the first invariant, and `OwnLimit` that the log of a
business only grows (`LogGrows`), for which requests must be finitely many.
A balance is believed on three reads of a trail that changes meanwhile, and not only
at its end: a row stamped before the payment may appear at any time. So
`PaidContinuity` speaks of what was *on record* before the payment came
(`KnownBefore`: visible at an earlier instant than its `received_at`), which no
later row changes (`KnownStays`). Every point on record is also stamped earlier
(`KnownIsEarlier`, since no row is visible before it is stamped), so the query for
the previous balance sees them all and answers with a point as new as each of
them, even if it is one that appeared later; and a point once seen stays
(`EarlierGrows`). With `<=` in GetPreviousBalance it could be a point of the
payment's own instant. Later
calibrations are only added. Hence a verdict once reached holds for good
(`BelievableStays`), `KnowsTrail` carries it from the reads to the claim, and
`PaidByClaim` from the claim to the order. `TooLateIsRefused` follows a request
from the moment its order is stale: the order stays stale or becomes final, so the
read that decides cannot find it payable.

IngestProofs.tla proves, for all phones, messages, templates, batches, numbers
of uploads, captures and endings of scripts that satisfy `IngestAssumption` and
`ReadingAssumption` (a message belongs to one phone, a batch holds messages of
one phone and none twice, captured amounts are numbers, NULL is neither a
template, a transaction nor an SMS):

| Theorem | Property |
| --- | --- |
| `Invariance`, `TypeCorrect` | `Spec => []Inv`, `Spec => []TypeOK` |
| `OneSmsOnePayment` | `Spec => []OneTransactionPerMessage` |
| `ReadByTheRightTemplate` | `Spec => []RightTemplate` |
| `RecordedAsTheSmsSays` | `Spec => []AsTheSmsSays` |
| `ParsedMeansRecorded` | `Spec => []ParsedIsRecorded` |
| `SwitchedOffIsUnused` | `Spec => DeactivatedIsUnused` |
| `RecordsStay` | `Spec => RecordsAreFinal` |
| `InboxRefinement` | `Spec => ImplementsInbox` |

**The argument.** Nothing in a transaction's row prevents a second one for the
same SMS under another TrxID or template: the unique index is on the template
and the TrxID. What prevents it is that handling an SMS begins with storing it,
which only one upload can do (`Exclusive`), and that until that upload inserts,
there is no transaction of the message (`KnowsMessage`). `HeldSince` and
`ExclusiveKept` show that a message comes into an upload's hands only by
`InsertRawMessage` finding it absent. That the list of templates, read once per
batch, still gives the right template for its last message is `KnowsTemplates`:
templates are only switched off, so whatever is active later was in it.
`KnowsReading` is what the template loop leaves behind. `Knows(u)` is all that
upload `u` has learnt, `MoverKnows` shows that each step of `u` keeps it,
`UnmovedKnows` that the steps of others do. `AsTheSmsSays` needs no state beyond
`RightTemplate` and the constraints of the columns: `ReadingIsExact` shows that
what `Read` returns agrees with what was captured, to half of a hundredth, for
every capture and every end of a script. `DeactivatedIsUnused` is proved from an
invariant of its own, `Unused`, which holds from the moment its premise does.

**The inbox.** The statements of an upload map to the steps of `SmsInbox` one by
one: `InsertRawMessage` to `Store`, `InsertTransaction` to `Record`,
`MarkRawMessage` to `Settle`, a failed statement that was committed to the same,
and all else to a stutter (`RawMessageIsStored`, `TransactionIsRecorded`,
`MarkedIsSettled`, `DeactivateWithdraws`). The guards of the abstract steps are
what an upload knows and the database does not test. That an SMS still pending
has brought no payment when its transaction is inserted, or when it is settled
as unmatched, skipped or in error, is `KnowsMessage`; that no template on offer
comes before the one chosen, although the list was read earlier, is
`KnowsReading` with `KnowsTemplates`; that an SMS marked parsed tells of a payment
on record is `KnowsReading` again, since between the insertion and the mark the
transaction stays.

TemplatesProofs.tla proves, for all rows, businesses, processes, withdrawals,
inputs and lists of builtin templates that satisfy `TemplatesAssumption` (inputs
are bodies the editor can send, the builtins compile and have distinct names, the
administrator is no business, NULL is no value):

| Theorem | Property |
| --- | --- |
| `Invariance`, `TypeCorrect` | `Spec => []Inv`, `Spec => []TypeOK` |
| `StoredCompiles` | `Spec => []StoredIsUsable` |
| `SeededBeforeServing` | `Spec => []ServesSeeded` |
| `NoTrespass` | `Spec => TenantsApart` |
| `OffStaysOff` | `Spec => DeactivatedIsFinal` |
| `SeedsOnce` | `Spec => SeedsOnlyMissing` |

**The argument.** Whoever writes the table writes one row, and `MayBecome` says
what that row may become: its text compiles to the pattern kept with it, it keeps
the business and the name it had, and it is not switched on again (`NewRowUsable`,
`EditedUsable`, `DeactivatedUsable` and `BuiltinUsable`, one for each place in the
code that builds a row). `TableMoves` says that a step does no more than this, and
the rest follows from it. A name that has a global row keeps one (`SeededGrows`),
so what a seeder has passed is in the table whatever others do meanwhile
(`PassedAreSeeded`), and all of it is once the process serves. That a seeder
inserts only what was missing when its process started needs `FoundStays`: what
was there then is still there, so the lookup would have found it. A deactivation
is two statements; the row it rereads for its answer may have been edited between
them, and is inactive all the same (`RereadIsInactive`). For the tenants,
`InReach` says whose rows a call writes and `AnswerFits` whose it shows.

CredentialsProofs.tla proves, for all businesses, keys, phones, tokens, prefixes,
requests, calls and intervals (`CredentialsAssumption`), `Invariance`,
`TypeCorrect`, `NoImpersonation` (`ActsAsItself`), `OutAtOnce`
(`WithdrawnIsOut`), `OneRevocation` (`RevocationIsReported`), `UseIsSeen`
(`LastUsedIsFresh`) and `NothingReturns` (`CredentialsAreFinal`). Its invariant
stands in Credentials.tla. `KeyInv` relates a key's last use, its stamp in the
table and the throttle's memory of it: the throttle remembers when a stamp
*began*, so a stamp that was written is at least that young, and a use that was
throttled is less than an interval younger. `CallInv` says that a call which
found nothing to revoke rereads a key that is revoked, for good. The lemmas of
the section "Statements" say what each statement does to its table, and the
invariant's parts are shown to survive them one by one.

SmsTemplateProofs.tla is about the operators alone.
`CompileAcceptsTheLanguage`: for every sequence of lexemes and every limit,
`Compile` succeeds if and only if the text is `Grammatical`, which includes that it
has no more bytes than the limit, and then may capture exactly `PlaceholdersOf` it;
`CompileRegex` accepts no text beyond the limit either. TemplatesProofs.tla cites it in `CompilerAgrees`
(`Spec => []CompilesTheLanguage`), for which `TemplatesAssumption` says that texts
are sequences of lexemes.

**The argument.** `tokenize` is one scan from left to right that stops at the first
error; the grammar speaks of pairs of braces anywhere. They are related suffix by
suffix: `Agrees(s, i, u)` says that the tokens `u` scanned from position i on hold
a `Bad` one exactly if the braces from i on are ill-formed or two placeholders
touch; that otherwise they name the same fields and repeat one exactly if two
pairs name it; and that they begin with a literal exactly if the text at i is no
brace. `TextAgrees` and
`PlaceholderAgrees` extend that by a literal and by a placeholder: the brace at i
pairs with the next closing one and with nothing else (`OnePartner`), and a
position inside the pair begins no other. `ScanAgrees` is the induction, on the
length of the suffix. The provers cannot instantiate the library's induction
theorems, so the module brings its own over the members of a set
(`SetInduction`, from the well-foundedness of < on numbers), which a first-order
prover can. That the recursive scan is a function at all (`ScanIsDefined`) is
proved the same way, from approximations that agree on longer and longer suffixes
(`ScanLooksAhead`); of `normalizeText` only that it makes a sequence of lexemes
is needed (`NormalizedIsText`), since both sides read its result, and of
`ByteLength` that it is a number (`LengthIsNat`, by the same kind of induction), so
that "longer than the limit" and "at most the limit" are opposites.

PagingProofs.tla proves, for every table, page size, limit, number of walks, bound
on retries and order in which rows are committed (`PagingAssumption`),
`Invariance`, `TypeCorrect`, `NothingIsSkipped` (`NothingSkipped`),
`OnlyArrivalsRepeat` (`RepeatsNeedArrivals`) and `WalksStop` (`WalksAreBounded`).

**The argument.** A page is a range of positions of a list that changes between two
requests, and so the invariant is about positions: `Rank(w, i)`, the number of
newer rows in w's list. A row that arrives can only raise the rank of the others,
one that leaves can only lower it; `RowsMoved` says so for both statements.
`StillAhead`: as long as nothing has left, whatever the walk began with and has
not listed has a rank of at least the offset, or is in the page in hand, or comes
after it, and then neither a short page nor the total ends the walk early (the
total may be counted after more rows have come, never fewer). `Once`: as long as
nothing has arrived, what is listed has a rank below the offset and what is in
the page in hand is not listed yet. Both need `Position`: the offset is the number
of rows yielded, which is why a page that was shortened by the server's own limit
costs nothing. `PageHolds` is the lemma about LIMIT and OFFSET: a row is in the
page exactly if its rank is in the range. Rows created at the same instant have
no order of their own and are excepted (`Tied`). `Budget` bounds the requests
without a word about the rows: each item collected stands for at most one request
and its retries. A page that brings none ends the walk, one that brings some pays
for the next request (`PageSpends`), and a walk that has more than `MaxItems` sends
none (`WithinBudget`); so it stops even if rows arrive faster than it reads them.

CaptureProofs.tla does the same as CredentialsProofs.tla for the phone, for all sets of SMS, keys, template
lists, batch sizes and bounds (`CaptureAssumption`): `PhoneTyped` (`TypeOK`),
`SentIsHandled` (`SentWasHandled`) and `UploadedUnderOneId` (`OneIdPerMessage`).
`Inv` adds what the two rest on: `OneRowPerMessage`, the unique index, and
`OnlyRowsTravel`, that whatever the worker carries or the server was handed is a
row, and that the batch being marked was accepted. Rows are never deleted, so an
id the server has seen still occupies its key, which is why a broadcast repeated
after the upload cannot get a second one. `BatchIsPending` is the lemma about
`pendingOldest`.

`OutboxRefinement` (`Spec => ImplementsOutbox`) maps each step of the phone to one
of `Outbox` or to a stutter: `InsertKeeps`, `BatchIsTaken`, `BatchIsHanded`,
`MarkingNotes` and, for whatever ends a run, `GivenUp`. The mapping speaks of keys
and the phone of rows, and it is `OneRowPerMessage` that lets the one stand for the
other (`KeyFindsRow`): without it the id of a message would be a choice that could
change from step to step. A batch is taken only while the worker has none in hand,
which is the part of `TypeOK` about `todo`.

The `TypeOK` of Verify, Ingest, Templates, Credentials and Capture is proved and
not checked again by a run.

## 5. What is only model-checked

Every invariant and every action property of the runs that pass is stated by a
theorem. What remains are liveness under fairness and ENABLED, which are outside
the prover's reach: `EveryOrderSettles`, `StoredMessagesSettle`, `PendingIsSent`,
`ListedIsDelivered`.

## 6. What is not modelled

- **Android multipart assembly.** A message of Capture is a joined one. What
  `MultipartAssembler` may lose or mix before (a reused reference, a death
  between the removal of the entry and the storing of the SMS) is listed as a
  hazard and covered by no property.
- **RE2 and goja.** What a pattern captures and how a script ends are arguments.
  The digits and separators of an amount, the script's sandbox, its time limit
  and its helper functions are inside them.
- **Time inside a statement.** The rows of the balance trail and of the lists are
  stamped with the start of their statement and appear later (`since`,
  `CreatedAt`). Elsewhere `now()` is the moment of the step: the sweeper's and the
  limiter's comparison with it, `paid_at`, the time of an attempt, `revoked_at`,
  `last_used_at`. A statement that compares with an older `now()` and takes effect
  later is one the sweeper runs later, or a limiter that counts over an older
  window; neither is told apart by a property. An order whose `paid_at` is older
  than its payment's commit is the case of `late_payment` again. A credential
  is in use until the statement that withdraws it takes effect, so `WithdrawnIsOut`
  counts from that moment. The process and
  the database share one clock; a difference only widens that window.
- **Data that is carried and never read**: metadata, source addresses, notes,
  labels, the wording of errors.
- **Reads for display**: statistics, single rows, the phone's status, the
  preview of a template (`POST /providers/test`). They change nothing.
- **What a suspension stops.** `SetBusinessStatus` is an action of Credentials and
  no statement behind a key or a phone reads what it sets, in the code as in the
  model: the keys of a suspended business go on verifying. The Studio tells the
  administrator that the business "will stop verifying orders until reactivated"
  (`studio/src/web/pages/Businesses.svelte:92`). No interleaving is needed to see
  it, and no run is spent on it.
- **Queries without a caller**: `CancelOrder`, `SetProviderPriority`,
  `ListPendingRawMessages`.
- **The SDK** beyond paging: the lengths of its delays, the deadline and the
  decoding of bodies. A request fails or is answered.
- **The Studio server** (sessions, the login throttle, a proxy that forwards one
  request to one response), **the user interfaces, configuration, HTTP wiring**:
  no state shared with the tables above, or none that changes.

## 7. Plan

1. **Multipart**: reassembly keyed by (sender, reference, total), pruning, reuse
   of references, death between removal and storing.
2. **System**: phone, Ingest and Verify composed over one `transactions` table.
   The three abstract specifications are made for it: `Outbox` hands an SMS over,
   `SmsInbox` records its payment, `OrderLedger` pays an order with it. What is
   missing is the promise of the whole, "a payment reported by SMS pays the order
   it is submitted for, once", and the proof that the three compose to it.
3. **Throttle**: the login throttle with eviction at its bound.
