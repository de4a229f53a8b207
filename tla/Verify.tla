-------------------------------- MODULE Verify --------------------------------
(***************************************************************************)
(* POST /orders/:external_order_id/verify, one step per database statement *)
(* (backend/internal/services/verify.go), with the handlers and jobs that  *)
(* write the same tables meanwhile: order creation, the ingestion of a     *)
(* parsed SMS, balance calibration and the expiry sweeper.                 *)
(*                                                                         *)
(* A statement is atomic and takes effect at `clock`. What an INSERT stamps *)
(* with DEFAULT now() is the moment it was started, which may be long past *)
(* when its row becomes visible. Between two statements of a request       *)
(* anything else may run: the code opens no database transaction around    *)
(* them.                                                                   *)
(*                                                                         *)
(* A definition Name_Bug is Name with one plausible bug, kept beside it to *)
(* show that the properties notice; nothing refers to it.                  *)
(***************************************************************************)
EXTENDS Integers, FiniteSets

CONSTANTS
  Businesses,         \* tenants
  ExtIds,             \* external_order_id values merchants use
  TrxIds,             \* TrxID values of the mobile-money operators
  Providers,          \* SMS templates; (provider, TrxID) is unique
  Devices,            \* phones
  OwnerOf,            \* OwnerOf[d]: the business device d belongs to
  Requests,           \* verify requests, each served once
  Amounts,            \* the money amounts that occur
  NULL,               \* SQL NULL
  OrderInputs,        \* bodies of POST /orders
  TxInputs,           \* what the parser extracts from the SMS that arrive
  CalibrationInputs,  \* bodies of the calibrate-balance calls
  MaxAttempts,        \* RATE_LIMIT_MAX_ATTEMPTS
  Window,             \* RATE_LIMIT_WINDOW_SECONDS, in ticks
  MaxClock            \* bound on the clock, a bound of the model only

OrderIds == Businesses \X ExtIds
TxIds    == Providers \X TrxIds

\* A row of table orders; "absent" stands for no row.
OrderRow == [status : {"absent", "pending", "paid", "expired"},
             amount : Amounts \cup {NULL}, expires : Nat \cup {NULL},
             matched : TxIds \cup {NULL}, paidAt : Nat \cup {NULL}]

ASSUME VerifyAssumption ==
  /\ NULL \notin Int \cup TxIds \cup (Businesses \X Amounts) \cup OrderRow
  /\ Amounts \subseteq Nat \ {0}
  /\ OwnerOf \in [Devices -> Businesses]
  /\ IsFiniteSet(Requests)
  /\ OrderInputs \subseteq [amount : Amounts, expires : Nat \cup {NULL}]
  /\ TxInputs \subseteq [device : Devices, provider : Providers, trx : TrxIds,
                         amount : Amounts, effective : Amounts \cup {NULL},
                         balance : Int \cup {NULL},
                         direction : {"credit", "debit"}]
  /\ CalibrationInputs \subseteq [device : Devices, provider : Providers,
                                  balance : Nat]
  /\ MaxAttempts \in Nat
  /\ Window \in Nat
  /\ MaxClock \in Nat

VARIABLES
  clock,         \* the database's now(); the Go process reads the same clock
  orders,        \* table orders, by (business, external_order_id)
  transactions,  \* table transactions, by (provider, trx_id); NULL: no such row
  calibrations,  \* table balance_calibrations, append-only
  attempts,      \* table verification_attempts: the row request r wrote, or NULL
  pc,            \* pc[r]: the statement request r executes next
  call,          \* call[r]: who calls, the order in the path, the TrxID in the body
  order,         \* order[r]: the order row as r read it, or NULL
  tx,            \* tx[r]: the transaction r found, or NULL (rows never change)
  anchor,        \* anchor[r]: the later calibration r read, or NULL
  outcome        \* outcome[r]: the result r answers, "none" until it is known

tables == <<orders, transactions, calibrations, attempts>>
locals == <<pc, call, order, tx, anchor, outcome>>
vars   == <<clock, tables, locals>>

-------------------------------------------------------------------------------
\* Rows and values.

NoOrder == [status |-> "absent", amount |-> NULL, expires |-> NULL,
            matched |-> NULL, paidAt |-> NULL]

\* visibleAt is no column: it remembers when the row could first be read.
TxRow == [device : Devices, amount : Amounts, effective : Amounts \cup {NULL},
          balance : Int \cup {NULL}, direction : {"credit", "debit"},
          receivedAt : Nat, visibleAt : Nat]

CalibrationRow == [device : Devices, provider : Providers, balance : Nat, at : Nat,
                   visibleAt : Nat]

Results == {"success", "not_found", "already_used", "amount_mismatch",
            "balance_mismatch", "order_expired", "order_not_pending",
            "wrong_direction"}

AttemptRow == [business : Businesses, order : OrderIds \cup {NULL}, trx : TrxIds,
               result : Results, tx : TxIds \cup {NULL}, at : Nat]

Calls == [business : Businesses, ext : ExtIds, trx : TrxIds]

Steps == {"limit", "order", "transaction", "calibration", "count", "previous",
          "claim", "reread", "log"}

TypeOK ==
  /\ clock \in Nat
  /\ orders \in [OrderIds -> OrderRow]
  /\ transactions \in [TxIds -> TxRow \cup {NULL}]
  /\ calibrations \subseteq CalibrationRow
  /\ attempts \in [Requests -> AttemptRow \cup {NULL}]
  /\ pc \in [Requests -> Steps \cup {"idle", "done"}]
  /\ call \in [Requests -> Calls \cup {NULL}]
  /\ order \in [Requests -> OrderRow \cup {NULL}]
  /\ tx \in [Requests -> TxIds \cup {NULL}]
  /\ anchor \in [Requests -> Nat \cup {NULL}]
  /\ outcome \in [Requests -> Results \cup {"none", "rate_limited", "error"}]

Init ==
  /\ clock = 0
  /\ orders = [k \in OrderIds |-> NoOrder]
  /\ transactions = [k \in TxIds |-> NULL]
  /\ calibrations = {}
  /\ attempts = [r \in Requests |-> NULL]
  /\ pc = [r \in Requests |-> "idle"]
  /\ call = [r \in Requests |-> NULL]
  /\ order = [r \in Requests |-> NULL]
  /\ tx = [r \in Requests |-> NULL]
  /\ anchor = [r \in Requests |-> NULL]
  /\ outcome = [r \in Requests |-> "none"]

OrderOf(r) == <<call[r].business, call[r].ext>>

Stale(o) == o.expires # NULL /\ o.expires < clock

BusinessOf(k) == OwnerOf[transactions[k].device]

\* The amount orders are matched against: the script's, or the bank's.
EffectiveAmount(t) == IF t.effective = NULL THEN t.amount ELSE t.effective

\* uq_orders_claimed_transaction: another order holds the transaction.
HeldElsewhere_NoIndex(k, o) == FALSE
HeldElsewhere(k, o) == \E other \in OrderIds \ {o} : orders[other].matched = k

-------------------------------------------------------------------------------
\* The rest of the program, as far as it writes the tables verification reads.

\* The unique key (business_id, external_order_id) admits one row.
Insertable_Upsert(o) == o.status \in {"absent", "pending"}
Insertable(o) == o.status = "absent"

\* POST /orders; repeating it returns the first row, whatever the new body says.
CreateOrder(k, in) ==
  /\ Insertable(orders[k])
  /\ orders' = [orders EXCEPT ![k] =
       [status |-> "pending", amount |-> in.amount, expires |-> in.expires,
        matched |-> NULL, paidAt |-> NULL]]
  /\ UNCHANGED <<clock, transactions, calibrations, attempts, locals>>

\* InsertTransaction of the ingest service, started at `since` and now visible:
\* ON CONFLICT DO NOTHING, received_at DEFAULT now().
InsertTransaction(in, since) ==
  LET k == <<in.provider, in.trx>> IN
  /\ transactions[k] = NULL
  /\ transactions' = [transactions EXCEPT ![k] =
       [device |-> in.device, amount |-> in.amount, effective |-> in.effective,
        balance |-> in.balance, direction |-> in.direction,
        receivedAt |-> since, visibleAt |-> clock]]
  /\ UNCHANGED <<clock, orders, calibrations, attempts, locals>>

\* A merchant or an administrator anchors a balance trail, by a statement
\* started at `since`: calibrated_at DEFAULT now().
CalibrateBalance(in, since) ==
  /\ calibrations' = calibrations \cup
       {[device |-> in.device, provider |-> in.provider,
         balance |-> in.balance, at |-> since, visibleAt |-> clock]}
  /\ UNCHANGED <<clock, orders, transactions, attempts, locals>>

\* The WHERE clause of the sweeper.
Expirable_AnyStatus(o) == Stale(o)
Expirable_Reversed(o) == o.status = "pending" /\ o.expires # NULL /\ o.expires > clock
Expirable(o) == o.status = "pending" /\ Stale(o)

\* The sweeper's ExpireStaleOrders, one UPDATE for every stale order.
ExpireStaleOrders ==
  LET stale == {k \in OrderIds : Expirable(orders[k])} IN
  /\ stale # {}
  /\ orders' = [k \in OrderIds |->
       IF k \in stale THEN [orders[k] EXCEPT !.status = "expired"] ELSE orders[k]]
  /\ UNCHANGED <<clock, transactions, calibrations, attempts, locals>>

Tick ==
  /\ clock < MaxClock
  /\ clock' = clock + 1
  /\ UNCHANGED <<tables, locals>>

-------------------------------------------------------------------------------
\* One verify request: the middleware, then VerifyService.Verify.

Goto(r, step) ==
  /\ pc' = [pc EXCEPT ![r] = step]
  /\ UNCHANGED outcome

\* The result is known: only the audit row is left to write.
Conclude(r, result) ==
  /\ pc' = [pc EXCEPT ![r] = "log"]
  /\ outcome' = [outcome EXCEPT ![r] = result]

\* Authentication has fixed the business; the path and the body say the rest.
StartVerify(r, b, e, t) ==
  /\ pc[r] = "idle"
  /\ pc' = [pc EXCEPT ![r] = "limit"]
  /\ call' = [call EXCEPT ![r] = [business |-> b, ext |-> e, trx |-> t]]
  /\ UNCHANGED <<clock, tables, order, tx, anchor, outcome>>

\* The attempts of a business the log holds for the current window.
RecentAttempts_AllTenants(b) ==
  {r \in Requests : attempts[r] # NULL /\ attempts[r].at + Window > clock}
RecentAttempts(b) ==
  {r \in Requests : /\ attempts[r] # NULL
                    /\ attempts[r].business = b
                    /\ attempts[r].at + Window > clock}

\* The rate limiter counts the logged attempts; when the query fails it lets
\* the request through.
CheckRateLimit(r) ==
  /\ pc[r] = "limit"
  /\ \/ /\ Cardinality(RecentAttempts(call[r].business)) >= MaxAttempts
        /\ pc' = [pc EXCEPT ![r] = "done"]
        /\ outcome' = [outcome EXCEPT ![r] = "rate_limited"]
     \/ Goto(r, "order")  \* below the limit, or the count query failed
  /\ UNCHANGED <<clock, tables, call, order, tx, anchor>>

\* What the row read says: payable, or the result to answer at once.
Standing_LeftToSweeper(o) ==
  CASE o.status = "absent" -> "not_found"
    [] o.status = "pending" -> "payable"
    [] OTHER -> "order_not_pending"
Standing(o) ==
  CASE o.status = "absent" -> "not_found"
    [] o.status = "pending" /\ Stale(o) -> "order_expired"
    [] o.status = "pending" /\ ~Stale(o) -> "payable"
    [] OTHER -> "order_not_pending"

\* GetOrderByExternalID and the tests on the row it returns.
ReadOrder(r) ==
  LET o == orders[OrderOf(r)] IN
  /\ pc[r] = "order"
  /\ order' = [order EXCEPT ![r] = IF o.status = "absent" THEN NULL ELSE o]
  /\ \/ Standing(o) = "payable" /\ Goto(r, "transaction")
     \/ Standing(o) # "payable" /\ Conclude(r, Standing(o))
  /\ UNCHANGED <<clock, tables, call, tx, anchor>>

\* The business's transactions with a TrxID, whatever their provider.
TxOf_AllTenants(b, t) == {k \in TxIds : k[2] = t /\ transactions[k] # NULL}
TxOf(b, t) ==
  {k \in TxIds : k[2] = t /\ transactions[k] # NULL /\ BusinessOf(k) = b}

\* ORDER BY received_at DESC LIMIT 1: ties are broken arbitrarily.
LatestTx(b, t) ==
  {k \in TxOf(b, t) : \A other \in TxOf(b, t) :
                        transactions[other].receivedAt <= transactions[k].receivedAt}

\* FindTransactionByTrxIDForBusiness, then the direction and amount tests.
FindTransaction(r) ==
  /\ pc[r] = "transaction"
  /\ \/ /\ TxOf(call[r].business, call[r].trx) = {}
        /\ Conclude(r, "not_found")
        /\ UNCHANGED tx
     \/ \E k \in LatestTx(call[r].business, call[r].trx) :
          LET t == transactions[k]
              matches == EffectiveAmount(t) = order[r].amount
          IN /\ tx' = [tx EXCEPT ![r] = k]
             /\ \/ t.direction = "debit" /\ Conclude(r, "wrong_direction")
                \/ /\ t.direction # "debit"
                   /\ \/ ~matches /\ Conclude(r, "amount_mismatch")
                      \/ matches /\ t.balance = NULL /\ Goto(r, "claim")
                      \/ matches /\ t.balance # NULL /\ Goto(r, "calibration")
  /\ UNCHANGED <<clock, tables, call, order, anchor>>

\* The calibrations of the trail transaction k belongs to.
TrailCalibrations(k) ==
  {c \in calibrations : c.device = transactions[k].device /\ c.provider = k[1]}

\* The other transactions of that trail.
TrailTransactions(k) ==
  {j \in TxIds \ {k} : /\ j[1] = k[1]
                       /\ transactions[j] # NULL
                       /\ transactions[j].device = transactions[k].device}

\* The balances the trail states, and those known strictly before k was received.
TrailPoints(k) ==
  {[balance |-> c.balance, at |-> c.at, visibleAt |-> c.visibleAt] :
     c \in TrailCalibrations(k)}
    \cup {[balance |-> transactions[j].balance, at |-> transactions[j].receivedAt,
            visibleAt |-> transactions[j].visibleAt] :
             j \in {i \in TrailTransactions(k) : transactions[i].balance # NULL}}

Earlier_OrSame(k) == {p \in TrailPoints(k) : p.at <= transactions[k].receivedAt}
Earlier(k) == {p \in TrailPoints(k) : p.at < transactions[k].receivedAt}

Latest(points) == {p \in points : \A q \in points : q.at <= p.at}

LaterCalibrations(k) ==
  {c \in TrailCalibrations(k) : c.at >= transactions[k].receivedAt}

\* The balance that should follow p if transaction t came next.
Expected(p, t) == IF t.direction = "debit" THEN p - t.amount ELSE p + t.amount

\* GetLatestCalibrationAfter.
ReadLaterCalibration(r) ==
  /\ pc[r] = "calibration"
  /\ \/ LaterCalibrations(tx[r]) = {} /\ UNCHANGED anchor
     \/ \E c \in Latest(LaterCalibrations(tx[r])) :
          anchor' = [anchor EXCEPT ![r] = c.balance]
  /\ Goto(r, "count")
  /\ UNCHANGED <<clock, tables, call, order, tx>>

\* CountTransactionsAfter; with a later calibration and no later transaction
\* the calibration alone decides.
CountTransactionsAfter(r) ==
  LET t == transactions[tx[r]]
      later == {j \in TrailTransactions(tx[r]) :
                  transactions[j].receivedAt >= t.receivedAt}
      anchored == anchor[r] # NULL /\ later = {}
  IN
  /\ pc[r] = "count"
  /\ \/ anchored /\ anchor[r] = t.balance /\ Goto(r, "claim")
     \/ anchored /\ anchor[r] # t.balance /\ Conclude(r, "balance_mismatch")
     \/ ~anchored /\ Goto(r, "previous")
  /\ UNCHANGED <<clock, tables, call, order, tx, anchor>>

\* GetPreviousBalance: with no earlier point the check is skipped.
ReadPreviousBalance(r) ==
  LET t == transactions[tx[r]] IN
  /\ pc[r] = "previous"
  /\ \/ Earlier(tx[r]) = {} /\ Goto(r, "claim")
     \/ \E p \in Latest(Earlier(tx[r])) :
          \/ Expected(p.balance, t) = t.balance /\ Goto(r, "claim")
          \/ Expected(p.balance, t) # t.balance /\ Conclude(r, "balance_mismatch")
  /\ UNCHANGED <<clock, tables, call, order, tx, anchor>>

\* The WHERE clause of ClaimTransactionForOrder.
Claimable_AnyLive(o) == o.status # "expired"
Claimable(o) == o.status = "pending" /\ o.matched = NULL

\* Its SET clause.
PaidWith(o, k) ==
  [status |-> "paid", amount |-> o.amount, expires |-> o.expires,
   matched |-> k, paidAt |-> clock]

\* ClaimTransactionForOrder commits. Its caller learns so, or gets an error:
\* the connection or the request may be gone by then.
Claim(r) ==
  LET k == OrderOf(r) IN
  /\ pc[r] = "claim"
  /\ Claimable(orders[k])
  /\ ~HeldElsewhere(tx[r], k)
  /\ orders' = [orders EXCEPT ![k] = PaidWith(orders[k], tx[r])]
  /\ \/ Conclude(r, "success")
     \/ /\ pc' = [pc EXCEPT ![r] = "done"]
        /\ outcome' = [outcome EXCEPT ![r] = "error"]
  /\ UNCHANGED <<clock, transactions, calibrations, attempts, call, order, tx, anchor>>

\* The statement writes nothing: no row qualifies, or the unique index refuses.
ClaimRefused(r) ==
  /\ pc[r] = "claim"
  /\ \/ ~Claimable(orders[OrderOf(r)]) /\ Goto(r, "reread")
     \/ /\ Claimable(orders[OrderOf(r)])
        /\ HeldElsewhere(tx[r], OrderOf(r))
        /\ Conclude(r, "already_used")
  /\ UNCHANGED <<clock, tables, call, order, tx, anchor>>

\* The answer when no row qualified.
WhyRefused_Always(o) == "already_used"
WhyRefused_Idempotent(o) == IF o.status = "paid" THEN "success" ELSE "order_not_pending"
WhyRefused(o) == IF o.status = "paid" THEN "already_used" ELSE "order_not_pending"

\* The order is read again to say why.
RereadOrder(r) ==
  LET fresh == orders[OrderOf(r)] IN
  /\ pc[r] = "reread"
  /\ Conclude(r, WhyRefused(fresh))
  /\ order' = [order EXCEPT ![r] = fresh]
  /\ UNCHANGED <<clock, tables, call, tx, anchor>>

\* The results whose audit row names the transaction.
NamesTx == {"success", "wrong_direction", "amount_mismatch", "balance_mismatch"}

\* logAttempt: its error, if any, is dropped and the answer is sent anyway.
LogAttempt(r) ==
  /\ pc[r] = "log"
  /\ \/ attempts' = [attempts EXCEPT ![r] =
          [business |-> call[r].business,
           order |-> IF order[r] = NULL THEN NULL ELSE OrderOf(r),
           trx |-> call[r].trx, result |-> outcome[r],
           tx |-> IF outcome[r] \in NamesTx THEN tx[r] ELSE NULL,
           at |-> clock]]
     \/ UNCHANGED attempts
  /\ Goto(r, "done")
  /\ UNCHANGED <<clock, orders, transactions, calibrations, call, order, tx, anchor>>

\* A statement fails and Verify returns its error (500), or the client goes
\* away, or the process dies: the caller never learns a result.
Abort(r) ==
  /\ pc[r] \in Steps
  /\ pc' = [pc EXCEPT ![r] = "done"]
  /\ outcome' = [outcome EXCEPT ![r] = "error"]
  /\ UNCHANGED <<clock, tables, call, order, tx, anchor>>

-------------------------------------------------------------------------------
Serve(r) ==
  \/ CheckRateLimit(r)
  \/ ReadOrder(r)
  \/ FindTransaction(r)
  \/ ReadLaterCalibration(r)
  \/ CountTransactionsAfter(r)
  \/ ReadPreviousBalance(r)
  \/ Claim(r)
  \/ ClaimRefused(r)
  \/ RereadOrder(r)
  \/ LogAttempt(r)

Next ==
  \/ \E k \in OrderIds, in \in OrderInputs : CreateOrder(k, in)
  \/ \E in \in TxInputs, since \in 0 .. clock : InsertTransaction(in, since)
  \/ \E in \in CalibrationInputs, since \in 0 .. clock : CalibrateBalance(in, since)
  \/ ExpireStaleOrders
  \/ Tick
  \/ \E r \in Requests, b \in Businesses, e \in ExtIds, t \in TrxIds :
       StartVerify(r, b, e, t)
  \/ \E r \in Requests : Serve(r)
  \/ \E r \in Requests : Abort(r)

Spec == Init /\ [][Next]_vars

\* The handler of a request keeps running; the sweeper's ticker keeps firing;
\* time passes. Nothing makes a merchant, a phone or a fault act.
Fairness ==
  /\ \A r \in Requests : WF_vars(Serve(r))
  /\ WF_vars(ExpireStaleOrders)
  /\ WF_vars(Tick)

FairSpec == Spec /\ Fairness

-------------------------------------------------------------------------------
\* Correctness.

\* Two verifications racing for one TrxID never both win: a transaction settles
\* at most one order (the claim statement and its partial unique index).
SingleClaim ==
  \A o1, o2 \in OrderIds :
    o1 # o2 /\ orders[o1].matched # NULL => orders[o1].matched # orders[o2].matched

\* What paid an order is a credit of the same business whose effective amount
\* is the order's price, although the amount was compared with a row read
\* several statements before the claim.
PaidByMatchingPayment ==
  \A k \in OrderIds :
    /\ orders[k].status = "paid" <=> orders[k].matched # NULL
    /\ orders[k].status = "paid" =>
         LET j == orders[k].matched IN
         /\ transactions[j] # NULL
         /\ BusinessOf(j) = k[1]
         /\ transactions[j].direction = "credit"
         /\ EffectiveAmount(transactions[j]) = orders[k].amount

\* A caller told "success" owns the payment: its order is paid by the
\* transaction it submitted, and no other caller was told the same of that order.
SuccessIsExclusive ==
  \A r \in Requests : outcome[r] = "success" =>
    /\ orders[OrderOf(r)].status = "paid"
    /\ orders[OrderOf(r)].matched = tx[r]
    /\ tx[r][2] = call[r].trx
    /\ \A s \in Requests \ {r} : outcome[s] = "success" => OrderOf(s) # OrderOf(r)

\* "already_used" is only answered when the order is paid or the transaction
\* found holds an order, never for an order that merely expired meanwhile.
AlreadyUsedTruthful ==
  \A r \in Requests : outcome[r] = "already_used" =>
    \/ orders[OrderOf(r)].status = "paid"
    \/ \E o \in OrderIds : orders[o].matched = tx[r]

\* The audit log never overstates: a row that says "success" names the order and
\* the transaction that paid it, and an order has at most one such row.
AuditTruthful ==
  \A r \in Requests :
    LET row == attempts[r] IN
    row # NULL /\ row.result = "success" =>
      /\ orders[row.order].matched = row.tx
      /\ row.tx[2] = row.trx
      /\ \A s \in Requests \ {r} :
           attempts[s] # NULL /\ attempts[s].result = "success" =>
             attempts[s].order # row.order

\* The points of k's trail that could be read before k was received.
KnownBefore(k) == {p \in TrailPoints(k) : p.visibleAt < transactions[k].receivedAt}

\* A payment that states a balance was accepted for a reason: a calibration
\* stamped since states the same balance, or nothing was on record before the
\* payment came, or the balance follows from an earlier point of the same
\* device and provider, as new as every point on record when the payment came
\* ("the previous known balance", backend/README.md:134). The three reads
\* behind that verdict see three different databases, and rows stamped before
\* the payment may become visible between and after them.
PaidContinuity ==
  \A o \in OrderIds :
    LET k == orders[o].matched
        t == transactions[k]
    IN
    k # NULL /\ t.balance # NULL =>
      \/ \E c \in TrailCalibrations(k) : c.at >= t.receivedAt /\ c.balance = t.balance
      \/ KnownBefore(k) = {}
      \/ \E p \in TrailPoints(k) : /\ p.at < t.receivedAt
                                  /\ \A q \in KnownBefore(k) : q.at <= p.at
                                  /\ p.balance + t.amount = t.balance

\* One merchant's retries never exhaust another's limit: a request refused with
\* 429 belongs to a business that logged MaxAttempts attempts of its own.
LimitIsOwn ==
  \A r \in Requests : outcome[r] = "rate_limited" =>
    Cardinality({s \in Requests : /\ attempts[s] # NULL
                                  /\ attempts[s].business = call[r].business})
      >= MaxAttempts

\* Paid and expired are final, and so is the payment of a paid order: neither
\* the sweeper nor a late verification reopens or reassigns an order.
OrdersSettleOnce ==
  [][\A k \in OrderIds :
       /\ orders[k].status \in {"paid", "expired"} => orders'[k] = orders[k]
       /\ orders[k].status # "absent" =>
            orders'[k].amount = orders[k].amount /\ orders'[k].expires = orders[k].expires]_vars

\* A verification that has not yet read its order when the order's expiry
\* passes never succeeds, however the sweeper is delayed.
ExpiredIsRefused ==
  \A r \in Requests, k \in OrderIds :
    []((/\ pc[r] \in {"limit", "order"}
        /\ OrderOf(r) = k
        /\ orders[k].status = "pending"
        /\ Stale(orders[k])) => [](outcome[r] # "success"))

\* Every order with an expiry ends up paid or expired, with verifications of it
\* in flight or not, given that the sweeper keeps running.
EveryOrderSettles ==
  \A k \in OrderIds :
    (orders[k].status = "pending" /\ orders[k].expires # NULL)
      ~> (orders[k].status \in {"paid", "expired"})

\* The order r answers for exists, and its price is still the one r read.
KnowsOrder(r) ==
  /\ order[r] # NULL
  /\ orders[OrderOf(r)].status # "absent"
  /\ order[r].amount = orders[OrderOf(r)].amount

\* The transaction r found is one that may pay the order r read.
KnowsPayment(r) ==
  /\ tx[r] \in TxIds
  /\ transactions[tx[r]] # NULL
  /\ tx[r][2] = call[r].trx
  /\ BusinessOf(tx[r]) = call[r].business
  /\ transactions[tx[r]].direction = "credit"
  /\ EffectiveAmount(transactions[tx[r]]) = order[r].amount

\* What a request has read stays true until it claims, so that a claim which
\* tests only the order's status, in a later statement, is enough.
ReadsTrue(r) ==
  /\ pc[r] # "idle" => call[r] \in Calls
  /\ pc[r] \in {"idle"} \cup (Steps \ {"log"}) => outcome[r] = "none"
  /\ pc[r] = "log" => outcome[r] \in Results
  /\ pc[r] \in {"transaction", "calibration", "count", "previous", "claim"} =>
       KnowsOrder(r)
  /\ pc[r] \in {"calibration", "count", "previous", "claim"} => KnowsPayment(r)

ReadsStayTrue == \A r \in Requests : ReadsTrue(r)

\* An order that exists has a price.
OrdersArePriced ==
  \A k \in OrderIds : orders[k].status # "absent" => orders[k].amount \in Amounts

\* The inductive invariant behind the safety properties above.
Inv ==
  /\ TypeOK
  /\ OrdersArePriced
  /\ SingleClaim
  /\ PaidByMatchingPayment
  /\ ReadsStayTrue
  /\ SuccessIsExclusive

-------------------------------------------------------------------------------
\* The promise to the merchant: verification implements the order ledger.

Worth == Businesses \X Amounts

\* What a transaction can settle: only credits, and only within its business.
LedgerValue(k) ==
  IF transactions[k] = NULL \/ transactions[k].direction = "debit" THEN NULL
  ELSE <<BusinessOf(k), EffectiveAmount(transactions[k])>>

LedgerPrice(k) ==
  IF orders[k].status = "absent" THEN NULL ELSE <<k[1], orders[k].amount>>

Ledger == INSTANCE OrderLedger WITH
  Orders   <- OrderIds,
  Payments <- TxIds,
  status   <- [k \in OrderIds |-> orders[k].status],
  price    <- [k \in OrderIds |-> LedgerPrice(k)],
  value    <- [k \in TxIds |-> LedgerValue(k)],
  paidBy   <- [k \in OrderIds |-> orders[k].matched]

\* Every behaviour of the statements above is one of the ledger: orders are
\* settled once, in full, by unspent money of their own business.
ImplementsLedger == Ledger!Spec

-------------------------------------------------------------------------------
\* A sentence of the documentation that the code does not keep.

\* sdk/src/resources/merchant/orders.ts:12, "Optional RFC3339 expiry after which
\* the order can no longer be paid": an order is paid no later than it expires.
NeverPaidAfterExpiry ==
  \A k \in OrderIds :
    orders[k].status = "paid" /\ orders[k].expires # NULL =>
      orders[k].paidAt <= orders[k].expires
===============================================================================
