---------------------------- MODULE VerifyProofs ----------------------------
(***************************************************************************)
(* What Verify guarantees for every number of merchants, orders, payments, *)
(* phones and concurrent requests, proved with TLAPS.                      *)
(***************************************************************************)
EXTENDS Verify, TLAPS

-----------------------------------------------------------------------------
\* Type correctness.

\* The initial database is empty and no request has started.
LEMMA InitTyped == Init => TypeOK
  BY VerifyAssumption DEF Init, TypeOK, NoOrder, OrderRow

\* Closing an order changes its status and nothing else.
LEMMA ExpiredRow ==
  ASSUME NEW o \in OrderRow, NEW e, e = [o EXCEPT !.status = "expired"]
  PROVE  /\ e \in OrderRow
         /\ e.status = "expired" /\ e.amount = o.amount /\ e.matched = o.matched
  BY DEF OrderRow

\* What one sweep does to one order: it closes a pending one or leaves it alone.
LEMMA SweptRow ==
  ASSUME TypeOK, ExpireStaleOrders, NEW k \in OrderIds
  PROVE  /\ orders'[k] \in OrderRow
         /\ \/ orders'[k] = orders[k] /\ ~Expirable(orders[k])
            \/ /\ orders[k].status = "pending"
               /\ Expirable(orders[k])
               /\ orders'[k].status = "expired"
               /\ orders'[k].amount = orders[k].amount
               /\ orders'[k].matched = orders[k].matched
<1>1. orders[k] \in OrderRow
  BY DEF TypeOK
<1>2. orders'[k] = IF Expirable(orders[k]) THEN [orders[k] EXCEPT !.status = "expired"]
                                           ELSE orders[k]
  BY DEF ExpireStaleOrders
<1>3. CASE ~Expirable(orders[k])
  BY <1>1, <1>2, <1>3
<1>4. CASE Expirable(orders[k])
  <2>1. orders[k].status = "pending"
    BY <1>4 DEF Expirable
  <2>2. orders'[k] = [orders[k] EXCEPT !.status = "expired"]
    BY <1>2, <1>4
  <2>3. QED
    BY <1>1, <1>4, <2>1, <2>2, ExpiredRow
<1>5. QED
  BY <1>3, <1>4

\* The statements outside verification keep every table well typed.
LEMMA EnvironmentTyped ==
  ASSUME TypeOK,
         \/ \E k \in OrderIds, in \in OrderInputs : CreateOrder(k, in)
         \/ \E in \in TxInputs, since \in 0 .. clock : InsertTransaction(in, since)
         \/ \E in \in CalibrationInputs, since \in 0 .. clock :
              CalibrateBalance(in, since)
         \/ ExpireStaleOrders
         \/ Tick
  PROVE  TypeOK'
<1> USE DEF TypeOK
<1>1. CASE \E k \in OrderIds, in \in OrderInputs : CreateOrder(k, in)
  <2>1. PICK k \in OrderIds, in \in OrderInputs : CreateOrder(k, in)
    BY <1>1
  <2>2. in \in [amount : Amounts, expires : Nat \cup {NULL}]
    BY VerifyAssumption
  <2>3. QED  BY <2>1, <2>2 DEF CreateOrder, locals, OrderRow
<1>2. CASE \E in \in TxInputs, since \in 0 .. clock : InsertTransaction(in, since)
  <2>1. PICK in \in TxInputs, since \in 0 .. clock : InsertTransaction(in, since)
    BY <1>2
  <2>2. /\ in \in [device : Devices, provider : Providers, trx : TrxIds,
                   amount : Amounts, effective : Amounts \cup {NULL},
                   balance : Int \cup {NULL}, direction : {"credit", "debit"}]
        /\ <<in.provider, in.trx>> \in TxIds
    BY VerifyAssumption DEF TxIds
  <2>3. QED  BY <2>1, <2>2 DEF InsertTransaction, locals, TxRow
<1>3. CASE \E in \in CalibrationInputs, since \in 0 .. clock : CalibrateBalance(in, since)
  <2>1. PICK in \in CalibrationInputs, since \in 0 .. clock : CalibrateBalance(in, since)
    BY <1>3
  <2>2. in \in [device : Devices, provider : Providers, balance : Nat]
    BY VerifyAssumption
  <2>3. QED  BY <2>1, <2>2 DEF CalibrateBalance, locals, CalibrationRow
<1>4. CASE ExpireStaleOrders
  <2>1. \A k \in OrderIds : orders'[k] \in OrderRow
    BY <1>4, SweptRow
  <2>2. orders' = [k \in OrderIds |-> orders'[k]]
    BY <1>4 DEF ExpireStaleOrders
  <2>3. orders' \in [OrderIds -> OrderRow]
    BY <2>1, <2>2
  <2>4. QED  BY <1>4, <2>3 DEF ExpireStaleOrders, locals
<1>5. CASE Tick
  BY <1>5 DEF Tick, tables, locals
<1>6. QED
  BY <1>1, <1>2, <1>3, <1>4, <1>5

\* What a request may do to its own variables keeps them well typed.
LEMMA RequestTyped ==
  ASSUME TypeOK, NEW r \in Requests,
         \/ \E b \in Businesses, e \in ExtIds, t \in TrxIds : StartVerify(r, b, e, t)
         \/ Serve(r)
         \/ Abort(r),
         pc[r] # "idle" => call[r] \in Calls,
         pc[r] = "log" => outcome[r] \in Results
  PROVE  TypeOK'
<1> USE DEF TypeOK
<1>1. CASE \E b \in Businesses, e \in ExtIds, t \in TrxIds : StartVerify(r, b, e, t)
  BY <1>1 DEF StartVerify, tables, Calls, Steps
<1>2. CASE CheckRateLimit(r)
  BY <1>2 DEF CheckRateLimit, Goto, tables, Steps
<1>3. CASE ReadOrder(r)
  <2>1. OrderOf(r) \in OrderIds
    BY <1>3 DEF ReadOrder, OrderOf, OrderIds, Calls
  <2>2. QED
    BY <1>3, <2>1 DEF ReadOrder, Standing, Goto, Conclude, tables, Steps, Results
<1>4. CASE FindTransaction(r)
  BY <1>4 DEF FindTransaction, LatestTx, TxOf, Goto, Conclude, tables, Steps, Results
<1>5. CASE ReadLaterCalibration(r)
  BY <1>5 DEF ReadLaterCalibration, Latest, LaterCalibrations, TrailCalibrations,
              CalibrationRow, Goto, tables, Steps
<1>6. CASE CountTransactionsAfter(r)
  BY <1>6 DEF CountTransactionsAfter, Goto, Conclude, tables, Steps, Results
<1>7. CASE ReadPreviousBalance(r)
  BY <1>7 DEF ReadPreviousBalance, Goto, Conclude, tables, Steps, Results
<1>8. CASE Claim(r)
  <2>1. OrderOf(r) \in OrderIds
    BY <1>8 DEF Claim, OrderOf, OrderIds, Calls
  <2>2. QED
    BY <1>8, <2>1 DEF Claim, PaidWith, Conclude, Steps, Results, OrderRow
<1>9. CASE ClaimRefused(r)
  BY <1>9 DEF ClaimRefused, Goto, Conclude, tables, Steps, Results
<1>10. CASE RereadOrder(r)
  <2>1. OrderOf(r) \in OrderIds
    BY <1>10 DEF RereadOrder, OrderOf, OrderIds, Calls
  <2>2. QED
    BY <1>10, <2>1 DEF RereadOrder, WhyRefused, Conclude, tables, Steps, Results
<1>11. CASE LogAttempt(r)
  BY <1>11 DEF LogAttempt, Goto, OrderOf, OrderIds, Calls, Steps, AttemptRow
<1>12. CASE Abort(r)
  BY <1>12 DEF Abort, tables, Steps
<1>13. QED
  BY <1>1, <1>2, <1>3, <1>4, <1>5, <1>6, <1>7, <1>8, <1>9, <1>10, <1>11, <1>12
     DEF Serve

-----------------------------------------------------------------------------
\* The inductive invariant.

\* The empty database satisfies the invariant.
LEMMA InitInv == Init => Inv
<1> SUFFICES ASSUME Init PROVE Inv
  OBVIOUS
<1>1. TypeOK
  BY InitTyped
<1>2. OrdersArePriced /\ SingleClaim /\ PaidByMatchingPayment
  BY DEF Init, NoOrder, OrdersArePriced, SingleClaim, PaidByMatchingPayment
<1>3. ReadsStayTrue /\ SuccessIsExclusive
  BY DEF Init, ReadsStayTrue, ReadsTrue, SuccessIsExclusive, Steps
<1>4. QED
  BY <1>1, <1>2, <1>3 DEF Inv

\* The facts about tables survive a step that writes neither orders nor
\* transactions.
LEMMA TablesFrame ==
  ASSUME OrdersArePriced, SingleClaim, PaidByMatchingPayment,
         UNCHANGED <<orders, transactions>>
  PROVE  OrdersArePriced' /\ SingleClaim' /\ PaidByMatchingPayment'
  BY DEF OrdersArePriced, SingleClaim, PaidByMatchingPayment, BusinessOf,
         EffectiveAmount

\* A step outside verification keeps what requests know, provided it keeps the
\* orders that exist and the transactions recorded.
LEMMA RequestsFrame ==
  ASSUME TypeOK, ReadsStayTrue, SuccessIsExclusive, PaidByMatchingPayment,
         UNCHANGED locals,
         \A k \in OrderIds : orders[k].status # "absent" =>
            /\ orders'[k].status # "absent"
            /\ orders'[k].amount = orders[k].amount
            /\ orders[k].status = "paid" => orders'[k] = orders[k],
         \A k \in TxIds : transactions[k] # NULL => transactions'[k] = transactions[k]
  PROVE  ReadsStayTrue' /\ SuccessIsExclusive'
<1>1. ASSUME NEW r \in Requests, pc[r] # "idle", call[r] \in Calls
      PROVE  OrderOf(r) \in OrderIds /\ OrderOf(r)' = OrderOf(r)
  BY <1>1 DEF OrderOf, OrderIds, Calls, locals
<1>2. ASSUME NEW r \in Requests, pc[r] # "idle", call[r] \in Calls, KnowsOrder(r)
      PROVE  KnowsOrder(r)'
  BY <1>1, <1>2 DEF KnowsOrder, locals
<1>3. ASSUME NEW r \in Requests, KnowsPayment(r)
      PROVE  KnowsPayment(r)'
  BY <1>3 DEF KnowsPayment, BusinessOf, EffectiveAmount, locals
<1>4. ReadsStayTrue'
  BY <1>2, <1>3 DEF ReadsStayTrue, ReadsTrue, locals, Steps
<1>5. SuccessIsExclusive'
  BY <1>1 DEF SuccessIsExclusive, ReadsStayTrue, ReadsTrue, locals, Steps, TypeOK
<1>6. QED
  BY <1>4, <1>5

\* A new order is pending and unmatched, so it disturbs nobody.
LEMMA CreateOrderInv ==
  ASSUME Inv, NEW k \in OrderIds, NEW in \in OrderInputs, CreateOrder(k, in)
  PROVE  Inv'
<1> USE DEF Inv
<1>1. TypeOK'
  BY EnvironmentTyped
<1>2. in.amount \in Amounts
  BY VerifyAssumption
<1>3. OrdersArePriced' /\ SingleClaim' /\ PaidByMatchingPayment'
  BY <1>2 DEF CreateOrder, Insertable, TypeOK, OrderRow, OrdersArePriced, SingleClaim,
              PaidByMatchingPayment, BusinessOf, EffectiveAmount
<1>4. ReadsStayTrue' /\ SuccessIsExclusive'
  BY RequestsFrame DEF CreateOrder, Insertable, TypeOK
<1>5. QED
  BY <1>1, <1>3, <1>4

\* A transaction is only ever added, under a new (provider, TrxID).
LEMMA InsertTransactionInv ==
  ASSUME Inv, NEW in \in TxInputs, NEW since \in 0 .. clock, InsertTransaction(in, since)
  PROVE  Inv'
<1> USE DEF Inv
<1>1. TypeOK'
  BY EnvironmentTyped
<1>2. \A j \in TxIds : transactions[j] # NULL => transactions'[j] = transactions[j]
  BY DEF InsertTransaction, TypeOK
<1>3. OrdersArePriced' /\ SingleClaim'
  BY DEF InsertTransaction, OrdersArePriced, SingleClaim
<1>4. PaidByMatchingPayment'
  <2>1. ASSUME NEW k \in OrderIds, orders[k].status = "paid"
        PROVE  orders[k].matched \in TxIds
    BY <2>1 DEF PaidByMatchingPayment, TypeOK, OrderRow
  <2>2. QED
    BY <1>2, <2>1 DEF InsertTransaction, PaidByMatchingPayment, BusinessOf,
                      EffectiveAmount
<1>5. ReadsStayTrue' /\ SuccessIsExclusive'
  BY <1>2, RequestsFrame DEF InsertTransaction
<1>6. QED
  BY <1>1, <1>3, <1>4, <1>5

\* The sweeper closes pending orders, which nobody has paid.
LEMMA ExpireStaleOrdersInv ==
  ASSUME Inv, ExpireStaleOrders
  PROVE  Inv'
<1> USE DEF Inv
<1>1. TypeOK'
  BY EnvironmentTyped
<1>2. \A k \in OrderIds :
         \/ orders'[k] = orders[k]
         \/ /\ orders[k].status = "pending"
            /\ orders'[k].status = "expired"
            /\ orders'[k].amount = orders[k].amount
            /\ orders'[k].matched = orders[k].matched
  BY SweptRow
<1>3. OrdersArePriced' /\ SingleClaim'
  BY <1>2 DEF OrdersArePriced, SingleClaim
<1>4. PaidByMatchingPayment'
  <2>1. UNCHANGED transactions
    BY DEF ExpireStaleOrders
  <2>2. QED
    BY <1>2, <2>1 DEF PaidByMatchingPayment, BusinessOf, EffectiveAmount
<1>5. ReadsStayTrue' /\ SuccessIsExclusive'
  BY <1>2, RequestsFrame DEF ExpireStaleOrders
<1>6. QED
  BY <1>1, <1>3, <1>4, <1>5

\* Calibrations and time touch neither orders nor transactions.
LEMMA OtherEnvironmentInv ==
  ASSUME Inv,
         \/ \E in \in CalibrationInputs, since \in 0 .. clock : CalibrateBalance(in, since)
         \/ Tick
  PROVE  Inv'
<1> USE DEF Inv
<1>1. TypeOK'
  BY EnvironmentTyped
<1>2. UNCHANGED <<orders, transactions>> /\ UNCHANGED locals
  BY DEF CalibrateBalance, Tick, tables
<1>3. OrdersArePriced' /\ SingleClaim' /\ PaidByMatchingPayment'
  BY <1>2, TablesFrame
<1>4. ReadsStayTrue' /\ SuccessIsExclusive'
  BY <1>2, RequestsFrame
<1>5. QED
  BY <1>1, <1>3, <1>4

\* A step of request r that writes neither orders nor transactions keeps the
\* invariant if r's own reads stay true and it does not declare success.
LEMMA RequestStep ==
  ASSUME Inv, TypeOK', NEW r \in Requests, ReadsTrue(r)',
         UNCHANGED <<orders, transactions>>,
         \A s \in Requests \ {r} :
            /\ pc'[s] = pc[s] /\ call'[s] = call[s] /\ order'[s] = order[s]
            /\ tx'[s] = tx[s] /\ outcome'[s] = outcome[s],
         outcome'[r] = "success" =>
            outcome[r] = "success" /\ call'[r] = call[r] /\ tx'[r] = tx[r]
  PROVE  Inv'
<1> USE DEF Inv
<1>1. OrdersArePriced' /\ SingleClaim' /\ PaidByMatchingPayment'
  BY TablesFrame
<1>2. ASSUME NEW s \in Requests \ {r}
      PROVE  ReadsTrue(s)'
  <2>1. ReadsTrue(s) /\ OrderOf(s)' = OrderOf(s)
    BY DEF ReadsStayTrue, OrderOf
  <2>2. KnowsOrder(s) => KnowsOrder(s)'
    BY <2>1 DEF KnowsOrder
  <2>3. KnowsPayment(s) => KnowsPayment(s)'
    BY DEF KnowsPayment, BusinessOf, EffectiveAmount
  <2>4. QED
    BY <2>1, <2>2, <2>3 DEF ReadsTrue
<1>3. ReadsStayTrue'
  BY <1>2 DEF ReadsStayTrue
<1>4. SuccessIsExclusive'
  <2>1. \A s \in Requests : outcome'[s] = "success" =>
           /\ outcome[s] = "success"
           /\ call'[s] = call[s]
           /\ tx'[s] = tx[s]
           /\ OrderOf(s)' = OrderOf(s)
    BY DEF OrderOf
  <2>2. QED
    BY <2>1 DEF SuccessIsExclusive
<1>5. QED
  BY <1>1, <1>3, <1>4

\* Being served, a request has a call, and its order is one of the table's.
LEMMA ServedCall ==
  ASSUME Inv, NEW r \in Requests, pc[r] # "idle"
  PROVE  /\ call[r] \in Calls
         /\ OrderOf(r) \in OrderIds
         /\ OrderOf(r)[1] = call[r].business
  BY DEF Inv, ReadsStayTrue, ReadsTrue, OrderOf, OrderIds, Calls

\* A request only steps to a well-typed state.
LEMMA StepTyped ==
  ASSUME Inv, NEW r \in Requests,
         \/ \E b \in Businesses, e \in ExtIds, t \in TrxIds : StartVerify(r, b, e, t)
         \/ Serve(r)
         \/ Abort(r)
  PROVE  TypeOK'
  BY RequestTyped DEF Inv, ReadsStayTrue, ReadsTrue

\* The first steps: routing and the rate limiter read nothing that could go stale.
LEMMA StartInv ==
  ASSUME Inv, NEW r \in Requests,
         \/ \E b \in Businesses, e \in ExtIds, t \in TrxIds : StartVerify(r, b, e, t)
         \/ CheckRateLimit(r)
  PROVE  Inv'
<1> USE DEF Inv
<1>1. TypeOK'
  BY StepTyped DEF Serve
<1>2. ReadsTrue(r)
  BY DEF ReadsStayTrue
<1>3. CASE \E b \in Businesses, e \in ExtIds, t \in TrxIds : StartVerify(r, b, e, t)
  <2>1. ReadsTrue(r)'
    BY <1>2, <1>3 DEF StartVerify, ReadsTrue, TypeOK, Steps, Calls
  <2>2. QED
    <3>1. outcome'[r] # "success"
      BY <1>2, <1>3 DEF StartVerify, ReadsTrue
    <3>2. QED
      BY <1>1, <1>3, <2>1, <3>1, RequestStep DEF StartVerify, tables, TypeOK
<1>4. CASE CheckRateLimit(r)
  <2>1. ReadsTrue(r)'
    BY <1>2, <1>4 DEF CheckRateLimit, Goto, ReadsTrue, TypeOK, Steps
  <2>2. QED
    BY <1>1, <1>4, <2>1, RequestStep DEF CheckRateLimit, Goto, tables, TypeOK
<1>5. QED
  BY <1>3, <1>4

\* The order is read: the request knows its price.
LEMMA ReadOrderInv ==
  ASSUME Inv, NEW r \in Requests, ReadOrder(r)
  PROVE  Inv'
<1> USE DEF Inv
<1>1. TypeOK' /\ ReadsTrue(r) /\ call[r] \in Calls /\ OrderOf(r) \in OrderIds
  BY StepTyped, ServedCall DEF Serve, ReadsStayTrue, ReadOrder
<1>2. ReadsTrue(r)'
  <2>1. pc'[r] = "transaction" => KnowsOrder(r)'
    <3>1. /\ orders[OrderOf(r)] \in OrderRow /\ orders' = orders
          /\ OrderOf(r)' = OrderOf(r)
      BY <1>1 DEF ReadOrder, OrderOf, tables, TypeOK
    <3>2. pc'[r] = "transaction" => orders[OrderOf(r)].status # "absent"
      BY <1>1 DEF ReadOrder, Standing, Conclude, Goto, TypeOK
    <3>3. orders[OrderOf(r)].status # "absent" => order'[r] = orders[OrderOf(r)]
      BY <1>1 DEF ReadOrder, TypeOK
    <3>4. QED  BY <3>1, <3>2, <3>3, VerifyAssumption DEF KnowsOrder
  <2>2. QED
    BY <1>1, <2>1 DEF ReadOrder, Standing, Conclude, Goto, ReadsTrue, TypeOK, Steps, Results
<1>3. QED
  BY <1>1, <1>2, RequestStep DEF ReadOrder, Standing, Conclude, Goto, tables, TypeOK

\* The transaction is found and tested: the request knows a payment it may claim.
LEMMA FindTransactionInv ==
  ASSUME Inv, NEW r \in Requests, FindTransaction(r)
  PROVE  Inv'
<1> USE DEF Inv
<1>1. TypeOK' /\ ReadsTrue(r) /\ call[r] \in Calls
  BY StepTyped, ServedCall DEF Serve, ReadsStayTrue, FindTransaction
<1>2. UNCHANGED <<orders, transactions, call, order>>
  BY DEF FindTransaction, tables
<1>3. KnowsOrder(r)'
  BY <1>1, <1>2 DEF FindTransaction, ReadsTrue, KnowsOrder, OrderOf
<1>4. pc'[r] \in {"claim", "calibration"} => KnowsPayment(r)'
  <2>1. ASSUME NEW k \in TxIds, k \in LatestTx(call[r].business, call[r].trx)
        PROVE  /\ transactions[k] # NULL
               /\ transactions[k] \in TxRow
               /\ k[2] = call[r].trx
               /\ BusinessOf(k) = call[r].business
    BY <2>1 DEF LatestTx, TxOf, TypeOK
  <2>2. SUFFICES ASSUME pc'[r] \in {"claim", "calibration"}
                 PROVE  KnowsPayment(r)'
    OBVIOUS
  <2>3. PICK k \in LatestTx(call[r].business, call[r].trx) :
          /\ tx'[r] = k
          /\ transactions[k].direction # "debit"
          /\ EffectiveAmount(transactions[k]) = order[r].amount
    BY <2>2 DEF FindTransaction, Conclude, Goto, TypeOK
  <2>4. k \in TxIds
    BY DEF LatestTx, TxOf
  <2>5. QED
    BY <1>2, <2>1, <2>3, <2>4 DEF KnowsPayment, BusinessOf, EffectiveAmount, TxRow
<1>5. ReadsTrue(r)'
  BY <1>1, <1>3, <1>4, <1>2
     DEF FindTransaction, Conclude, Goto, ReadsTrue, TypeOK, Steps, Results
<1>6. QED
  <2>1. outcome'[r] # "success"
    BY <1>1 DEF FindTransaction, Conclude, Goto, ReadsTrue, TypeOK, Steps
  <2>2. QED
    BY <1>1, <1>2, <1>5, <2>1, RequestStep
       DEF FindTransaction, Conclude, Goto, tables, TypeOK

\* The balance checks read more rows; what the request knew stays known.
LEMMA BalanceInv ==
  ASSUME Inv, NEW r \in Requests,
         \/ ReadLaterCalibration(r)
         \/ CountTransactionsAfter(r)
         \/ ReadPreviousBalance(r)
  PROVE  Inv'
<1> USE DEF Inv
<1>1. TypeOK' /\ ReadsTrue(r)
  BY StepTyped DEF Serve, ReadsStayTrue
<1>2. UNCHANGED <<orders, transactions, call, order, tx>>
  BY DEF ReadLaterCalibration, CountTransactionsAfter, ReadPreviousBalance, tables
<1>3. KnowsOrder(r)' /\ KnowsPayment(r)'
  BY <1>1, <1>2 DEF ReadLaterCalibration, CountTransactionsAfter,
     ReadPreviousBalance, ReadsTrue, KnowsOrder, KnowsPayment, OrderOf, BusinessOf,
     EffectiveAmount
<1>4. /\ pc[r] \in {"calibration", "count", "previous"}
      /\ \/ /\ pc' = [pc EXCEPT ![r] = "log"]
            /\ outcome' = [outcome EXCEPT ![r] = "balance_mismatch"]
         \/ /\ \E step \in {"count", "previous", "claim"} : pc' = [pc EXCEPT ![r] = step]
            /\ outcome' = outcome
  BY DEF ReadLaterCalibration, CountTransactionsAfter, ReadPreviousBalance,
         Conclude, Goto
<1>5. ReadsTrue(r)'
  BY <1>1, <1>2, <1>3, <1>4 DEF ReadsTrue, TypeOK, Steps, Results
<1>6. QED
  BY <1>1, <1>2, <1>4, <1>5, RequestStep DEF TypeOK

\* Refused, rereading, logging and failing change no order and declare no success.
LEMMA EndInv ==
  ASSUME Inv, NEW r \in Requests,
         ClaimRefused(r) \/ RereadOrder(r) \/ LogAttempt(r) \/ Abort(r)
  PROVE  Inv'
<1> USE DEF Inv
<1>1. TypeOK' /\ ReadsTrue(r)
  BY StepTyped DEF Serve, ReadsStayTrue
<1>2. /\ UNCHANGED <<orders, transactions, call, tx>>
      /\ \A s \in Requests \ {r} : /\ pc'[s] = pc[s]
                                  /\ order'[s] = order[s]
                                  /\ outcome'[s] = outcome[s]
      /\ outcome'[r] = "success" => outcome[r] = "success"
  BY DEF ClaimRefused, RereadOrder, WhyRefused, LogAttempt, Abort, Conclude, Goto, tables, TypeOK
<1>3. ReadsTrue(r)'
  BY <1>1, <1>2 DEF ClaimRefused, RereadOrder, WhyRefused, LogAttempt, Abort, Conclude, Goto,
     ReadsTrue, TypeOK, Steps, Results
<1>4. QED
  BY <1>1, <1>2, <1>3, RequestStep

\* What a claim finds: a pending order, and an unspent payment worth its price.
LEMMA ClaimFinds ==
  ASSUME Inv, NEW r \in Requests, Claim(r)
  PROVE  LET k == OrderOf(r)
             t == transactions[tx[r]]
         IN /\ k \in OrderIds /\ k[1] = call[r].business
            /\ orders[k] \in OrderRow
            /\ orders[k].status = "pending" /\ orders[k].amount \in Amounts
            /\ tx[r] \in TxIds /\ t # NULL /\ t \in TxRow
            /\ tx[r][2] = call[r].trx
            /\ BusinessOf(tx[r]) = k[1]
            /\ t.direction = "credit"
            /\ EffectiveAmount(t) = orders[k].amount
            /\ \A o \in OrderIds : orders[o].matched # tx[r]
            /\ orders' = [orders EXCEPT ![k] = PaidWith(orders[k], tx[r])]
<1>1. ReadsTrue(r) /\ KnowsOrder(r) /\ KnowsPayment(r) /\ TypeOK
  BY DEF Inv, ReadsStayTrue, ReadsTrue, Claim
<1>2. OrderOf(r) \in OrderIds /\ OrderOf(r)[1] = call[r].business
  BY ServedCall DEF Claim
<1>3. orders[OrderOf(r)].amount \in Amounts
  BY <1>1, <1>2 DEF Inv, OrdersArePriced, KnowsOrder
<1>4. \A o \in OrderIds : orders[o].matched # tx[r]
  <2>1. orders[OrderOf(r)].matched = NULL /\ tx[r] # NULL
    BY <1>1, VerifyAssumption DEF Claim, Claimable, KnowsPayment
  <2>2. QED
    BY <2>1 DEF Claim, HeldElsewhere
<1>5. QED
  BY <1>1, <1>2, <1>3, <1>4 DEF Claim, Claimable, KnowsOrder, KnowsPayment, TypeOK

\* The claim: the only step that pays an order.
LEMMA ClaimInv ==
  ASSUME Inv, NEW r \in Requests, Claim(r)
  PROVE  Inv'
<1> DEFINE k == OrderOf(r)
<1> USE DEF Inv
<1>1. TypeOK' /\ ReadsTrue(r)
  BY StepTyped DEF Serve, ReadsStayTrue
<1>2. /\ k \in OrderIds /\ k[1] = call[r].business
      /\ orders[k].status = "pending" /\ orders[k].amount \in Amounts
      /\ tx[r] \in TxIds /\ transactions[tx[r]] # NULL
      /\ tx[r][2] = call[r].trx
      /\ BusinessOf(tx[r]) = k[1]
      /\ transactions[tx[r]].direction = "credit"
      /\ EffectiveAmount(transactions[tx[r]]) = orders[k].amount
      /\ \A o \in OrderIds : orders[o].matched # tx[r]
  BY ClaimFinds
<1>3. /\ orders'[k].status = "paid"
      /\ orders'[k].amount = orders[k].amount
      /\ orders'[k].matched = tx[r]
      /\ \A o \in OrderIds \ {k} : orders'[o] = orders[o]
  BY <1>2, ClaimFinds DEF PaidWith, TypeOK
<1>4. tx[r] # NULL
  BY <1>2, VerifyAssumption
<1>5. /\ UNCHANGED <<transactions, call, order, tx>>
      /\ \A s \in Requests \ {r} : pc'[s] = pc[s] /\ outcome'[s] = outcome[s]
      /\ \/ pc'[r] = "log" /\ outcome'[r] = "success"
         \/ pc'[r] = "done" /\ outcome'[r] = "error"
  BY DEF Claim, Conclude, TypeOK
<1>6. OrdersArePriced' /\ SingleClaim'
  BY <1>2, <1>3, <1>4 DEF OrdersArePriced, SingleClaim
<1>7. PaidByMatchingPayment'
  BY <1>2, <1>3, <1>4, <1>5 DEF PaidByMatchingPayment, BusinessOf, EffectiveAmount
<1>8. ReadsStayTrue'
  <2>1. ReadsTrue(r)'
    BY <1>1, <1>5 DEF ReadsTrue, Claim, Steps, Results
  <2>2. ASSUME NEW s \in Requests \ {r}
        PROVE  ReadsTrue(s)'
    <3>1. ReadsTrue(s) /\ OrderOf(s)' = OrderOf(s)
      BY <1>5 DEF ReadsStayTrue, OrderOf
    <3>2. pc[s] # "idle" /\ KnowsOrder(s) => KnowsOrder(s)'
      BY <1>2, <1>3, <1>5, <3>1, ServedCall DEF KnowsOrder
    <3>3. KnowsPayment(s) => KnowsPayment(s)'
      BY <1>5 DEF KnowsPayment, BusinessOf, EffectiveAmount
    <3>4. QED
      BY <1>5, <3>1, <3>2, <3>3 DEF ReadsTrue
  <2>3. QED
    BY <2>1, <2>2 DEF ReadsStayTrue
<1>9. SuccessIsExclusive'
  <2>1. \A s \in Requests : OrderOf(s)' = OrderOf(s)
    BY <1>5 DEF OrderOf
  <2>2. \A s \in Requests \ {r} : outcome[s] = "success" =>
           /\ orders[OrderOf(s)].status = "paid"
           /\ OrderOf(s) \in OrderIds
           /\ OrderOf(s) # k
    BY <1>2, ServedCall DEF SuccessIsExclusive, ReadsStayTrue, ReadsTrue
  <2>3. QED
    BY <1>2, <1>3, <1>5, <2>1, <2>2 DEF SuccessIsExclusive
<1>10. QED
  BY <1>1, <1>6, <1>7, <1>8, <1>9

\* What one step does to the orders that exist.
LEMMA OrdersStay ==
  ASSUME Inv, [Next]_vars, NEW k \in OrderIds
  PROVE  /\ orders[k].status \in {"paid", "expired"} => orders'[k] = orders[k]
         /\ orders[k].status # "absent" =>
              orders'[k].amount = orders[k].amount /\ orders'[k].expires = orders[k].expires
<1> DEFINE Final(o) ==
      /\ orders[o].status \in {"paid", "expired"} => orders'[o] = orders[o]
      /\ orders[o].status # "absent" =>
           orders'[o].amount = orders[o].amount /\ orders'[o].expires = orders[o].expires
<1>1. CASE UNCHANGED orders
  BY <1>1
<1>2. ASSUME NEW o \in OrderIds, NEW in \in OrderInputs, CreateOrder(o, in)
      PROVE  Final(k)
  BY <1>2 DEF CreateOrder, Insertable, Inv, TypeOK
<1>3. CASE ExpireStaleOrders
  BY <1>3 DEF ExpireStaleOrders, Expirable, Inv, TypeOK, OrderRow
<1>4. ASSUME NEW r \in Requests, Claim(r)
      PROVE  Final(k)
  BY <1>4, ClaimFinds DEF PaidWith, Inv, TypeOK
<1>5. QED
  BY <1>1, <1>2, <1>3, <1>4 DEF Next, Serve, InsertTransaction, CalibrateBalance,
     Tick, StartVerify, CheckRateLimit, ReadOrder, FindTransaction,
     ReadLaterCalibration, CountTransactionsAfter, ReadPreviousBalance,
     ClaimRefused, RereadOrder, LogAttempt, Abort, tables, vars

-----------------------------------------------------------------------------
\* The theorems.

\* Every step keeps the invariant.
LEMMA InductiveStep == Inv /\ [Next]_vars => Inv'
<1> SUFFICES ASSUME Inv, [Next]_vars PROVE Inv'
  OBVIOUS
<1>1. CASE UNCHANGED vars
  <2>1. TypeOK'
    BY <1>1 DEF Inv, TypeOK, vars, tables, locals
  <2>2. OrdersArePriced' /\ SingleClaim' /\ PaidByMatchingPayment'
    BY <1>1, TablesFrame DEF Inv, vars, tables
  <2>3. ReadsStayTrue' /\ SuccessIsExclusive'
    BY <1>1, RequestsFrame DEF Inv, vars, tables
  <2>4. QED
    BY <2>1, <2>2, <2>3 DEF Inv
<1>2. ASSUME NEW k \in OrderIds, NEW in \in OrderInputs, CreateOrder(k, in)
      PROVE  Inv'
  BY <1>2, CreateOrderInv
<1>3. ASSUME NEW in \in TxInputs, NEW since \in 0 .. clock, InsertTransaction(in, since)
      PROVE  Inv'
  BY <1>3, InsertTransactionInv
<1>4. ASSUME NEW r \in Requests, Serve(r) PROVE Inv'
  BY <1>4, StartInv, ReadOrderInv, FindTransactionInv, BalanceInv, EndInv, ClaimInv
     DEF Serve
<1>5. QED
  BY <1>1, <1>2, <1>3, <1>4, OtherEnvironmentInv, ExpireStaleOrdersInv, StartInv,
     EndInv DEF Next

\* The invariant holds in every reachable state.
THEOREM Invariance == Spec => []Inv
  BY InitInv, InductiveStep, PTL DEF Spec

\* Every reachable state of verify.go's tables and requests is well typed.
THEOREM TypeCorrect == Spec => []TypeOK
<1>1. Inv => TypeOK
  BY DEF Inv
<1>2. QED
  BY <1>1, Invariance, PTL

\* However many verifications race, a transaction settles at most one order
\* (ClaimTransactionForOrder with its unique index).
THEOREM TransactionPaysOnce == Spec => []SingleClaim
<1>1. Inv => SingleClaim
  BY DEF Inv
<1>2. QED
  BY <1>1, Invariance, PTL

\* A paid order was paid in full, by a credit of its own business: the tests
\* verify.go makes on rows read earlier still hold when it claims.
THEOREM PaidInFull == Spec => []PaidByMatchingPayment
<1>1. Inv => PaidByMatchingPayment
  BY DEF Inv
<1>2. QED
  BY <1>1, Invariance, PTL

\* At most one caller per order is answered "success", and it owns the payment.
THEOREM OneSuccess == Spec => []SuccessIsExclusive
<1>1. Inv => SuccessIsExclusive
  BY DEF Inv
<1>2. QED
  BY <1>1, Invariance, PTL

\* Paid and expired are final: no handler, no sweep and no late verification
\* changes such an order, or the price and expiry of any order.
THEOREM SettledIsFinal == Spec => OrdersSettleOnce
<1>1. Inv /\ [Next]_vars =>
        [\A k \in OrderIds :
           /\ orders[k].status \in {"paid", "expired"} => orders'[k] = orders[k]
           /\ orders[k].status # "absent" =>
                orders'[k].amount = orders[k].amount
                /\ orders'[k].expires = orders[k].expires]_vars
  BY OrdersStay
<1>2. QED
  BY <1>1, Invariance, PTL DEF Spec, OrdersSettleOnce

-----------------------------------------------------------------------------
\* The refinement.

\* The ledger sees only orders and transactions.
LEMMA LedgerFrame ==
  ASSUME UNCHANGED <<orders, transactions>>
  PROVE  UNCHANGED Ledger!vars
  BY DEF Ledger!vars, LedgerPrice, LedgerValue, BusinessOf, EffectiveAmount

\* Creating an order opens it in the ledger.
LEMMA CreateOrderOpens ==
  ASSUME Inv, NEW k \in OrderIds, NEW in \in OrderInputs, CreateOrder(k, in)
  PROVE  Ledger!Next
<1> DEFINE w == <<k[1], in.amount>>
<1>1. w \in Worth
  BY VerifyAssumption DEF Worth, OrderIds
<1>2. /\ orders' = [orders EXCEPT ![k] =
            [status |-> "pending", amount |-> in.amount, expires |-> in.expires,
             matched |-> NULL, paidAt |-> NULL]]
      /\ orders[k].status = "absent" /\ orders[k].matched = NULL
      /\ orders \in [OrderIds -> OrderRow]
      /\ UNCHANGED transactions
  BY DEF CreateOrder, Insertable, Inv, TypeOK, PaidByMatchingPayment
<1>3. Ledger!Open(k, w)
  BY <1>2 DEF Ledger!Open, LedgerPrice, LedgerValue, BusinessOf, EffectiveAmount
<1>4. QED
  BY <1>1, <1>3 DEF Ledger!Next

\* Recording a credit is the receipt of its value; a debit brings none.
LEMMA InsertTransactionReceives ==
  ASSUME Inv, NEW in \in TxInputs, NEW since \in 0 .. clock, InsertTransaction(in, since)
  PROVE  Ledger!Next \/ UNCHANGED Ledger!vars
<1> DEFINE k == <<in.provider, in.trx>>
           w == <<OwnerOf[in.device], EffectiveAmount(in)>>
           row == [device |-> in.device, amount |-> in.amount,
                   effective |-> in.effective, balance |-> in.balance,
                   direction |-> in.direction, receivedAt |-> since,
                   visibleAt |-> clock]
<1>1. k \in TxIds /\ w \in Worth
  BY VerifyAssumption DEF TxIds, Worth, EffectiveAmount
<1>2. /\ transactions \in [TxIds -> TxRow \cup {NULL}] /\ transactions[k] = NULL
      /\ transactions' = [transactions EXCEPT ![k] = row]
      /\ UNCHANGED orders
  BY DEF InsertTransaction, Inv, TypeOK
<1>3. \A j \in TxIds \ {k} : LedgerValue(j)' = LedgerValue(j)
  BY <1>2 DEF LedgerValue, BusinessOf, EffectiveAmount
<1>4. LedgerValue(k) = NULL /\ LedgerValue(k)' \in {NULL, w}
  BY <1>1, <1>2 DEF LedgerValue, BusinessOf, EffectiveAmount
<1>5. CASE LedgerValue(k)' = NULL
  BY <1>2, <1>3, <1>4, <1>5 DEF Ledger!vars, LedgerPrice
<1>6. CASE LedgerValue(k)' = w
  <2>1. Ledger!Receive(k, w)
    BY <1>1, <1>2, <1>3, <1>4, <1>6 DEF Ledger!Receive, LedgerPrice
  <2>2. QED
    BY <1>1, <2>1 DEF Ledger!Next
<1>7. QED
  BY <1>4, <1>5, <1>6

\* One sweep expires a batch of pending orders.
LEMMA SweepExpires ==
  ASSUME Inv, ExpireStaleOrders
  PROVE  Ledger!Next
<1>0. PICK batch \in SUBSET OrderIds :
        batch = {k \in OrderIds : Expirable(orders[k])}
  OBVIOUS
<1>1. \A k \in OrderIds : k \in batch <=> Expirable(orders[k])
  BY <1>0
<1>2. \A k \in OrderIds :
         /\ orders'[k].status = IF k \in batch THEN "expired" ELSE orders[k].status
         /\ orders'[k].amount = orders[k].amount
         /\ orders'[k].matched = orders[k].matched
  BY <1>1, SweptRow DEF Inv
<1>3. \A k \in batch : orders[k].status = "pending"
  BY <1>0 DEF Expirable
<1>4. [k \in OrderIds |-> orders[k].status]' =
        [k \in OrderIds |-> IF k \in batch THEN "expired"
                            ELSE [j \in OrderIds |-> orders[j].status][k]]
  BY <1>2
<1>5. \A k \in OrderIds : LedgerPrice(k)' = LedgerPrice(k)
  <2>1. \A k \in OrderIds : orders'[k].status = "absent" <=> orders[k].status = "absent"
    BY <1>2, <1>3
  <2>2. QED  BY <1>2, <2>1 DEF LedgerPrice
<1>6. \A j \in TxIds : LedgerValue(j)' = LedgerValue(j)
  <2>1. UNCHANGED transactions
    BY DEF ExpireStaleOrders
  <2>2. QED  BY <2>1 DEF LedgerValue, BusinessOf, EffectiveAmount
<1>7. [k \in OrderIds |-> orders[k].matched]' = [k \in OrderIds |-> orders[k].matched]
  BY <1>2
<1>8. /\ [k \in OrderIds |-> LedgerPrice(k)]' = [k \in OrderIds |-> LedgerPrice(k)]
      /\ [j \in TxIds |-> LedgerValue(j)]' = [j \in TxIds |-> LedgerValue(j)]
  BY <1>5, <1>6
<1>9. Ledger!Expire(batch)
  <2>1. \A k \in batch : [j \in OrderIds |-> orders[j].status][k] = "pending"
    BY <1>0, <1>3
  <2>2. QED  BY <1>4, <1>7, <1>8, <2>1 DEF Ledger!Expire
<1>10. QED
  BY <1>9 DEF Ledger!Next

\* A claim is a payment: what the request knows is what the ledger asks for.
LEMMA ClaimPays ==
  ASSUME Inv, NEW r \in Requests, Claim(r)
  PROVE  Ledger!Next
<1>1. /\ OrderOf(r) \in OrderIds /\ tx[r] \in TxIds
      /\ orders[OrderOf(r)].status = "pending"
      /\ orders[OrderOf(r)].amount \in Amounts
      /\ \A o \in OrderIds : orders[o].matched # tx[r]
      /\ transactions[tx[r]] # NULL /\ transactions[tx[r]].direction = "credit"
      /\ BusinessOf(tx[r]) = OrderOf(r)[1]
      /\ EffectiveAmount(transactions[tx[r]]) = orders[OrderOf(r)].amount
      /\ orders' = [orders EXCEPT ![OrderOf(r)] = PaidWith(orders[OrderOf(r)], tx[r])]
      /\ UNCHANGED transactions
  BY ClaimFinds DEF Claim
<1>2. PICK k \in OrderIds, p \in TxIds : k = OrderOf(r) /\ p = tx[r]
  BY <1>1
<1>3. /\ orders[k].status = "pending" /\ orders[k].amount \in Amounts
      /\ \A o \in OrderIds : orders[o].matched # p
      /\ LedgerPrice(k) = <<k[1], orders[k].amount>>
      /\ LedgerValue(p) = LedgerPrice(k)
      /\ orders' = [orders EXCEPT ![k] = PaidWith(orders[k], p)]
  BY <1>1, <1>2 DEF LedgerValue, LedgerPrice
<1>4. LedgerValue(p) # NULL
  BY <1>3, VerifyAssumption DEF OrderIds
<1>5. /\ orders'[k].status = "paid" /\ orders'[k].matched = p
      /\ orders'[k].amount = orders[k].amount
      /\ \A o \in OrderIds \ {k} : orders'[o] = orders[o]
  BY <1>3 DEF PaidWith, Inv, TypeOK
<1>6. /\ \A o \in OrderIds : LedgerPrice(o)' = LedgerPrice(o)
      /\ \A j \in TxIds : LedgerValue(j)' = LedgerValue(j)
  BY <1>1, <1>3, <1>5 DEF LedgerPrice, LedgerValue, BusinessOf, EffectiveAmount
<1>7. /\ [o \in OrderIds |-> orders[o].status]' =
            [[o \in OrderIds |-> orders[o].status] EXCEPT ![k] = "paid"]
      /\ [o \in OrderIds |-> orders[o].matched]' =
            [[o \in OrderIds |-> orders[o].matched] EXCEPT ![k] = p]
  BY <1>5
<1>8. /\ [o \in OrderIds |-> LedgerPrice(o)]' = [o \in OrderIds |-> LedgerPrice(o)]
      /\ [j \in TxIds |-> LedgerValue(j)]' = [j \in TxIds |-> LedgerValue(j)]
  BY <1>6
<1>9. Ledger!Pay(k, p)
  BY <1>3, <1>4, <1>7, <1>8 DEF Ledger!Pay
<1>10. QED
  BY <1>9 DEF Ledger!Next

\* What a request read and still relies on is true until it acts on it: the price
\* and the payment do not change, and the order changes only its status (Verify).
THEOREM ReadsHold == Spec => []ReadsStayTrue
<1>1. Inv => ReadsStayTrue
  BY DEF Inv
<1>2. QED
  BY Invariance, <1>1, PTL

\* Verification implements the ledger: for every number of merchants, phones,
\* payments and concurrent requests an order is settled once, in full, by unspent
\* money of its own business.
THEOREM LedgerRefinement == Spec => ImplementsLedger
<1>1. Init => Ledger!Init
  BY DEF Init, NoOrder, Ledger!Init, LedgerPrice, LedgerValue
<1>2. Inv /\ [Next]_vars => [Ledger!Next]_Ledger!vars
  <2> SUFFICES ASSUME Inv, [Next]_vars PROVE Ledger!Next \/ UNCHANGED Ledger!vars
    OBVIOUS
  <2>1. CASE UNCHANGED <<orders, transactions>>
    BY <2>1, LedgerFrame
  <2>2. ASSUME NEW k \in OrderIds, NEW in \in OrderInputs, CreateOrder(k, in)
        PROVE  Ledger!Next
    BY <2>2, CreateOrderOpens
  <2>3. ASSUME NEW r \in Requests, Claim(r)
        PROVE  Ledger!Next
    BY <2>3, ClaimPays
  <2>4. QED
    BY <2>1, <2>2, <2>3, InsertTransactionReceives, SweepExpires DEF Next, Serve,
       CalibrateBalance, Tick, StartVerify, CheckRateLimit, ReadOrder,
       FindTransaction, ReadLaterCalibration, CountTransactionsAfter,
       ReadPreviousBalance, ClaimRefused, RereadOrder, LogAttempt, Abort, tables, vars
<1>3. QED
  BY <1>1, <1>2, Invariance, PTL DEF Spec, ImplementsLedger, Ledger!Spec
=============================================================================
