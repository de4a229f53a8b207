---------------------------- MODULE AnswersProofs ----------------------------
(***************************************************************************)
(* What the answers, the audit rows and the verdicts of Verify are worth,  *)
(* proved with TLAPS on top of the invariant of VerifyProofs: an answer,   *)
(* once given, and the facts it was given for stay as they are.            *)
(***************************************************************************)
EXTENDS VerifyProofs, FiniteSetTheorems

\* What the audit row of request r repeats; nobody writes it a second time.
Logged(r) ==
  attempts[r] # NULL =>
    /\ pc[r] = "done"
    /\ attempts[r].business = call[r].business
    /\ attempts[r].trx = call[r].trx
    /\ attempts[r].result = outcome[r]
    /\ outcome[r] = "success" =>
         attempts[r].order = OrderOf(r) /\ attempts[r].tx = tx[r]

\* Whoever is answered "success" has read the order, so its audit row names it.
SuccessIsRead(r) == outcome[r] = "success" => order[r] # NULL

\* Why r was told that the payment is used.
UsedTruly(r) ==
  outcome[r] = "already_used" =>
    \/ orders[OrderOf(r)].status = "paid"
    \/ tx[r] \in TxIds /\ \E o \in OrderIds : orders[o].matched = tx[r]

\* The requests of business b in the audit log, of all times.
LoggedBy(b) == {s \in Requests : attempts[s] # NULL /\ attempts[s].business = b}

LimitedTruly(r) ==
  outcome[r] = "rate_limited" => Cardinality(LoggedBy(call[r].business)) >= MaxAttempts

Answers == \A r \in Requests :
             Logged(r) /\ SuccessIsRead(r) /\ UsedTruly(r) /\ LimitedTruly(r)

\* Nothing was received in the future, nor visible before it was received.
ReceivedBefore ==
  /\ \A k \in TxIds : transactions[k] # NULL =>
       /\ transactions[k].receivedAt <= transactions[k].visibleAt
       /\ transactions[k].visibleAt <= clock
  /\ \A c \in calibrations : c.at <= c.visibleAt

\* Why the balance transaction k states may be believed.
Believable(k) ==
  LET t == transactions[k] IN
  t.balance # NULL =>
    \/ \E c \in LaterCalibrations(k) : c.balance = t.balance
    \/ KnownBefore(k) = {}
    \/ \E p \in Earlier(k) : /\ \A q \in KnownBefore(k) : q.at <= p.at
                            /\ p.balance + t.amount = t.balance

\* What r has read of the trail, and concluded from it.
KnowsTrail(r) ==
  /\ pc[r] \in {"idle", "limit", "order", "transaction", "calibration"} =>
       anchor[r] = NULL
  /\ pc[r] = "count" /\ anchor[r] # NULL =>
       \E c \in LaterCalibrations(tx[r]) : c.balance = anchor[r]
  /\ pc[r] = "claim" => Believable(tx[r])

Trails ==
  /\ ReceivedBefore
  /\ \A r \in Requests : KnowsTrail(r)
  /\ \A o \in OrderIds : orders[o].matched # NULL => Believable(orders[o].matched)

--------------------------------------------------------------------------------
\* What a step does.

\* The variables of request r, its audit row included, are left alone.
Rests(r) ==
  /\ pc'[r] = pc[r] /\ call'[r] = call[r] /\ order'[r] = order[r]
  /\ tx'[r] = tx[r] /\ anchor'[r] = anchor[r] /\ outcome'[r] = outcome[r]
  /\ attempts'[r] = attempts[r]

Acts(r) ==
  \/ \E b \in Businesses, e \in ExtIds, t \in TrxIds : StartVerify(r, b, e, t)
  \/ Serve(r)
  \/ Abort(r)

\* A step is of one request, or of none: the others rest.
LEMMA OneActs ==
  ASSUME TypeOK, [Next]_vars, NEW r \in Requests
  PROVE  Rests(r) \/ Acts(r)
<1>1. ASSUME NEW s \in Requests \ {r}, Acts(s)  PROVE Rests(r)
  BY <1>1 DEF Acts, Rests, Serve, StartVerify, CheckRateLimit, ReadOrder,
     FindTransaction, ReadLaterCalibration, CountTransactionsAfter,
     ReadPreviousBalance, Claim, ClaimRefused, RereadOrder, LogAttempt, Abort, Goto,
     Conclude, tables, TypeOK
<1>2. CASE UNCHANGED vars
  BY <1>2 DEF vars, tables, locals, Rests
<1>3. CASE \/ \E k \in OrderIds, in \in OrderInputs : CreateOrder(k, in)
           \/ \E in \in TxInputs, since \in 0 .. clock : InsertTransaction(in, since)
           \/ \E in \in CalibrationInputs, since \in 0 .. clock :
                CalibrateBalance(in, since)
           \/ ExpireStaleOrders
           \/ Tick
  BY <1>3 DEF CreateOrder, InsertTransaction, CalibrateBalance, ExpireStaleOrders,
     Tick, tables, locals, Rests
<1>4. QED
  BY <1>1, <1>2, <1>3 DEF Next, Acts

\* What is recorded is recorded for good, visible as of now, and stamped as of
\* a moment not later.
TablesGrow ==
  /\ \A k \in TxIds : transactions[k] # NULL => transactions'[k] = transactions[k]
  /\ \A k \in TxIds : transactions[k] = NULL /\ transactions'[k] # NULL =>
       transactions'[k].receivedAt <= clock /\ transactions'[k].visibleAt = clock
  /\ calibrations \subseteq calibrations'
  /\ \A c \in calibrations' \ calibrations : c.at <= clock /\ c.visibleAt = clock
  /\ clock <= clock'

\* Only ingestion and calibration write the tables of the trails.
LEMMA StepGrows ==
  ASSUME TypeOK, [Next]_vars
  PROVE  TablesGrow
<1>1. CASE UNCHANGED <<transactions, calibrations, clock>>
  BY <1>1 DEF TablesGrow, TypeOK
<1>2. ASSUME NEW in \in TxInputs, NEW since \in 0 .. clock, InsertTransaction(in, since)
      PROVE  TablesGrow
  <2>1. <<in.provider, in.trx>> \in TxIds
    BY VerifyAssumption DEF TxIds
  <2>2. QED
    BY <1>2, <2>1 DEF InsertTransaction, TablesGrow, TypeOK
<1>3. ASSUME NEW in \in CalibrationInputs, NEW since \in 0 .. clock,
             CalibrateBalance(in, since)
      PROVE  TablesGrow
  BY <1>3 DEF CalibrateBalance, TablesGrow, TypeOK
<1>4. CASE Tick
  BY <1>4 DEF Tick, tables, TablesGrow, TypeOK
<1>5. QED
  BY <1>1, <1>2, <1>3, <1>4 DEF Next, Serve, CreateOrder, ExpireStaleOrders,
     StartVerify, CheckRateLimit, ReadOrder, FindTransaction, ReadLaterCalibration,
     CountTransactionsAfter, ReadPreviousBalance, Claim, ClaimRefused, RereadOrder,
     LogAttempt, Abort, tables, vars

\* An order that holds a payment holds it for good.
LEMMA PaymentStays ==
  ASSUME Inv, [Next]_vars, NEW k \in OrderIds
  PROVE  /\ orders[k].status = "paid" => orders'[k].status = "paid"
         /\ orders[k].matched # NULL => orders'[k].matched = orders[k].matched
  BY OrdersStay DEF Inv, PaidByMatchingPayment

\* An order that exists goes on existing.
LEMMA StatusStays ==
  ASSUME Inv, [Next]_vars, NEW k \in OrderIds, orders[k].status # "absent"
  PROVE  orders'[k].status # "absent"
<1>1. CASE orders'[k] = orders[k]
  BY <1>1
<1>2. CASE ExpireStaleOrders
  BY <1>2, SweptRow DEF Inv
<1>3. ASSUME NEW o \in OrderIds, NEW in \in OrderInputs, CreateOrder(o, in)
      PROVE  orders'[k].status # "absent"
  BY <1>3 DEF CreateOrder, Insertable, Inv, TypeOK
<1>4. ASSUME NEW r \in Requests, Claim(r)
      PROVE  orders'[k].status # "absent"
  BY <1>4, ClaimFinds DEF PaidWith, Inv, TypeOK
<1>5. QED
  BY <1>1, <1>2, <1>3, <1>4 DEF Next, Serve, InsertTransaction, CalibrateBalance,
     Tick, StartVerify, CheckRateLimit, ReadOrder, FindTransaction,
     ReadLaterCalibration, CountTransactionsAfter, ReadPreviousBalance,
     ClaimRefused, RereadOrder, LogAttempt, Abort, tables, vars

\* Once a request knows its answer it only logs it, or fails to.
LEMMA AnswerStays ==
  ASSUME Inv, NEW r \in Requests, outcome[r] # "none", Rests(r) \/ Acts(r)
  PROVE  /\ pc[r] \in {"log", "done"} /\ pc'[r] \in {"log", "done"}
         /\ call'[r] = call[r] /\ order'[r] = order[r] /\ tx'[r] = tx[r]
         /\ outcome'[r] \in {outcome[r], "error"}
         /\ pc[r] = "done" => outcome'[r] = outcome[r] /\ attempts'[r] = attempts[r]
<1>1. pc[r] \in {"log", "done"}
  BY DEF Inv, TypeOK, ReadsStayTrue, ReadsTrue
<1>2. QED
  BY <1>1 DEF Rests, Acts, Serve, StartVerify, CheckRateLimit, ReadOrder,
     FindTransaction, ReadLaterCalibration, CountTransactionsAfter,
     ReadPreviousBalance, Claim, ClaimRefused, RereadOrder, LogAttempt, Abort, Goto,
     Steps, tables, Inv, TypeOK

\* An audit row is written once.
LEMMA RowStays ==
  ASSUME Inv, Answers, [Next]_vars, NEW r \in Requests, attempts[r] # NULL
  PROVE  Rests(r)
<1>1. pc[r] = "done"
  BY DEF Answers, Logged
<1>2. ~Acts(r)
  BY <1>1 DEF Acts, Serve, StartVerify, CheckRateLimit, ReadOrder,
     FindTransaction, ReadLaterCalibration, CountTransactionsAfter,
     ReadPreviousBalance, Claim, ClaimRefused, RereadOrder, LogAttempt, Abort, Steps
<1>3. QED
  BY <1>2, OneActs DEF Inv

--------------------------------------------------------------------------------
\* Answers and the audit log.

\* A request concludes by the step that finds the answer out.
LEMMA HowConcluded ==
  ASSUME Inv, NEW r \in Requests, outcome[r] = "none", Rests(r) \/ Acts(r)
  PROVE  /\ outcome'[r] = "success" => Claim(r)
         /\ outcome'[r] = "already_used" => ClaimRefused(r) \/ RereadOrder(r)
         /\ outcome'[r] = "rate_limited" => CheckRateLimit(r)
<1>1. CASE ReadOrder(r)
  <2>1. outcome'[r] \in {"none", "not_found", "order_expired", "order_not_pending"}
    BY <1>1 DEF ReadOrder, Standing, Goto, Conclude, Inv, TypeOK
  <2>2. QED  BY <2>1
<1>2. CASE FindTransaction(r)
  <2>1. outcome'[r] \in {"none", "not_found", "wrong_direction", "amount_mismatch"}
    BY <1>2 DEF FindTransaction, Goto, Conclude, Inv, TypeOK
  <2>2. QED  BY <2>1
<1>3. CASE CountTransactionsAfter(r) \/ ReadPreviousBalance(r) \/ ReadLaterCalibration(r)
  <2>1. outcome'[r] \in {"none", "balance_mismatch"}
    BY <1>3 DEF CountTransactionsAfter, ReadPreviousBalance, ReadLaterCalibration,
       Goto, Conclude, Inv, TypeOK
  <2>2. QED  BY <2>1
<1>4. CASE CheckRateLimit(r)
  <2>1. outcome'[r] \in {"none", "rate_limited"}
    BY <1>4 DEF CheckRateLimit, Goto, Inv, TypeOK
  <2>2. QED  BY <1>4, <2>1
<1>5. CASE Claim(r)
  <2>1. outcome'[r] \in {"success", "error"}
    BY <1>5 DEF Claim, Conclude, Inv, TypeOK
  <2>2. QED  BY <1>5, <2>1
<1>6. CASE ClaimRefused(r)
  <2>1. outcome'[r] \in {"none", "already_used"}
    BY <1>6 DEF ClaimRefused, Goto, Conclude, Inv, TypeOK
  <2>2. QED  BY <1>6, <2>1
<1>7. CASE RereadOrder(r)
  <2>1. outcome'[r] \in {"already_used", "order_not_pending"}
    BY <1>7 DEF RereadOrder, WhyRefused, Conclude, Inv, TypeOK
  <2>2. QED  BY <1>7, <2>1
<1>8. ASSUME \/ Rests(r) \/ LogAttempt(r) \/ Abort(r)
             \/ \E b \in Businesses, e \in ExtIds, t \in TrxIds : StartVerify(r, b, e, t)
      PROVE  outcome'[r] \in {"none", "error"}
  BY <1>8 DEF Rests, LogAttempt, Abort, StartVerify, Goto, Inv, TypeOK
<1>9. QED
  BY <1>1, <1>2, <1>3, <1>4, <1>5, <1>6, <1>7, <1>8 DEF Acts, Serve

\* logAttempt writes down what was answered.
LEMMA LoggedKept ==
  ASSUME Inv, Answers, [Next]_vars, NEW r \in Requests
  PROVE  Logged(r)'
<1>1. CASE attempts[r] # NULL
  <2>1. Rests(r)
    BY <1>1, RowStays
  <2>2. Logged(r)
    BY DEF Answers
  <2>3. QED
    BY <2>1, <2>2 DEF Rests, Logged, OrderOf
<1>2. CASE attempts[r] = NULL /\ attempts'[r] # NULL
  <2>1. LogAttempt(r)
    BY <1>2, OneActs DEF Rests, Acts, Serve, StartVerify, CheckRateLimit, ReadOrder,
       FindTransaction, ReadLaterCalibration, CountTransactionsAfter,
       ReadPreviousBalance, Claim, ClaimRefused, RereadOrder, Abort, tables, Inv
  <2>2. attempts'[r] = [business |-> call[r].business,
           order |-> IF order[r] = NULL THEN NULL ELSE OrderOf(r),
           trx |-> call[r].trx, result |-> outcome[r],
           tx |-> IF outcome[r] \in NamesTx THEN tx[r] ELSE NULL,
           at |-> clock]
    BY <1>2, <2>1 DEF LogAttempt, Inv, TypeOK
  <2>3. pc'[r] = "done" /\ UNCHANGED <<outcome, call, tx>> /\ OrderOf(r)' = OrderOf(r)
    BY <2>1 DEF LogAttempt, Goto, OrderOf, Inv, TypeOK
  <2>4. outcome[r] = "success" => order[r] # NULL
    BY DEF Answers, SuccessIsRead
  <2>5. QED
    BY <2>2, <2>3, <2>4 DEF Logged, NamesTx
<1>3. QED
  BY <1>1, <1>2 DEF Logged

\* The claim answers "success", and claims what the request has read.
LEMMA SuccessIsReadKept ==
  ASSUME Inv, Answers, [Next]_vars, NEW r \in Requests
  PROVE  SuccessIsRead(r)'
<1>1. CASE outcome[r] = "none" /\ outcome'[r] = "success"
  <2>1. Claim(r)
    BY <1>1, OneActs, HowConcluded DEF Inv
  <2>2. order[r] # NULL /\ order' = order
    BY <2>1 DEF Claim, Inv, ReadsStayTrue, ReadsTrue, KnowsOrder
  <2>3. QED  BY <2>2 DEF SuccessIsRead
<1>2. CASE outcome[r] # "none"
  <2>1. order'[r] = order[r] /\ outcome'[r] \in {outcome[r], "error"}
    BY <1>2, OneActs, AnswerStays DEF Inv
  <2>2. QED  BY <2>1 DEF SuccessIsRead, Answers
<1>3. QED
  BY <1>1, <1>2 DEF SuccessIsRead

\* The unique index refuses, or the order is found paid: either is for good.
LEMMA UsedTrulyKept ==
  ASSUME Inv, Answers, [Next]_vars, NEW r \in Requests
  PROVE  UsedTruly(r)'
<1>0. SUFFICES ASSUME outcome'[r] = "already_used"
               PROVE  UsedTruly(r)'
  BY DEF UsedTruly
<1>1. CASE outcome[r] = "none" /\ ClaimRefused(r)
  <2>1. PICK o \in OrderIds : orders[o].matched = tx[r]
    BY <1>0, <1>1 DEF ClaimRefused, Goto, Conclude, HeldElsewhere, Inv, TypeOK
  <2>2. tx[r] \in TxIds /\ UNCHANGED <<orders, tx>>
    BY <1>1 DEF ClaimRefused, tables, Inv, ReadsStayTrue, ReadsTrue, KnowsPayment
  <2>3. QED  BY <2>1, <2>2 DEF UsedTruly
<1>2. CASE outcome[r] = "none" /\ RereadOrder(r)
  <2>1. orders[OrderOf(r)].status = "paid"
    BY <1>0, <1>2 DEF RereadOrder, WhyRefused, Conclude, Inv, TypeOK
  <2>2. OrderOf(r)' = OrderOf(r) /\ UNCHANGED orders
    BY <1>2 DEF RereadOrder, tables, OrderOf
  <2>3. QED  BY <2>1, <2>2 DEF UsedTruly
<1>3. CASE outcome[r] # "none"
  <2>1. /\ pc[r] \in {"log", "done"} /\ call'[r] = call[r] /\ tx'[r] = tx[r]
        /\ outcome[r] = "already_used"
    BY <1>0, <1>3, OneActs, AnswerStays DEF Inv
  <2>2. OrderOf(r) \in OrderIds /\ OrderOf(r)' = OrderOf(r)
    BY <2>1, ServedCall DEF OrderOf
  <2>3. UsedTruly(r)
    BY DEF Answers
  <2>4. CASE orders[OrderOf(r)].status = "paid"
    BY <2>2, <2>4, PaymentStays DEF UsedTruly
  <2>5. CASE tx[r] \in TxIds /\ \E o \in OrderIds : orders[o].matched = tx[r]
    <3>1. PICK o \in OrderIds : orders[o].matched = tx[r]
      BY <2>5
    <3>2. orders'[o].matched = tx'[r]
      BY <2>1, <2>5, <3>1, PaymentStays, VerifyAssumption
    <3>3. QED  BY <2>1, <2>5, <3>2 DEF UsedTruly
  <2>6. QED
    BY <2>1, <2>3, <2>4, <2>5 DEF UsedTruly
<1>4. QED
  BY <1>0, <1>1, <1>2, <1>3, OneActs, HowConcluded DEF Inv

\* The audit log of a business only grows.
LEMMA LogGrows ==
  ASSUME Inv, Answers, [Next]_vars, NEW b
  PROVE  Cardinality(LoggedBy(b)) <= Cardinality(LoggedBy(b)')
<1>1. LoggedBy(b) \subseteq LoggedBy(b)'
  BY RowStays DEF LoggedBy, Rests
<1>2. IsFiniteSet(LoggedBy(b)')
  <2>1. LoggedBy(b)' \subseteq Requests
    BY DEF LoggedBy
  <2>2. QED  BY <2>1, FS_Subset, VerifyAssumption
<1>3. QED
  BY <1>1, <1>2, FS_Subset, FS_CardinalityType

\* The limiter counts rows of the log; being fewer than all, they are enough.
LEMMA LimitedTrulyKept ==
  ASSUME Inv, Answers, [Next]_vars, NEW r \in Requests
  PROVE  LimitedTruly(r)'
<1>0. SUFFICES ASSUME outcome'[r] = "rate_limited"
               PROVE  LimitedTruly(r)'
  BY DEF LimitedTruly
<1>1. MaxAttempts \in Nat
  BY VerifyAssumption
<1>2. PICK b : b = call[r].business
  OBVIOUS
<1>3. /\ LoggedBy(b) \subseteq Requests /\ LoggedBy(b)' \subseteq Requests
      /\ IsFiniteSet(LoggedBy(b))
      /\ Cardinality(LoggedBy(b)) \in Nat /\ Cardinality(LoggedBy(b)') \in Nat
  <2>1. LoggedBy(b) \subseteq Requests /\ LoggedBy(b)' \subseteq Requests
    BY DEF LoggedBy
  <2>2. QED  BY <2>1, FS_Subset, FS_CardinalityType, VerifyAssumption
<1>4. call'[r] = call[r] /\ Cardinality(LoggedBy(b)) >= MaxAttempts
  <2>1. CASE outcome[r] = "none"
    <3>1. CheckRateLimit(r)
      BY <1>0, <2>1, OneActs, HowConcluded DEF Inv
    <3>2. Cardinality(RecentAttempts(b)) >= MaxAttempts /\ call' = call
      BY <1>0, <1>2, <2>1, <3>1 DEF CheckRateLimit, Goto, Inv, TypeOK
    <3>3. RecentAttempts(b) \subseteq LoggedBy(b)
      BY DEF RecentAttempts, LoggedBy
    <3>4. /\ Cardinality(RecentAttempts(b)) <= Cardinality(LoggedBy(b))
          /\ Cardinality(RecentAttempts(b)) \in Nat
      BY <1>3, <3>3, FS_Subset, FS_CardinalityType
    <3>5. QED  BY <1>1, <1>3, <3>2, <3>4
  <2>2. CASE outcome[r] # "none"
    BY <1>0, <1>2, <2>2, OneActs, AnswerStays DEF Inv, Answers, LimitedTruly
  <2>3. QED  BY <2>1, <2>2
<1>5. Cardinality(LoggedBy(b)') >= MaxAttempts
  BY <1>1, <1>3, <1>4, LogGrows
<1>6. QED
  BY <1>2, <1>4, <1>5 DEF LimitedTruly, LoggedBy

--------------------------------------------------------------------------------
\* The trail of balances.

\* What was on record before a payment was received stays as it is: what
\* becomes visible from now on does so after the payment.
LEMMA KnownStays ==
  ASSUME Inv, Inv', ReceivedBefore, TablesGrow, NEW k \in TxIds, transactions[k] # NULL
  PROVE  KnownBefore(k)' = KnownBefore(k)
<1>1. transactions'[k] = transactions[k] /\ transactions[k] \in TxRow
  BY DEF TablesGrow, Inv, TypeOK
<1>2. transactions[k].receivedAt <= clock /\ clock \in Nat /\ transactions[k].receivedAt \in Nat
  BY <1>1 DEF ReceivedBefore, Inv, TypeOK, TxRow
<1>3. \A c : c.visibleAt < transactions[k].receivedAt =>
        (c \in TrailCalibrations(k)' <=> c \in TrailCalibrations(k))
  BY <1>1, <1>2 DEF TrailCalibrations, TablesGrow
<1>4. ASSUME NEW j \in TxIds
      PROVE  /\ j \in TrailTransactions(k) =>
                  j \in TrailTransactions(k)' /\ transactions'[j] = transactions[j]
             /\ j \in TrailTransactions(k)'
                /\ transactions'[j].visibleAt < transactions[k].receivedAt =>
                  j \in TrailTransactions(k) /\ transactions'[j] = transactions[j]
  BY <1>1, <1>2 DEF TrailTransactions, TablesGrow
<1> DEFINE Of(c) == [balance |-> c.balance, at |-> c.at, visibleAt |-> c.visibleAt]
           From(t) == [balance |-> t.balance, at |-> t.receivedAt,
                       visibleAt |-> t.visibleAt]
<1>5. ASSUME NEW p
      PROVE  p \in KnownBefore(k)' <=> p \in KnownBefore(k)
  <2>1. p \in KnownBefore(k) <=>
          /\ p.visibleAt < transactions[k].receivedAt
          /\ \/ \E c \in TrailCalibrations(k) : p = Of(c)
             \/ \E j \in TrailTransactions(k) :
                  transactions[j].balance # NULL /\ p = From(transactions[j])
    BY DEF KnownBefore, TrailPoints
  <2>2. p \in KnownBefore(k)' <=>
          /\ p.visibleAt < transactions'[k].receivedAt
          /\ \/ \E c \in TrailCalibrations(k)' : p = Of(c)
             \/ \E j \in TrailTransactions(k)' :
                  transactions'[j].balance # NULL /\ p = From(transactions'[j])
    BY DEF KnownBefore, TrailPoints
  <2>3. TrailTransactions(k) \subseteq TxIds /\ TrailTransactions(k)' \subseteq TxIds
    BY DEF TrailTransactions
  <2>4. p.visibleAt < transactions[k].receivedAt =>
          ((\E c \in TrailCalibrations(k)' : p = Of(c))
           <=> (\E c \in TrailCalibrations(k) : p = Of(c)))
    BY <1>3
  <2>5. p.visibleAt < transactions[k].receivedAt =>
          ((\E j \in TrailTransactions(k)' :
              transactions'[j].balance # NULL /\ p = From(transactions'[j]))
           <=> (\E j \in TrailTransactions(k) :
                  transactions[j].balance # NULL /\ p = From(transactions[j])))
    BY <1>4, <2>3
  <2> HIDE DEF Of, From
  <2>6. QED
    BY <1>1, <2>1, <2>2, <2>4, <2>5
<1>6. QED
  BY <1>5

\* An earlier point stays one, and more may become visible.
LEMMA EarlierGrows ==
  ASSUME TablesGrow, NEW k \in TxIds, transactions[k] # NULL
  PROVE  Earlier(k) \subseteq Earlier(k)'
<1>1. transactions'[k] = transactions[k]
  BY DEF TablesGrow
<1>2. TrailCalibrations(k) \subseteq TrailCalibrations(k)'
  BY <1>1 DEF TrailCalibrations, TablesGrow
<1>3. ASSUME NEW j \in TrailTransactions(k)
      PROVE  j \in TrailTransactions(k)' /\ transactions'[j] = transactions[j]
  BY <1>1 DEF TrailTransactions, TablesGrow
<1>4. QED
  BY <1>1, <1>2, <1>3 DEF Earlier, TrailPoints

\* What was on record before a payment was also stamped before it.
LEMMA KnownIsEarlier ==
  ASSUME Inv, ReceivedBefore, NEW k \in TxIds, transactions[k] # NULL
  PROVE  KnownBefore(k) \subseteq Earlier(k)
<1>1. transactions[k].receivedAt \in Nat
  BY DEF Inv, TypeOK, TxRow
<1>2. ASSUME NEW p \in TrailPoints(k)
      PROVE  p.at \in Nat /\ p.visibleAt \in Nat /\ p.at <= p.visibleAt
  <2>1. CASE \E c \in TrailCalibrations(k) :
               p = [balance |-> c.balance, at |-> c.at, visibleAt |-> c.visibleAt]
    BY <2>1 DEF TrailCalibrations, ReceivedBefore, Inv, TypeOK, CalibrationRow
  <2>2. CASE \E j \in TrailTransactions(k) :
               p = [balance |-> transactions[j].balance,
                    at |-> transactions[j].receivedAt,
                    visibleAt |-> transactions[j].visibleAt]
    <3>1. PICK j \in TrailTransactions(k) :
               p = [balance |-> transactions[j].balance,
                    at |-> transactions[j].receivedAt,
                    visibleAt |-> transactions[j].visibleAt]
      BY <2>2
    <3>2. transactions[j] \in TxRow
          /\ transactions[j].receivedAt <= transactions[j].visibleAt
      BY DEF TrailTransactions, ReceivedBefore, Inv, TypeOK
    <3>3. QED  BY <3>1, <3>2 DEF TxRow
  <2>3. QED
    BY <2>1, <2>2 DEF TrailPoints
<1>3. QED
  BY <1>1, <1>2 DEF KnownBefore, Earlier

\* A later calibration stays one, and more may come.
LEMMA LaterGrow ==
  ASSUME TablesGrow, NEW k \in TxIds, transactions[k] # NULL
  PROVE  LaterCalibrations(k) \subseteq LaterCalibrations(k)'
  BY DEF TablesGrow, LaterCalibrations, TrailCalibrations

\* So a verdict on a balance holds for good.
LEMMA BelievableStays ==
  ASSUME Inv, Inv', ReceivedBefore, TablesGrow, NEW k \in TxIds,
         transactions[k] # NULL, Believable(k)
  PROVE  Believable(k)'
<1>1. transactions'[k] = transactions[k]
  BY DEF TablesGrow
<1>2. KnownBefore(k)' = KnownBefore(k) /\ Earlier(k) \subseteq Earlier(k)'
  BY KnownStays, EarlierGrows
<1>3. LaterCalibrations(k) \subseteq LaterCalibrations(k)'
  BY LaterGrow
<1>4. QED
  BY <1>1, <1>2, <1>3 DEF Believable

\* Rows are stamped no later than they become visible, and that is now.
LEMMA ReceivedBeforeKept ==
  ASSUME Inv, Inv', ReceivedBefore, TablesGrow
  PROVE  ReceivedBefore'
<1>1. clock \in Nat /\ clock' \in Nat /\ clock <= clock'
  BY DEF Inv, TypeOK, TablesGrow
<1>2. ASSUME NEW k \in TxIds, transactions'[k] # NULL
      PROVE  /\ transactions'[k].receivedAt <= transactions'[k].visibleAt
             /\ transactions'[k].visibleAt <= clock'
  <2>1. transactions'[k] \in TxRow
    BY <1>2 DEF Inv, TypeOK
  <2>2. /\ transactions'[k].receivedAt <= transactions'[k].visibleAt
        /\ transactions'[k].visibleAt <= clock
    BY <1>1, <1>2 DEF ReceivedBefore, TablesGrow
  <2>3. QED  BY <1>1, <2>1, <2>2 DEF TxRow
<1>3. ASSUME NEW c \in calibrations'  PROVE c.at <= c.visibleAt
  BY DEF ReceivedBefore, TablesGrow
<1>4. QED
  BY <1>2, <1>3 DEF ReceivedBefore

\* What a resting request knows of the trail stays true.
LEMMA RestingTrail ==
  ASSUME Inv, Inv', ReceivedBefore, TablesGrow, NEW r \in Requests, Rests(r), KnowsTrail(r)
  PROVE  KnowsTrail(r)'
<1>1. CASE pc[r] \in {"count", "claim"}
  <2>1. tx[r] \in TxIds /\ transactions[tx[r]] # NULL
    BY <1>1 DEF Inv, ReadsStayTrue, ReadsTrue, KnowsPayment
  <2>2. PICK k \in TxIds : k = tx[r]
    BY <2>1
  <2>3. LaterCalibrations(k) \subseteq LaterCalibrations(k)'
    BY <2>1, <2>2, LaterGrow
  <2>4. Believable(k) => Believable(k)'
    BY <2>1, <2>2, BelievableStays
  <2>5. /\ LaterCalibrations(tx[r]) = LaterCalibrations(k)
        /\ LaterCalibrations(tx[r])' = LaterCalibrations(k)'
    BY <2>2 DEF Rests, LaterCalibrations, TrailCalibrations
  <2>6. Believable(tx[r]) = Believable(k) /\ Believable(tx[r])' = Believable(k)'
    BY <2>2 DEF Rests, Believable, LaterCalibrations, TrailCalibrations, Earlier,
       KnownBefore, TrailPoints, TrailTransactions
  <2>7. QED
    BY <1>1, <2>3, <2>4, <2>5, <2>6 DEF Rests, KnowsTrail
<1>2. CASE pc[r] \notin {"count", "claim"}
  BY <1>2 DEF Rests, KnowsTrail
<1>3. QED
  BY <1>1, <1>2

\* The three reads behind a verdict, and the steps that read no balance.
LEMMA ActingTrail ==
  ASSUME Inv, ReceivedBefore, NEW r \in Requests, Acts(r), KnowsTrail(r)
  PROVE  KnowsTrail(r)'
<1>1. UNCHANGED <<transactions, calibrations>>
  BY DEF Acts, Serve, StartVerify, CheckRateLimit, ReadOrder, FindTransaction,
     ReadLaterCalibration, CountTransactionsAfter, ReadPreviousBalance, Claim,
     ClaimRefused, RereadOrder, LogAttempt, Abort, tables
<1>2. ASSUME NEW k
      PROVE  /\ LaterCalibrations(k)' = LaterCalibrations(k)
             /\ Believable(k)' = Believable(k)
  BY <1>1 DEF Believable, LaterCalibrations, TrailCalibrations, Earlier, KnownBefore, TrailPoints,
     TrailTransactions
<1>3. CASE \/ \E b \in Businesses, e \in ExtIds, t \in TrxIds : StartVerify(r, b, e, t)
           \/ CheckRateLimit(r)
           \/ ReadOrder(r)
  <2>1. anchor' = anchor /\ anchor[r] = NULL
        /\ pc'[r] \in {"limit", "order", "transaction", "log", "done"}
    BY <1>3 DEF StartVerify, CheckRateLimit, ReadOrder, Goto, Conclude, KnowsTrail,
       Inv, TypeOK
  <2>2. QED  BY <2>1 DEF KnowsTrail
<1>4. CASE FindTransaction(r)
  <2>1. PICK k : k = tx'[r]
    OBVIOUS
  <2>2. /\ anchor' = anchor /\ anchor[r] = NULL
        /\ pc'[r] \in {"calibration", "claim", "log"}
        /\ pc'[r] = "claim" => transactions[k].balance = NULL
    BY <1>4, <2>1 DEF FindTransaction, Goto, Conclude, KnowsTrail, LatestTx, TxOf, Inv, TypeOK
  <2>3. pc'[r] = "claim" => Believable(k)
    BY <2>2 DEF Believable
  <2>4. Believable(tx[r])' = Believable(k)'
    BY <2>1 DEF Believable, LaterCalibrations, TrailCalibrations, Earlier, KnownBefore, TrailPoints,
       TrailTransactions
  <2>5. QED  BY <1>2, <2>2, <2>3, <2>4 DEF KnowsTrail
<1>5. CASE ReadLaterCalibration(r) \/ CountTransactionsAfter(r) \/ ReadPreviousBalance(r)
  <2>1. PICK k : k = tx[r]
    OBVIOUS
  <2>2. /\ tx' = tx
        /\ LaterCalibrations(tx[r])' = LaterCalibrations(k)'
        /\ Believable(tx[r])' = Believable(k)'
    <3>1. tx' = tx
      BY <1>5 DEF ReadLaterCalibration, CountTransactionsAfter, ReadPreviousBalance
    <3>2. QED
      BY <2>1, <3>1 DEF Believable, LaterCalibrations, TrailCalibrations, Earlier,
         KnownBefore, TrailPoints, TrailTransactions
  <2>3. CASE ReadLaterCalibration(r)
    <3>1. pc'[r] = "count" /\ anchor[r] = NULL
      BY <2>3 DEF ReadLaterCalibration, Goto, KnowsTrail, Inv, TypeOK
    <3>2. anchor'[r] # NULL => \E c \in LaterCalibrations(k) : c.balance = anchor'[r]
      BY <2>1, <2>3, <3>1 DEF ReadLaterCalibration, Latest, Inv, TypeOK
    <3>3. QED  BY <1>2, <2>2, <3>1, <3>2 DEF KnowsTrail
  <2>4. CASE CountTransactionsAfter(r)
    <3>1. pc[r] = "count" /\ pc'[r] \in {"claim", "log", "previous"}
      BY <2>4 DEF CountTransactionsAfter, Goto, Conclude, Inv, TypeOK
    <3>2. pc'[r] = "claim" => anchor[r] # NULL /\ anchor[r] = transactions[k].balance
      BY <2>1, <2>4 DEF CountTransactionsAfter, Goto, Conclude, Inv, TypeOK
    <3>3. pc'[r] = "claim" => Believable(k)
      BY <2>1, <3>1, <3>2 DEF KnowsTrail, Believable
    <3>4. QED  BY <1>2, <2>2, <3>1, <3>3 DEF KnowsTrail
  <2>5. CASE ReadPreviousBalance(r)
    <3>1. pc'[r] \in {"claim", "log"}
      BY <2>5 DEF ReadPreviousBalance, Goto, Conclude, Inv, TypeOK
    <3>2. transactions[k].direction = "credit"
      BY <2>1, <2>5 DEF ReadPreviousBalance, Inv, ReadsStayTrue, ReadsTrue, KnowsPayment
    <3>3. pc'[r] = "claim" =>
            \/ Earlier(k) = {}
            \/ \E p \in Latest(Earlier(k)) :
                 Expected(p.balance, transactions[k]) = transactions[k].balance
      BY <2>1, <2>5 DEF ReadPreviousBalance, Goto, Conclude, Inv, TypeOK
    <3>4. KnownBefore(k) \subseteq Earlier(k)
      BY <2>1, <2>5, KnownIsEarlier
         DEF ReadPreviousBalance, Inv, ReadsStayTrue, ReadsTrue, KnowsPayment
    <3>5. pc'[r] = "claim" => Believable(k)
      BY <3>2, <3>3, <3>4 DEF Expected, Believable, Latest
    <3>6. QED  BY <1>2, <2>2, <3>1, <3>5 DEF KnowsTrail
  <2>6. QED  BY <1>5, <2>3, <2>4, <2>5
<1>6. CASE Claim(r) \/ ClaimRefused(r) \/ RereadOrder(r) \/ LogAttempt(r) \/ Abort(r)
  <2>1. pc'[r] \in {"reread", "log", "done"}
    BY <1>6 DEF Claim, ClaimRefused, RereadOrder, LogAttempt, Abort, Goto, Conclude, Inv, TypeOK
  <2>2. QED  BY <2>1 DEF KnowsTrail
<1>7. QED
  BY <1>3, <1>4, <1>5, <1>6 DEF Acts, Serve

\* An order gets its payment from a claim.
LEMMA PaidByClaim ==
  ASSUME Inv, [Next]_vars, NEW o \in OrderIds, orders'[o].matched # orders[o].matched
  PROVE  \E r \in Requests : Claim(r) /\ orders'[o].matched = tx[r]
<1>1. orders' # orders
  OBVIOUS
<1>2. ~ExpireStaleOrders
  BY SweptRow DEF Inv
<1>3. ASSUME NEW k \in OrderIds, NEW in \in OrderInputs, CreateOrder(k, in)
      PROVE  FALSE
  BY <1>3 DEF CreateOrder, Insertable, Inv, PaidByMatchingPayment, TypeOK
<1>4. PICK r \in Requests : Claim(r)
  BY <1>1, <1>2, <1>3 DEF Next, Serve, InsertTransaction, CalibrateBalance,
     Tick, StartVerify, CheckRateLimit, ReadOrder, FindTransaction,
     ReadLaterCalibration, CountTransactionsAfter, ReadPreviousBalance,
     ClaimRefused, RereadOrder, LogAttempt, Abort, tables, vars
<1>5. QED
  BY <1>4, ClaimFinds DEF PaidWith, Inv, TypeOK

\* Every step keeps what is known of the trails.
LEMMA TrailsKept ==
  ASSUME Inv, Inv', Trails, [Next]_vars
  PROVE  Trails'
<1>1. TablesGrow
  BY StepGrows DEF Inv
<1>2. ReceivedBefore'
  BY <1>1, ReceivedBeforeKept DEF Trails
<1>3. ASSUME NEW r \in Requests  PROVE KnowsTrail(r)'
  BY <1>1, OneActs, RestingTrail, ActingTrail DEF Trails, Inv
<1>4. ASSUME NEW o \in OrderIds, orders'[o].matched # NULL
      PROVE  Believable(orders[o].matched)'
  <2>1. PICK k : k = orders'[o].matched
    OBVIOUS
  <2>2. k \in TxIds /\ transactions[k] # NULL /\ Believable(k)
    <3>1. CASE orders'[o].matched = orders[o].matched
      BY <1>4, <2>1, <3>1 DEF Trails, Inv, TypeOK, OrderRow, PaidByMatchingPayment
    <3>2. CASE orders'[o].matched # orders[o].matched
      <4>1. PICK r \in Requests : Claim(r) /\ k = tx[r]
        BY <2>1, <3>2, PaidByClaim
      <4>2. pc[r] = "claim" /\ Believable(tx[r])
        BY <4>1 DEF Claim, Trails, KnowsTrail
      <4>3. Believable(tx[r]) = Believable(k)
        BY <4>1
      <4>4. QED  BY <4>1, <4>2, <4>3, ClaimFinds
    <3>3. QED  BY <3>1, <3>2
  <2>3. Believable(k)'
    BY <1>1, <2>2, BelievableStays DEF Trails
  <2>4. QED
    BY <2>1, <2>3 DEF Believable, LaterCalibrations, TrailCalibrations, Earlier,
       KnownBefore, TrailPoints, TrailTransactions
<1>5. QED
  BY <1>2, <1>3, <1>4 DEF Trails

--------------------------------------------------------------------------------
\* The theorems.

\* The empty log and the idle requests satisfy both.
LEMMA AnswersStart == Init => Answers /\ Trails
<1> SUFFICES ASSUME Init  PROVE Answers /\ Trails
  OBVIOUS
<1>1. Answers
  BY DEF Init, Answers, Logged, SuccessIsRead, UsedTruly, LimitedTruly
<1>2. Trails
  BY DEF Init, Trails, ReceivedBefore, KnowsTrail, NoOrder
<1>3. QED
  BY <1>1, <1>2

\* Answers, audit rows and verdicts keep their grounds in every reachable state.
THEOREM AnswersKeep == Spec => [](Inv /\ Answers /\ Trails)
<1>1. Init => Inv /\ Answers /\ Trails
  BY InitInv, AnswersStart
<1>2. ASSUME Inv /\ Answers /\ Trails, [Next]_vars
      PROVE  (Inv /\ Answers /\ Trails)'
  <2>1. Inv'
    BY <1>2, InductiveStep
  <2>2. Answers'
    BY <1>2, LoggedKept, SuccessIsReadKept, UsedTrulyKept, LimitedTrulyKept DEF Answers
  <2>3. Trails'
    BY <1>2, <2>1, TrailsKept
  <2>4. QED
    BY <2>1, <2>2, <2>3
<1>3. QED
  BY <1>1, <1>2, PTL DEF Spec

\* verify.go answers "already_used" only of an order that is paid or a payment
\* that holds an order, and that remains so.
THEOREM UsedMeansUsed == Spec => []AlreadyUsedTruthful
<1>1. Answers => AlreadyUsedTruthful
  BY DEF Answers, UsedTruly, AlreadyUsedTruthful
<1>2. QED
  BY <1>1, AnswersKeep, PTL

\* A "success" that logAttempt has written names the order and the payment that
\* settled it, and no other row says the same of that order.
THEOREM AuditIsTrue == Spec => []AuditTruthful
<1>1. Inv /\ Answers => AuditTruthful
  BY DEF Inv, Answers, Logged, SuccessIsExclusive, AuditTruthful
<1>2. QED
  BY <1>1, AnswersKeep, PTL

\* The rate limiter refuses a business only for attempts of its own.
THEOREM OwnLimit == Spec => []LimitIsOwn
<1>1. Answers => LimitIsOwn
  BY DEF Answers, LimitedTruly, LoggedBy, LimitIsOwn
<1>2. QED
  BY <1>1, AnswersKeep, PTL

\* The balance a settled payment states had a reason to be believed, and still
\* has, although verify.go read it in three statements and rows stamped before
\* the payment may become visible between and after them.
THEOREM BalancesContinue == Spec => []PaidContinuity
<1>1. ASSUME Inv, Trails  PROVE PaidContinuity
  <2>1. ASSUME NEW o \in OrderIds, orders[o].matched # NULL,
               transactions[orders[o].matched].balance # NULL
        PROVE  LET k == orders[o].matched
                   t == transactions[k]
               IN \/ \E c \in LaterCalibrations(k) : c.balance = t.balance
                  \/ KnownBefore(k) = {}
                  \/ \E p \in Earlier(k) : /\ \A q \in KnownBefore(k) : q.at <= p.at
                                          /\ p.balance + t.amount = t.balance
    BY <1>1, <2>1 DEF Trails, Believable
  <2>2. QED
    BY <2>1 DEF PaidContinuity, LaterCalibrations, Earlier
<1>2. QED
  BY <1>1, AnswersKeep, PTL

\* A verification that reads its order after the expiry is refused, whether or
\* not the sweeper has come by.
THEOREM TooLateIsRefused == Spec => ExpiredIsRefused
<1>1. SUFFICES ASSUME NEW r \in Requests, NEW k \in OrderIds
      PROVE  Spec => []((/\ pc[r] \in {"limit", "order"}
                         /\ OrderOf(r) = k
                         /\ orders[k].status = "pending"
                         /\ Stale(orders[k])) => [](outcome[r] # "success"))
  BY DEF ExpiredIsRefused
<1> DEFINE TooLate == /\ pc[r] \in {"limit", "order"}
                      /\ OrderOf(r) = k
                      /\ orders[k].status = "pending"
                      /\ Stale(orders[k])
           Closed == orders[k].status = "expired" \/ orders[k].status = "paid"
                     \/ (orders[k].status = "pending" /\ Stale(orders[k]))
           Lost == /\ outcome[r] # "success"
                   /\ pc[r] \in {"limit", "order", "log", "done"}
                   /\ pc[r] \in {"limit", "order"} => OrderOf(r) = k /\ Closed
<1>2. Inv /\ TooLate => Lost
  BY DEF Inv, ReadsStayTrue, ReadsTrue, Steps
<1>3. Inv /\ Lost /\ [Next]_vars => Lost'
  <2>1. SUFFICES ASSUME Inv, Lost, [Next]_vars  PROVE Lost'
    OBVIOUS
  <2>2. Closed => Closed'
    <3>1. /\ orders[k] \in OrderRow /\ orders'[k] \in OrderRow
          /\ clock \in Nat /\ clock' \in Nat /\ clock <= clock'
      BY <2>1, InductiveStep, StepGrows DEF Inv, TypeOK, TablesGrow
    <3>2. CASE orders[k].status \in {"expired", "paid"}
      BY <2>1, <3>2, OrdersStay
    <3>3. CASE orders[k].status = "pending" /\ Stale(orders[k])
      <4>1. orders'[k].status # "absent" /\ orders'[k].expires = orders[k].expires
        BY <2>1, <3>3, OrdersStay, StatusStays
      <4>2. Stale(orders[k])'
        BY <3>1, <3>3, <4>1 DEF Stale, OrderRow
      <4>3. QED  BY <3>1, <4>1, <4>2 DEF OrderRow
    <3>4. QED  BY <3>2, <3>3
  <2>3. CASE Rests(r)
    BY <2>1, <2>2, <2>3 DEF Rests, OrderOf
  <2>4. CASE CheckRateLimit(r)
    BY <2>1, <2>2, <2>4 DEF CheckRateLimit, Goto, OrderOf, Inv, TypeOK
  <2>5. CASE ReadOrder(r)
    <3>1. Standing(orders[k]) \in {"order_expired", "order_not_pending"}
      BY <2>1, <2>5 DEF ReadOrder, Standing
    <3>2. pc'[r] = "log" /\ outcome'[r] # "success"
      BY <2>1, <2>5, <3>1 DEF ReadOrder, Goto, Conclude, Inv, TypeOK
    <3>3. QED  BY <3>2
  <2>6. CASE LogAttempt(r) \/ Abort(r)
    BY <2>1, <2>6 DEF LogAttempt, Abort, Goto, Inv, TypeOK
  <2>7. QED
    BY <2>1, <2>3, <2>4, <2>5, <2>6, OneActs DEF Acts, Serve, StartVerify, FindTransaction,
       ReadLaterCalibration, CountTransactionsAfter, ReadPreviousBalance, Claim,
       ClaimRefused, RereadOrder, Inv
<1>4. Lost => outcome[r] # "success"
  OBVIOUS
<1>5. QED
  BY <1>2, <1>3, <1>4, Invariance, PTL DEF Spec
=============================================================================
