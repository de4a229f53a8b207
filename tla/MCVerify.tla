------------------------------- MODULE MCVerify -------------------------------
(***************************************************************************)
(* Small instances of Verify. Each scenario is a set of inputs; the cfg    *)
(* files pick one and give the remaining constants their values.           *)
(***************************************************************************)
EXTENDS Verify, TLC

CONSTANTS b1, b2, d1, d2, p1, p2, t1, t2, r1, r2

\* Requests play the same role in every scenario.
RequestSymmetry == Permutations(Requests)

Order(amount, expires) == [amount |-> amount, expires |-> expires]

Credit(d, p, t, amount, balance) ==
  [device |-> d, provider |-> p, trx |-> t, amount |-> amount,
   effective |-> NULL, balance |-> balance, direction |-> "credit"]

Debit(d, p, t, amount, balance) ==
  [Credit(d, p, t, amount, balance) EXCEPT !.direction = "debit"]

Scripted(d, p, t, amount, effective) ==
  [Credit(d, p, t, amount, NULL) EXCEPT !.effective = effective]

OneOwner == [d \in Devices |-> b1]
TwoOwners == [d \in Devices |-> IF d = d1 THEN b1 ELSE b2]

\* Contention: two orders of one price, one payment, one of the orders may expire.
ContentionOrders == {Order(1, NULL), Order(1, 0)}
ContentionTxs == {Credit(d1, p1, t1, 1, NULL)}

\* Tenancy: two businesses, a TrxID that two templates may extract on two
\* phones, as a credit, a debit or with a script's amount.
TenancyOrders == {Order(1, NULL), Order(2, NULL)}
TenancyTxs == {Credit(d1, p1, t1, 1, NULL), Credit(d2, p1, t1, 1, NULL),
               Debit(d1, p2, t1, 1, NULL), Credit(d1, p2, t1, 2, NULL),
               Scripted(d2, p2, t1, 2, 1), Scripted(d1, p2, t1, 1, 2)}

\* Balance: payments of one trail that follow each other or do not, a payment
\* of another trail, a cash-out, and calibrations.
BalanceOrders == {Order(1, NULL)}
BalanceTxs == {Credit(d1, p1, t1, 1, 1), Credit(d1, p1, t2, 1, 2),
               Debit(d1, p1, t2, 1, 0), Credit(d1, p2, t2, 1, 2)}
BalanceCalibrations == {[device |-> d1, provider |-> p1, balance |-> 1]}

NoCalibrations == {}
==============================================================================
