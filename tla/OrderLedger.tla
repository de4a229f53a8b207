----------------------------- MODULE OrderLedger -----------------------------
(***************************************************************************)
(* What VindraPay promises a merchant about money: an order asks for a     *)
(* price, a payment carries a value, and an order is settled at most once, *)
(* by a payment worth exactly the price that settles nothing else.         *)
(*                                                                         *)
(* The database statements behind one verification, the requests that      *)
(* interleave and the errors are all in Verify.tla, which implements this  *)
(* module.                                                                 *)
(***************************************************************************)
CONSTANTS
  Orders,     \* order identities
  Payments,   \* transaction identities
  Worth,      \* what an order asks for and a payment brings
  NULL        \* no value: neither a payment nor a worth

VARIABLES
  status,     \* status[o]: "absent", "pending", "paid" or "expired"
  price,      \* price[o]: what order o asks for
  value,      \* value[p]: what payment p brings, NULL while it cannot be claimed
  paidBy      \* paidBy[o]: the payment that settled order o

vars == <<status, price, value, paidBy>>

Init ==
  /\ status = [o \in Orders |-> "absent"]
  /\ price = [o \in Orders |-> NULL]
  /\ value = [p \in Payments |-> NULL]
  /\ paidBy = [o \in Orders |-> NULL]

\* A merchant opens an order, once, with its price.
Open(o, w) ==
  /\ status[o] = "absent"
  /\ status' = [status EXCEPT ![o] = "pending"]
  /\ price' = [price EXCEPT ![o] = w]
  /\ UNCHANGED <<value, paidBy>>

\* Money arrives; what a payment brings is fixed when it is recorded.
Receive(p, w) ==
  /\ value[p] = NULL
  /\ value' = [value EXCEPT ![p] = w]
  /\ UNCHANGED <<status, price, paidBy>>

\* A pending order is settled by an unspent payment worth its price.
Pay(o, p) ==
  /\ status[o] = "pending"
  /\ value[p] # NULL
  /\ value[p] = price[o]
  /\ \A other \in Orders : paidBy[other] # p
  /\ status' = [status EXCEPT ![o] = "paid"]
  /\ paidBy' = [paidBy EXCEPT ![o] = p]
  /\ UNCHANGED <<price, value>>

\* Orders that waited too long are closed, any number of them at once.
Expire(batch) ==
  /\ \A o \in batch : status[o] = "pending"
  /\ status' = [o \in Orders |-> IF o \in batch THEN "expired" ELSE status[o]]
  /\ UNCHANGED <<price, value, paidBy>>

Next ==
  \/ \E o \in Orders, w \in Worth : Open(o, w)
  \/ \E p \in Payments, w \in Worth : Receive(p, w)
  \/ \E o \in Orders, p \in Payments : Pay(o, p)
  \/ \E batch \in SUBSET Orders : Expire(batch)

Spec == Init /\ [][Next]_vars
==============================================================================
