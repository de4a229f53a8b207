-------------------------------- MODULE Reading --------------------------------
(***************************************************************************)
(* What a template makes of an SMS: the sender gate, the match, the script *)
(* and the columns of the transaction (ingestOne and runProviderScript of  *)
(* services/ingest.go, scripting/scripting.go).                            *)
(*                                                                         *)
(* The regular expression engine and the JavaScript engine are external:   *)
(* what the one captures and the other returns are arguments.  Numbers in  *)
(* an SMS and in a script's result are counted in thousandths, the finest  *)
(* the models tell apart, and stored in hundredths.                        *)
(*                                                                         *)
(* A definition Name_Bug is Name with one plausible bug, kept beside it to *)
(* show that the properties notice; nothing refers to it.                  *)
(***************************************************************************)
EXTENDS Integers, SmsTemplate

CONSTANTS
  TrxIds,       \* TrxID values
  AllowUnsafe,  \* ALLOW_UNSAFE_SCRIPTS
  MaxMoney      \* the greatest NUMERIC(12,2), and maxMoneyAmount, in hundredths

ASSUME ReadingAssumption ==
  /\ AllowUnsafe \in BOOLEAN
  /\ MaxMoney \in Nat \ {0}
  /\ NULL \notin Int \cup TrxIds
  /\ Unusable \notin Int \cup TrxIds

\* Round(2), and the rounding of a NUMERIC(12,2) column: half away from zero.
Hundredths(n) == IF n < 0 THEN -((5 - n) \div 10) ELSE (n + 5) \div 10

--------------------------------------------------------------------------------
\* Scripts.

\* How a script ends: it calls reject, it fails (an exception, a timeout, a value
\* that is no object), it returns nothing, or an object, of which only the keys
\* that have a meaning are kept.  A number that is not finite is NULL, a TrxID of
\* the wrong length or with a blank is Unusable; of the sender and the extras it
\* matters whether they are within their limits.
Returns(fields) == [kind |-> "object", fields |-> fields]

\* fieldNumber and the limits of an amount, before and after rounding.
Payable(n) == n # NULL /\ n > 0 /\ Hundredths(n) <= MaxMoney

\* Keys whose value is looked at; the unsafe ones only when they are allowed.
Considered(fields) ==
  IF AllowUnsafe THEN DOMAIN fields ELSE DOMAIN fields \ {"trxId", "balance"}

Acceptable(key, value) ==
  CASE key \in {"amount", "balance"} -> Payable(value)
    [] key = "trxId"                 -> value # Unusable
    [] key \in {"sender", "meta"}    -> value

Output(fields) ==
  [key \in {"amount", "trxId", "balance"} |->
     CASE key \notin Considered(fields) -> NULL
       [] key \in Considered(fields) /\ key = "trxId" -> fields[key]
       [] OTHER -> Hundredths(fields[key])]

\* Run: the first key that is not acceptable fails it as a whole.
Run(end) ==
  CASE end.kind = "rejects" -> [kind |-> "rejected"]
    [] end.kind = "fails"   -> [kind |-> "error"]
    [] end.kind = "nothing" -> [kind |-> "output", of |-> Output(<<>>)]
    [] end.kind = "object"  ->
         IF \A key \in Considered(end.fields) : Acceptable(key, end.fields[key])
         THEN [kind |-> "output", of |-> Output(end.fields)]
         ELSE [kind |-> "error"]

--------------------------------------------------------------------------------
\* Transactions.

\* The columns InsertTransaction is given, from the captured groups and the
\* output of the script: the raw amount stays next to the effective one.
Columns_Overwritten(groups, out) ==
  [trx |-> IF out["trxId"] = NULL THEN groups["trxId"] ELSE out["trxId"],
   amount |-> IF out["amount"] = NULL THEN Hundredths(groups["amount"]) ELSE out["amount"],
   effective |-> out["amount"],
   balance |-> NULL]
Columns(groups, out) ==
  [trx |-> IF out["trxId"] = NULL THEN groups["trxId"] ELSE out["trxId"],
   amount |-> Hundredths(groups["amount"]),
   effective |-> out["amount"],
   balance |-> CASE out["balance"] # NULL -> out["balance"]
                 [] out["balance"] = NULL /\ groups["balance"] # NULL ->
                      Hundredths(groups["balance"])
                 [] OTHER -> NULL]

\* CHECK (amount > 0), CHECK (effective_amount > 0) and the range of the columns.
Storable(row) ==
  /\ row.amount \in 1 .. MaxMoney
  /\ row.effective # NULL => row.effective \in 1 .. MaxMoney
  /\ row.balance # NULL => row.balance \in -MaxMoney .. MaxMoney

\* senderGate: a template without a sender reads every SMS.
senderGate(sender, from) == sender = NULL \/ sender = from

\* What template t makes of an SMS from a sender in which its pattern captures
\* `groups` and its script, if it has one, ends with `end`: it passes over it,
\* fails, rejects it, or reads a transaction.  A template whose pattern is not the
\* one its text compiles to is passed over.
Read(t, from, groups, end) ==
  IF \/ ~senderGate(t.sender, from)
     \/ compileByMode(t.mode, t.text) = Invalid
     \/ PatternOf(t.mode, t.text) # t.pattern
     \/ Match(groups) = "none"
  THEN [kind |-> "none"]
  ELSE IF Match(groups) = "error" THEN [kind |-> "error"]
  ELSE IF ~t.scripted
  THEN [kind |-> "fields", of |-> Columns(groups, Output(<<>>))]
  ELSE IF Run(end).kind = "output"
  THEN [kind |-> "fields", of |-> Columns(groups, Run(end).of)]
  ELSE Run(end)
================================================================================
