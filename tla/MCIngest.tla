------------------------------- MODULE MCIngest -------------------------------
(***************************************************************************)
(* A small instance of Ingest: two businesses with a phone each, a         *)
(* template of business b1 and a global one, a regular expression.         *)
(***************************************************************************)
EXTENDS Ingest

CONSTANTS b1, b2, d1, d2, m1, m2, m3, own, global, u1, u2

Owners == [d \in Devices |-> IF d = d1 THEN b1 ELSE b2]
Phones == [m \in Messages |-> IF m \in {m1, m2} THEN d1 ELSE d2]

\* The own template is younger than the global one and goes first; the global one
\* is for the senders of a bank.
Text  == <<"{", "amount", "}", "word", "{", "trxId", "}", "word", "{", "balance", "?", "}">>
Regex == <<"(?P<amount>", "word", "(?P<trxId>", "word", "(?P<balance>">>
Template(b, sender, created, mode, text) ==
  [business |-> b, sender |-> sender, priority |-> 100, created |-> created,
   mode |-> mode, text |-> text, pattern |-> PatternOf(mode, text), scripted |-> TRUE]
Templates == [p \in Providers |->
  IF p = own THEN Template(b1, NULL, 2, "template", Text)
             ELSE Template(NULL, "bank", 1, "regex", Regex)]

\* m1 and m3 tell of the same transfer of 2.00, to an account overdrawn by 5.00,
\* and m2 of a fee of less than half a cent, which no column can hold and whose
\* balance, as the regular expression finds it, is no number.
Senders == [m \in Messages |-> "bank"]
Capture(amount, trx, balance) ==
  [f \in FieldNames |-> CASE f = "amount"  -> amount  [] f = "trxId" -> trx
                          [] f = "balance" -> balance [] OTHER       -> NULL]
Captured == [pm \in Providers \X Messages |->
  CASE pm = <<own, m2>>    -> Capture(4, "t2", NULL)
    [] pm = <<global, m2>> -> Capture(4, "t2", Unusable)
    [] pm[2] # m2          -> Capture(2000, "t1", IF pm[1] = own THEN 5000 ELSE -5000)]

\* The script of the own template takes a commission and would rewrite the
\* TrxID; the global one returns nothing.
Scripts == [pm \in Providers \X Messages |->
  IF pm[1] = own
  THEN Returns([amount |-> 1985, trxId |-> "t2", balance |-> 1, meta |-> TRUE])
  ELSE [kind |-> "nothing"]]

\* The empty function adds nothing; with it TLC tabulates the readings.
Table == AllReadings @@ <<>>

\* One phone sends its two SMS together, the other phone its own.
Sends == {<<m1, m2>>, <<m3>>}
==============================================================================
