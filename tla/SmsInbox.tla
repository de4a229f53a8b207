------------------------------- MODULE SmsInbox -------------------------------
(***************************************************************************)
(* What the backend promises about an SMS it is sent: it is stored once    *)
(* and settled once; at most one payment is recorded from it, while it is  *)
(* unsettled, as the first template on offer reads it; it is settled as    *)
(* "parsed" if that payment, or the one another SMS told of, is on record, *)
(* and as anything else only if it brought none.                           *)
(*                                                                         *)
(* Uploads, their retries, the statements that interleave and those that   *)
(* fail are in Ingest.tla, which implements this module.                   *)
(***************************************************************************)
CONSTANTS
  Messages,   \* SMS
  Payments,   \* transaction identities
  Templates,  \* what SMS are read with
  Tells,      \* Tells[m]: the payments some template may read in m
  Better,     \* Better[m][p]: the templates that read m before the one of p
  NULL        \* no SMS

VARIABLES
  offered,    \* the templates that are switched on
  status,     \* status[m]: "absent", "pending" or how m was settled
  source      \* source[p]: the SMS payment p was recorded from

vars == <<offered, status, source>>

Recorded(p)  == source[p] # NULL
Brought(m)   == {p \in Payments : source[p] = m}

Init ==
  /\ offered = Templates
  /\ status = [m \in Messages |-> "absent"]
  /\ source = [p \in Payments |-> NULL]

\* A template is switched off.
Withdraw(t) ==
  /\ offered' = offered \ {t}
  /\ UNCHANGED <<status, source>>

Store(m) ==
  /\ status[m] = "absent"
  /\ status' = [status EXCEPT ![m] = "pending"]
  /\ UNCHANGED <<offered, source>>

Record(m, p) ==
  /\ status[m] = "pending" /\ Brought(m) = {}
  /\ p \in Tells[m] /\ ~Recorded(p)
  /\ Better[m][p] \cap offered = {}
  /\ source' = [source EXCEPT ![p] = m]
  /\ UNCHANGED <<offered, status>>

Settle(m, as) ==
  /\ status[m] = "pending"
  /\ as = "parsed" => \E p \in Tells[m] : Recorded(p)
  /\ as # "parsed" => Brought(m) = {}
  /\ status' = [status EXCEPT ![m] = as]
  /\ UNCHANGED <<offered, source>>

Next ==
  \/ \E t \in Templates : Withdraw(t)
  \/ \E m \in Messages : Store(m)
  \/ \E m \in Messages, p \in Payments : Record(m, p)
  \/ \E m \in Messages, as \in {"parsed", "unmatched", "skipped", "error"} : Settle(m, as)

Spec == Init /\ [][Next]_vars
===============================================================================
