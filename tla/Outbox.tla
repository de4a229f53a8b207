-------------------------------- MODULE Outbox --------------------------------
(***************************************************************************)
(* What the phone promises about a message: it is kept under one id,       *)
(* however often it is broadcast, carried to the server under that id      *)
(* until it is noted as sent, which is after the server has it, and never  *)
(* again after that.                                                       *)
(*                                                                         *)
(* Coroutines, the upload job, the network and the process that dies are   *)
(* in Capture.tla, which implements this module.                           *)
(***************************************************************************)
CONSTANTS
  Messages,  \* what was said: one message, however often it is broadcast
  Ids,       \* client message ids
  NULL       \* no id

VARIABLES
  id,        \* id[m]: the id message m is kept under
  carried,   \* the messages on their way, or waiting to be noted
  handed,    \* the ids the server was handed
  sent       \* the messages noted as sent

vars == <<id, carried, handed, sent>>

Init ==
  /\ id = [m \in Messages |-> NULL]
  /\ carried = {} /\ handed = {} /\ sent = {}

Keep(m, i) ==
  /\ id[m] = NULL
  /\ id' = [id EXCEPT ![m] = i]
  /\ UNCHANGED <<carried, handed, sent>>

\* One batch at a time, of what is kept and not noted as sent.
Take(batch) ==
  /\ carried = {}
  /\ \A m \in batch : id[m] # NULL /\ m \notin sent
  /\ carried' = batch
  /\ UNCHANGED <<id, handed, sent>>

\* The server is handed the batch; its answer may be lost.
Hand ==
  /\ handed' = handed \cup {id[m] : m \in carried}
  /\ carried' \in {carried, {}}
  /\ UNCHANGED <<id, sent>>

Note(m) ==
  /\ m \in carried /\ id[m] \in handed
  /\ carried' = carried \ {m}
  /\ sent' = sent \cup {m}
  /\ UNCHANGED <<id, handed>>

\* The batch is given up, to be taken again.
Drop ==
  /\ carried' = {}
  /\ UNCHANGED <<id, handed, sent>>

Next ==
  \/ \E m \in Messages, i \in Ids : Keep(m, i)
  \/ \E batch \in SUBSET Messages : Take(batch)
  \/ \E m \in Messages : Note(m)
  \/ Hand \/ Drop

Spec == Init /\ [][Next]_vars
===============================================================================
