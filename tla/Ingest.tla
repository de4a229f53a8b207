-------------------------------- MODULE Ingest --------------------------------
(***************************************************************************)
(* POST /device/v1/messages: a phone uploads a batch of SMS, the server    *)
(* stores each in its inbox (raw_messages), reads it with the first        *)
(* template that matches and records a transaction                         *)
(* (backend/internal/services/ingest.go).                                  *)
(*                                                                         *)
(* One step per database statement. Uploads of several phones, and the     *)
(* retry of an upload whose response was lost, interleave; a statement may *)
(* fail, the process may die, and neither is undone by a transaction.      *)
(* What a template makes of a body is a function of the two, computed by   *)
(* module Reading from what the regular expression captures and the script *)
(* returns.                                                                *)
(*                                                                         *)
(* A definition Name_Bug is Name with one plausible bug, kept beside it to *)
(* show that the properties notice; nothing refers to it.                  *)
(***************************************************************************)
EXTENDS Reading

CONSTANTS
  Businesses,  \* tenants
  Devices,     \* phones
  OwnerOf,     \* OwnerOf[d]: the business of device d
  Messages,    \* captured SMS, identified by client_msg_id
  DeviceOf,    \* DeviceOf[m]: the phone that captured m
  SenderOf,    \* SenderOf[m]: the sender id of m
  Providers,   \* SMS templates
  Info,        \* Info[p]: the row of p, whose text is not edited here
  Found,       \* Found[<<p, m>>]: what the pattern of p captures in m, or NULL
  Endings,     \* Endings[<<p, m>>]: how the script of p ends on m
  Readings,    \* Readings[<<p, m>>]: what p makes of m, were it asked
  Batches,     \* the batches phones send, sequences of messages
  Uploads      \* upload requests, each served once

TxIds == Providers \X TrxIds

\* The constant Readings is this function, which an instance tabulates once.
AllReadings ==
  [pm \in Providers \X Messages |->
     Read(Info[pm[1]], SenderOf[pm[2]], Found[pm], Endings[pm])]

Contents == [trx : TrxIds, amount : Int, effective : Nat \cup {NULL},
             balance : Int \cup {NULL}]
Outcomes == [kind : {"none", "rejected", "error"}] \cup
            [kind : {"fields"}, of : Contents]

ASSUME IngestAssumption ==
  /\ Readings = AllReadings
  /\ Readings \in [Providers \X Messages -> Outcomes]
  /\ OwnerOf \in [Devices -> Businesses]
  /\ DeviceOf \in [Messages -> Devices]
  /\ \A p \in Providers : Info[p].business \in Businesses \cup {NULL}
  /\ NULL \notin Providers \cup TxIds \cup Messages
  /\ \A list \in SUBSET Providers : list # NULL
  /\ NULL \notin [message : Messages, content : Contents]
  /\ \A pm \in Providers \X Messages :
       Endings[pm].kind \in {"rejects", "fails", "nothing", "object"}
  \* Amounts are numbers, or text that is none; only a field of the template has
  \* a group that captures it; the groups of subPatterns capture what is usable.
  /\ \A pm \in Providers \X Messages : Found[pm] # NULL =>
       /\ Found[pm]["amount"] \in Int \cup {NULL, Unusable}
       /\ Found[pm]["balance"] \in Int \cup {NULL, Unusable}
  /\ \A p \in Providers, m \in Messages, f \in FieldNames :
       Found[<<p, m>>] # NULL /\ Found[<<p, m>>][f] # NULL =>
         /\ f \in DOMAIN compileByMode(Info[p].mode, Info[p].text)
         /\ Info[p].mode = "template" => Found[<<p, m>>][f] # Unusable
  /\ \A b \in Batches :
       /\ b \in Seq(Messages) /\ Len(b) \in 1 .. 50
       /\ \A i, j \in 1 .. Len(b) : /\ DeviceOf[b[i]] = DeviceOf[b[j]]
                                    /\ i # j => b[i] # b[j]

VARIABLES
  active,        \* the templates with is_active = true
  inbox,         \* table raw_messages: parse_status of m, or "absent"
  linked,        \* raw_messages.transaction_id of m
  transactions,  \* table transactions, by (provider, trx_id); NULL: no such row
  pc,            \* pc[u]: the statement upload u executes next
  batch,         \* batch[u]: the messages of upload u
  at,            \* at[u]: the message of the batch in hand
  listed,        \* listed[u]: the templates read for the batch, or NULL on error
  chosen,        \* chosen[u]: the template that read the message in hand
  verdict,       \* verdict[u]: the parse_status to store for it
  reply,         \* reply[u]: the status to answer per message, so far
  acked,         \* acked[m]: the status the phone received for m, or "none"
  hit            \* messages in whose handling a statement failed or a crash fell

tables == <<active, inbox, linked, transactions>>
locals == <<pc, batch, at, listed, chosen, verdict, reply>>
vars   == <<tables, locals, acked, hit>>

Verdicts == {"parsed", "unmatched", "error", "skipped"}
Statuses == Verdicts \cup {"duplicate"}
TxRow    == [message : Messages, content : Contents]
Handling == {"match", "insert", "fetch", "mark"}
Working  == Handling \cup {"list", "raw", "respond"}

TypeOK ==
  /\ active \subseteq Providers
  /\ inbox \in [Messages -> Verdicts \cup {"absent", "pending"}]
  /\ linked \in [Messages -> TxIds \cup {NULL}]
  /\ transactions \in [TxIds -> TxRow \cup {NULL}]
  /\ pc \in [Uploads -> Working \cup {"idle", "done"}]
  /\ batch \in [Uploads -> Batches \cup {<<>>}]
  /\ at \in [Uploads -> 1 .. 50]
  /\ listed \in [Uploads -> (SUBSET Providers) \cup {NULL}]
  /\ chosen \in [Uploads -> Providers \cup {NULL}]
  /\ verdict \in [Uploads -> Verdicts \cup {"none"}]
  /\ reply \in [Uploads -> [Messages -> Statuses \cup {"none"}]]
  /\ acked \in [Messages -> Statuses \cup {"none"}]
  /\ hit \subseteq Messages

Init ==
  /\ active = Providers
  /\ inbox = [m \in Messages |-> "absent"]
  /\ linked = [m \in Messages |-> NULL]
  /\ transactions = [k \in TxIds |-> NULL]
  /\ pc = [u \in Uploads |-> "idle"]
  /\ batch = [u \in Uploads |-> <<>>]
  /\ at = [u \in Uploads |-> 1]
  /\ listed = [u \in Uploads |-> {}]
  /\ chosen = [u \in Uploads |-> NULL]
  /\ verdict = [u \in Uploads |-> "none"]
  /\ reply = [u \in Uploads |-> [m \in Messages |-> "none"]]
  /\ acked = [m \in Messages |-> "none"]
  /\ hit = {}

\* The message in hand.
Current(u) == batch[u][at[u]]

-------------------------------------------------------------------------------
\* The phone and the operator.

\* uploadOnce sends messages it has no answer for yet; an earlier upload of the
\* same messages may still be running on the server.
Upload(u, b) ==
  /\ pc[u] = "idle"
  /\ \A i \in 1 .. Len(b) : acked[b[i]] = "none"
  /\ pc' = [pc EXCEPT ![u] = "list"]
  /\ batch' = [batch EXCEPT ![u] = b]
  /\ UNCHANGED <<tables, at, listed, chosen, verdict, reply, acked, hit>>

\* A template is deactivated; nothing activates it again.
Deactivate(p) ==
  /\ p \in active
  /\ active' = active \ {p}
  /\ UNCHANGED <<inbox, linked, transactions, locals, acked, hit>>

-------------------------------------------------------------------------------
\* The handler.

\* The templates a business may use: its own and the global ones.
Visible_Inactive(b) == {p \in Providers : Info[p].business \in {NULL, b}}
Visible(b) == {p \in active : Info[p].business \in {NULL, b}}

\* ListActiveProvidersForMatching, once per batch; an error is kept for later.
ListProviders(u) ==
  /\ pc[u] = "list"
  /\ \/ listed' = [listed EXCEPT ![u] = Visible(OwnerOf[DeviceOf[Current(u)]])]
     \/ listed' = [listed EXCEPT ![u] = NULL]
  /\ pc' = [pc EXCEPT ![u] = "raw"]
  /\ UNCHANGED <<tables, batch, at, chosen, verdict, reply, acked, hit>>

\* The answer for the message in hand is known: on to the next one.
Answer(u, status) ==
  /\ reply' = [reply EXCEPT ![u][Current(u)] = status]
  /\ at' = [at EXCEPT ![u] = IF @ < Len(batch[u]) THEN @ + 1 ELSE @]
  /\ pc' = [pc EXCEPT ![u] = IF at[u] < Len(batch[u]) THEN "raw" ELSE "respond"]

Goto(u, step) ==
  /\ pc' = [pc EXCEPT ![u] = step]
  /\ UNCHANGED <<at, reply>>

\* ON CONFLICT (device_id, client_msg_id) DO NOTHING.
Stored_NoUniqueKey(m) == FALSE
Stored_PendingAgain(m) == inbox[m] \notin {"absent", "pending"}
Stored(m) == inbox[m] # "absent"

\* InsertRawMessage: a duplicate, a new row, or an error, which does not tell
\* whether the row was committed; with the template list missing the new row is
\* left as it is.
InsertRawMessage(u) ==
  LET m == Current(u) IN
  /\ pc[u] = "raw"
  /\ \/ Stored(m) /\ Answer(u, "duplicate") /\ UNCHANGED <<inbox, hit>>
     \/ /\ ~Stored(m)
        /\ inbox' = [inbox EXCEPT ![m] = "pending"]
        /\ \/ listed[u] # NULL /\ Goto(u, "match") /\ UNCHANGED hit
           \/ listed[u] = NULL /\ Answer(u, "error") /\ hit' = hit \cup {m}
     \/ /\ Answer(u, "error")
        /\ hit' = hit \cup {m}
        /\ inbox' \in {inbox, [inbox EXCEPT ![m] = IF Stored(m) THEN @ ELSE "pending"]}
  /\ UNCHANGED <<active, linked, transactions, batch, listed, chosen, verdict, acked>>

\* ORDER BY priority, business_id IS NULL, created_at.
Before(p, q) ==
  LET a == Info[p]
      b == Info[q]
  IN \/ a.priority < b.priority
     \/ a.priority = b.priority /\ a.business # NULL /\ b.business = NULL
     \/ /\ a.priority = b.priority
        /\ (a.business = NULL) <=> (b.business = NULL)
        /\ a.created < b.created

\* The templates of a list that do not pass over m, and the first of them.
Readers(list, m) == {p \in list : Readings[<<p, m>>].kind # "none"}
FirstReaders_AnyOrder(list, m) == Readers(list, m)
FirstReaders(list, m) ==
  {p \in Readers(list, m) : \A q \in Readers(list, m) : ~Before(q, p)}

\* The parse_status a reading leads to.
VerdictOn(kind) ==
  CASE kind = "fields"   -> "parsed"
    [] kind = "rejected" -> "skipped"
    [] kind = "error"    -> "error"
    [] kind = "none"     -> "unmatched"

\* The loop over the templates, up to its first effect on the database.
ReadMessage(u) ==
  LET m == Current(u) IN
  /\ pc[u] = "match"
  /\ \/ /\ Readers(listed[u], m) = {}
        /\ verdict' = [verdict EXCEPT ![u] = VerdictOn("none")]
        /\ chosen' = [chosen EXCEPT ![u] = NULL]
        /\ Goto(u, "mark")
     \/ \E p \in FirstReaders(listed[u], m) :
          LET kind == Readings[<<p, m>>].kind IN
          /\ chosen' = [chosen EXCEPT ![u] = p]
          /\ verdict' = [verdict EXCEPT ![u] = VerdictOn(kind)]
          /\ Goto(u, IF kind = "fields" THEN "insert" ELSE "mark")
  /\ UNCHANGED <<tables, batch, listed, acked, hit>>

\* The key under which the transaction read from the message in hand is stored.
TxId(u) == <<chosen[u], Readings[<<chosen[u], Current(u)>>].of.trx>>

\* The row it is given.
Content(u) == Readings[<<chosen[u], Current(u)>>].of

\* ON CONFLICT (provider_id, trx_id) DO NOTHING.
Free_Overwrite(k) == TRUE
Free(k) == transactions[k] = NULL

\* The error of either statement on transactions is answered at once, without
\* touching the inbox row.
RecordFailed_Dropped(u) == Goto(u, "mark")
RecordFailed(u) == Answer(u, "error")

\* The row InsertTransaction stores.
WithReading(u) ==
  [transactions EXCEPT ![TxId(u)] =
    [message |-> Current(u), content |-> Content(u)]]

\* InsertTransaction; an error does not tell whether the row was committed.  A
\* row the columns cannot hold always fails, also when its key is taken.
InsertTransaction(u) ==
  /\ pc[u] = "insert"
  /\ \/ /\ Storable(Content(u)) /\ Free(TxId(u))
        /\ transactions' = WithReading(u)
        /\ Goto(u, "mark")
        /\ UNCHANGED hit
     \/ /\ Storable(Content(u)) /\ ~Free(TxId(u))
        /\ Goto(u, "fetch")
        /\ UNCHANGED <<transactions, hit>>
     \/ /\ RecordFailed(u)
        /\ hit' = hit \cup {Current(u)}
        /\ \/ UNCHANGED transactions
           \/ /\ Storable(Content(u)) /\ Free(TxId(u))
              /\ transactions' = WithReading(u)
  /\ UNCHANGED <<active, inbox, linked, batch, listed, chosen, verdict, acked>>

\* GetTransactionByProviderAndTrxID, the row another message recorded.
FetchTransaction(u) ==
  /\ pc[u] = "fetch"
  /\ \/ Goto(u, "mark") /\ UNCHANGED hit
     \/ RecordFailed(u) /\ hit' = hit \cup {Current(u)}
  /\ UNCHANGED <<tables, batch, listed, chosen, verdict, acked>>

\* The inbox row once its verdict is stored; only "parsed" links a transaction.
Marked_NotUnmatched(old, v) == IF v = "unmatched" THEN old ELSE v
Marked(old, v) == v

\* MarkRawMessageParsed, -Unmatched, -Error or -Skipped; an error is dropped.
MarkRawMessage(u) ==
  LET m == Current(u) IN
  /\ pc[u] = "mark"
  /\ \/ /\ inbox' = [inbox EXCEPT ![m] = Marked(@, verdict[u])]
        /\ linked' = [linked EXCEPT ![m] = IF verdict[u] = "parsed" THEN TxId(u) ELSE @]
        /\ UNCHANGED hit
     \/ hit' = hit \cup {m} /\ UNCHANGED <<inbox, linked>>
  /\ Answer(u, verdict[u])
  /\ UNCHANGED <<active, transactions, batch, listed, chosen, verdict, acked>>

\* The response: the phone marks what it lists as sent, or never gets it.
Respond(u) ==
  /\ pc[u] = "respond"
  /\ Goto(u, "done")
  /\ \/ acked' = [m \in Messages |->
          IF reply[u][m] # "none" /\ acked[m] = "none" THEN reply[u][m] ELSE acked[m]]
     \/ UNCHANGED acked
  /\ UNCHANGED <<tables, batch, listed, chosen, verdict, hit>>

\* The process dies.
Crash(u) ==
  /\ pc[u] \in Working
  /\ Goto(u, "done")
  /\ hit' = IF pc[u] \in Handling THEN hit \cup {Current(u)} ELSE hit
  /\ UNCHANGED <<tables, batch, listed, chosen, verdict, acked>>

Handle(u) ==
  \/ ListProviders(u)
  \/ InsertRawMessage(u)
  \/ ReadMessage(u)
  \/ InsertTransaction(u)
  \/ FetchTransaction(u)
  \/ MarkRawMessage(u)
  \/ Respond(u)

Next ==
  \/ \E u \in Uploads, b \in Batches : Upload(u, b)
  \/ \E p \in Providers : Deactivate(p)
  \/ \E u \in Uploads : Handle(u)
  \/ \E u \in Uploads : Crash(u)

Spec == Init /\ [][Next]_vars

\* A handler that runs keeps running; phones, operators and faults may not act.
FairSpec == Spec /\ \A u \in Uploads : WF_vars(Handle(u))

-------------------------------------------------------------------------------
\* Correctness.

Reads(p, m, trx) ==
  Readings[<<p, m>>].kind = "fields" /\ Readings[<<p, m>>].of.trx = trx

\* One SMS is one payment: retried, sent twice at a time or cut short by a crash,
\* and whatever happens to the templates meanwhile, an SMS never becomes two
\* transactions.
OneTransactionPerMessage ==
  \A k1, k2 \in TxIds :
    k1 # k2 /\ transactions[k1] # NULL /\ transactions[k2] # NULL =>
      transactions[k1].message # transactions[k2].message

\* A transaction says what its template reads in its SMS, and that template was
\* the one to ask: it belongs to the business of the phone or to everyone, and no
\* template that is still active and comes before it reads the SMS as well.  What
\* comes first is what the query's ORDER BY says (providers.sql:14), which is not
\* what the documentation says: see EarliestCreatedWins.
RightTemplate ==
  \A k \in TxIds : transactions[k] # NULL =>
    LET m == transactions[k].message
        b == OwnerOf[DeviceOf[m]]
    IN /\ inbox[m] # "absent"
       /\ Reads(k[1], m, k[2])
       /\ transactions[k].content = Readings[<<k[1], m>>].of
       /\ Info[k[1]].business \in {NULL, b}
       /\ \A q \in active :
            /\ Info[q].business \in {NULL, b}
            /\ Readings[<<q, m>>].kind # "none"
            => ~Before(q, k[1])

\* A transaction says what its SMS says, in amounts an order can be paid with; a
\* script prices it and changes nothing else, unless unsafe scripts are allowed
\* (Run, and the columns ingestOne fills).
AsTheSmsSays ==
  \A k \in TxIds : transactions[k] # NULL =>
    LET c == transactions[k].content
        g == Found[<<k[1], transactions[k].message>>]
    IN /\ c.amount > 0 /\ c.amount <= MaxMoney
       /\ c.effective # NULL => c.effective > 0 /\ c.effective <= MaxMoney
       /\ 10 * c.amount - g["amount"] \in -5 .. 5
       /\ ~AllowUnsafe =>
            /\ k[2] = g["trxId"]
            /\ (c.balance = NULL) <=> (g["balance"] = NULL)
            /\ c.balance # NULL => 10 * c.balance - g["balance"] \in -5 .. 5

\* "parsed", in the inbox or in an answer, means the payment is on record: a
\* transaction with the TrxID a template reads in the SMS exists.
ParsedIsRecorded ==
  \A m \in Messages :
    inbox[m] = "parsed" \/ (\E u \in Uploads : reply[u][m] = "parsed") =>
      /\ \E k \in TxIds : transactions[k] # NULL /\ Reads(k[1], m, k[2])
      /\ inbox[m] = "parsed" =>
           /\ linked[m] # NULL
           /\ transactions[linked[m]] # NULL
           /\ Reads(linked[m][1], m, linked[m][2])

\* What is recorded stays: no retry, no other phone and no other template
\* changes a transaction, and a settled inbox row keeps its verdict.
RecordsAreFinal ==
  [][/\ \A k \in TxIds : transactions[k] # NULL => transactions'[k] = transactions[k]
     /\ \A m \in Messages : inbox[m] \in Verdicts =>
          inbox'[m] = inbox[m] /\ linked'[m] = linked[m]]_vars

\* What all of it amounts to, whatever uploads, retries and failures lie behind:
\* an SMS is stored, read by the first template on offer, recorded and settled,
\* each once, as SmsInbox promises.
Origin(k) == IF transactions[k] = NULL THEN NULL ELSE transactions[k].message
MayRead(p, m) == Info[p].business \in {NULL, OwnerOf[DeviceOf[m]]}

Inbox == INSTANCE SmsInbox WITH
  Payments  <- TxIds,
  Templates <- Providers,
  Tells     <- [m \in Messages |-> {k \in TxIds : MayRead(k[1], m) /\ Reads(k[1], m, k[2])}],
  Better    <- [m \in Messages |-> [k \in TxIds |->
                 {q \in Providers : /\ MayRead(q, m) /\ Readings[<<q, m>>].kind # "none"
                                    /\ Before(q, k[1])}]],
  offered   <- active,
  status    <- inbox,
  source    <- [k \in TxIds |-> Origin(k)]

ImplementsInbox == Inbox!Spec

\* An upload that lists the templates after one was deactivated never uses it.
DeactivatedIsUnused ==
  \A p \in Providers, u \in Uploads :
    []((p \notin active /\ pc[u] \in {"idle", "list"}) => [](chosen[u] # p))

\* A stored SMS leaves "pending" unless a statement about it failed or a crash
\* cut its handling short.
StoredMessagesSettle ==
  \A m \in Messages : inbox[m] = "pending" ~> (inbox[m] # "pending" \/ m \in hit)

-------------------------------------------------------------------------------
\* Sentences of the documentation that the code does not keep.

\* android-app/README.md:34, "Any returned status counts as acknowledged because
\* the server dedups": what the phone counts as acknowledged, the server has.
AcknowledgedIsStored ==
  \A m \in Messages : acked[m] # "none" => inbox[m] # "absent"

\* docs/README.md:116, "if two active templates match the same SMS, the
\* earliest-created wins silently" (backend/README.md:136 says the same): no
\* template that is still active and older reads the SMS of a transaction.
EarliestCreatedWins ==
  \A k \in TxIds : transactions[k] # NULL =>
    LET m == transactions[k].message IN
    \A q \in active :
      /\ Info[q].business \in {NULL, OwnerOf[DeviceOf[m]]}
      /\ Readings[<<q, m>>].kind # "none"
      => Info[k[1]].created <= Info[q].created
===============================================================================
