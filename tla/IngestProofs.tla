----------------------------- MODULE IngestProofs -----------------------------
(***************************************************************************)
(* What Ingest guarantees for every set of phones, messages, templates and *)
(* uploads, every batch and every reading, proved with TLAPS.              *)
(***************************************************************************)
EXTENDS Ingest, TLAPS

--------------------------------------------------------------------------------
\* The inductive invariant.

\* The template is the first active one that reads the message.
IsFirst(p, m) ==
  \A q \in active : MayRead(q, m) /\ Readings[<<q, m>>].kind # "none" => ~Before(q, p)

\* An upload at work has a batch and is at one of its messages.
KnowsBatch(u) ==
  /\ pc[u] = "idle" => at[u] = 1
  /\ pc[u] \in Working => batch[u] \in Batches /\ at[u] \in 1 .. Len(batch[u])

\* The list it read once serves every message of the batch: whatever is still
\* active and visible is in it.
KnowsTemplates(u) ==
  pc[u] \in {"raw"} \cup Handling /\ listed[u] # NULL =>
    /\ \A p \in listed[u] : MayRead(p, Current(u))
    /\ \A p \in active : MayRead(p, Current(u)) => p \in listed[u]

\* The message in hand is pending, and until its transaction is inserted there is
\* none, nor one of a message that told of none.
KnowsMessage(u) ==
  /\ pc[u] \in Handling => inbox[Current(u)] = "pending"
  /\ pc[u] \in {"match", "insert"} \/ (pc[u] = "mark" /\ verdict[u] # "parsed") =>
       \A k \in TxIds : transactions[k] # NULL => transactions[k].message # Current(u)

\* The verdict of the loop, and the template it rests on.
KnowsReading(u) ==
  /\ pc[u] \in {"idle", "list"} => chosen[u] = NULL
  /\ pc[u] = "match" => listed[u] # NULL
  /\ pc[u] \in {"insert", "fetch"} => verdict[u] = "parsed"
  /\ pc[u] = "mark" => verdict[u] \in Verdicts
  /\ pc[u] \in {"insert", "fetch", "mark"} /\ verdict[u] = "parsed" =>
       /\ chosen[u] \in Providers
       /\ Readings[<<chosen[u], Current(u)>>].kind = "fields"
       /\ MayRead(chosen[u], Current(u))
       /\ pc[u] # "insert" => transactions[TxId(u)] # NULL
  /\ pc[u] = "insert" => IsFirst(chosen[u], Current(u))

Knows(u) == KnowsBatch(u) /\ KnowsTemplates(u) /\ KnowsMessage(u) /\ KnowsReading(u)

\* A message is in the hands of one upload: whoever stored it.
Exclusive ==
  \A u, v \in Uploads :
    u # v /\ pc[u] \in Handling /\ pc[v] \in Handling => Current(u) # Current(v)

\* Rows satisfy the constraints of their columns.
RowsAreStorable ==
  \A k \in TxIds : transactions[k] # NULL => Storable(transactions[k].content)

Inv ==
  /\ TypeOK
  /\ RowsAreStorable
  /\ \A u \in Uploads : Knows(u)
  /\ Exclusive
  /\ OneTransactionPerMessage
  /\ RightTemplate
  /\ ParsedIsRecorded

--------------------------------------------------------------------------------
\* Constants.

\* A reading is one of four kinds, and one that has fields has a TrxID.
LEMMA ReadingsTyped ==
  ASSUME NEW p \in Providers, NEW m \in Messages
  PROVE  /\ Readings[<<p, m>>].kind \in {"none", "rejected", "error", "fields"}
         /\ Readings[<<p, m>>].kind = "fields" =>
              /\ Readings[<<p, m>>].of \in Contents
              /\ <<p, Readings[<<p, m>>].of.trx>> \in TxIds
<1>1. Readings[<<p, m>>] \in Outcomes
  BY IngestAssumption
<1>2. QED  BY <1>1 DEF Outcomes, Contents, TxIds

\* What a template reads in an SMS is computed from what its pattern captures and
\* from the end of its script.
LEMMA ReadingsAre ==
  ASSUME NEW p \in Providers, NEW m \in Messages
  PROVE  Readings[<<p, m>>] =
           Read(Info[p], SenderOf[m], Found[<<p, m>>], Endings[<<p, m>>])
  BY IngestAssumption DEF AllReadings

\* Rounding to hundredths is off by at most half of one.
LEMMA RoundingIsClose ==
  ASSUME NEW n \in Int
  PROVE  Hundredths(n) \in Int /\ 10 * Hundredths(n) - n \in -5 .. 5
  BY DEF Hundredths

\* Run and Output: a key that is not allowed leaves nothing.
LEMMA SafeOutput ==
  ASSUME NEW fields, ~AllowUnsafe
  PROVE  Output(fields)["trxId"] = NULL /\ Output(fields)["balance"] = NULL
  BY DEF Output, Considered

\* Run: what it puts out comes from what the script returned.
LEMMA RunOutputs ==
  ASSUME NEW end, end.kind \in {"rejects", "fails", "nothing", "object"}
  PROVE  /\ Run(end).kind \in {"rejected", "error", "output"}
         /\ Run(end).kind = "output" => \E fields : Run(end).of = Output(fields)
<1>1. CASE end.kind \in {"rejects", "fails"}
  BY <1>1 DEF Run
<1>2. CASE end.kind = "nothing"
  <2>1. Run(end) = [kind |-> "output", of |-> Output(<<>>)]
    BY <1>2 DEF Run
  <2>2. QED  BY <2>1
<1>3. CASE end.kind = "object"
  <2>1. \/ Run(end) = [kind |-> "output", of |-> Output(end.fields)]
        \/ Run(end) = [kind |-> "error"]
    BY <1>3 DEF Run
  <2>2. QED  BY <2>1
<1>4. QED  BY <1>1, <1>2, <1>3

\* ingestOne: whatever the script returns, the raw amount is the one of the SMS, and
\* so are the TrxID and the balance unless the script may change them.
LEMMA ReadingIsExact ==
  ASSUME NEW t, NEW from, NEW groups, NEW end,
         groups # NULL =>
           /\ groups["amount"] \in Int \cup {NULL, Unusable}
           /\ groups["balance"] \in Int \cup {NULL, Unusable},
         end.kind \in {"rejects", "fails", "nothing", "object"},
         Read(t, from, groups, end).kind = "fields"
  PROVE  LET c == Read(t, from, groups, end).of IN
         /\ 10 * c.amount - groups["amount"] \in -5 .. 5
         /\ ~AllowUnsafe =>
              /\ c.trx = groups["trxId"]
              /\ (c.balance = NULL) <=> (groups["balance"] = NULL)
              /\ c.balance # NULL => 10 * c.balance - groups["balance"] \in -5 .. 5
<1> DEFINE c == Read(t, from, groups, end).of
<1>1. /\ groups # NULL
      /\ groups["amount"] \in Int
      /\ groups["balance"] \in Int \cup {NULL}
  <2>1. Match(groups) # "none"
    BY DEF Read
  <2>2. Match(groups) # "error"
    BY DEF Read
  <2>3. QED  BY <2>1, <2>2 DEF Match, Required, FieldNames
<1>2. PICK fields : c = Columns(groups, Output(fields))
  <2>1. CASE ~t.scripted
    <3>1. c = Columns(groups, Output(<<>>))
      BY <2>1 DEF Read
    <3>2. QED  BY <3>1
  <2>2. CASE t.scripted
    <3>1. /\ Run(end).kind = "output" => c = Columns(groups, Run(end).of)
          /\ Run(end).kind # "output" => Run(end).kind = "fields"
      BY <2>2 DEF Read
    <3>2. PICK fields : Run(end).kind = "output" /\ Run(end).of = Output(fields)
      BY <3>1, RunOutputs
    <3>3. QED  BY <3>1, <3>2
  <2>3. QED  BY <2>1, <2>2
<1>3. c.amount = Hundredths(groups["amount"])
  BY <1>2 DEF Columns
<1>4. 10 * c.amount - groups["amount"] \in -5 .. 5
  BY <1>1, <1>3, RoundingIsClose
<1>5. ASSUME ~AllowUnsafe
      PROVE  /\ c.trx = groups["trxId"]
             /\ c.balance = IF groups["balance"] = NULL THEN NULL
                            ELSE Hundredths(groups["balance"])
  BY <1>2, <1>5, SafeOutput DEF Columns
<1>6. groups["balance"] # NULL =>
        /\ Hundredths(groups["balance"]) # NULL
        /\ 10 * Hundredths(groups["balance"]) - groups["balance"] \in -5 .. 5
  BY <1>1, RoundingIsClose, ReadingAssumption
<1>7. QED  BY <1>4, <1>5, <1>6

\* VerdictOn, as the statuses of ingestOne.
LEMMA VerdictsTyped ==
  ASSUME NEW kind \in {"none", "rejected", "error", "fields"}
  PROVE  VerdictOn(kind) \in Verdicts /\ (VerdictOn(kind) = "parsed" <=> kind = "fields")
  BY DEF VerdictOn, Verdicts

\* The messages of a batch are of one phone, hence of one business.
LEMMA OneOwner ==
  ASSUME NEW b \in Batches, NEW i \in 1 .. Len(b), NEW j \in 1 .. Len(b)
  PROVE  /\ b[i] \in Messages
         /\ \A p : MayRead(p, b[i]) <=> MayRead(p, b[j])
         /\ Len(b) \in 1 .. 50
  BY IngestAssumption DEF MayRead

\* The message in hand is one.
LEMMA CurrentTyped ==
  ASSUME TypeOK, NEW u \in Uploads, KnowsBatch(u), pc[u] \in Working
  PROVE  /\ Current(u) \in Messages /\ OwnerOf[DeviceOf[Current(u)]] \in Businesses
         /\ at[u] \in 1 .. 50 /\ Len(batch[u]) \in 1 .. 50
         /\ at[u] < Len(batch[u]) => at[u] + 1 \in 1 .. 50
<1>1. batch[u] \in Batches /\ at[u] \in 1 .. Len(batch[u])
  BY DEF KnowsBatch
<1>2. Current(u) \in Messages /\ Len(batch[u]) \in 1 .. 50
  BY <1>1, OneOwner DEF Current
<1>3. OwnerOf[DeviceOf[Current(u)]] \in Businesses
  BY <1>2, IngestAssumption
<1>4. \A len \in 1 .. 50 : \A n \in 1 .. len :
        n \in 1 .. 50 /\ (n < len => n + 1 \in 1 .. 50)
  OBVIOUS
<1>5. QED  BY <1>1, <1>2, <1>3, <1>4

--------------------------------------------------------------------------------
\* Steps.  What one does to the tables and to the uploads it is not about.

\* The values of an upload do not change.
Unmoved(u) ==
  /\ pc'[u] = pc[u] /\ batch'[u] = batch[u] /\ at'[u] = at[u]
  /\ listed'[u] = listed[u] /\ chosen'[u] = chosen[u]
  /\ verdict'[u] = verdict[u] /\ reply'[u] = reply[u]

\* A handler writes nobody else's values.
LEMMA OthersUnmoved ==
  ASSUME TypeOK, NEW u \in Uploads,
         Handle(u) \/ Crash(u) \/ \E b \in Batches : Upload(u, b)
  PROVE  \A v \in Uploads \ {u} : Unmoved(v)
<1> USE DEF TypeOK, Unmoved, Answer, Goto
<1>1. CASE ListProviders(u)
  BY <1>1 DEF ListProviders
<1>2. CASE InsertRawMessage(u)
  BY <1>2 DEF InsertRawMessage
<1>3. CASE ReadMessage(u)
  BY <1>3 DEF ReadMessage
<1>4. CASE InsertTransaction(u)
  BY <1>4 DEF InsertTransaction, RecordFailed
<1>5. CASE FetchTransaction(u)
  BY <1>5 DEF FetchTransaction, RecordFailed
<1>6. CASE MarkRawMessage(u)
  BY <1>6 DEF MarkRawMessage
<1>7. CASE Respond(u)
  BY <1>7 DEF Respond
<1>8. CASE Crash(u)
  BY <1>8 DEF Crash
<1>9. CASE \E b \in Batches : Upload(u, b)
  BY <1>9 DEF Upload
<1>10. QED
  BY <1>1, <1>2, <1>3, <1>4, <1>5, <1>6, <1>7, <1>8, <1>9 DEF Handle

\* All that a step of an upload does to the tables and to its answer: rows of
\* transactions only come, at the insertion of the message in hand, an inbox row
\* changes when that message is stored or marked, and "parsed" is answered when it
\* is marked so.
Effects(u) ==
  /\ active' = active
  /\ \A k \in TxIds : transactions'[k] # transactions[k] =>
       /\ pc[u] = "insert" /\ pc'[u] # "insert" /\ k = TxId(u)
       /\ transactions[k] = NULL
       /\ transactions'[k] = [message |-> Current(u), content |-> Content(u)]
       /\ Storable(Content(u))
  /\ \A m \in Messages : inbox'[m] # inbox[m] =>
       /\ m = Current(u)
       /\ \/ inbox[m] = "absent" /\ inbox'[m] = "pending" /\ pc[u] = "raw"
          \/ /\ pc[u] = "mark" /\ inbox'[m] = verdict[u]
             /\ verdict[u] = "parsed" => linked'[m] = TxId(u)
  /\ \A m \in Messages : linked'[m] # linked[m] => m = Current(u) /\ pc[u] = "mark"
  /\ \A m \in Messages : reply'[u][m] = "parsed" /\ reply[u][m] # "parsed" =>
       m = Current(u) /\ pc[u] = "mark" /\ verdict[u] = "parsed"

LEMMA StepEffects ==
  ASSUME Inv, NEW u \in Uploads,
         Handle(u) \/ Crash(u) \/ \E b \in Batches : Upload(u, b)
  PROVE  Effects(u)
<1> USE DEF Inv, TypeOK, Effects, Answer, Goto, tables
<1>1. CASE ListProviders(u)
  BY <1>1 DEF ListProviders
<1>2. CASE InsertRawMessage(u)
  BY <1>2 DEF InsertRawMessage, Stored
<1>3. CASE ReadMessage(u)
  BY <1>3 DEF ReadMessage
<1>4. CASE InsertTransaction(u)
  <2>1. /\ UNCHANGED <<active, inbox, linked>>
        /\ pc[u] = "insert" /\ pc'[u] # "insert"
        /\ \/ UNCHANGED transactions
           \/ /\ Storable(Content(u)) /\ Free(TxId(u))
              /\ transactions' = WithReading(u)
        /\ \A m \in Messages : reply'[u][m] = "parsed" => reply[u][m] = "parsed"
    BY <1>4 DEF InsertTransaction, RecordFailed
  <2>2. QED  BY <2>1 DEF Free, WithReading
<1>5. CASE FetchTransaction(u)
  BY <1>5 DEF FetchTransaction, RecordFailed
<1>6. CASE MarkRawMessage(u)
  BY <1>6 DEF MarkRawMessage, Marked
<1>7. CASE Respond(u)
  BY <1>7 DEF Respond
<1>8. CASE Crash(u)
  BY <1>8 DEF Crash
<1>9. CASE \E b \in Batches : Upload(u, b)
  BY <1>9 DEF Upload
<1>10. QED
  BY <1>1, <1>2, <1>3, <1>4, <1>5, <1>6, <1>7, <1>8, <1>9 DEF Handle

\* What an upload that does not move knows stays true: another one is never at the
\* same message, and templates are only switched off.
LEMMA UnmovedKnows ==
  ASSUME Inv, NEW v \in Uploads, Unmoved(v), active' \subseteq active,
         pc[v] \in Handling => inbox'[Current(v)] = inbox[Current(v)],
         \A k \in TxIds : transactions'[k] # transactions[k] =>
           /\ transactions[k] = NULL
           /\ transactions'[k] # NULL
           /\ pc[v] \in Handling => transactions'[k].message # Current(v)
  PROVE  Knows(v)'
<1>1. /\ Knows(v) /\ Current(v)' = Current(v) /\ TxId(v)' = TxId(v)
      /\ /\ pc[v] \in Handling /\ chosen[v] \in Providers
         /\ Readings[<<chosen[v], Current(v)>>].kind = "fields"
         => TxId(v) \in TxIds
  <2>1. pc[v] \in Handling => Current(v) \in Messages
    BY CurrentTyped DEF Inv, Knows, Working
  <2>2. QED  BY <2>1, ReadingsTyped DEF Inv, Unmoved, Current, TxId
<1>2. KnowsBatch(v)'
  BY <1>1 DEF Unmoved, Knows, KnowsBatch
<1>3. KnowsTemplates(v)'
  BY <1>1 DEF Unmoved, Knows, KnowsTemplates, MayRead
<1>4. KnowsMessage(v)'
  BY <1>1 DEF Unmoved, Knows, KnowsMessage, Handling
<1>5. KnowsReading(v)'
  BY <1>1 DEF Unmoved, Knows, KnowsReading, MayRead, IsFirst, Handling
<1>6. QED  BY <1>2, <1>3, <1>4, <1>5 DEF Knows

\* An answer takes the upload to the next message of its batch, or to its end.
LEMMA AnswerKnows ==
  ASSUME Inv, NEW u \in Uploads, NEW status, Answer(u, status),
         pc[u] \in {"raw"} \cup Handling,
         batch' = batch, listed' = listed, active' = active
  PROVE  Knows(u)'
<1>1. /\ batch[u] \in Batches /\ at[u] \in 1 .. Len(batch[u])
      /\ Len(batch[u]) \in 1 .. 50
  BY OneOwner DEF Inv, Knows, KnowsBatch, Working
<1>2. /\ pc'[u] \in {"raw", "respond"}
      /\ pc'[u] = "raw" => at[u] < Len(batch[u])
      /\ at'[u] = IF at[u] < Len(batch[u]) THEN at[u] + 1 ELSE at[u]
  BY DEF Answer, Inv, TypeOK
<1>3. at'[u] \in 1 .. Len(batch[u])
  BY <1>1, <1>2
<1>4. \A p : MayRead(p, Current(u))' <=> MayRead(p, Current(u))
  BY <1>1, <1>3, OneOwner DEF Current, MayRead
<1>5. KnowsTemplates(u)'
  <2>1. KnowsTemplates(u)
    BY DEF Inv, Knows
  <2>2. QED  BY <1>2, <1>4, <2>1 DEF KnowsTemplates
<1>6. KnowsBatch(u)'
  BY <1>1, <1>2, <1>3 DEF KnowsBatch
<1>7. KnowsMessage(u)' /\ KnowsReading(u)'
  BY <1>2 DEF KnowsMessage, KnowsReading, Handling
<1>8. QED  BY <1>5, <1>6, <1>7 DEF Knows

\* The upload that moves knows what its next statement rests on.
LEMMA MoverKnows ==
  ASSUME Inv, NEW u \in Uploads,
         Handle(u) \/ Crash(u) \/ \E b \in Batches : Upload(u, b)
  PROVE  Knows(u)'
<1> DEFINE m == Current(u)
<1>1. Knows(u) /\ TypeOK
  BY DEF Inv
<1>2. pc[u] \in Working => m \in Messages
  BY <1>1, CurrentTyped DEF Knows
<1>3. CASE \E b \in Batches : Upload(u, b)
  <2>1. PICK b \in Batches : Upload(u, b)
    BY <1>3
  <2>2. /\ pc'[u] = "list" /\ at'[u] = 1 /\ batch'[u] = b /\ chosen'[u] = NULL
    BY <1>1, <2>1 DEF Upload, TypeOK, Knows, KnowsBatch, KnowsReading
  <2>3. 1 \in 1 .. Len(b)
    <3>1. \A n \in 1 .. 50 : 1 \in 1 .. n
      OBVIOUS
    <3>2. QED  BY <3>1, IngestAssumption
  <2>4. KnowsBatch(u)'
    BY <2>2, <2>3 DEF KnowsBatch
  <2>5. QED
    BY <2>2, <2>4 DEF Knows, KnowsTemplates, KnowsMessage, KnowsReading, Handling
<1>4. CASE ListProviders(u)
  <2>1. /\ pc[u] = "list" /\ pc'[u] = "raw" /\ UNCHANGED <<batch, at, active>>
        /\ listed'[u] # NULL => listed'[u] = Visible(OwnerOf[DeviceOf[m]])
    BY <1>1, <1>4 DEF ListProviders, TypeOK, tables
  <2>2. KnowsBatch(u)'
    BY <1>1, <2>1 DEF Knows, KnowsBatch, Working
  <2>3. KnowsTemplates(u)'
    BY <1>1, <2>1 DEF KnowsTemplates, Visible, MayRead, Current, TypeOK
  <2>4. QED
    BY <2>1, <2>2, <2>3 DEF Knows, KnowsMessage, KnowsReading, Handling
<1>5. CASE InsertRawMessage(u)
  <2>1. CASE pc'[u] = "match"
    <3>1. /\ pc[u] = "raw" /\ listed[u] # NULL /\ inbox[m] = "absent"
          /\ inbox'[m] = "pending"
          /\ UNCHANGED <<batch, at, listed, active, transactions>>
      BY <1>1, <1>2, <1>5, <2>1 DEF InsertRawMessage, Stored, Goto, Answer, TypeOK, Working
    <3>2. KnowsBatch(u)' /\ KnowsTemplates(u)'
      BY <1>1, <2>1, <3>1
      DEF Knows, KnowsBatch, KnowsTemplates, MayRead, Current, Working, Handling
    <3>3. KnowsMessage(u)'
      BY <2>1, <3>1 DEF KnowsMessage, Current, Inv, RightTemplate
    <3>4. KnowsReading(u)'
      BY <2>1, <3>1 DEF KnowsReading
    <3>5. QED  BY <3>2, <3>3, <3>4 DEF Knows
  <2>2. CASE pc'[u] # "match"
    <3>1. /\ \E status : Answer(u, status)
          /\ pc[u] = "raw" /\ UNCHANGED <<batch, listed, active>>
      BY <1>1, <1>5, <2>2 DEF InsertRawMessage, Goto, TypeOK
    <3>2. QED  BY <3>1, AnswerKnows
  <2>3. QED  BY <2>1, <2>2
<1>6. CASE ReadMessage(u)
  <2>1. /\ pc[u] = "match" /\ pc'[u] \in {"insert", "mark"}
        /\ UNCHANGED <<batch, at, listed, active, inbox, transactions>>
        /\ m \in Messages /\ listed[u] # NULL
    BY <1>1, <1>2, <1>6
    DEF ReadMessage, Goto, TypeOK, tables, Knows, KnowsReading, Working, Handling
  <2>2. Current(u)' = m
    BY <2>1 DEF Current
  <2>3. KnowsBatch(u)' /\ KnowsTemplates(u)' /\ KnowsMessage(u)'
    BY <1>1, <2>1, <2>2
    DEF Knows, KnowsBatch, KnowsTemplates, KnowsMessage, MayRead, Working, Handling
  <2>4. CASE Readers(listed[u], m) = {}
    <3>1. pc'[u] = "mark" /\ verdict'[u] = VerdictOn("none")
      BY <1>1, <1>6, <2>4 DEF ReadMessage, Goto, TypeOK, FirstReaders
    <3>2. KnowsReading(u)'
      BY <3>1, VerdictsTyped DEF KnowsReading
    <3>3. QED  BY <2>3, <3>2 DEF Knows
  <2>5. CASE \E p \in FirstReaders(listed[u], m) :
               LET kind == Readings[<<p, m>>].kind IN
               /\ chosen' = [chosen EXCEPT ![u] = p]
               /\ verdict' = [verdict EXCEPT ![u] = VerdictOn(kind)]
               /\ Goto(u, IF kind = "fields" THEN "insert" ELSE "mark")
    <3> DEFINE kind(p) == Readings[<<p, m>>].kind
    <3>1. PICK p \in FirstReaders(listed[u], m) :
            /\ chosen'[u] = p /\ verdict'[u] = VerdictOn(kind(p))
            /\ pc'[u] = IF kind(p) = "fields" THEN "insert" ELSE "mark"
      BY <1>1, <2>5 DEF Goto, TypeOK
    <3>2. p \in listed[u] /\ p \in Providers
      <4>1. listed[u] \subseteq Providers
        BY <1>1, <2>1 DEF TypeOK
      <4>2. p \in listed[u]
        BY <3>1 DEF FirstReaders, Readers
      <4>3. QED  BY <4>1, <4>2
    <3>3. kind(p) \in {"none", "rejected", "error", "fields"}
      BY <2>1, <3>2, ReadingsTyped
    <3>4. verdict'[u] \in Verdicts /\ (verdict'[u] = "parsed" <=> kind(p) = "fields")
      BY <3>1, <3>3, VerdictsTyped
    <3>5. MayRead(p, m)' /\ IsFirst(p, m)'
      <4>1. MayRead(p, m) /\ \A q \in active : MayRead(q, m) => q \in listed[u]
        BY <1>1, <2>1, <3>2 DEF Knows, KnowsTemplates, Handling
      <4>2. \A q \in Readers(listed[u], m) : ~Before(q, p)
        BY <3>1 DEF FirstReaders
      <4>3. IsFirst(p, m)
        BY <4>1, <4>2 DEF IsFirst, Readers
      <4>4. QED  BY <2>1, <2>2, <4>1, <4>3 DEF MayRead, IsFirst
    <3>6. KnowsReading(u)'
      BY <2>2, <3>1, <3>2, <3>4, <3>5 DEF KnowsReading
    <3>7. QED  BY <2>3, <3>6 DEF Knows
  <2>6. QED  BY <1>6, <2>4, <2>5 DEF ReadMessage
<1>7. CASE InsertTransaction(u)
  <2>1. CASE pc'[u] \in {"mark", "fetch"}
    <3>1. /\ pc[u] = "insert"
          /\ UNCHANGED <<active, inbox, batch, at, listed, chosen, verdict>>
          /\ \/ transactions' = WithReading(u)
             \/ transactions' = transactions /\ ~Free(TxId(u))
      BY <1>1, <1>7, <2>1 DEF InsertTransaction, RecordFailed, Answer, Goto, TypeOK
    <3>2. Current(u)' = m /\ TxId(u)' = TxId(u) /\ m \in Messages
      BY <1>2, <3>1 DEF Current, TxId, Working, Handling
    <3>3. /\ verdict[u] = "parsed" /\ chosen[u] \in Providers
          /\ Readings[<<chosen[u], m>>].kind = "fields"
          /\ MayRead(chosen[u], m)
      BY <1>1, <3>1 DEF Knows, KnowsReading
    <3>4. TxId(u) \in TxIds
      BY <3>2, <3>3, ReadingsTyped DEF TxId
    <3>5. transactions'[TxId(u)] # NULL
      <4>1. [message |-> m, content |-> Content(u)] # NULL
        <5>1. Content(u) \in Contents
          BY <3>2, <3>3, ReadingsTyped DEF Content
        <5>2. QED  BY <3>2, <5>1, IngestAssumption
      <4>2. QED  BY <1>1, <3>1, <3>4, <4>1 DEF WithReading, Free, TypeOK
    <3>6. KnowsBatch(u)' /\ KnowsTemplates(u)' /\ KnowsMessage(u)'
      BY <1>1, <2>1, <3>1, <3>2, <3>3
      DEF Knows, KnowsBatch, KnowsTemplates, KnowsMessage, MayRead, Working, Handling
    <3>7. KnowsReading(u)'
      BY <2>1, <3>1, <3>2, <3>3, <3>5 DEF KnowsReading, MayRead, Verdicts
    <3>8. QED  BY <3>6, <3>7 DEF Knows
  <2>2. CASE pc'[u] \notin {"mark", "fetch"}
    <3>1. /\ Answer(u, "error")
          /\ pc[u] = "insert" /\ UNCHANGED <<batch, listed, active>>
      BY <1>1, <1>7, <2>2 DEF InsertTransaction, RecordFailed, Goto, TypeOK
    <3>2. QED  BY <3>1, AnswerKnows DEF Handling
  <2>3. QED  BY <2>1, <2>2
<1>8. CASE FetchTransaction(u)
  <2>1. CASE pc'[u] = "mark"
    <3>1. /\ pc[u] = "fetch"
          /\ UNCHANGED <<active, inbox, transactions, batch, at, listed, chosen, verdict>>
      BY <1>1, <1>8, <2>1 DEF FetchTransaction, RecordFailed, Answer, Goto, TypeOK, tables
    <3>2. Current(u)' = m /\ TxId(u)' = TxId(u)
      BY <3>1 DEF Current, TxId
    <3>3. verdict[u] = "parsed"
      BY <1>1, <3>1 DEF Knows, KnowsReading
    <3>4. KnowsBatch(u)' /\ KnowsTemplates(u)' /\ KnowsMessage(u)'
      BY <1>1, <2>1, <3>1, <3>2, <3>3
      DEF Knows, KnowsBatch, KnowsTemplates, KnowsMessage, MayRead, Working, Handling
    <3>5. KnowsReading(u)'
      BY <1>1, <2>1, <3>1, <3>2 DEF Knows, KnowsReading, MayRead, Verdicts
    <3>6. QED  BY <3>4, <3>5 DEF Knows
  <2>2. CASE pc'[u] # "mark"
    <3>1. /\ Answer(u, "error")
          /\ pc[u] = "fetch" /\ UNCHANGED <<batch, listed, active>>
      BY <1>1, <1>8, <2>2 DEF FetchTransaction, RecordFailed, Goto, TypeOK, tables
    <3>2. QED  BY <3>1, AnswerKnows DEF Handling
  <2>3. QED  BY <2>1, <2>2
<1>9. CASE MarkRawMessage(u)
  BY <1>9, AnswerKnows DEF MarkRawMessage, Handling
<1>10. CASE Respond(u) \/ Crash(u)
  <2>1. pc'[u] = "done"
    BY <1>1, <1>10 DEF Respond, Crash, Goto, TypeOK
  <2>2. QED
    BY <2>1 DEF Knows, KnowsBatch, KnowsTemplates, KnowsMessage, KnowsReading,
                Working, Handling
<1>11. QED
  BY <1>3, <1>4, <1>5, <1>6, <1>7, <1>8, <1>9, <1>10 DEF Handle

\* Whoever holds a message held it before or has just stored it.
LEMMA HeldSince ==
  ASSUME Inv, NEW u \in Uploads,
         Handle(u) \/ Crash(u) \/ \E b \in Batches : Upload(u, b),
         pc'[u] \in Handling
  PROVE  /\ Current(u)' = Current(u) /\ pc[u] \in Working
         /\ pc[u] \in Handling \/ inbox[Current(u)] = "absent"
<1> USE DEF Inv, TypeOK, Goto, Answer, Handling, Working
<1>1. /\ ~(\E b \in Batches : Upload(u, b)) /\ ~ListProviders(u)
      /\ ~MarkRawMessage(u) /\ ~Respond(u) /\ ~Crash(u)
  BY DEF Upload, ListProviders, MarkRawMessage, Respond, Crash
<1>2. CASE InsertRawMessage(u)
  BY <1>2 DEF InsertRawMessage, Stored, Current
<1>3. CASE ReadMessage(u)
  BY <1>3 DEF ReadMessage, Current
<1>4. CASE InsertTransaction(u)
  BY <1>4 DEF InsertTransaction, RecordFailed, Current
<1>5. CASE FetchTransaction(u)
  BY <1>5 DEF FetchTransaction, RecordFailed, Current
<1>6. QED  BY <1>1, <1>2, <1>3, <1>4, <1>5 DEF Handle

\* Two uploads never come to hold one message.
LEMMA ExclusiveKept ==
  ASSUME Inv, NEW u \in Uploads,
         Handle(u) \/ Crash(u) \/ \E b \in Batches : Upload(u, b)
  PROVE  Exclusive'
<1>1. \A v \in Uploads \ {u} : Unmoved(v) /\ Current(v)' = Current(v)
  BY OthersUnmoved DEF Inv, Unmoved, Current
<1>2. \A v \in Uploads : pc[v] \in Handling => inbox[Current(v)] = "pending"
  BY DEF Inv, Knows, KnowsMessage
<1>3. pc'[u] \in Handling =>
        /\ Current(u)' = Current(u)
        /\ pc[u] \in Handling \/ inbox[Current(u)] = "absent"
  BY HeldSince
<1>4. \A v \in Uploads \ {u} :
        pc'[u] \in Handling /\ pc'[v] \in Handling => Current(u)' # Current(v)'
  BY <1>1, <1>2, <1>3 DEF Inv, Exclusive, Unmoved
<1>5. QED
  BY <1>1, <1>4 DEF Inv, Exclusive, Unmoved

\* Every upload knows after a step of one what its next statement rests on.
LEMMA AllKnow ==
  ASSUME Inv, NEW u \in Uploads,
         Handle(u) \/ Crash(u) \/ \E b \in Batches : Upload(u, b)
  PROVE  \A v \in Uploads : Knows(v)'
<1>1. Effects(u)
  BY StepEffects
<1>2. SUFFICES ASSUME NEW v \in Uploads \ {u}  PROVE Knows(v)'
  BY MoverKnows
<1>3. Unmoved(v) /\ v \in Uploads /\ v # u
  BY OthersUnmoved DEF Inv
<1>4. pc[v] \in Handling => Current(v) \in Messages /\ inbox[Current(v)] = "pending"
  BY CurrentTyped DEF Inv, Knows, KnowsMessage, Working
<1>5. pc[v] \in Handling => inbox'[Current(v)] = inbox[Current(v)]
  BY <1>1, <1>3, <1>4 DEF Effects, Inv, Exclusive, Handling
<1>6. \A k \in TxIds : transactions'[k] # transactions[k] =>
        /\ transactions[k] = NULL
        /\ transactions'[k] # NULL
        /\ pc[v] \in Handling => transactions'[k].message # Current(v)
  <2>1. SUFFICES ASSUME NEW k \in TxIds, transactions'[k] # transactions[k]
                 PROVE  /\ transactions[k] = NULL
                        /\ transactions'[k] # NULL
                        /\ pc[v] \in Handling => transactions'[k].message # Current(v)
    OBVIOUS
  <2>2. /\ pc[u] = "insert" /\ transactions[k] = NULL
        /\ transactions'[k] = [message |-> Current(u), content |-> Content(u)]
    BY <1>1, <2>1 DEF Effects
  <2>3. transactions'[k] # NULL
    BY <2>1, <2>2
  <2>4. pc[v] \in Handling => Current(u) # Current(v)
    BY <1>3, <2>2 DEF Inv, Exclusive, Handling
  <2>5. QED  BY <2>2, <2>3, <2>4
<1>7. active' \subseteq active
  BY <1>1 DEF Effects
<1>8. QED  BY <1>3, <1>5, <1>6, <1>7, UnmovedKnows

--------------------------------------------------------------------------------
\* The tables.

\* The row an upload is about to insert.
LEMMA InsertedRow ==
  ASSUME Inv, NEW u \in Uploads, pc[u] = "insert"
  PROVE  /\ Current(u) \in Messages /\ inbox[Current(u)] = "pending"
         /\ chosen[u] \in Providers /\ TxId(u) \in TxIds
         /\ TxId(u)[1] = chosen[u] /\ Reads(chosen[u], Current(u), TxId(u)[2])
         /\ Content(u) = Readings[<<chosen[u], Current(u)>>].of
         /\ Content(u) \in Contents
         /\ MayRead(chosen[u], Current(u)) /\ IsFirst(chosen[u], Current(u))
         /\ \A k \in TxIds : transactions[k] # NULL => transactions[k].message # Current(u)
<1>1. Knows(u)
  BY DEF Inv
<1>2. /\ Current(u) \in Messages /\ inbox[Current(u)] = "pending"
      /\ \A k \in TxIds : transactions[k] # NULL => transactions[k].message # Current(u)
  BY <1>1, CurrentTyped DEF Inv, Knows, KnowsMessage, Handling, Working
<1>3. /\ chosen[u] \in Providers
      /\ Readings[<<chosen[u], Current(u)>>].kind = "fields"
      /\ MayRead(chosen[u], Current(u)) /\ IsFirst(chosen[u], Current(u))
  BY <1>1 DEF Knows, KnowsReading
<1>4. TxId(u) \in TxIds /\ Content(u) \in Contents
  BY <1>2, <1>3, ReadingsTyped DEF TxId, Content
<1>5. QED  BY <1>2, <1>3, <1>4 DEF TxId, Content, Reads

\* TypeOK, step by step.
LEMMA AnswerTyped ==
  ASSUME Inv, NEW u \in Uploads, NEW status \in Statuses, Answer(u, status),
         pc[u] \in {"raw"} \cup Handling
  PROVE  /\ pc' \in [Uploads -> Working \cup {"idle", "done"}]
         /\ at' \in [Uploads -> 1 .. 50]
         /\ reply' \in [Uploads -> [Messages -> Statuses \cup {"none"}]]
<1>1. /\ Current(u) \in Messages /\ at[u] \in 1 .. 50
      /\ at[u] < Len(batch[u]) => at[u] + 1 \in 1 .. 50
  BY CurrentTyped DEF Inv, Knows, Working
<1>2. pc' \in [Uploads -> Working \cup {"idle", "done"}]
  BY DEF Answer, Inv, TypeOK, Working
<1>3. at' \in [Uploads -> 1 .. 50]
  BY <1>1 DEF Answer, Inv, TypeOK
<1>4. reply' \in [Uploads -> [Messages -> Statuses \cup {"none"}]]
  BY <1>1 DEF Answer, Inv, TypeOK
<1>5. QED  BY <1>2, <1>3, <1>4

LEMMA TypeKept ==
  ASSUME Inv, NEW u \in Uploads,
         Handle(u) \/ Crash(u) \/ \E b \in Batches : Upload(u, b)
  PROVE  TypeOK'
<1> USE DEF Inv, TypeOK, Goto, tables
<1>1. pc[u] \in Working => Current(u) \in Messages
  BY CurrentTyped DEF Knows
<1>2. {"duplicate", "error"} \subseteq Statuses /\ Verdicts \subseteq Statuses
  BY DEF Statuses, Verdicts
<1>3. CASE \E b \in Batches : Upload(u, b)
  BY <1>3 DEF Upload, Working
<1>4. CASE ListProviders(u)
  BY <1>4 DEF ListProviders, Visible, Working
<1>5. CASE InsertRawMessage(u)
  <2>1. Current(u) \in Messages /\ pc[u] = "raw"
    BY <1>1, <1>5 DEF InsertRawMessage, Working
  <2>2. inbox' \in [Messages -> Verdicts \cup {"absent", "pending"}] /\ hit' \subseteq Messages
    BY <1>5, <2>1 DEF InsertRawMessage
  <2>3. CASE Goto(u, "match")
    BY <1>5, <2>2, <2>3 DEF InsertRawMessage, Working, Handling
  <2>4. CASE \E status \in {"duplicate", "error"} : Answer(u, status)
    BY <1>2, <1>5, <2>1, <2>2, <2>4, AnswerTyped DEF InsertRawMessage
  <2>5. QED  BY <1>5, <2>3, <2>4 DEF InsertRawMessage
<1>6. CASE ReadMessage(u)
  <2>1. /\ pc[u] = "match" /\ Current(u) \in Messages /\ listed[u] # NULL
    BY <1>1, <1>6 DEF ReadMessage, Knows, KnowsReading, Working, Handling
  <2>2. listed[u] \subseteq Providers
    BY <2>1
  <2>3. /\ chosen' \in [Uploads -> Providers \cup {NULL}]
        /\ verdict' \in [Uploads -> Verdicts \cup {"none"}]
        /\ pc' \in [Uploads -> Working \cup {"idle", "done"}]
        /\ UNCHANGED <<at, reply>>
    <3>1. CASE /\ Readers(listed[u], Current(u)) = {}
               /\ verdict' = [verdict EXCEPT ![u] = VerdictOn("none")]
      BY <1>6, <3>1, VerdictsTyped DEF ReadMessage, FirstReaders, Working, Handling
    <3>2. CASE \E p \in FirstReaders(listed[u], Current(u)) :
                 LET kind == Readings[<<p, Current(u)>>].kind IN
                 /\ chosen' = [chosen EXCEPT ![u] = p]
                 /\ verdict' = [verdict EXCEPT ![u] = VerdictOn(kind)]
                 /\ Goto(u, IF kind = "fields" THEN "insert" ELSE "mark")
      <4>1. PICK p \in FirstReaders(listed[u], Current(u)) :
                 /\ chosen' = [chosen EXCEPT ![u] = p]
                 /\ verdict' = [verdict EXCEPT ![u] =
                                  VerdictOn(Readings[<<p, Current(u)>>].kind)]
                 /\ \E step \in {"insert", "mark"} : Goto(u, step)
        BY <3>2
      <4>2. p \in Providers
        BY <2>2 DEF FirstReaders, Readers
      <4>3. VerdictOn(Readings[<<p, Current(u)>>].kind) \in Verdicts
        BY <2>1, <4>2, ReadingsTyped, VerdictsTyped
      <4>4. QED  BY <4>1, <4>2, <4>3 DEF Working, Handling
    <3>3. QED  BY <1>6, <3>1, <3>2 DEF ReadMessage
  <2>4. QED  BY <1>6, <2>3 DEF ReadMessage
<1>7. CASE InsertTransaction(u)
  <2>1. /\ pc[u] = "insert" /\ Current(u) \in Messages /\ TxId(u) \in TxIds
        /\ Content(u) \in Contents
    BY <1>7, InsertedRow DEF InsertTransaction
  <2>2. /\ transactions' \in [TxIds -> TxRow \cup {NULL}] /\ hit' \subseteq Messages
    BY <1>7, <2>1 DEF InsertTransaction, WithReading, TxRow
  <2>3. CASE \E step \in {"mark", "fetch"} : Goto(u, step)
    BY <1>7, <2>2, <2>3 DEF InsertTransaction, Working, Handling
  <2>4. CASE Answer(u, "error")
    BY <1>2, <1>7, <2>1, <2>2, <2>4, AnswerTyped DEF InsertTransaction, Handling
  <2>5. QED  BY <1>7, <2>3, <2>4 DEF InsertTransaction, RecordFailed
<1>8. CASE FetchTransaction(u)
  <2>1. /\ pc[u] = "fetch" /\ Current(u) \in Messages
    BY <1>1, <1>8 DEF FetchTransaction, Working, Handling
  <2>2. CASE Goto(u, "mark")
    BY <1>8, <2>1, <2>2 DEF FetchTransaction, Working, Handling
  <2>3. CASE Answer(u, "error")
    BY <1>2, <1>8, <2>1, <2>3, AnswerTyped DEF FetchTransaction, Handling
  <2>4. QED  BY <1>8, <2>2, <2>3 DEF FetchTransaction, RecordFailed
<1>9. CASE MarkRawMessage(u)
  <2>1. /\ pc[u] = "mark" /\ Current(u) \in Messages /\ verdict[u] \in Verdicts
    BY <1>1, <1>9 DEF MarkRawMessage, Knows, KnowsReading, Working, Handling
  <2>2. verdict[u] = "parsed" => TxId(u) \in TxIds
    BY <2>1, ReadingsTyped DEF Knows, KnowsReading, TxId
  <2>3. /\ inbox' \in [Messages -> Verdicts \cup {"absent", "pending"}]
        /\ linked' \in [Messages -> TxIds \cup {NULL}] /\ hit' \subseteq Messages
    <3>1. inbox' \in [Messages -> Verdicts \cup {"absent", "pending"}]
      BY <1>9, <2>1 DEF MarkRawMessage, Marked
    <3>2. linked' \in [Messages -> TxIds \cup {NULL}]
      BY <1>9, <2>1, <2>2 DEF MarkRawMessage
    <3>3. hit' \subseteq Messages
      BY <1>9, <2>1 DEF MarkRawMessage
    <3>4. QED  BY <3>1, <3>2, <3>3
  <2>4. /\ pc' \in [Uploads -> Working \cup {"idle", "done"}]
        /\ at' \in [Uploads -> 1 .. 50]
        /\ reply' \in [Uploads -> [Messages -> Statuses \cup {"none"}]]
    BY <1>2, <1>9, <2>1, AnswerTyped DEF MarkRawMessage, Handling
  <2>5. QED  BY <1>9, <2>3, <2>4 DEF MarkRawMessage
<1>10. CASE Respond(u)
  <2>1. acked' \in [Messages -> Statuses \cup {"none"}]
    BY <1>10 DEF Respond
  <2>2. QED  BY <1>10, <2>1 DEF Respond
<1>11. CASE Crash(u)
  BY <1>1, <1>11 DEF Crash, Working
<1>12. QED
  BY <1>3, <1>4, <1>5, <1>6, <1>7, <1>8, <1>9, <1>10, <1>11 DEF Handle

\* OneTransactionPerMessage: a row comes only for a message that has none.
LEMMA OneRowKept ==
  ASSUME Inv, NEW u \in Uploads, Effects(u)
  PROVE  OneTransactionPerMessage'
<1>1. ASSUME NEW k \in TxIds, transactions'[k] # transactions[k]
      PROVE  /\ k = TxId(u) /\ transactions'[k].message = Current(u)
             /\ \A j \in TxIds : transactions[j] # NULL => transactions[j].message # Current(u)
  <2>1. /\ pc[u] = "insert" /\ k = TxId(u)
        /\ transactions'[k].message = Current(u)
    BY <1>1 DEF Effects
  <2>2. QED  BY <2>1, InsertedRow
<1>2. QED  BY <1>1 DEF Inv, OneTransactionPerMessage

\* RowsAreStorable: the columns refuse any other.
LEMMA RowsStayStorable ==
  ASSUME Inv, NEW u \in Uploads, Effects(u)
  PROVE  RowsAreStorable'
<1>1. SUFFICES ASSUME NEW k \in TxIds, transactions'[k] # NULL
               PROVE  Storable(transactions'[k].content)
  BY DEF RowsAreStorable, Storable
<1>2. CASE transactions'[k] = transactions[k]
  BY <1>1, <1>2 DEF Inv, RowsAreStorable
<1>3. CASE transactions'[k] # transactions[k]
  BY <1>3 DEF Effects
<1>4. QED  BY <1>2, <1>3

\* A verdict is no absence.
LEMMA StoredStays ==
  ASSUME Inv, NEW u \in Uploads, Effects(u), NEW m \in Messages, inbox[m] # "absent"
  PROVE  inbox'[m] # "absent"
<1>1. pc[u] = "mark" => verdict[u] \in Verdicts
  BY DEF Inv, Knows, KnowsReading
<1>2. QED  BY <1>1 DEF Effects, Verdicts

\* RightTemplate: what an upload inserts is what it knows.
LEMMA RightTemplateKept ==
  ASSUME Inv, NEW u \in Uploads, Effects(u)
  PROVE  RightTemplate'
<1>1. SUFFICES ASSUME NEW k \in TxIds, transactions'[k] # NULL
      PROVE  LET m == transactions'[k].message IN
             /\ inbox'[m] # "absent" /\ Reads(k[1], m, k[2])
             /\ transactions'[k].content = Readings[<<k[1], m>>].of
             /\ MayRead(k[1], m) /\ IsFirst(k[1], m)
  BY DEF RightTemplate, MayRead, IsFirst, Effects
<1>2. CASE transactions'[k] = transactions[k]
  <2>1. transactions[k].message \in Messages
    BY <1>1, <1>2 DEF Inv, TypeOK, TxRow
  <2>2. LET m == transactions[k].message IN
        /\ inbox[m] # "absent" /\ Reads(k[1], m, k[2])
        /\ transactions[k].content = Readings[<<k[1], m>>].of
        /\ MayRead(k[1], m) /\ IsFirst(k[1], m)
    BY <1>1, <1>2 DEF Inv, RightTemplate, MayRead, IsFirst
  <2>3. QED  BY <1>2, <2>1, <2>2, StoredStays
<1>3. CASE transactions'[k] # transactions[k]
  <2>1. /\ pc[u] = "insert" /\ k = TxId(u)
        /\ transactions'[k].message = Current(u)
        /\ transactions'[k].content = Content(u)
    BY <1>3 DEF Effects
  <2>2. inbox'[Current(u)] # "absent"
    BY <2>1, InsertedRow, StoredStays
  <2>3. QED  BY <2>1, <2>2, InsertedRow
<1>4. QED  BY <1>2, <1>3

\* ParsedIsRecorded: an upload marks and answers what it has seen recorded.
LEMMA ParsedKept ==
  ASSUME Inv, NEW u \in Uploads, Effects(u), \A v \in Uploads \ {u} : Unmoved(v)
  PROVE  ParsedIsRecorded'
<1> DEFINE Recorded(k, m) == transactions[k] # NULL /\ Reads(k[1], m, k[2])
<1>1. \A k \in TxIds : transactions[k] # NULL => transactions'[k] = transactions[k]
  BY DEF Effects
<1>2. pc[u] = "mark" =>
        /\ Current(u) \in Messages /\ inbox[Current(u)] = "pending"
        /\ verdict[u] = "parsed" =>
             TxId(u) \in TxIds /\ TxId(u) # NULL /\ Recorded(TxId(u), Current(u))
  <2>1. SUFFICES ASSUME pc[u] = "mark"
        PROVE /\ Current(u) \in Messages /\ inbox[Current(u)] = "pending"
              /\ verdict[u] = "parsed" =>
                   TxId(u) \in TxIds /\ TxId(u) # NULL /\ Recorded(TxId(u), Current(u))
    OBVIOUS
  <2>2. Knows(u)
    BY DEF Inv
  <2>3. Current(u) \in Messages /\ inbox[Current(u)] = "pending"
    BY <2>1, <2>2, CurrentTyped DEF Inv, Knows, KnowsMessage, Handling, Working
  <2>4. verdict[u] = "parsed" =>
          /\ chosen[u] \in Providers /\ transactions[TxId(u)] # NULL
          /\ Readings[<<chosen[u], Current(u)>>].kind = "fields"
    BY <2>1, <2>2 DEF Knows, KnowsReading
  <2>5. verdict[u] = "parsed" => TxId(u) \in TxIds
    BY <2>3, <2>4, ReadingsTyped DEF TxId
  <2>6. QED  BY <2>3, <2>4, <2>5, IngestAssumption DEF TxId, Reads
<1>3. SUFFICES ASSUME NEW m \in Messages
      PROVE  /\ inbox'[m] = "parsed" =>
                  /\ linked'[m] \in TxIds /\ linked'[m] # NULL
                  /\ Recorded(linked'[m], m)
             /\ \A v \in Uploads : reply'[v][m] = "parsed" =>
                  \E k \in TxIds : Recorded(k, m)
  BY <1>1 DEF ParsedIsRecorded
<1>4. inbox'[m] = "parsed" =>
        linked'[m] \in TxIds /\ linked'[m] # NULL /\ Recorded(linked'[m], m)
  <2>1. CASE inbox'[m] = inbox[m]
    <3>1. inbox[m] = "parsed" => linked'[m] = linked[m]
      BY <1>2 DEF Effects
    <3>2. inbox[m] = "parsed" =>
            linked[m] \in TxIds /\ linked[m] # NULL /\ Recorded(linked[m], m)
      BY DEF Inv, TypeOK, ParsedIsRecorded
    <3>3. QED  BY <2>1, <3>1, <3>2
  <2>2. CASE inbox'[m] # inbox[m]
    <3>1. inbox'[m] = "parsed" =>
            /\ pc[u] = "mark" /\ verdict[u] = "parsed"
            /\ m = Current(u) /\ linked'[m] = TxId(u)
      BY <2>2 DEF Effects
    <3>2. QED  BY <1>2, <3>1
  <2>3. QED  BY <2>1, <2>2
<1>5. ASSUME NEW v \in Uploads, reply'[v][m] = "parsed"
      PROVE  \E k \in TxIds : Recorded(k, m)
  <2>1. CASE reply[v][m] = "parsed"
    BY <2>1 DEF Inv, ParsedIsRecorded
  <2>2. CASE reply[v][m] # "parsed"
    <3>1. v = u /\ pc[u] = "mark" /\ verdict[u] = "parsed" /\ m = Current(u)
      BY <1>5, <2>2 DEF Effects, Unmoved
    <3>2. QED  BY <1>2, <3>1
  <2>3. QED  BY <2>1, <2>2
<1>6. QED  BY <1>4, <1>5

--------------------------------------------------------------------------------
\* The induction.

\* Switching off a template changes no table and no upload; fewer templates may
\* come before the one that was chosen.
LEMMA DeactivateInv ==
  ASSUME Inv, NEW p \in Providers, Deactivate(p)
  PROVE  Inv'
<1>1. /\ active' = active \ {p}
      /\ UNCHANGED <<inbox, linked, transactions, locals, acked, hit>>
  BY DEF Deactivate
<1>2. TypeOK'
  BY <1>1 DEF Inv, TypeOK, locals
<1>3. \A v \in Uploads : Knows(v)'
  <2>1. SUFFICES ASSUME NEW v \in Uploads  PROVE Knows(v)'
    OBVIOUS
  <2>2. Unmoved(v)
    BY <1>1 DEF Unmoved, locals
  <2>3. QED  BY <1>1, <2>2, UnmovedKnows
<1>4. /\ RowsAreStorable' /\ Exclusive' /\ OneTransactionPerMessage'
      /\ ParsedIsRecorded'
  BY <1>1
  DEF Inv, RowsAreStorable, Storable, Exclusive, OneTransactionPerMessage,
      ParsedIsRecorded, Current, locals
<1>5. RightTemplate'
  BY <1>1 DEF Inv, RightTemplate
<1>6. QED  BY <1>2, <1>3, <1>4, <1>5 DEF Inv

\* Nothing is stored and nobody is at work.
LEMMA InitInv == Init => Inv
<1>1. SUFFICES ASSUME Init  PROVE Inv
  OBVIOUS
<1>2. TypeOK
  BY <1>1 DEF Init, TypeOK, Working
<1>3. \A u \in Uploads : Knows(u)
  BY <1>1 DEF Init, Knows, KnowsBatch, KnowsTemplates, KnowsMessage, KnowsReading,
              Working, Handling
<1>4. /\ RowsAreStorable /\ Exclusive /\ OneTransactionPerMessage
      /\ RightTemplate /\ ParsedIsRecorded
  BY <1>1 DEF Init, RowsAreStorable, Exclusive, OneTransactionPerMessage, RightTemplate,
              ParsedIsRecorded, Handling
<1>5. QED  BY <1>2, <1>3, <1>4 DEF Inv

LEMMA InductiveStep == Inv /\ [Next]_vars => Inv'
<1>1. SUFFICES ASSUME Inv, [Next]_vars  PROVE Inv'
  OBVIOUS
<1>2. ASSUME NEW u \in Uploads,
             Handle(u) \/ Crash(u) \/ \E b \in Batches : Upload(u, b)
      PROVE  Inv'
  <2>1. Effects(u) /\ \A v \in Uploads \ {u} : Unmoved(v)
    BY <1>1, <1>2, StepEffects, OthersUnmoved DEF Inv
  <2>2. TypeOK' /\ Exclusive' /\ \A v \in Uploads : Knows(v)'
    BY <1>1, <1>2, TypeKept, ExclusiveKept, AllKnow
  <2>3. /\ RowsAreStorable' /\ OneTransactionPerMessage' /\ RightTemplate'
        /\ ParsedIsRecorded'
    BY <1>1, <2>1, RowsStayStorable, OneRowKept, RightTemplateKept, ParsedKept
  <2>4. QED  BY <2>2, <2>3 DEF Inv
<1>3. CASE UNCHANGED vars
  <2>1. TypeOK'
    BY <1>1, <1>3 DEF Inv, TypeOK, vars, tables, locals
  <2>2. ASSUME NEW v \in Uploads  PROVE Knows(v)'
    BY <1>1, <1>3, UnmovedKnows DEF vars, tables, locals, Unmoved
  <2>3. /\ RowsAreStorable' /\ Exclusive' /\ OneTransactionPerMessage'
        /\ RightTemplate' /\ ParsedIsRecorded'
    BY <1>1, <1>3
    DEF Inv, RowsAreStorable, Storable, Exclusive, OneTransactionPerMessage,
        RightTemplate, ParsedIsRecorded,
        Current, vars, tables, locals
  <2>4. QED  BY <2>1, <2>2, <2>3 DEF Inv
<1>4. QED  BY <1>1, <1>2, <1>3, DeactivateInv DEF Next

\* The inductive invariant holds in every reachable state.
THEOREM Invariance == Spec => []Inv
  BY InitInv, InductiveStep, PTL DEF Spec

\* Tables and uploads keep their types (raw_messages, transactions, ingestOne).
THEOREM TypeCorrect == Spec => []TypeOK
<1>1. Inv => TypeOK
  BY DEF Inv
<1>2. QED  BY <1>1, Invariance, PTL

\* One SMS never becomes two transactions, however often and by however many
\* uploads it is sent, and whatever fails (InsertRawMessage, InsertTransaction).
THEOREM OneSmsOnePayment == Spec => []OneTransactionPerMessage
<1>1. Inv => OneTransactionPerMessage
  BY DEF Inv
<1>2. QED  BY <1>1, Invariance, PTL

\* A transaction was read by the first active template that may read its SMS
\* (ListActiveProvidersForMatching and the loop of ingestOne).
THEOREM ReadByTheRightTemplate == Spec => []RightTemplate
<1>1. Inv => RightTemplate
  BY DEF Inv
<1>2. QED  BY <1>1, Invariance, PTL

\* A transaction states what its SMS states, in amounts an order can be paid with
\* (ingestOne, runProviderScript, the constraints of transactions).
THEOREM RecordedAsTheSmsSays == Spec => []AsTheSmsSays
<1>1. Inv => AsTheSmsSays
  <2>1. SUFFICES ASSUME Inv, NEW k \in TxIds, transactions[k] # NULL
        PROVE  LET c == transactions[k].content
                   g == Found[<<k[1], transactions[k].message>>]
               IN /\ c.amount > 0 /\ c.amount <= MaxMoney
                  /\ c.effective # NULL => c.effective > 0 /\ c.effective <= MaxMoney
                  /\ 10 * c.amount - g["amount"] \in -5 .. 5
                  /\ ~AllowUnsafe =>
                       /\ k[2] = g["trxId"]
                       /\ (c.balance = NULL) <=> (g["balance"] = NULL)
                       /\ c.balance # NULL => 10 * c.balance - g["balance"] \in -5 .. 5
    BY DEF AsTheSmsSays
  <2> DEFINE p == k[1]
             m == transactions[k].message
  <2>2. p \in Providers /\ m \in Messages
    BY <2>1 DEF Inv, TypeOK, TxRow, TxIds
  <2>3. /\ Readings[<<p, m>>].kind = "fields" /\ Readings[<<p, m>>].of.trx = k[2]
        /\ transactions[k].content = Readings[<<p, m>>].of
    BY <2>1 DEF Inv, RightTemplate, Reads
  <2>4. LET c == transactions[k].content IN
        /\ c.amount > 0 /\ c.amount <= MaxMoney
        /\ c.effective # NULL => c.effective > 0 /\ c.effective <= MaxMoney
    BY <2>1, ReadingAssumption DEF Inv, RowsAreStorable, Storable
  <2>5. Found[<<p, m>>] # NULL =>
          /\ Found[<<p, m>>]["amount"] \in Int \cup {NULL, Unusable}
          /\ Found[<<p, m>>]["balance"] \in Int \cup {NULL, Unusable}
    BY <2>2, IngestAssumption
  <2>6. LET c == transactions[k].content
            g == Found[<<p, m>>]
        IN /\ 10 * c.amount - g["amount"] \in -5 .. 5
           /\ ~AllowUnsafe =>
                /\ k[2] = g["trxId"]
                /\ (c.balance = NULL) <=> (g["balance"] = NULL)
                /\ c.balance # NULL => 10 * c.balance - g["balance"] \in -5 .. 5
    <3> DEFINE from == SenderOf[m]
               end == Endings[<<p, m>>]
    <3>1. Readings[<<p, m>>] = Read(Info[p], from, Found[<<p, m>>], end)
      BY <2>2, ReadingsAre
    <3>2. Read(Info[p], from, Found[<<p, m>>], end).kind = "fields"
      BY <2>3, <3>1
    <3>3. end.kind \in {"rejects", "fails", "nothing", "object"}
      BY <2>2, IngestAssumption
    <3> DEFINE r == Read(Info[p], from, Found[<<p, m>>], end).of
    <3>4. /\ 10 * r.amount - Found[<<p, m>>]["amount"] \in -5 .. 5
          /\ ~AllowUnsafe =>
               /\ r.trx = Found[<<p, m>>]["trxId"]
               /\ (r.balance = NULL) <=> (Found[<<p, m>>]["balance"] = NULL)
               /\ r.balance # NULL =>
                    10 * r.balance - Found[<<p, m>>]["balance"] \in -5 .. 5
      BY <2>5, <3>2, <3>3, ReadingIsExact
    <3>5. transactions[k].content = r /\ r.trx = k[2]
      BY <2>3, <3>1
    <3> HIDE DEF r
    <3>6. QED  BY <3>4, <3>5
  <2>7. QED  BY <2>4, <2>6
<1>2. QED  BY <1>1, Invariance, PTL

\* "parsed" in the inbox or in an answer means that the payment is on record
\* (MarkRawMessageParsed and the statuses of the response).
THEOREM ParsedMeansRecorded == Spec => []ParsedIsRecorded
<1>1. Inv => ParsedIsRecorded
  BY DEF Inv
<1>2. QED  BY <1>1, Invariance, PTL

\* An upload that has not read the templates yet when one is switched off never
\* uses it (is_active of ListActiveProvidersForMatching).
THEOREM SwitchedOffIsUnused == Spec => DeactivatedIsUnused
<1>1. SUFFICES ASSUME NEW p \in Providers, NEW u \in Uploads
      PROVE  Spec => []((p \notin active /\ pc[u] \in {"idle", "list"}) => [](chosen[u] # p))
  BY DEF DeactivatedIsUnused
<1> DEFINE InTime == p \notin active /\ pc[u] \in {"idle", "list"}
           Unused == /\ p \notin active /\ chosen[u] # p
                     /\ pc[u] \in {"raw"} \cup Handling /\ listed[u] # NULL =>
                          p \notin listed[u]
<1>0. NULL # p
  BY IngestAssumption
<1>2. Inv /\ InTime => Unused
  BY <1>0 DEF Inv, Knows, KnowsReading, Handling
<1>3. Inv /\ Unused /\ [Next]_vars => Unused'
  <2>1. SUFFICES ASSUME Inv, Unused, [Next]_vars  PROVE Unused'
    OBVIOUS
  <2>2. ASSUME NEW v \in Uploads \ {u},
               Handle(v) \/ Crash(v) \/ \E b \in Batches : Upload(v, b)
        PROVE  Unused'
    <3>1. Effects(v) /\ Unmoved(u)
      BY <2>1, <2>2, StepEffects, OthersUnmoved DEF Inv
    <3>2. QED  BY <2>1, <3>1 DEF Effects, Unmoved
  <2>3. ASSUME Handle(u) \/ Crash(u) \/ \E b \in Batches : Upload(u, b)
        PROVE  Unused'
    <3>1. active' = active
      BY <2>1, <2>3, StepEffects DEF Effects
    <3>2. CASE ListProviders(u)
      <4>1. /\ chosen'[u] = chosen[u]
            /\ listed'[u] # NULL => listed'[u] \subseteq active
        BY <2>1, <3>2 DEF ListProviders, Visible, Inv, TypeOK
      <4>2. QED  BY <2>1, <3>1, <4>1
    <3>3. CASE ReadMessage(u)
      <4>1. pc[u] = "match" /\ listed[u] # NULL /\ listed' = listed
        BY <2>1, <3>3 DEF ReadMessage, Inv, Knows, KnowsReading
      <4>2. p \notin listed[u]
        BY <2>1, <4>1 DEF Handling
      <4>3. chosen'[u] = NULL \/ chosen'[u] \in listed[u]
        BY <2>1, <3>3 DEF ReadMessage, FirstReaders, Readers, Inv, TypeOK
      <4>4. QED  BY <1>0, <2>1, <3>1, <4>1, <4>2, <4>3
    <3>4. CASE \E b \in Batches : Upload(u, b)
      <4>1. pc'[u] = "list" /\ UNCHANGED chosen
        BY <2>1, <3>4 DEF Upload, Inv, TypeOK
      <4>2. QED  BY <2>1, <3>1, <4>1 DEF Handling
    <3>5. CASE \/ InsertRawMessage(u) \/ InsertTransaction(u) \/ FetchTransaction(u)
               \/ MarkRawMessage(u) \/ Respond(u) \/ Crash(u)
      <4>1. /\ UNCHANGED <<chosen, listed>>
            /\ pc[u] \in {"raw"} \cup Handling \/ pc'[u] = "done"
        <5>1. CASE Respond(u) \/ Crash(u)
          BY <2>1, <5>1 DEF Respond, Crash, Goto, Inv, TypeOK
        <5>2. CASE InsertRawMessage(u) \/ InsertTransaction(u) \/ FetchTransaction(u)
                   \/ MarkRawMessage(u)
          BY <5>2 DEF InsertRawMessage, InsertTransaction, FetchTransaction,
                      MarkRawMessage, Handling
        <5>3. QED  BY <3>5, <5>1, <5>2
      <4>2. QED  BY <2>1, <3>1, <4>1 DEF Handling
    <3>6. QED  BY <2>3, <3>2, <3>3, <3>4, <3>5 DEF Handle
  <2>4. CASE UNCHANGED vars
    BY <2>1, <2>4 DEF vars, tables, locals
  <2>5. ASSUME NEW q \in Providers, Deactivate(q)  PROVE Unused'
    BY <2>1, <2>5 DEF Deactivate, locals
  <2>6. QED  BY <2>1, <2>2, <2>3, <2>4, <2>5 DEF Next
<1>4. Unused => chosen[u] # p
  OBVIOUS
<1>5. Spec => [](InTime => [](chosen[u] # p))
  BY <1>2, <1>3, <1>4, Invariance, PTL DEF Spec
<1>6. QED  BY <1>5

--------------------------------------------------------------------------------
\* The refinement.

\* Switching off a template is the same step of SmsInbox (DeactivateProvider).
LEMMA DeactivateWithdraws ==
  ASSUME NEW p \in Providers, Deactivate(p)
  PROVE  Inbox!Next
<1>1. Inbox!Withdraw(p)
  BY DEF Deactivate, Inbox!Withdraw, Origin
<1>2. QED  BY <1>1 DEF Inbox!Next

\* Storing an SMS (InsertRawMessage).
LEMMA RawMessageIsStored ==
  ASSUME Inv, TypeOK', NEW m \in Messages, inbox[m] = "absent", inbox'[m] = "pending",
         \A n \in Messages \ {m} : inbox'[n] = inbox[n],
         UNCHANGED <<active, transactions>>
  PROVE  Inbox!Next
<1>1. inbox' = [inbox EXCEPT ![m] = "pending"]
  BY DEF Inv, TypeOK
<1>2. Inbox!Store(m)
  BY <1>1 DEF Inbox!Store, Origin
<1>3. QED  BY <1>2 DEF Inbox!Next

\* Recording a payment: the one its template reads, which is still the first on
\* offer when the statement executes (InsertTransaction).
LEMMA TransactionIsRecorded ==
  ASSUME Inv, NEW u \in Uploads, pc[u] = "insert",
         transactions[TxId(u)] = NULL,
         transactions'[TxId(u)] = [message |-> Current(u), content |-> Content(u)],
         \A k \in TxIds \ {TxId(u)} : transactions'[k] = transactions[k],
         UNCHANGED <<active, inbox>>
  PROVE  Inbox!Next
<1> DEFINE m == Current(u)
           p == TxId(u)
<1>1. /\ m \in Messages /\ inbox[m] = "pending" /\ m # NULL
      /\ p \in TxIds /\ MayRead(p[1], m) /\ Reads(p[1], m, p[2])
      /\ IsFirst(p[1], m)
      /\ \A k \in TxIds : transactions[k] # NULL => transactions[k].message # m
  <2>1. NULL \notin Messages
    BY IngestAssumption
  <2>2. /\ m \in Messages /\ inbox[m] = "pending"
        /\ p \in TxIds /\ p[1] = chosen[u] /\ Reads(chosen[u], m, p[2])
        /\ MayRead(chosen[u], m) /\ IsFirst(chosen[u], m)
        /\ \A k \in TxIds : transactions[k] # NULL => transactions[k].message # m
    BY InsertedRow
  <2> HIDE DEF m, p
  <2>3. QED  BY <2>1, <2>2
<1>2. transactions'[p].message = m /\ transactions'[p] # NULL
  <2>1. m \in Messages /\ Content(u) \in Contents
    BY <1>1, InsertedRow
  <2> DEFINE row == [message |-> m, content |-> Content(u)]
  <2>2. row \in [message : Messages, content : Contents] /\ row.message = m
    BY <2>1
  <2>3. transactions'[p] = row
    OBVIOUS
  <2>4. NULL \notin [message : Messages, content : Contents]
    BY IngestAssumption
  <2> HIDE DEF row, m, p
  <2>5. QED  BY <2>2, <2>3, <2>4
<1>3. [k \in TxIds |-> Origin(k)'] = [[k \in TxIds |-> Origin(k)] EXCEPT ![p] = m]
  BY <1>1, <1>2 DEF Origin
<1>4. \A k \in TxIds : Origin(k) # m
  BY <1>1 DEF Origin
<1>5. Origin(p) = NULL
  BY DEF Origin
<1>6. Inbox!Record(m, p)
  <2>1. inbox[m] = "pending" /\ Inbox!Brought(m) = {} /\ ~Inbox!Recorded(p)
    BY <1>1, <1>4, <1>5 DEF Inbox!Brought, Inbox!Recorded
  <2>2. p \in {k \in TxIds : MayRead(k[1], m) /\ Reads(k[1], m, k[2])}
    BY <1>1
  <2>3. {q \in Providers : /\ MayRead(q, m) /\ Readings[<<q, m>>].kind # "none"
                           /\ Before(q, p[1])} \cap active = {}
    BY <1>1 DEF IsFirst
  <2>4. QED  BY <1>1, <1>3, <2>1, <2>2, <2>3 DEF Inbox!Record
<1>7. QED  BY <1>1, <1>6 DEF Inbox!Next

\* Settling an SMS: "parsed" with its payment on record, or anything else
\* without one (MarkRawMessageParsed and the three others).
LEMMA MarkedIsSettled ==
  ASSUME Inv, TypeOK', NEW u \in Uploads, pc[u] = "mark",
         Current(u) \in Messages, inbox'[Current(u)] = verdict[u],
         \A n \in Messages \ {Current(u)} : inbox'[n] = inbox[n],
         UNCHANGED <<active, transactions>>
  PROVE  Inbox!Next
<1> DEFINE m == Current(u)
<1>1. Knows(u)
  BY DEF Inv
<1>2. inbox[m] = "pending" /\ verdict[u] \in Verdicts
  BY <1>1 DEF Knows, KnowsMessage, KnowsReading, Handling
<1>3. inbox' = [inbox EXCEPT ![m] = verdict[u]]
  BY DEF Inv, TypeOK
<1>4. verdict[u] = "parsed" =>
        \E p \in {k \in TxIds : MayRead(k[1], m) /\ Reads(k[1], m, k[2])} : Inbox!Recorded(p)
  <2> SUFFICES ASSUME verdict[u] = "parsed"
               PROVE  \E p \in {k \in TxIds : MayRead(k[1], m) /\ Reads(k[1], m, k[2])} :
                        Inbox!Recorded(p)
    OBVIOUS
  <2>1. /\ chosen[u] \in Providers /\ Readings[<<chosen[u], m>>].kind = "fields"
        /\ MayRead(chosen[u], m) /\ transactions[TxId(u)] # NULL
    BY <1>1 DEF Knows, KnowsReading
  <2>2. TxId(u) \in TxIds /\ Reads(TxId(u)[1], m, TxId(u)[2]) /\ TxId(u)[1] = chosen[u]
    BY <2>1, ReadingsTyped DEF TxId, Reads
  <2>3. Origin(TxId(u)) \in Messages
    BY <2>1, <2>2 DEF Origin, Inv, TypeOK, TxRow
  <2>4. Inbox!Recorded(TxId(u))
    BY <2>2, <2>3, IngestAssumption DEF Inbox!Recorded
  <2>5. QED  BY <2>1, <2>2, <2>4
<1>5. verdict[u] # "parsed" => Inbox!Brought(m) = {}
  <2>1. verdict[u] # "parsed" => \A k \in TxIds : Origin(k) # m
    BY <1>1, IngestAssumption DEF Knows, KnowsMessage, Origin
  <2>2. QED  BY <2>1 DEF Inbox!Brought
<1>6. Inbox!Settle(m, verdict[u])
  BY <1>2, <1>3, <1>4, <1>5 DEF Inbox!Settle, Origin
<1>7. QED  BY <1>2, <1>6 DEF Inbox!Next, Verdicts

\* Every behaviour of the uploads is one of SmsInbox: each statement is one of its
\* steps or changes nothing it speaks of (ingestOne).
THEOREM InboxRefinement == Spec => ImplementsInbox
<1>1. Init => Inbox!Init
  BY DEF Init, Inbox!Init, Origin
<1>2. Inv /\ [Next]_vars => [Inbox!Next]_Inbox!vars
  <2> SUFFICES ASSUME Inv, [Next]_vars PROVE Inbox!Next \/ UNCHANGED Inbox!vars
    OBVIOUS
  <2>0. TypeOK'
    BY InductiveStep DEF Inv
  <2>1. CASE UNCHANGED <<active, inbox, transactions>>
    BY <2>1 DEF Inbox!vars, Origin
  <2>2. ASSUME NEW u \in Uploads,
               Handle(u) \/ Crash(u) \/ \E b \in Batches : Upload(u, b)
        PROVE  Inbox!Next \/ UNCHANGED <<active, inbox, transactions>>
    <3>1. Effects(u)
      BY <2>2, StepEffects
    <3>2. CASE \E k \in TxIds : transactions'[k] # transactions[k]
      <4>1. /\ pc[u] = "insert" /\ transactions[TxId(u)] = NULL
            /\ transactions'[TxId(u)] = [message |-> Current(u), content |-> Content(u)]
            /\ \A k \in TxIds \ {TxId(u)} : transactions'[k] = transactions[k]
        BY <3>1, <3>2 DEF Effects
      <4>2. \A m \in Messages : inbox'[m] = inbox[m]
        BY <3>1, <4>1 DEF Effects
      <4>3. inbox' = inbox /\ active' = active
        BY <2>0, <3>1, <4>2 DEF Effects, Inv, TypeOK
      <4>4. QED  BY <4>1, <4>3, TransactionIsRecorded
    <3>3. CASE \A k \in TxIds : transactions'[k] = transactions[k]
      <4>1. transactions' = transactions /\ active' = active
        BY <2>0, <3>1, <3>3 DEF Effects, Inv, TypeOK
      <4>2. CASE \A m \in Messages : inbox'[m] = inbox[m]
        BY <2>0, <4>1, <4>2 DEF Inv, TypeOK
      <4>3. ASSUME NEW m \in Messages, inbox'[m] # inbox[m]  PROVE Inbox!Next
        <5>1. /\ m = Current(u) /\ \A n \in Messages \ {m} : inbox'[n] = inbox[n]
              /\ \/ inbox[m] = "absent" /\ inbox'[m] = "pending"
                 \/ pc[u] = "mark" /\ inbox'[m] = verdict[u]
          BY <3>1, <4>3 DEF Effects
        <5>2. QED  BY <2>0, <4>1, <4>3, <5>1, RawMessageIsStored, MarkedIsSettled
      <4>4. QED  BY <4>2, <4>3
    <3>4. QED  BY <3>2, <3>3
  <2>3. CASE UNCHANGED vars
    BY <2>1, <2>3 DEF vars, tables
  <2>4. QED  BY <2>1, <2>2, <2>3, DeactivateWithdraws DEF Next
<1>3. QED
  BY <1>1, <1>2, Invariance, PTL DEF Spec, ImplementsInbox, Inbox!Spec

\* Transactions and settled inbox rows never change (the two ON CONFLICT DO
\* NOTHING and the one marking of each row).
THEOREM RecordsStay == Spec => RecordsAreFinal
<1> DEFINE Keep ==
      /\ \A k \in TxIds : transactions[k] # NULL => transactions'[k] = transactions[k]
      /\ \A m \in Messages : inbox[m] \in Verdicts =>
           inbox'[m] = inbox[m] /\ linked'[m] = linked[m]
<1>1. Inv /\ [Next]_vars => Keep
  <2>1. SUFFICES ASSUME Inv, [Next]_vars  PROVE Keep
    OBVIOUS
  <2>2. ASSUME NEW u \in Uploads,
               Handle(u) \/ Crash(u) \/ \E b \in Batches : Upload(u, b)
        PROVE  Keep
    <3>1. Effects(u)
      BY <2>1, <2>2, StepEffects
    <3>2. pc[u] = "mark" => inbox[Current(u)] = "pending"
      BY <2>1 DEF Inv, Knows, KnowsMessage, Handling
    <3>3. QED  BY <3>1, <3>2 DEF Effects, Verdicts
  <2>3. CASE UNCHANGED vars
    BY <2>3 DEF vars, tables
  <2>4. ASSUME NEW p \in Providers, Deactivate(p)  PROVE Keep
    BY <2>4 DEF Deactivate
  <2>5. QED  BY <2>1, <2>2, <2>3, <2>4 DEF Next
<1>2. QED  BY <1>1, Invariance, PTL DEF Spec, RecordsAreFinal
===============================================================================
