---------------------------- MODULE CaptureProofs ----------------------------
(***************************************************************************)
(* What the phone guarantees for every set of messages, every batch size   *)
(* and every number of faults, proved with TLAPS.                          *)
(***************************************************************************)
EXTENDS Capture, FiniteSetTheorems, TLAPS

\* A batch is a non-empty set of pending rows (CaptureDao.pendingOldest).
LEMMA BatchIsPending ==
  ASSUME Pending # {}, NEW b \in OldestPending
  PROVE  b \subseteq Pending /\ b # {}
<1>1. CASE Cardinality(b) = BatchSize
  BY <1>1, FS_EmptySet, CaptureAssumption DEF OldestPending
<1>2. CASE b = Pending
  BY <1>2
<1>3. QED  BY <1>1, <1>2 DEF OldestPending

\* Enqueueing changes nothing a running worker has in hand
\* (UploadWorker.enqueue, KEEP).
LEMMA EnqueuedKeeps ==
  ASSUME NEW w
  PROVE  /\ Enqueued(w) \in {"enqueued", w}
         /\ w # "none" => Enqueued(w) = w
         /\ w = "none" => Enqueued(w) = "enqueued"
  BY DEF Enqueued

-----------------------------------------------------------------------------
\* A fresh installation satisfies the invariant.
LEMMA InitInv == Init => Inv
  BY CaptureAssumption
     DEF Init, Inv, TypeOK, Stages, OneRowPerMessage, OnlyRowsTravel, SentWasHandled

\* The coroutine of one SMS, and its failing insertion
\* (CaptureRepository.handleIncoming).
LEMMA CaptureInv ==
  ASSUME Inv, NEW s \in Sms, Receive(s) \/ CaptureStep(s) \/ InsertFails(s)
  PROVE  Inv'
<1> USE DEF Inv, TypeOK, OneRowPerMessage, OnlyRowsTravel, SentWasHandled,
            job, beat, watching, outside, Stages
<1>1. CASE Receive(s)
  BY <1>1 DEF Receive
<1>2. CASE Gate(s)
  BY <1>2 DEF Gate
<1>3. CASE Insert(s)
  <2>1. CASE Duplicate(s)
    BY <1>3, <2>1 DEF Insert
  <2>2. CASE ~Duplicate(s)
    <3>1. rows[s] = "absent" /\ rows' = [rows EXCEPT ![s] = "pending"]
      BY <1>3, <2>2 DEF Insert, Duplicate
    <3>2. TypeOK' /\ OnlyRowsTravel' /\ SentWasHandled'
      BY <1>3, <2>2, <3>1 DEF Insert
    <3>3. OneRowPerMessage'
      BY <2>2, <3>1 DEF Duplicate
    <3>4. QED  BY <3>2, <3>3
  <2>3. QED  BY <2>1, <2>2
<1>4. CASE EnqueueUpload(s)
  BY <1>4, EnqueuedKeeps DEF EnqueueUpload, Running, Results
<1>5. CASE InsertFails(s)
  BY <1>5, CaptureAssumption DEF InsertFails, Fault
<1>6. QED  BY <1>1, <1>2, <1>3, <1>4, <1>5 DEF CaptureStep

\* The upload worker, with its failures (UploadWorker.doWork,
\* CaptureRepository.uploadOnce).
LEMMA WorkerInv ==
  ASSUME Inv, WorkerStep \/ SendFails \/ MarkFails
  PROVE  Inv'
<1> USE DEF Inv, TypeOK, OneRowPerMessage, OnlyRowsTravel, SentWasHandled,
            beat, watching, outside, Running, Results
<1>1. CASE StartWork
  BY <1>1, CaptureAssumption DEF StartWork
<1>2. CASE ReadBatch
  <2>1. loops' \in 0 .. MaxLoops
    BY <1>2, CaptureAssumption DEF ReadBatch
  <2>2. CASE worker' = "success"
    BY <1>2, <2>1, <2>2 DEF ReadBatch
  <2>3. CASE worker' = "send"
    <3>1. todo' \subseteq Pending /\ todo' # {}
      BY <1>2, <2>3, BatchIsPending DEF ReadBatch
    <3>2. QED  BY <1>2, <2>1, <2>3, <3>1 DEF ReadBatch, Pending
  <2>4. QED  BY <1>2, <2>2, <2>3 DEF ReadBatch
<1>3. CASE SendBatch
  BY <1>3 DEF SendBatch
<1>4. CASE SendFails
  BY <1>4, CaptureAssumption DEF SendFails, Fault
<1>5. CASE MarkSent
  <2>1. PICK s \in todo : /\ rows' = [rows EXCEPT ![s] = "sent"]
                          /\ todo' = todo \ {s}
                          /\ worker' = IF todo = {s} THEN "read" ELSE "mark"
    BY <1>5 DEF MarkSent, Answered
  <2>2. s \in handled /\ rows[s] # "absent"
    BY <1>5 DEF MarkSent
  <2>3. QED  BY <1>5, <2>1, <2>2 DEF MarkSent
<1>6. CASE MarkFails
  BY <1>6, CaptureAssumption DEF MarkFails, Fault
<1>7. CASE FinishWork
  BY <1>7 DEF FinishWork
<1>8. CASE StopWork
  BY <1>8 DEF StopWork
<1>9. QED
  BY <1>1, <1>2, <1>3, <1>4, <1>5, <1>6, <1>7, <1>8 DEF WorkerStep

\* The service, the user, the system and the server's templates: none of them
\* touches a row or a batch in hand (MonitoringService).
LEMMA SurroundingsInv ==
  ASSUME Inv,
         \/ HeartbeatStep \/ WatchStep \/ RetryPending \/ Pause \/ Resume
         \/ Kill \/ RestartService \/ GoOffline \/ GoOnline \/ ChangeTemplates
  PROVE  Inv'
<1> USE CaptureAssumption
    DEF Inv, TypeOK, OneRowPerMessage, OnlyRowsTravel, SentWasHandled,
        job, beat, watching, Running, Results, ServiceEnds
<1>0. Fault => faults' \in 0 .. MaxFaults
  BY DEF Fault
<1>1. CASE Heartbeat
  BY <1>1 DEF Heartbeat, outside
<1>2. CASE StoreProviders
  BY <1>2 DEF StoreProviders, outside
<1>3. CASE CountPending
  BY <1>3 DEF CountPending, outside
<1>4. CASE HeartbeatEnqueue
  BY <1>4, EnqueuedKeeps DEF HeartbeatEnqueue, outside
<1>5. CASE WatchConnectivity
  BY <1>5 DEF WatchConnectivity, Network, outside
<1>6. CASE WatchEnqueue
  BY <1>6, EnqueuedKeeps DEF WatchEnqueue, outside
<1>7. CASE RetryPending
  BY <1>7, EnqueuedKeeps DEF RetryPending, outside
<1>8. CASE Pause
  BY <1>0, <1>8 DEF Pause
<1>9. CASE Resume
  BY <1>9 DEF Resume
<1>10. CASE Kill
  <2>1. stage' \in [Sms -> Stages]
    BY <1>10 DEF Kill, Stages
  <2>2. faults' \in 0 .. MaxFaults
    BY <1>0, <1>10 DEF Kill
  <2>3. worker' \in {"none", "enqueued"} /\ service' \in {"on", "off", "dead"}
    BY <1>10 DEF Kill
  <2>4. /\ todo' = {} /\ heartbeat' = "idle" /\ fetched' = {} /\ watch' = "idle"
        /\ watched' = "none" /\ UNCHANGED <<rows, providers, loops, handled, online, served>>
    BY <1>10 DEF Kill
  <2>5. TypeOK'
    BY <2>1, <2>2, <2>3, <2>4
  <2>6. QED  BY <2>3, <2>4, <2>5
<1>11. CASE RestartService
  BY <1>11 DEF RestartService
<1>12. CASE GoOffline
  <2>1. faults' \in 0 .. MaxFaults
    BY <1>0, <1>12 DEF GoOffline
  <2>2. online' \in BOOLEAN
    BY <1>12 DEF GoOffline
  <2>3. UNCHANGED <<stage, rows, providers, job, beat, watching, handled, service, served>>
    BY <1>12 DEF GoOffline
  <2>4. TypeOK'
    BY <2>1, <2>2, <2>3, SMTT(30)
  <2>5. QED  BY <2>3, <2>4
<1>13. CASE GoOnline
  BY <1>13 DEF GoOnline
<1>14. CASE ChangeTemplates
  BY <1>0, <1>14 DEF ChangeTemplates
<1>15. QED
  BY <1>1, <1>2, <1>3, <1>4, <1>5, <1>6, <1>7, <1>8, <1>9, <1>10, <1>11,
     <1>12, <1>13, <1>14 DEF HeartbeatStep, WatchStep

\* Every step keeps the invariant.
LEMMA InductiveStep == Inv /\ [Next]_vars => Inv'
<1> SUFFICES ASSUME Inv, [Next]_vars PROVE Inv'
  OBVIOUS
<1>1. CASE UNCHANGED vars
  BY <1>1 DEF Inv, TypeOK, OneRowPerMessage, OnlyRowsTravel, SentWasHandled,
              vars, job, beat, watching, outside
<1>2. CASE Next
  BY <1>2, CaptureInv, WorkerInv, SurroundingsInv DEF Next, Environment
<1>3. QED  BY <1>1, <1>2

-----------------------------------------------------------------------------
\* The inductive invariant holds in every reachable state of the phone.
THEOREM PhoneInvariance == Spec => []Inv
  BY InitInv, InductiveStep, PTL DEF Spec

\* Every table, coroutine and counter of the phone keeps its type, and the
\* worker has a batch in hand exactly while it sends or marks one.
THEOREM PhoneTyped == Spec => []TypeOK
<1>1. Inv => TypeOK
  BY DEF Inv
<1>2. QED  BY <1>1, PhoneInvariance, PTL

\* What is marked sent was accepted by the server
\* (CaptureRepository.uploadOnce).
THEOREM SentIsHandled == Spec => []SentWasHandled
<1>1. Inv => SentWasHandled
  BY DEF Inv
<1>2. QED  BY <1>1, PhoneInvariance, PTL

\* The server gets a message under one client_msg_id, however often it is
\* broadcast, uploaded and interrupted (CaptureRepository.handleIncoming).
THEOREM UploadedUnderOneId == Spec => []OneIdPerMessage
<1>1. Inv => OneIdPerMessage
  BY DEF Inv, TypeOK, OneRowPerMessage, OnlyRowsTravel, OneIdPerMessage
<1>2. QED  BY <1>1, PhoneInvariance, PTL

-----------------------------------------------------------------------------
\* The refinement.

\* One row has the key, and the key finds it.
LEMMA KeyFindsRow ==
  ASSUME NEW K, \A t, v \in K : KeyOf[t] = KeyOf[v] => t = v, NEW s \in K
  PROVE  (CHOOSE t \in K : KeyOf[t] = KeyOf[s]) = s
  OBVIOUS

\* A row is kept under its own id, and what is on its way is kept.
LEMMA RowsAreKept ==
  ASSUME Inv
  PROVE  /\ \A s \in Kept : s \in Sms /\ KeyOf[s] \in Keys /\ IdOf(KeyOf[s]) = s /\ s # NULL
         /\ todo \subseteq Kept /\ Pending \subseteq Kept
         /\ \A s, t \in Kept : KeyOf[s] = KeyOf[t] => s = t
<1>1. \A s, t \in Kept : KeyOf[s] = KeyOf[t] => s = t
  BY DEF Inv, OneRowPerMessage, Kept
<1>2. \A s \in Kept : IdOf(KeyOf[s]) = s
  BY <1>1, KeyFindsRow DEF IdOf
<1>3. \A s \in Kept : s \in Sms /\ KeyOf[s] \in Keys /\ s # NULL
  BY CaptureAssumption DEF Kept
<1>4. todo \subseteq Kept /\ Pending \subseteq Kept
  BY DEF Inv, TypeOK, OnlyRowsTravel, Kept, Pending
<1>5. QED  BY <1>1, <1>2, <1>3, <1>4

\* Whatever touches neither a row nor a batch changes nothing of it.
LEMMA OutboxFrame ==
  ASSUME UNCHANGED <<rows, todo, handled>>
  PROVE  UNCHANGED Sending!vars
  BY DEF Sending!vars, IdOf, Kept

\* A run that stops, fails or dies gives its batch up (UploadWorker.doWork).
LEMMA GivenUp ==
  ASSUME todo' = {}, UNCHANGED <<rows, handled>>
  PROVE  Sending!Next
<1>1. Sending!Drop
  BY DEF Sending!Drop, IdOf, Kept
<1>2. QED  BY <1>1 DEF Sending!Next

\* A row that gets its key is kept (CaptureDao.insert).
LEMMA InsertKeeps ==
  ASSUME Inv, Inv', NEW s \in Sms, ~Duplicate(s),
         rows' = [rows EXCEPT ![s] = "pending"], UNCHANGED <<todo, handled>>
  PROVE  Sending!Next
<1>1. rows[s] = "absent" /\ KeyOf[s] \in Keys
  BY CaptureAssumption DEF Duplicate
<1>2. Kept' = Kept \cup {s} /\ \A t \in Kept : KeyOf[t] # KeyOf[s]
  BY <1>1 DEF Inv, TypeOK, Kept, Duplicate
<1>3. \A t, v \in Kept' : KeyOf[t] = KeyOf[v] => t = v
  BY DEF Inv, OneRowPerMessage, Kept
<1>4. IdOf(KeyOf[s]) = NULL /\ IdOf(KeyOf[s])' = s
  <2>1. IdOf(KeyOf[s]) = NULL
    BY <1>2 DEF IdOf
  <2>2. (CHOOSE t \in Kept' : KeyOf[t] = KeyOf[s]) = s
    BY <1>2, <1>3, KeyFindsRow
  <2>3. QED  BY <1>2, <2>1, <2>2 DEF IdOf
<1>5. ASSUME NEW k \in Keys, k # KeyOf[s]
      PROVE  IdOf(k)' = IdOf(k)
  <2>1. CASE \E t \in Kept : KeyOf[t] = k
    <3>1. PICK t \in Kept : KeyOf[t] = k
      BY <2>1
    <3>2. IdOf(k) = t
      BY <3>1, RowsAreKept
    <3>3. (CHOOSE v \in Kept' : KeyOf[v] = k) = t
      BY <1>2, <1>3, <3>1, KeyFindsRow
    <3>4. IdOf(k)' = t
      BY <1>2, <3>1, <3>3 DEF IdOf
    <3>5. QED  BY <3>2, <3>4
  <2>2. CASE ~\E t \in Kept : KeyOf[t] = k
    BY <1>2, <1>5, <2>2 DEF IdOf
  <2>3. QED  BY <2>1, <2>2
<1>6. [k \in Keys |-> IdOf(k)'] = [[k \in Keys |-> IdOf(k)] EXCEPT ![KeyOf[s]] = s]
  BY <1>1, <1>4, <1>5
<1>7. \A t \in Sms : rows'[t] = "sent" <=> rows[t] = "sent"
  BY <1>1 DEF Inv, TypeOK
<1>8. Sending!Keep(KeyOf[s], s)
  BY <1>1, <1>4, <1>6, <1>7 DEF Sending!Keep
<1>9. QED  BY <1>1, <1>8 DEF Sending!Next

\* A batch that is read is of rows that are not noted as sent
\* (CaptureDao.pendingOldest).
LEMMA BatchIsTaken ==
  ASSUME Inv, todo = {}, todo' \subseteq Pending, UNCHANGED <<rows, handled>>
  PROVE  Sending!Next
<1> DEFINE batch == {KeyOf[s] : s \in todo'}
           sent  == {KeyOf[s] : s \in {t \in Sms : rows[t] = "sent"}}
<1>1. ASSUME NEW s \in todo'
      PROVE  KeyOf[s] \in Keys /\ IdOf(KeyOf[s]) # NULL /\ KeyOf[s] \notin sent
  <2>1. s \in Kept /\ rows[s] = "pending"
    BY <1>1, RowsAreKept DEF Pending
  <2>2. \A t \in Sms : rows[t] = "sent" => t \in Kept /\ t # s
    BY <2>1 DEF Kept
  <2>3. QED  BY <2>1, <2>2, RowsAreKept
<1>2. {KeyOf[s] : s \in todo} = {}
  OBVIOUS
<1>3. /\ [k \in Keys |-> IdOf(k)'] = [k \in Keys |-> IdOf(k)]
      /\ {KeyOf[s] : s \in {t \in Sms : rows'[t] = "sent"}} = sent
  BY DEF IdOf, Kept
<1>4. PICK b \in SUBSET Keys : b = batch
  BY <1>1
<1>5. \A m \in b : m \in Keys /\ IdOf(m) # NULL /\ m \notin sent
  BY <1>1, <1>4
<1>6. Sending!Take(b)
  BY <1>2, <1>3, <1>4, <1>5 DEF Sending!Take
<1>7. QED  BY <1>6 DEF Sending!Next

\* The server is handed the ids of what is carried, and of nothing else
\* (CaptureRepository.uploadOnce).
LEMMA BatchIsHanded ==
  ASSUME Inv, handled' = handled \cup todo, todo' \in {todo, {}}, UNCHANGED rows
  PROVE  Sending!Next
<1> DEFINE carried == {KeyOf[s] : s \in todo}
<1>1. \A s \in todo : KeyOf[s] \in Keys /\ IdOf(KeyOf[s]) = s
  BY RowsAreKept
<1>2. {[k \in Keys |-> IdOf(k)][m] : m \in carried} = todo
  BY <1>1
<1>3. {KeyOf[s] : s \in todo'} \in {carried, {}}
  OBVIOUS
<1>4. Sending!Hand
  BY <1>2, <1>3 DEF Sending!Hand, IdOf, Kept
<1>5. QED  BY <1>4 DEF Sending!Next

\* A row that is marked was carried, and the server has it (CaptureDao.markSent).
LEMMA MarkingNotes ==
  ASSUME Inv, NEW s \in todo, worker = "mark",
         rows' = [rows EXCEPT ![s] = "sent"], todo' = todo \ {s}, UNCHANGED handled
  PROVE  Sending!Next
<1> DEFINE carried == {KeyOf[t] : t \in todo}
           sent    == {KeyOf[t] : t \in {v \in Sms : rows[v] = "sent"}}
<1>1. /\ s \in Sms /\ KeyOf[s] \in Keys /\ IdOf(KeyOf[s]) = s /\ s \in handled
      /\ rows[s] # "absent"
  BY RowsAreKept DEF Inv, OnlyRowsTravel, Kept
<1>2. {KeyOf[t] : t \in todo'} = carried \ {KeyOf[s]}
  BY RowsAreKept
<1>3. \A t \in Sms : rows'[t] = "sent" <=> t = s \/ rows[t] = "sent"
  BY <1>1 DEF Inv, TypeOK
<1>4. {KeyOf[t] : t \in {v \in Sms : rows'[v] = "sent"}} = sent \cup {KeyOf[s]}
  BY <1>1, <1>3
<1>5. Kept' = Kept
  BY <1>1 DEF Inv, TypeOK, Kept
<1>6. [k \in Keys |-> IdOf(k)'] = [k \in Keys |-> IdOf(k)]
  BY <1>5 DEF IdOf
<1>7. Sending!Note(KeyOf[s])
  BY <1>1, <1>2, <1>4, <1>6 DEF Sending!Note
<1>8. QED  BY <1>1, <1>7 DEF Sending!Next

\* A worker that reads has no batch in hand (UploadWorker.doWork).
LEMMA WorkerRefines ==
  ASSUME Inv, WorkerStep \/ SendFails \/ MarkFails
  PROVE  Sending!Next \/ UNCHANGED Sending!vars
<1>1. CASE StartWork \/ FinishWork
  BY <1>1, OutboxFrame DEF StartWork, FinishWork
<1>2. CASE ReadBatch
  <2>1. worker = "read" /\ todo = {}
    BY <1>2 DEF ReadBatch, Inv, TypeOK
  <2>2. CASE UNCHANGED todo
    BY <1>2, <2>2, OutboxFrame DEF ReadBatch
  <2>3. CASE Pending # {} /\ todo' \in OldestPending
    <3>1. todo' \subseteq Pending
      BY <2>3, BatchIsPending
    <3>2. QED  BY <1>2, <2>1, <3>1, BatchIsTaken DEF ReadBatch
  <2>4. QED  BY <1>2, <2>2, <2>3 DEF ReadBatch
<1>3. CASE SendBatch
  BY <1>3, BatchIsHanded, GivenUp DEF SendBatch
<1>4. CASE SendFails
  BY <1>4, BatchIsHanded, GivenUp DEF SendFails
<1>5. CASE MarkSent
  BY <1>5, MarkingNotes DEF MarkSent, Answered
<1>6. CASE MarkFails \/ StopWork
  BY <1>6, GivenUp DEF MarkFails, StopWork
<1>7. QED
  BY <1>1, <1>2, <1>3, <1>4, <1>5, <1>6 DEF WorkerStep

\* Every behaviour of the phone is one of Outbox: a coroutine, a fault, the user
\* or the network either takes one of its steps or changes nothing it speaks of.
THEOREM OutboxRefinement == Spec => ImplementsOutbox
<1>1. Init => Sending!Init
  BY DEF Init, Sending!Init, IdOf, Kept
<1>2. Inv /\ Inv' /\ [Next]_vars => [Sending!Next]_Sending!vars
  <2> SUFFICES ASSUME Inv, Inv', [Next]_vars
               PROVE  Sending!Next \/ UNCHANGED Sending!vars
    OBVIOUS
  <2>1. CASE UNCHANGED vars
    BY <2>1, OutboxFrame DEF vars, job
  <2>2. ASSUME NEW s \in Sms, Receive(s) \/ CaptureStep(s) \/ InsertFails(s)
        PROVE  Sending!Next \/ UNCHANGED Sending!vars
    <3>1. CASE Insert(s) /\ ~Duplicate(s)
      BY <3>1, InsertKeeps DEF Insert, job
    <3>2. CASE Insert(s) /\ Duplicate(s)
      BY <3>2, OutboxFrame DEF Insert, job
    <3>3. CASE Receive(s) \/ Gate(s) \/ EnqueueUpload(s) \/ InsertFails(s)
      BY <3>3, OutboxFrame DEF Receive, Gate, EnqueueUpload, InsertFails, job
    <3>4. QED  BY <2>2, <3>1, <3>2, <3>3 DEF CaptureStep
  <2>3. CASE Kill
    BY <2>3, GivenUp DEF Kill
  <2>4. CASE \/ HeartbeatStep \/ WatchStep \/ RetryPending \/ Pause \/ Resume
             \/ RestartService \/ GoOffline \/ GoOnline \/ ChangeTemplates
    <3>1. UNCHANGED <<rows, todo, handled>>
      BY <2>4 DEF HeartbeatStep, Heartbeat, StoreProviders, CountPending, HeartbeatEnqueue,
                  WatchStep, WatchConnectivity, WatchEnqueue, RetryPending, Pause, Resume,
                  RestartService, GoOffline, GoOnline, ChangeTemplates, job
    <3>2. QED  BY <3>1, OutboxFrame
  <2>5. QED  BY <2>1, <2>2, <2>3, <2>4, WorkerRefines DEF Next, Environment
<1>3. QED
  BY <1>1, <1>2, PhoneInvariance, PTL DEF Spec, ImplementsOutbox, Sending!Spec
=============================================================================
