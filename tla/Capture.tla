-------------------------------- MODULE Capture --------------------------------
(***************************************************************************)
(* The Android phone: an SMS is received, passed through the gate, stored  *)
(* as PENDING and uploaded by one unique WorkManager job                   *)
(* (android-app: SmsReceiver, CaptureRepository, UploadWorker,             *)
(* MonitoringService).                                                     *)
(*                                                                         *)
(* Several coroutines share the Room tables and the job: one per received  *)
(* SMS, the worker, the heartbeat and the connectivity watcher.  The       *)
(* process may die between any two steps; tables and the job survive it.   *)
(* The server is what the phone sees of it: a list of templates, and       *)
(* batches it handles or refuses.                                          *)
(*                                                                         *)
(* A definition Name_Bug is Name with one plausible bug, kept beside it to *)
(* show that the properties notice; nothing refers to it.                  *)
(***************************************************************************)
EXTENDS Naturals, FiniteSets

CONSTANTS
  Sms,           \* SMS broadcasts; the row an SMS may become has its name
  Keys,          \* dedup keys: sender, body, second
  KeyOf,         \* KeyOf[s]: the dedup key of s; a repeated broadcast shares it
  Senders,       \* sender ids, up to case and surrounding space
  SenderOf,      \* SenderOf[s]: who sent s, or NULL when it is blank
  ReceivedAt,    \* ReceivedAt[s]: the time stamp of s
  Unacceptable,  \* SMS whose body fails the server's validation
  Lists,         \* template lists the server serves, as sets of sender ids;
                 \* NULL in a list: a template that takes any sender
  BatchSize,     \* MAX_BATCH_SIZE
  MaxLoops,      \* MAX_LOOPS_PER_RUN
  MaxFaults,     \* bound on the disturbances the environment causes
  NULL           \* a missing sender id

ASSUME CaptureAssumption ==
  /\ KeyOf \in [Sms -> Keys] /\ NULL \notin Sms
  /\ SenderOf \in [Sms -> Senders \cup {NULL}]
  /\ ReceivedAt \in [Sms -> Nat]
  /\ Unacceptable \subseteq Sms
  /\ Lists \subseteq SUBSET (Senders \cup {NULL})
  /\ BatchSize \in Nat \ {0} /\ MaxLoops \in Nat \ {0} /\ MaxFaults \in Nat

VARIABLES
  stage,      \* stage[s]: how far s has come
  rows,       \* table captured_sms: status of row s, or "absent"
  providers,  \* table provider_sync: the sender ids of the synced templates
  worker,     \* the job upload-pending: "none", "enqueued", or where it runs
  loops,      \* iterations of doWork
  todo,       \* the rows of the batch in hand that are not marked yet
  heartbeat,  \* what the heartbeat loop does next
  fetched,    \* the template list in the heartbeat's answer
  watch,      \* what the connectivity watcher does next
  watched,    \* the connectivity it collected last, or "none"
  service,    \* MonitoringService: "on", "off" (paused), "dead" (killed)
  online,     \* the network, as ConnectivityObserver sees it
  served,     \* server: the active templates of the business
  handled,    \* server: the SMS it was handed in accepted batches
  faults      \* disturbances so far

job      == <<worker, loops, todo>>
beat     == <<heartbeat, fetched>>
watching == <<watch, watched>>
outside  == <<service, online, served, faults>>
vars     == <<stage, rows, providers, job, beat, watching, handled, outside>>

Stages  == {"new", "gate", "insert", "enqueue", "captured", "duplicate",
            "dropped", "lost"}
Running == {"read", "send", "mark"}
Results == {"success", "retry", "failure"}
Network == IF online THEN "online" ELSE "offline"

TypeOK ==
  /\ stage \in [Sms -> Stages]
  /\ rows \in [Sms -> {"absent", "pending", "sent"}]
  /\ providers \in Lists \cup {{}}
  /\ worker \in {"none", "enqueued"} \cup Running \cup Results
  /\ loops \in 0 .. MaxLoops
  /\ todo \subseteq Sms
  /\ worker \in {"send", "mark"} <=> todo # {}
  /\ heartbeat \in {"idle", "store", "count", "enqueue"}
  /\ fetched \in Lists \cup {{}}
  /\ watch \in {"idle", "enqueue"}
  /\ watched \in {"none", "online", "offline"}
  /\ service \in {"on", "off", "dead"}
  /\ online \in BOOLEAN
  /\ served \in Lists
  /\ handled \subseteq Sms
  /\ faults \in 0 .. MaxFaults

\* Onboarding is done, it started the service; no heartbeat was answered yet.
Init ==
  /\ stage = [s \in Sms |-> "new"]
  /\ rows = [s \in Sms |-> "absent"]
  /\ providers = {} /\ fetched = {}
  /\ worker = "none" /\ loops = 0 /\ todo = {}
  /\ heartbeat = "idle"
  /\ watch = "idle" /\ watched = "none"
  /\ service = "on" /\ online = TRUE
  /\ served \in Lists
  /\ handled = {}
  /\ faults = 0

Pending_AnyStatus == {s \in Sms : rows[s] # "absent"}
Pending == {s \in Sms : rows[s] = "pending"}

\* enqueueUniqueWork with KEEP: an unfinished job is left as it is, also one
\* that has made its last read and only has to report its result.
Enqueued(w) == IF w = "none" THEN "enqueued" ELSE w

Fault == faults < MaxFaults /\ faults' = faults + 1
-------------------------------------------------------------------------------
\* Capture.

\* The broadcast arrives, in whatever state the service is, and starts a
\* coroutine.
Receive(s) ==
  /\ stage[s] = "new"
  /\ stage' = [stage EXCEPT ![s] = "gate"]
  /\ UNCHANGED <<rows, providers, job, beat, watching, handled, outside>>

\* Without templates nothing passes; a blank sender never does.
Admits(list, s) ==
  /\ SenderOf[s] # NULL
  /\ SenderOf[s] \in list \/ NULL \in list

Gate(s) ==
  /\ stage[s] = "gate"
  /\ stage' = [stage EXCEPT ![s] = IF Admits(providers, s) THEN "insert" ELSE "dropped"]
  /\ UNCHANGED <<rows, providers, job, beat, watching, handled, outside>>

\* The unique index over the dedup key.
Duplicate_UnsentOnly(s) == \E t \in Pending : KeyOf[t] = KeyOf[s]
Duplicate(s) == \E t \in Sms : rows[t] # "absent" /\ KeyOf[t] = KeyOf[s]

Insert(s) ==
  /\ stage[s] = "insert"
  /\ \/ /\ Duplicate(s)
        /\ stage' = [stage EXCEPT ![s] = "duplicate"]
        /\ UNCHANGED rows
     \/ /\ ~Duplicate(s)
        /\ stage' = [stage EXCEPT ![s] = "enqueue"]
        /\ rows' = [rows EXCEPT ![s] = "pending"]
  /\ UNCHANGED <<providers, job, beat, watching, handled, outside>>

\* handleIncoming throws, and SmsReceiver drops the exception.
InsertFails(s) ==
  /\ stage[s] = "insert" /\ Fault
  /\ stage' = [stage EXCEPT ![s] = "lost"]
  /\ UNCHANGED <<rows, providers, job, beat, watching, handled, service, online, served>>

EnqueueUpload(s) ==
  /\ stage[s] = "enqueue"
  /\ stage' = [stage EXCEPT ![s] = "captured"]
  /\ worker' = Enqueued(worker)
  /\ UNCHANGED <<rows, providers, loops, todo, beat, watching, handled, outside>>
-------------------------------------------------------------------------------
\* The upload worker.

\* WorkManager starts the job when the network constraint holds; the backoff
\* of a retry is some time that passes before.
StartWork ==
  /\ worker = "enqueued" /\ online
  /\ worker' = "read" /\ loops' = 0
  /\ UNCHANGED <<stage, rows, providers, todo, beat, watching, handled, outside>>

\* pendingOldest: up to BatchSize pending rows, none older left out.
OldestPending ==
  {b \in SUBSET Pending :
     /\ Cardinality(b) = BatchSize \/ (Cardinality(b) < BatchSize /\ b = Pending)
     /\ \A s \in b, t \in Pending \ b : ReceivedAt[s] <= ReceivedAt[t]}

\* The top of doWork's loop and the read of uploadOnce.
ReadBatch ==
  /\ worker = "read"
  /\ \/ /\ loops = MaxLoops \/ Pending = {}
        /\ worker' = "success"
        /\ UNCHANGED todo
     \/ /\ loops < MaxLoops /\ Pending # {}
        /\ todo' \in OldestPending
        /\ worker' = "send"
  /\ loops' = IF loops < MaxLoops THEN loops + 1 ELSE loops
  /\ UNCHANGED <<stage, rows, providers, beat, watching, handled, outside>>

\* The request is validated as a whole: one body that is empty or too long
\* refuses the batch, and the phone only sees a status that is not 2xx.
Accepts(b) == b \cap Unacceptable = {}

SendBatch ==
  /\ worker = "send"
  /\ \/ /\ online /\ Accepts(todo)
        /\ handled' = handled \cup todo
        /\ worker' = "mark"
        /\ UNCHANGED todo
     \/ /\ ~online \/ ~Accepts(todo)
        /\ worker' = "retry" /\ todo' = {}
        /\ UNCHANGED handled
  /\ UNCHANGED <<stage, rows, providers, loops, beat, watching, outside>>

\* A timeout, a lost answer, a status that is not 2xx, an answer that cannot be
\* decoded; the server may have handled the batch.
SendFails ==
  /\ worker = "send" /\ Fault
  /\ \/ online /\ Accepts(todo) /\ handled' = handled \cup todo
     \/ UNCHANGED handled
  /\ worker' = "retry" /\ todo' = {}
  /\ UNCHANGED <<stage, rows, providers, loops, beat, watching, service, online, served>>

\* The rows the answer is about: it has a result for every message of the batch.
Answered_AllPending == Pending
Answered == todo

\* markSent, row by row, whatever the result says of it; then the next batch.
MarkSent ==
  /\ worker = "mark"
  /\ \E s \in Answered :
       /\ rows' = [rows EXCEPT ![s] = "sent"]
       /\ todo' = todo \ {s}
       /\ worker' = IF todo = {s} THEN "read" ELSE "mark"
  /\ UNCHANGED <<stage, providers, loops, beat, watching, handled, outside>>

\* The update fails: FATAL_FAILURE, the rest of the batch stays pending.
MarkFails ==
  /\ worker = "mark" /\ Fault
  /\ worker' = "failure" /\ todo' = {}
  /\ UNCHANGED <<stage, rows, providers, loops, beat, watching, handled,
                 service, online, served>>

\* WorkManager takes over the result of doWork.
FinishWork ==
  /\ worker \in Results
  /\ worker' = IF worker = "retry" THEN "enqueued" ELSE "none"
  /\ UNCHANGED <<stage, rows, providers, loops, todo, beat, watching, handled, outside>>

\* The constraint no longer holds: the coroutine is cancelled where it is, its
\* result ignored, and the job waits for the network again.
StopWork ==
  /\ worker \in Running /\ ~online
  /\ worker' = "enqueued" /\ todo' = {}
  /\ UNCHANGED <<stage, rows, providers, loops, beat, watching, handled, outside>>
-------------------------------------------------------------------------------
\* The monitoring service.

\* A heartbeat is answered with the active templates; one that fails changes
\* nothing but the display.
Heartbeat ==
  /\ service = "on" /\ heartbeat = "idle" /\ online
  /\ fetched' = served
  /\ heartbeat' = "store"
  /\ UNCHANGED <<stage, rows, providers, job, watching, handled, outside>>

\* replaceProviders: delete and insert in one transaction.
StoreProviders_Torn ==
  /\ heartbeat = "store"
  /\ \/ providers' = fetched /\ fetched' = {} /\ heartbeat' = "count"
     \/ providers' = {} /\ UNCHANGED beat
  /\ UNCHANGED <<stage, rows, job, watching, handled, outside>>
StoreProviders ==
  /\ heartbeat = "store"
  /\ providers' = fetched /\ fetched' = {}
  /\ heartbeat' = "count"
  /\ UNCHANGED <<stage, rows, job, watching, handled, outside>>

\* After a heartbeat a backlog is scheduled, which makes up for every upload
\* that was not.
Backlog_Ignored == FALSE
Backlog == Pending # {} /\ online

CountPending ==
  /\ heartbeat = "count"
  /\ heartbeat' = IF Backlog THEN "enqueue" ELSE "idle"
  /\ UNCHANGED <<stage, rows, providers, job, fetched, watching, handled, outside>>

HeartbeatEnqueue ==
  /\ heartbeat = "enqueue"
  /\ heartbeat' = "idle"
  /\ worker' = Enqueued(worker)
  /\ UNCHANGED <<stage, rows, providers, loops, todo, fetched, watching, handled, outside>>

\* watchConnectivity collects a state flow: values it is too slow for are
\* skipped, and one equal to the last is not seen.
WatchConnectivity ==
  /\ service = "on" /\ watch = "idle" /\ watched # Network
  /\ watched' = Network
  /\ watch' = IF Pending # {} /\ online THEN "enqueue" ELSE "idle"
  /\ UNCHANGED <<stage, rows, providers, job, beat, handled, outside>>

WatchEnqueue ==
  /\ watch = "enqueue"
  /\ watch' = "idle"
  /\ worker' = Enqueued(worker)
  /\ UNCHANGED <<stage, rows, providers, loops, todo, beat, watched, handled, outside>>
-------------------------------------------------------------------------------
\* The user, the system and the network.

\* "Retry pending" in the history.
RetryPending ==
  /\ Pending # {}
  /\ worker' = Enqueued(worker)
  /\ UNCHANGED <<stage, rows, providers, loops, todo, beat, watching, handled, outside>>

\* The service's coroutines end with it.
ServiceEnds ==
  /\ heartbeat' = "idle" /\ fetched' = {}
  /\ watch' = "idle" /\ watched' = "none"

Pause ==
  /\ service # "off" /\ Fault
  /\ service' = "off"
  /\ ServiceEnds
  /\ UNCHANGED <<stage, rows, providers, job, handled, online, served>>

Resume ==
  /\ service = "off"
  /\ service' = "on"
  /\ UNCHANGED <<stage, rows, providers, job, beat, watching, handled, online, served, faults>>

\* The process dies or the phone restarts: every coroutine is gone, with the
\* SMS it had not stored; WorkManager reschedules a job that ran.
Kill ==
  /\ Fault
  /\ stage' = [s \in Sms |-> CASE stage[s] \in {"gate", "insert"} -> "lost"
                               [] stage[s] = "enqueue" -> "captured"
                               [] OTHER -> stage[s]]
  /\ worker' = IF worker = "none" THEN "none" ELSE "enqueued"
  /\ todo' = {}
  /\ service' = IF service = "on" THEN "dead" ELSE service
  /\ ServiceEnds
  /\ UNCHANGED <<rows, providers, loops, handled, online, served>>

\* START_STICKY, BootReceiver or the next start of the app.
RestartService ==
  /\ service = "dead"
  /\ service' = "on"
  /\ UNCHANGED <<stage, rows, providers, job, beat, watching, handled, online, served, faults>>

GoOffline ==
  /\ online /\ Fault
  /\ online' = FALSE
  /\ UNCHANGED <<stage, rows, providers, job, beat, watching, handled, service, served>>

GoOnline ==
  /\ ~online
  /\ online' = TRUE
  /\ UNCHANGED <<stage, rows, providers, job, beat, watching, handled, service, served, faults>>

\* Templates are created or deactivated on the server.
ChangeTemplates ==
  /\ Fault
  /\ served' \in Lists \ {served}
  /\ UNCHANGED <<stage, rows, providers, job, beat, watching, handled, service, online>>
-------------------------------------------------------------------------------
CaptureStep(s) == Gate(s) \/ Insert(s) \/ EnqueueUpload(s)
WorkerStep     == StartWork \/ ReadBatch \/ SendBatch \/ MarkSent \/ FinishWork \/ StopWork
HeartbeatStep  == Heartbeat \/ StoreProviders \/ CountPending \/ HeartbeatEnqueue
WatchStep      == WatchConnectivity \/ WatchEnqueue
Environment    ==
  \/ \E s \in Sms : Receive(s) \/ InsertFails(s)
  \/ SendFails \/ MarkFails
  \/ RetryPending \/ Pause \/ Resume \/ Kill \/ RestartService
  \/ GoOffline \/ GoOnline \/ ChangeTemplates

Next ==
  \/ \E s \in Sms : CaptureStep(s)
  \/ WorkerStep \/ HeartbeatStep \/ WatchStep
  \/ Environment

Spec == Init /\ [][Next]_vars

\* Coroutines run, WorkManager starts a job whose constraint holds, the network
\* comes back and the system restarts a killed service.  SMS, faults, the user
\* and changes of templates are never forced.
Fairness ==
  /\ \A s \in Sms : WF_vars(CaptureStep(s))
  /\ WF_vars(WorkerStep) /\ WF_vars(HeartbeatStep) /\ WF_vars(WatchStep)
  /\ WF_vars(GoOnline) /\ WF_vars(RestartService)

FairSpec == Spec /\ Fairness
-------------------------------------------------------------------------------
\* Properties.

\* A row is marked sent only when the server has accepted its message: one
\* stored while a batch is under way is not swept along with it, and no failed,
\* stopped or refused upload marks anything (CaptureRepository.uploadOnce).
SentWasHandled == \A s \in Sms : rows[s] = "sent" => s \in handled

\* However often a message is broadcast and uploaded, the server gets it under
\* one client_msg_id, under which it recognises the retries: the dedup index
\* outlives the upload (CaptureRepository.handleIncoming).
OneIdPerMessage == \A s, t \in handled : KeyOf[s] = KeyOf[t] => s = t

\* What both belong to: the phone implements Outbox, in which a message is what a
\* dedup key stands for and its id the row that got the key.  So no message is
\* carried again once it is noted as sent, and none is noted that was not carried
\* (CaptureDao.pendingOldest, CaptureRepository.uploadOnce).
Kept == {s \in Sms : rows[s] # "absent"}
IdOf(k) == IF \E s \in Kept : KeyOf[s] = k
           THEN CHOOSE s \in Kept : KeyOf[s] = k
           ELSE NULL

Sending == INSTANCE Outbox WITH
  Messages <- Keys,
  Ids      <- Sms,
  id       <- [k \in Keys |-> IdOf(k)],
  carried  <- {KeyOf[s] : s \in todo},
  handed   <- handled,
  sent     <- {KeyOf[s] : s \in {t \in Sms : rows[t] = "sent"}}

ImplementsOutbox == Sending!Spec

\* What keeps the two: the index admits one row per key, a row never leaves the
\* table, and what the worker carries or the server was handed is a row
\* (CaptureDao).
OneRowPerMessage ==
  \A s, t \in Sms : rows[s] # "absent" /\ rows[t] # "absent" /\ KeyOf[s] = KeyOf[t] => s = t
OnlyRowsTravel ==
  /\ \A s \in handled \cup todo : rows[s] # "absent"
  /\ worker = "mark" => todo \subseteq handled
Inv == TypeOK /\ OneRowPerMessage /\ OnlyRowsTravel /\ SentWasHandled

\* A stored SMS is sent in the end unless monitoring is paused: an upload
\* that KEEP did not schedule, a failed one, a full run, death of the process
\* and a lost network are all made up for (MonitoringService.runHeartbeatCycle).
PendingIsSent == \A s \in Sms : rows[s] = "pending" ~> (rows[s] = "sent" \/ service = "off")

\* From the first sync on, an SMS whose sender every list admits reaches the
\* server, itself or as an earlier broadcast of the same message, unless it
\* was lost with the process or the insertion before it was stored: the gate
\* never sees a half replaced list (CaptureRepository.replaceProviders).
ListedIsDelivered ==
  \A s \in Sms :
    (/\ stage[s] = "gate" /\ providers # {}
     /\ \A list \in Lists : Admits(list, s))
      ~> \/ \E t \in handled : KeyOf[t] = KeyOf[s]
         \/ stage[s] = "lost"
         \/ service = "off"

\* android-app/README.md: pending messages "upload automatically when
\* connectivity returns". With monitoring on and the network back for good, an
\* SMS in order is sent, whatever else is in the queue
\* (CaptureRepository.uploadOnce, device.go Messages).
UploadsWhenOnline ==
  <>[](online /\ service = "on") =>
    \A s \in Sms \ Unacceptable : rows[s] = "pending" ~> rows[s] = "sent"
===============================================================================
