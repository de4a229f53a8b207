--------------------------- MODULE CredentialsProofs ---------------------------
(***************************************************************************)
(* What Credentials guarantees for every number of tenants, keys, phones,  *)
(* tokens with any prefixes, requests and administrators, proved with      *)
(* TLAPS.                                                                  *)
(***************************************************************************)
EXTENDS Credentials, TLAPS

--------------------------------------------------------------------------------
\* Rows.  A statement writes one row; these say what it makes of it.

\* RevokeApiKey's UPDATE sets the time of the revocation and nothing else.
LEMMA RevokedRow ==
  ASSUME NEW row \in KeyRow, NEW t \in Nat, NEW e, e = [row EXCEPT !.revoked = t]
  PROVE  /\ e \in KeyRow /\ e # NULL
         /\ e.business = row.business /\ e.token = row.token
         /\ e.used = row.used /\ e.revoked = t
  BY CredentialsAssumption DEF KeyRow

\* TouchApiKeyLastUsed sets the usage stamp and nothing else.
LEMMA StampedRow ==
  ASSUME NEW row \in KeyRow, NEW t \in Nat, NEW e, e = [row EXCEPT !.used = t]
  PROVE  /\ e \in KeyRow /\ e # NULL
         /\ e.business = row.business /\ e.token = row.token
         /\ e.used = t /\ e.revoked = row.revoked
  BY CredentialsAssumption DEF KeyRow

\* CreateApiKey and CreateDevice insert rows that are neither used nor withdrawn.
LEMMA NewRows ==
  ASSUME NEW b \in Businesses, NEW t \in Tokens
  PROVE  /\ NewKey(b, t) \in KeyRow /\ NewKey(b, t) # NULL
         /\ NewKey(b, t).used = NULL /\ NewKey(b, t).revoked = NULL
         /\ NewDevice(b, t) \in DeviceRow /\ NewDevice(b, t) # NULL
         /\ NewDevice(b, t).ping = NULL /\ NewDevice(b, t).deactivated = NULL
  BY CredentialsAssumption DEF NewKey, NewDevice, KeyRow, DeviceRow

\* DeactivateDevice's UPDATE.
LEMMA DeactivatedRow ==
  ASSUME NEW row \in DeviceRow, NEW t \in Nat, NEW e, e = [row EXCEPT !.deactivated = t]
  PROVE  /\ e \in DeviceRow /\ e # NULL
         /\ e.business = row.business /\ e.token = row.token
         /\ e.ping = row.ping /\ e.deactivated = t
  BY CredentialsAssumption DEF DeviceRow

\* A heartbeat moves the ping of an active device.
LEMMA PingedRow ==
  ASSUME NEW row \in DeviceRow, NEW t \in Nat \cup {NULL}, NEW e,
         e = [row EXCEPT !.ping = t]
  PROVE  /\ e \in DeviceRow /\ e # NULL
         /\ e.business = row.business /\ e.token = row.token
         /\ e.ping = t /\ e.deactivated = row.deactivated
  BY CredentialsAssumption DEF DeviceRow

\* UpdateDeviceMeta.
LEMMA VersionedRow ==
  ASSUME NEW row \in DeviceRow, NEW v \in Versions, NEW e, e = [row EXCEPT !.version = v]
  PROVE  /\ e \in DeviceRow /\ e # NULL
         /\ e.business = row.business /\ e.token = row.token
         /\ e.ping = row.ping /\ e.deactivated = row.deactivated
  BY CredentialsAssumption DEF DeviceRow

--------------------------------------------------------------------------------
\* Statements.  What each of them does to its table.

\* The table keys after a row of it was written.
LEMMA KeyWritten ==
  ASSUME TypeOK, NEW k \in Keys, NEW row \in KeyRow, keys' = [keys EXCEPT ![k] = row]
  PROVE  /\ keys' \in [Keys -> KeyRow \cup {NULL}]
         /\ keys'[k] = row
         /\ \A j \in Keys \ {k} : keys'[j] = keys[j]
  BY DEF TypeOK

\* The table devices after a row of it was written.
LEMMA DeviceWritten ==
  ASSUME TypeOK, NEW d \in Devices, NEW row \in DeviceRow,
         devices' = [devices EXCEPT ![d] = row]
  PROVE  /\ devices' \in [Devices -> DeviceRow \cup {NULL}]
         /\ devices'[d] = row
         /\ \A j \in Devices \ {d} : devices'[j] = devices[j]
  BY DEF TypeOK

\* A key is issued: its id had no row.
LEMMA IssuesKey ==
  ASSUME TypeOK, NEW k \in Keys, NEW b \in Businesses, NEW t \in Tokens,
         CreateApiKey(k, b, t)
  PROVE  /\ keys' \in [Keys -> KeyRow \cup {NULL}]
         /\ \A j \in Keys \ {k} : keys'[j] = keys[j]
         /\ keys[k] = NULL /\ keys'[k] # NULL
         /\ keys'[k].used = NULL /\ keys'[k].revoked = NULL
<1>1. keys[k] = NULL /\ keys' = [keys EXCEPT ![k] = NewKey(b, t)]
  BY DEF CreateApiKey
<1>2. /\ NewKey(b, t) \in KeyRow /\ NewKey(b, t) # NULL
      /\ NewKey(b, t).used = NULL /\ NewKey(b, t).revoked = NULL
  BY NewRows
<1>3. QED
  BY <1>1, <1>2, KeyWritten

\* A key is revoked: it was not before.
LEMMA RevokesKey ==
  ASSUME TypeOK, NEW a \in Calls, RevokeApiKey(a), NEW k, k = target[a]
  PROVE  /\ k \in Keys /\ keys[k] # NULL /\ keys[k].revoked = NULL
         /\ keys' \in [Keys -> KeyRow \cup {NULL}]
         /\ \A j \in Keys \ {k} : keys'[j] = keys[j]
         /\ keys'[k] # NULL
         /\ keys'[k].business = keys[k].business /\ keys'[k].token = keys[k].token
         /\ keys'[k].used = keys[k].used /\ keys'[k].revoked = clock
<1>1. k \in Keys /\ keys[k] \in KeyRow /\ keys[k] # NULL /\ clock \in Nat
  BY DEF TypeOK, RevokeApiKey
<1> DEFINE row == [keys[k] EXCEPT !.revoked = clock]
<1>2. /\ row \in KeyRow /\ row # NULL
      /\ row.business = keys[k].business /\ row.token = keys[k].token
      /\ row.used = keys[k].used /\ row.revoked = clock
  BY <1>1, RevokedRow
<1>3. keys' = [keys EXCEPT ![k] = row] /\ keys[k].revoked = NULL
  BY DEF RevokeApiKey, Revocable
<1> HIDE DEF row
<1>4. QED
  BY <1>1, <1>2, <1>3, KeyWritten

\* A key is stamped, or its stamp is dropped.
LEMMA StampsKey ==
  ASSUME TypeOK, NEW k \in Keys, TouchApiKeyLastUsed(k), keys[k] # NULL
  PROVE  /\ keys' \in [Keys -> KeyRow \cup {NULL}]
         /\ \A j \in Keys \ {k} : keys'[j] = keys[j]
         /\ keys'[k] # NULL
         /\ keys'[k].business = keys[k].business /\ keys'[k].token = keys[k].token
         /\ keys'[k].revoked = keys[k].revoked
         /\ \/ keys'[k].used = clock /\ k \notin lost'
            \/ k \in lost'
         /\ \A j \in Keys \ {k} : j \in lost' <=> j \in lost
<1>1. keys[k] \in KeyRow /\ clock \in Nat /\ keys \in [Keys -> KeyRow \cup {NULL}]
  BY DEF TypeOK
<1> DEFINE row == [keys[k] EXCEPT !.used = clock]
<1>2. /\ row \in KeyRow /\ row # NULL
      /\ row.business = keys[k].business /\ row.token = keys[k].token
      /\ row.used = clock /\ row.revoked = keys[k].revoked
  BY <1>1, StampedRow
<1>3. CASE keys' = [keys EXCEPT ![k] = row] /\ lost' = lost \ {k}
  <2> HIDE DEF row
  <2>1. QED
    BY <1>1, <1>2, <1>3, KeyWritten
<1>4. CASE keys' = keys /\ lost' = lost \cup {k}
  BY <1>1, <1>4
<1>5. QED
  BY <1>3, <1>4 DEF TouchApiKeyLastUsed

\* A device is issued: its id had no row.
LEMMA IssuesDevice ==
  ASSUME TypeOK, NEW d \in Devices, NEW b \in Businesses, NEW t \in Tokens,
         CreateDevice(d, b, t)
  PROVE  /\ devices' \in [Devices -> DeviceRow \cup {NULL}]
         /\ \A j \in Devices \ {d} : devices'[j] = devices[j]
         /\ devices[d] = NULL /\ devices'[d] # NULL
         /\ devices'[d].ping = NULL
<1>1. devices[d] = NULL /\ devices' = [devices EXCEPT ![d] = NewDevice(b, t)]
  BY DEF CreateDevice
<1>2. /\ NewDevice(b, t) \in DeviceRow /\ NewDevice(b, t) # NULL
      /\ NewDevice(b, t).ping = NULL
  BY NewRows
<1>3. QED
  BY <1>1, <1>2, DeviceWritten

\* A device is deactivated, unless it already was.
LEMMA DeactivatesDevice ==
  ASSUME TypeOK, NEW a \in Calls, DeactivateDevice(a), devices' # devices,
         NEW d, d = target[a]
  PROVE  /\ d \in Devices /\ devices[d] # NULL /\ devices[d].deactivated = NULL
         /\ devices' \in [Devices -> DeviceRow \cup {NULL}]
         /\ \A j \in Devices \ {d} : devices'[j] = devices[j]
         /\ devices'[d] # NULL
         /\ devices'[d].business = devices[d].business
         /\ devices'[d].token = devices[d].token
         /\ devices'[d].ping = devices[d].ping
         /\ devices'[d].deactivated = clock
<1>1. d \in Devices /\ devices[d] \in DeviceRow /\ devices[d] # NULL /\ clock \in Nat
  BY DEF TypeOK, DeactivateDevice
<1> DEFINE row == [devices[d] EXCEPT !.deactivated = clock]
<1>2. /\ row \in DeviceRow /\ row # NULL
      /\ row.business = devices[d].business /\ row.token = devices[d].token
      /\ row.ping = devices[d].ping /\ row.deactivated = clock
  BY <1>1, DeactivatedRow
<1>3. devices' = [devices EXCEPT ![d] = row] /\ devices[d].deactivated = NULL
  BY DEF DeactivateDevice, Active
<1> HIDE DEF row
<1>4. QED
  BY <1>1, <1>2, <1>3, DeviceWritten

\* A heartbeat moves the ping of a device that is active, and of no other.
LEMMA PingsDevice ==
  ASSUME TypeOK, NEW r \in Requests, Heartbeat(r), NEW d, d = principal[r]
  PROVE  /\ d \in Devices /\ devices[d] # NULL
         /\ devices' \in [Devices -> DeviceRow \cup {NULL}]
         /\ \A j \in Devices \ {d} : devices'[j] = devices[j]
         /\ devices'[d] # NULL
         /\ devices'[d].business = devices[d].business
         /\ devices'[d].token = devices[d].token
         /\ devices'[d].deactivated = devices[d].deactivated
         /\ \/ devices'[d].ping = devices[d].ping
            \/ devices'[d].ping = clock /\ devices[d].deactivated = NULL
<1>1. d \in Devices /\ devices[d] \in DeviceRow /\ devices[d] # NULL /\ clock \in Nat
  BY DEF TypeOK, Heartbeat
<1> DEFINE time == IF Active(devices[d]) THEN clock ELSE devices[d].ping
           row == [devices[d] EXCEPT !.ping = time]
<1>2. /\ time \in Nat \cup {NULL}
      /\ \/ time = devices[d].ping
         \/ time = clock /\ devices[d].deactivated = NULL
  BY <1>1 DEF Active, DeviceRow
<1> HIDE DEF time
<1>3. /\ row \in DeviceRow /\ row # NULL
      /\ row.business = devices[d].business /\ row.token = devices[d].token
      /\ row.ping = time /\ row.deactivated = devices[d].deactivated
  BY <1>1, <1>2, PingedRow
<1>4. devices' = [devices EXCEPT ![d] = row]
  BY DEF Heartbeat, Pinged, time
<1> HIDE DEF row
<1>5. QED
  BY <1>1, <1>2, <1>3, <1>4, DeviceWritten

\* The versions a phone reports are stored, also for an inactive device.
LEMMA VersionsDevice ==
  ASSUME TypeOK, NEW r \in Requests, UpdateDeviceMeta(r), NEW d, d = principal[r]
  PROVE  /\ d \in Devices /\ devices[d] # NULL
         /\ devices' \in [Devices -> DeviceRow \cup {NULL}]
         /\ \A j \in Devices \ {d} : devices'[j] = devices[j]
         /\ devices'[d] # NULL
         /\ devices'[d].business = devices[d].business
         /\ devices'[d].token = devices[d].token
         /\ devices'[d].ping = devices[d].ping
         /\ devices'[d].deactivated = devices[d].deactivated
<1>1. d \in Devices /\ devices[d] \in DeviceRow /\ devices[d] # NULL
  BY DEF TypeOK, UpdateDeviceMeta
<1>2. reports[r] \in Versions
  BY DEF TypeOK, UpdateDeviceMeta
<1> DEFINE row == [devices[d] EXCEPT !.version = reports[r]]
<1>3. /\ row \in DeviceRow /\ row # NULL
      /\ row.business = devices[d].business /\ row.token = devices[d].token
      /\ row.ping = devices[d].ping /\ row.deactivated = devices[d].deactivated
  BY <1>1, <1>2, VersionedRow
<1>4. devices' = [devices EXCEPT ![d] = row]
  BY DEF UpdateDeviceMeta
<1> HIDE DEF row
<1>5. QED
  BY <1>1, <1>3, <1>4, DeviceWritten

--------------------------------------------------------------------------------
\* What no step undoes.

KeyKept(k) ==
  keys[k] # NULL =>
    /\ keys'[k] # NULL
    /\ keys'[k].business = keys[k].business /\ keys'[k].token = keys[k].token
    /\ keys[k].revoked # NULL => keys'[k].revoked = keys[k].revoked

DeviceKept(d) ==
  devices[d] # NULL =>
    /\ devices'[d] # NULL
    /\ devices'[d].business = devices[d].business
    /\ devices'[d].token = devices[d].token
    /\ devices[d].deactivated # NULL => devices'[d].deactivated = devices[d].deactivated

\* The statements that write api_keys are the insertion, the revocation and the
\* stamp; every other step leaves the table alone.
LEMMA KeysKept ==
  ASSUME Inv, [Next]_vars
  PROVE  /\ keys' \in [Keys -> KeyRow \cup {NULL}]
         /\ \A k \in Keys : KeyKept(k)
<1>0. TypeOK /\ keys \in [Keys -> KeyRow \cup {NULL}] /\ writes \subseteq Keys
  BY DEF Inv, TypeOK
<1>1. ASSUME NEW k \in Keys, NEW b \in Businesses, NEW t \in Tokens, CreateApiKey(k, b, t)
      PROVE  keys' \in [Keys -> KeyRow \cup {NULL}] /\ \A j \in Keys : KeyKept(j)
  BY <1>0, <1>1, IssuesKey DEF KeyKept
<1>2. ASSUME NEW a \in Calls, RevokeApiKey(a)
      PROVE  keys' \in [Keys -> KeyRow \cup {NULL}] /\ \A j \in Keys : KeyKept(j)
  BY <1>0, <1>2, RevokesKey DEF KeyKept
<1>3. ASSUME NEW k \in Keys, TouchApiKeyLastUsed(k)
      PROVE  keys' \in [Keys -> KeyRow \cup {NULL}] /\ \A j \in Keys : KeyKept(j)
  <2>1. keys[k] # NULL
    BY <1>3 DEF TouchApiKeyLastUsed, Inv, KeyInv
  <2>2. QED
    BY <1>0, <1>3, <2>1, StampsKey DEF KeyKept
<1>4. CASE UNCHANGED keys
  BY <1>0, <1>4 DEF KeyKept
<1>5. QED
  BY <1>1, <1>2, <1>3, <1>4 DEF Next, Issue, Withdraw, Request, vars, tables, Tick,
     CreateBusiness, SetBusinessStatus, CreateDevice, LoadKey, RevokeFindsNothing,
     RereadKey, LoadDevice, DeactivateDevice, CallFails, Present, AuthenticateKey,
     AuthenticateDevice, ServeMerchant, Heartbeat, UpdateDeviceMeta, RequestFails, Restart

\* The statements that write devices are the insertion, the deactivation and
\* the two of a heartbeat.
LEMMA DevicesKept ==
  ASSUME Inv, [Next]_vars
  PROVE  /\ devices' \in [Devices -> DeviceRow \cup {NULL}]
         /\ \A d \in Devices : DeviceKept(d)
<1>0. TypeOK /\ devices \in [Devices -> DeviceRow \cup {NULL}]
  BY DEF Inv, TypeOK
<1>1. ASSUME NEW d \in Devices, NEW b \in Businesses, NEW t \in Tokens, CreateDevice(d, b, t)
      PROVE  devices' \in [Devices -> DeviceRow \cup {NULL}] /\ \A j \in Devices : DeviceKept(j)
  BY <1>0, <1>1, IssuesDevice DEF DeviceKept
<1>2. ASSUME NEW a \in Calls, DeactivateDevice(a), devices' # devices
      PROVE  devices' \in [Devices -> DeviceRow \cup {NULL}] /\ \A j \in Devices : DeviceKept(j)
  BY <1>0, <1>2, DeactivatesDevice DEF DeviceKept
<1>3. ASSUME NEW r \in Requests, Heartbeat(r)
      PROVE  devices' \in [Devices -> DeviceRow \cup {NULL}] /\ \A j \in Devices : DeviceKept(j)
  BY <1>0, <1>3, PingsDevice DEF DeviceKept
<1>4. ASSUME NEW r \in Requests, UpdateDeviceMeta(r)
      PROVE  devices' \in [Devices -> DeviceRow \cup {NULL}] /\ \A j \in Devices : DeviceKept(j)
  BY <1>0, <1>4, VersionsDevice DEF DeviceKept
<1>5. CASE UNCHANGED devices
  BY <1>0, <1>5 DEF DeviceKept
<1>6. QED
  BY <1>1, <1>2, <1>3, <1>4, <1>5 DEF Next, Issue, Withdraw, Request, vars, tables, Tick,
     CreateBusiness, SetBusinessStatus, CreateApiKey, LoadKey, RevokeApiKey,
     RevokeFindsNothing, RereadKey, LoadDevice, CallFails, Present, AuthenticateKey,
     AuthenticateDevice, ServeMerchant, RequestFails, TouchApiKeyLastUsed, Restart

--------------------------------------------------------------------------------
\* Every step keeps the invariant.

LEMMA InitInv == Init => Inv
<1> SUFFICES ASSUME Init PROVE Inv
  OBVIOUS
<1>1. TypeOK
  BY CredentialsAssumption DEF Init, TypeOK, Replies, Said
<1>2. \A k \in Keys : KeyInv(k)
  BY DEF Init, KeyInv
<1>3. \A d \in Devices : DeviceInv(d)
  BY DEF Init, DeviceInv
<1>4. \A r \in Requests : RequestInv(r)
  BY CredentialsAssumption DEF Init, RequestInv
<1>5. \A a \in Calls : CallInv(a)
  BY CredentialsAssumption DEF Init, CallInv, Said
<1>6. QED
  BY <1>1, <1>2, <1>3, <1>4, <1>5 DEF Inv

\* The invariant of a key: time, authentication, the throttle and the stamps
\* are the only ones to touch what it speaks of.
LEMMA KeyInvKept ==
  ASSUME Inv, [Next]_vars, NEW k \in Keys
  PROVE  KeyInv(k)'
<1>0. /\ TypeOK /\ KeyInv(k) /\ clock \in Nat
      /\ keys[k] \in KeyRow \cup {NULL}
      /\ lastAuth \in [Keys -> Nat \cup {NULL}] /\ lastWrite \in [Keys -> Nat \cup {NULL}]
      /\ lastAuth[k] \in Nat \cup {NULL} /\ lastWrite[k] \in Nat \cup {NULL}
      /\ Interval \in Nat \ {0} /\ NULL \notin Nat
  BY CredentialsAssumption DEF Inv, TypeOK
<1>1. keys[k] # NULL => /\ keys[k].used \in Nat \cup {NULL}
                        /\ keys[k].revoked \in Nat \cup {NULL}
  BY <1>0 DEF KeyRow
<1>2. CASE Tick
  <2>1. UNCHANGED <<keys, lastAuth, lastWrite, writes, lost>> /\ clock' = clock + 1
    BY <1>2 DEF Tick, tables, stamps, requests
  <2>2. QED
    BY <1>0, <2>1 DEF KeyInv
<1>3. ASSUME NEW j \in Keys, NEW b \in Businesses, NEW t \in Tokens, CreateApiKey(j, b, t)
      PROVE  KeyInv(k)'
  <2>1. UNCHANGED <<clock, lastAuth, lastWrite, writes, lost>>
    BY <1>3 DEF CreateApiKey, stamps, requests
  <2>2. CASE j = k
    <3>1. keys[k] = NULL /\ keys'[k] # NULL
      BY <1>0, <1>3, <2>2, IssuesKey
    <3>2. lastAuth[k] = NULL /\ lastWrite[k] = NULL /\ k \notin writes
      BY <1>0, <3>1 DEF KeyInv
    <3>3. QED
      BY <2>1, <3>1, <3>2 DEF KeyInv
  <2>3. CASE j # k
    <3>1. keys'[k] = keys[k]
      BY <1>0, <1>3, <2>3, IssuesKey
    <3>2. QED
      BY <1>0, <2>1, <3>1 DEF KeyInv
  <2>4. QED
    BY <2>2, <2>3
<1>4. ASSUME NEW a \in Calls, RevokeApiKey(a)
      PROVE  KeyInv(k)'
  <2>1. UNCHANGED <<clock, lastAuth, lastWrite, writes, lost>>
    BY <1>4 DEF RevokeApiKey, stamps, requests
  <2>2. CASE k = target[a]
    <3>1. keys[k] # NULL /\ keys'[k] # NULL /\ keys'[k].used = keys[k].used
          /\ keys'[k].revoked = clock
      BY <1>0, <1>4, <2>2, RevokesKey
    <3>2. QED
      BY <1>0, <2>1, <3>1 DEF KeyInv
  <2>3. CASE k # target[a]
    <3>1. keys'[k] = keys[k]
      BY <1>0, <1>4, <2>3, RevokesKey
    <3>2. QED
      BY <1>0, <2>1, <3>1 DEF KeyInv
  <2>4. QED
    BY <2>2, <2>3
<1>5. ASSUME NEW r \in Requests, AuthenticateKey(r)
      PROVE  KeyInv(k)'
  <2>1. UNCHANGED <<clock, keys, lost>> \/ UNCHANGED <<clock, keys, stamps>>
    BY <1>5 DEF AuthenticateKey, tables, stamps
  <2>2. CASE UNCHANGED <<clock, keys, stamps, lastAuth>>
    BY <1>0, <2>2 DEF KeyInv, stamps
  <2>3. ASSUME NEW j \in KeysByPrefix(bearer[r]),
               Revocable(keys[j]), Touch(j), lastAuth' = [lastAuth EXCEPT ![j] = clock],
               UNCHANGED <<clock, keys, lost>>
        PROVE  KeyInv(k)'
    <3>1. j \in Keys /\ keys[j] # NULL /\ keys[j].revoked = NULL
      BY <2>3 DEF KeysByPrefix, Revocable
    <3>2. CASE j # k
      <4>1. lastAuth'[k] = lastAuth[k] /\ lastWrite'[k] = lastWrite[k]
            /\ (k \in writes' <=> k \in writes)
        BY <1>0, <2>3, <3>1, <3>2 DEF Touch
      <4>2. QED
        BY <1>0, <2>3, <4>1 DEF KeyInv
    <3>3. CASE j = k
      <4>1. lastAuth'[k] = clock
        BY <1>0, <2>3, <3>3
      <4>2. CASE Throttled(k)
        <5>1. /\ lastWrite'[k] = lastWrite[k] /\ writes' = writes
              /\ lastWrite[k] # NULL /\ clock < lastWrite[k] + Interval
          BY <2>3, <3>3, <4>2 DEF Touch, Throttled
        <5>2. QED
          BY <1>0, <1>1, <2>3, <3>1, <3>3, <4>1, <5>1 DEF KeyInv
      <4>3. CASE ~Throttled(k)
        <5>1. lastWrite'[k] = clock /\ k \in writes'
          BY <1>0, <2>3, <3>3, <4>3 DEF Touch
        <5>2. QED
          BY <1>0, <2>3, <3>1, <3>3, <4>1, <5>1 DEF KeyInv
      <4>4. QED
        BY <4>2, <4>3
    <3>4. QED
      BY <3>2, <3>3
  <2>4. QED
    BY <1>5, <2>2, <2>3 DEF AuthenticateKey, tables, stamps
<1>6. ASSUME NEW j \in Keys, TouchApiKeyLastUsed(j)
      PROVE  KeyInv(k)'
  <2>1. UNCHANGED <<clock, lastAuth, lastWrite>> /\ writes' = writes \ {j} /\ j \in writes
    BY <1>6 DEF TouchApiKeyLastUsed, requests
  <2>2. keys[j] # NULL
    BY <2>1 DEF Inv, KeyInv
  <2>3. CASE j # k
    <3>1. keys'[k] = keys[k] /\ (k \in lost' <=> k \in lost)
          /\ (k \in writes' <=> k \in writes)
      BY <1>0, <1>6, <2>1, <2>2, <2>3, StampsKey
    <3>2. QED
      BY <1>0, <2>1, <3>1 DEF KeyInv
  <2>4. CASE j = k
    <3>1. /\ keys'[k] # NULL /\ keys'[k].revoked = keys[k].revoked
          /\ keys'[k].used = clock \/ k \in lost'
      BY <1>0, <1>6, <2>2, <2>4, StampsKey
    <3>2. QED
      BY <1>0, <2>1, <2>2, <2>4, <3>1 DEF KeyInv
  <2>5. QED
    BY <2>3, <2>4
<1>7. CASE Restart
  <2>1. /\ UNCHANGED <<clock, keys, lastAuth>> /\ lastWrite'[k] = NULL
        /\ (k \in writes' \cup lost' <=> k \in writes \cup lost) /\ k \notin writes'
    BY <1>7 DEF Restart, tables
  <2>2. QED
    BY <1>0, <2>1 DEF KeyInv
<1>8. CASE UNCHANGED <<clock, keys, stamps, lastAuth>>
  BY <1>0, <1>8 DEF KeyInv, stamps
<1>9. QED
  BY <1>2, <1>3, <1>4, <1>5, <1>6, <1>7, <1>8 DEF Next, Issue, Withdraw, Request, vars,
     tables, requests, CreateBusiness, SetBusinessStatus, CreateDevice, LoadKey,
     RevokeFindsNothing, RereadKey, LoadDevice, DeactivateDevice, CallFails, Present,
     AuthenticateDevice, ServeMerchant, Heartbeat, UpdateDeviceMeta, RequestFails

\* The invariant of a phone: time, the insertion, the deactivation and the two
\* statements of a heartbeat are the only ones to touch what it speaks of.
LEMMA DeviceInvKept ==
  ASSUME Inv, [Next]_vars, NEW d \in Devices
  PROVE  DeviceInv(d)'
<1>0. /\ TypeOK /\ DeviceInv(d) /\ clock \in Nat /\ NULL \notin Nat
      /\ devices[d] \in DeviceRow \cup {NULL}
  BY CredentialsAssumption DEF Inv, TypeOK
<1>1. devices[d] # NULL => /\ devices[d].ping \in Nat \cup {NULL}
                           /\ devices[d].deactivated \in Nat \cup {NULL}
  BY <1>0 DEF DeviceRow
<1>2. CASE Tick
  <2>1. UNCHANGED devices /\ clock' = clock + 1
    BY <1>2 DEF Tick, tables
  <2>2. QED
    BY <1>0, <1>1, <2>1 DEF DeviceInv
<1>3. ASSUME NEW j \in Devices, NEW b \in Businesses, NEW t \in Tokens, CreateDevice(j, b, t)
      PROVE  DeviceInv(d)'
  <2>1. UNCHANGED clock
    BY <1>3 DEF CreateDevice
  <2>2. devices'[d] = devices[d] \/ devices'[d].ping = NULL
    BY <1>0, <1>3, IssuesDevice
  <2>3. QED
    BY <1>0, <2>1, <2>2 DEF DeviceInv
<1>4. ASSUME NEW a \in Calls, DeactivateDevice(a), devices' # devices
      PROVE  DeviceInv(d)'
  <2>1. UNCHANGED clock
    BY <1>4 DEF DeactivateDevice
  <2>2. \/ devices'[d] = devices[d]
        \/ /\ devices[d] # NULL /\ devices'[d].ping = devices[d].ping
           /\ devices'[d].deactivated = clock
    BY <1>0, <1>4, DeactivatesDevice
  <2>3. QED
    BY <1>0, <1>1, <2>1, <2>2 DEF DeviceInv
<1>5. ASSUME NEW r \in Requests, Heartbeat(r)
      PROVE  DeviceInv(d)'
  <2>1. UNCHANGED clock
    BY <1>5 DEF Heartbeat
  <2>2. \/ devices'[d] = devices[d]
        \/ /\ devices[d] # NULL /\ devices'[d].deactivated = devices[d].deactivated
           /\ \/ devices'[d].ping = devices[d].ping
              \/ devices'[d].ping = clock /\ devices[d].deactivated = NULL
    BY <1>0, <1>5, PingsDevice
  <2>3. QED
    BY <1>0, <1>1, <2>1, <2>2 DEF DeviceInv
<1>6. ASSUME NEW r \in Requests, UpdateDeviceMeta(r)
      PROVE  DeviceInv(d)'
  <2>1. UNCHANGED clock
    BY <1>6 DEF UpdateDeviceMeta
  <2>2. \/ devices'[d] = devices[d]
        \/ /\ devices[d] # NULL /\ devices'[d].ping = devices[d].ping
           /\ devices'[d].deactivated = devices[d].deactivated
    BY <1>0, <1>6, VersionsDevice
  <2>3. QED
    BY <1>0, <1>1, <2>1, <2>2 DEF DeviceInv
<1>7. CASE UNCHANGED <<clock, devices>>
  BY <1>0, <1>7 DEF DeviceInv
<1>8. QED
  BY <1>2, <1>3, <1>4, <1>5, <1>6, <1>7 DEF Next, Issue, Withdraw, Request, vars, tables,
     CreateBusiness, SetBusinessStatus, CreateApiKey, LoadKey, RevokeApiKey,
     RevokeFindsNothing, RereadKey, LoadDevice, DeactivateDevice, CallFails, Present,
     AuthenticateKey, AuthenticateDevice, ServeMerchant, RequestFails,
     TouchApiKeyLastUsed, Restart

\* The invariant of a request: rows keep their tokens (KeysKept, DevicesKept), so
\* that only a new token and authentication matter.
LEMMA RequestInvKept ==
  ASSUME Inv, [Next]_vars, NEW r \in Requests
  PROVE  RequestInv(r)'
<1>0. /\ TypeOK /\ RequestInv(r)
      /\ NULL \notin Keys /\ NULL \notin Devices /\ Keys \cap Devices = {}
      /\ pc \in [Requests -> {"idle", "key", "device", "serve", "ping", "meta", "done"}]
      /\ principal \in [Requests -> Keys \cup Devices \cup {NULL}]
      /\ bearer \in [Requests -> Tokens \cup {NULL}]
  BY CredentialsAssumption DEF Inv, TypeOK
<1>1. /\ \A k \in Keys : keys[k] # NULL => keys'[k] # NULL /\ keys'[k].token = keys[k].token
      /\ \A d \in Devices : devices[d] # NULL =>
           devices'[d] # NULL /\ devices'[d].token = devices[d].token
  BY KeysKept, DevicesKept DEF KeyKept, DeviceKept
<1>2. CASE /\ principal'[r] = principal[r] /\ bearer'[r] = bearer[r]
           /\ pc'[r] = "idle" => pc[r] = "idle"
  BY <1>0, <1>1, <1>2 DEF RequestInv
<1>3. ASSUME NEW q \in Requests, NEW route \in {"key", "device"}, NEW t \in Tokens,
             NEW v, Present(q, route, t, v)
      PROVE  RequestInv(r)'
  <2>1. CASE q = r
    <3>1. principal[r] = NULL /\ principal' = principal /\ pc'[r] = route
      BY <1>0, <1>3, <2>1 DEF Present, RequestInv
    <3>2. QED
      BY <1>0, <3>1 DEF RequestInv
  <2>2. CASE q # r
    BY <1>0, <1>2, <1>3, <2>2 DEF Present
  <2>3. QED
    BY <2>1, <2>2
<1>4. ASSUME NEW q \in Requests, AuthenticateKey(q)
      PROVE  RequestInv(r)'
  <2>1. UNCHANGED <<keys, bearer>>
    BY <1>4 DEF AuthenticateKey, tables
  <2>2. CASE q # r
    BY <1>0, <1>2, <1>4, <2>1, <2>2 DEF AuthenticateKey, Refuse
  <2>3. CASE q = r /\ Refuse(q)
    BY <1>0, <1>2, <2>1, <2>3 DEF Refuse
  <2>4. ASSUME q = r, NEW k \in KeysByPrefix(bearer[r]), Matches(keys[k], bearer[r]),
               pc' = [pc EXCEPT ![r] = "serve"],
               principal' = [principal EXCEPT ![r] = k]
        PROVE  RequestInv(r)'
    <3>1. k \in Keys /\ keys[k] # NULL /\ keys[k].token = bearer[r]
      BY <2>4 DEF KeysByPrefix, Matches
    <3>2. pc'[r] = "serve" /\ principal'[r] = k
      BY <1>0, <2>4
    <3>3. QED
      BY <1>0, <2>1, <3>1, <3>2 DEF RequestInv
  <2>5. QED
    BY <1>4, <2>2, <2>3, <2>4 DEF AuthenticateKey
<1>5. ASSUME NEW q \in Requests, AuthenticateDevice(q)
      PROVE  RequestInv(r)'
  <2>1. UNCHANGED <<devices, bearer>>
    BY <1>5 DEF AuthenticateDevice, tables
  <2>2. CASE q # r
    BY <1>0, <1>2, <1>5, <2>1, <2>2 DEF AuthenticateDevice, Refuse
  <2>3. CASE q = r /\ Refuse(q)
    BY <1>0, <1>2, <2>1, <2>3 DEF Refuse
  <2>4. ASSUME q = r, NEW d \in DevicesByPrefix(bearer[r]), Matches(devices[d], bearer[r]),
               pc' = [pc EXCEPT ![r] = "ping"],
               principal' = [principal EXCEPT ![r] = d]
        PROVE  RequestInv(r)'
    <3>1. d \in Devices /\ devices[d] # NULL /\ devices[d].token = bearer[r]
      BY <2>4 DEF DevicesByPrefix, Matches
    <3>2. pc'[r] = "ping" /\ principal'[r] = d
      BY <1>0, <2>4
    <3>3. QED
      BY <1>0, <2>1, <3>1, <3>2 DEF RequestInv
  <2>5. QED
    BY <1>5, <2>2, <2>3, <2>4 DEF AuthenticateDevice
<1>6. ASSUME NEW q \in Requests,
             ServeMerchant(q) \/ Heartbeat(q) \/ UpdateDeviceMeta(q) \/ RequestFails(q)
      PROVE  RequestInv(r)'
  <2>1. /\ UNCHANGED <<principal, bearer>>
        /\ \E s \in {"done", "meta"} : pc' = [pc EXCEPT ![q] = s]
    BY <1>6 DEF ServeMerchant, Heartbeat, UpdateDeviceMeta, RequestFails
  <2>2. QED
    BY <1>0, <1>2, <2>1
<1>7. CASE Restart
  BY <1>0, <1>2, <1>7 DEF Restart
<1>8. CASE UNCHANGED <<pc, principal, bearer>>
  BY <1>2, <1>8
<1>9. QED
  BY <1>3, <1>4, <1>5, <1>6, <1>7, <1>8 DEF Next, Issue, Withdraw, Request, vars, tables,
     requests, Tick, CreateBusiness, SetBusinessStatus, CreateApiKey, CreateDevice, LoadKey,
     RevokeApiKey, RevokeFindsNothing, RereadKey, LoadDevice, DeactivateDevice, CallFails,
     TouchApiKeyLastUsed

\* What an answer writes.
LEMMA Answered ==
  ASSUME TypeOK, NEW a \in Calls, NEW code, NEW at, Answer(a, code, at),
         Said(code, at) \in Replies
  PROVE  /\ step'[a] = "done" /\ reply'[a].code = code /\ reply'[a].at = at
         /\ \A c \in Calls \ {a} : step'[c] = step[c] /\ reply'[c] = reply[c]
         /\ step' \in [Calls -> {"idle", "revoke", "reread", "deactivate", "done"}]
         /\ reply' \in [Calls -> Replies]
<1>1. /\ step \in [Calls -> {"idle", "revoke", "reread", "deactivate", "done"}]
      /\ reply \in [Calls -> Replies]
  BY DEF TypeOK
<1>2. Said(code, at).code = code /\ Said(code, at).at = at
  BY DEF Said
<1>3. QED
  BY <1>1, <1>2 DEF Answer

\* The invariant of a withdrawal.  A key that was found revoked stays so, with
\* the same time (KeysKept): what is reported stays true.
LEMMA CallInvKept ==
  ASSUME Inv, [Next]_vars, NEW a \in Calls
  PROVE  CallInv(a)'
<1>0. /\ TypeOK /\ CallInv(a) /\ clock \in Nat /\ NULL \notin Nat
      /\ step \in [Calls -> {"idle", "revoke", "reread", "deactivate", "done"}]
      /\ target \in [Calls -> Keys \cup Devices \cup {NULL}]
      /\ seen \in [Calls -> Nat \cup {NULL}]
      /\ reply \in [Calls -> Replies]
      /\ Keys \cap Devices = {}
  BY CredentialsAssumption DEF Inv, TypeOK
<1>1. \A k \in Keys : keys[k] # NULL =>
        /\ keys'[k] # NULL
        /\ keys[k].revoked # NULL => keys'[k].revoked = keys[k].revoked
  BY KeysKept DEF KeyKept
<1>a. /\ \A at \in Nat \cup {NULL} : Said("ok", at) \in Replies
      /\ Said("error", NULL) \in Replies /\ Said("not_found", NULL) \in Replies
  BY DEF Said, Replies
<1>2. CASE step'[a] = step[a] /\ target'[a] = target[a] /\ reply'[a] = reply[a]
  <2>1. step[a] = "reread" => target[a] \in Keys /\ keys[target[a]] # NULL
    BY <1>0 DEF TypeOK
  <2>2. QED
    BY <1>0, <1>1, <1>2, <2>1 DEF CallInv
<1>3. CASE /\ target'[a] = target[a] /\ step'[a] = "done"
           /\ reply'[a].code = "error"
  BY <1>3 DEF CallInv
<1>4. ASSUME NEW c \in Calls, NEW k \in Keys, LoadKey(c, k)
      PROVE  CallInv(a)'
  <2>1. CASE c # a
    BY <1>0, <1>a, <1>2, <1>4, <2>1, Answered DEF LoadKey
  <2>2. CASE c = a /\ Answer(a, "not_found", NULL)
    <3>1. step'[a] = "done" /\ reply'[a].code = "not_found"
      BY <1>0, <1>a, <2>2, Answered
    <3>2. QED
      BY <3>1 DEF CallInv
  <2>3. CASE c = a /\ step' = [step EXCEPT ![a] = "revoke"] /\ UNCHANGED reply
    <3>1. step'[a] = "revoke" /\ reply'[a].code = "none"
      BY <1>0, <1>4, <2>3 DEF LoadKey, CallInv
    <3>2. QED
      BY <3>1 DEF CallInv
  <2>4. QED
    BY <1>4, <2>1, <2>2, <2>3 DEF LoadKey
<1>5. ASSUME NEW c \in Calls, RevokeApiKey(c)
      PROVE  CallInv(a)'
  <2>0. UNCHANGED target
    BY <1>5 DEF RevokeApiKey
  <2>1. CASE c # a
    BY <1>0, <1>a, <1>2, <1>5, <2>0, <2>1, Answered DEF RevokeApiKey
  <2>2. CASE c = a /\ Answer(a, "ok", clock)
    <3>1. step'[a] = "done" /\ reply'[a].at = clock /\ reply'[a].code = "ok"
      BY <1>0, <1>a, <2>2, Answered
    <3>2. keys'[target[a]] # NULL /\ keys'[target[a]].revoked = clock
      BY <1>0, <1>5, <2>2, RevokesKey
    <3>3. QED
      BY <1>0, <2>0, <3>1, <3>2 DEF CallInv
  <2>3. CASE c = a /\ Answer(a, "error", NULL)
    BY <1>0, <1>a, <1>3, <2>0, <2>3, Answered
  <2>4. QED
    BY <1>5, <2>1, <2>2, <2>3 DEF RevokeApiKey
<1>6. ASSUME NEW c \in Calls, RevokeFindsNothing(c)
      PROVE  CallInv(a)'
  <2>0. UNCHANGED <<target, keys, reply>> /\ step' = [step EXCEPT ![c] = "reread"]
        /\ step[c] = "revoke"
    BY <1>6 DEF RevokeFindsNothing, tables
  <2>1. CASE c # a
    BY <1>0, <1>2, <2>0, <2>1
  <2>2. CASE c = a
    <3>1. step'[a] = "reread"
      BY <1>0, <2>0, <2>2
    <3>2. keys[target[a]].revoked # NULL
      BY <1>6, <2>2 DEF RevokeFindsNothing, Revocable
    <3>3. QED
      BY <1>0, <2>0, <3>1, <3>2 DEF CallInv
  <2>3. QED
    BY <2>1, <2>2
<1>7. ASSUME NEW c \in Calls, RereadKey(c)
      PROVE  CallInv(a)'
  <2>0. /\ UNCHANGED <<target, keys>> /\ Answer(c, "ok", keys[target[c]].revoked)
        /\ step[c] = "reread"
    BY <1>7 DEF RereadKey, Reread, tables
  <2>a. target[c] \in Keys /\ keys[target[c]] # NULL
        /\ keys[target[c]].revoked \in Nat \cup {NULL}
    BY <1>0, <2>0 DEF TypeOK, KeyRow
  <2>1. CASE c # a
    <3>1. step'[a] = step[a] /\ reply'[a] = reply[a]
      BY <1>0, <2>0, <2>1 DEF Answer
    <3>2. QED
      BY <1>2, <2>0, <3>1
  <2>2. CASE c = a
    <3>1. /\ step'[a] = "done" /\ reply'[a].code = "ok"
          /\ reply'[a].at = keys[target[a]].revoked
      BY <1>0, <1>a, <2>0, <2>a, <2>2, Answered
    <3>2. keys[target[a]].revoked # NULL
      BY <1>0, <2>0, <2>2 DEF CallInv
    <3>3. QED
      BY <1>0, <2>0, <2>a, <2>2, <3>1, <3>2 DEF CallInv
  <2>3. QED
    BY <2>1, <2>2
<1>8. ASSUME NEW c \in Calls, NEW d \in Devices, LoadDevice(c, d)
      PROVE  CallInv(a)'
  <2>1. CASE c # a
    BY <1>0, <1>a, <1>2, <1>8, <2>1, Answered DEF LoadDevice
  <2>2. CASE c = a /\ Answer(a, "not_found", NULL)
    <3>1. step'[a] = "done" /\ reply'[a].code = "not_found"
      BY <1>0, <1>a, <2>2, Answered
    <3>2. QED
      BY <3>1 DEF CallInv
  <2>3. CASE c = a /\ step' = [step EXCEPT ![a] = "deactivate"] /\ UNCHANGED reply
    <3>1. step'[a] = "deactivate" /\ reply'[a].code = "none"
      BY <1>0, <1>8, <2>3 DEF LoadDevice, CallInv
    <3>2. QED
      BY <3>1 DEF CallInv
  <2>4. QED
    BY <1>8, <2>1, <2>2, <2>3 DEF LoadDevice
<1>9. ASSUME NEW c \in Calls, DeactivateDevice(c)
      PROVE  CallInv(a)'
  <2>0. UNCHANGED target /\ target[c] \in Devices /\ seen[c] \in Nat \cup {NULL}
    BY <1>0, <1>9 DEF DeactivateDevice, TypeOK
  <2>1. CASE c # a
    BY <1>0, <1>a, <1>2, <1>9, <2>0, <2>1, Answered DEF DeactivateDevice
  <2>2. CASE c = a
    <3>1. step'[a] = "done"
      BY <1>0, <1>9, <2>2 DEF DeactivateDevice, Answer
    <3>2. QED
      BY <1>0, <2>0, <2>2, <3>1 DEF CallInv
  <2>3. QED
    BY <2>1, <2>2
<1>10. ASSUME NEW c \in Calls, CallFails(c)
       PROVE  CallInv(a)'
  <2>1. UNCHANGED target /\ Answer(c, "error", NULL)
    BY <1>10 DEF CallFails
  <2>2. CASE c # a
    BY <1>0, <1>a, <1>2, <2>1, <2>2, Answered
  <2>3. CASE c = a
    BY <1>0, <1>a, <1>3, <2>1, <2>3, Answered
  <2>4. QED
    BY <2>2, <2>3
<1>11. CASE Restart
  <2>1. UNCHANGED target
        /\ step'[a] = (IF step[a] = "idle" THEN "idle" ELSE "done")
        /\ reply'[a] = (IF step[a] \in {"idle", "done"} THEN reply[a]
                        ELSE Said("error", NULL))
    BY <1>11 DEF Restart
  <2>2. CASE step[a] \in {"idle", "done"}
    BY <1>2, <2>1, <2>2
  <2>3. CASE step[a] \notin {"idle", "done"}
    BY <1>3, <2>1, <2>3 DEF Said
  <2>4. QED
    BY <2>2, <2>3
<1>12. CASE UNCHANGED <<step, target, reply>>
  BY <1>2, <1>12
<1>13. QED
  BY <1>4, <1>5, <1>6, <1>7, <1>8, <1>9, <1>10, <1>11, <1>12 DEF Next, Issue, Withdraw,
     Request, vars, calls, Tick, CreateBusiness, SetBusinessStatus, CreateApiKey,
     CreateDevice, Present, AuthenticateKey, AuthenticateDevice, ServeMerchant, Heartbeat,
     UpdateDeviceMeta, RequestFails, TouchApiKeyLastUsed

\* The types of the stamps, of the requests and of the withdrawals.
StampTypes ==
  /\ lastWrite \in [Keys -> Nat \cup {NULL}] /\ writes \subseteq Keys
  /\ lost \subseteq Keys /\ lastAuth \in [Keys -> Nat \cup {NULL}]

RequestTypes ==
  /\ pc \in [Requests -> {"idle", "key", "device", "serve", "ping", "meta", "done"}]
  /\ bearer \in [Requests -> Tokens \cup {NULL}]
  /\ reports \in [Requests -> Versions \cup {NULL}]
  /\ principal \in [Requests -> Keys \cup Devices \cup {NULL}]
  /\ \A r \in Requests :
       /\ pc[r] = "serve" => principal[r] \in Keys
       /\ pc[r] \in {"ping", "meta"} =>
            principal[r] \in Devices /\ devices[principal[r]] # NULL
       /\ pc[r] = "meta" => reports[r] # NULL

CallTypes ==
  /\ step \in [Calls -> {"idle", "revoke", "reread", "deactivate", "done"}]
  /\ target \in [Calls -> Keys \cup Devices \cup {NULL}]
  /\ seen \in [Calls -> Nat \cup {NULL}]
  /\ reply \in [Calls -> Replies]
  /\ \A a \in Calls :
       /\ step[a] \in {"revoke", "reread"} => target[a] \in Keys /\ keys[target[a]] # NULL
       /\ step[a] = "deactivate" => target[a] \in Devices /\ devices[target[a]] # NULL

\* Types.  The tables are KeysKept's and DevicesKept's; a request that acts has a
\* principal, a withdrawal under way has a target.
LEMMA TypesKept ==
  ASSUME Inv, [Next]_vars
  PROVE  TypeOK'
<1>0. /\ TypeOK /\ clock \in Nat /\ NULL \notin Keys /\ NULL \notin Devices
      /\ \A r \in Requests : RequestInv(r)
      /\ \A k \in Keys : KeyInv(k)
  BY CredentialsAssumption DEF Inv, TypeOK
<1>1. /\ keys' \in [Keys -> KeyRow \cup {NULL}]
      /\ devices' \in [Devices -> DeviceRow \cup {NULL}]
      /\ \A k \in Keys : keys[k] # NULL => keys'[k] # NULL
      /\ \A d \in Devices : devices[d] # NULL => devices'[d] # NULL
  BY KeysKept, DevicesKept DEF KeyKept, DeviceKept
<1>2. clock' \in Nat
  <2>1. UNCHANGED clock \/ clock' = clock + 1
    BY DEF Next, Issue, Withdraw, Request, vars, Tick, CreateBusiness,
       SetBusinessStatus, CreateApiKey, CreateDevice, LoadKey, RevokeApiKey,
       RevokeFindsNothing, RereadKey, LoadDevice, DeactivateDevice, CallFails, Present,
       AuthenticateKey, AuthenticateDevice, ServeMerchant, Heartbeat, UpdateDeviceMeta,
       RequestFails, TouchApiKeyLastUsed, Restart
  <2>2. QED
    BY <1>0, <2>1
<1>3. status' \in [Businesses -> {"absent", "active", "suspended"}]
  <2>1. status \in [Businesses -> {"absent", "active", "suspended"}]
    BY <1>0 DEF TypeOK
  <2>2. \/ UNCHANGED status
        \/ \E b \in Businesses, s \in {"active", "suspended"} :
             status' = [status EXCEPT ![b] = s]
    BY DEF Next, Issue, Withdraw, Request, vars, tables, Tick, CreateBusiness,
       SetBusinessStatus, CreateApiKey, CreateDevice, LoadKey, RevokeApiKey,
       RevokeFindsNothing, RereadKey, LoadDevice, DeactivateDevice, CallFails, Present,
       AuthenticateKey, AuthenticateDevice, ServeMerchant, Heartbeat, UpdateDeviceMeta,
       RequestFails, TouchApiKeyLastUsed, Restart
  <2>3. QED
    BY <2>1, <2>2
<1>4. StampTypes'
  <2>0. StampTypes
    BY <1>0 DEF TypeOK, StampTypes
  <2>1. ASSUME NEW r \in Requests, AuthenticateKey(r)
        PROVE  StampTypes'
    BY <1>0, <2>0, <2>1 DEF AuthenticateKey, KeysByPrefix, Touch, stamps, StampTypes
  <2>2. ASSUME NEW k \in Keys, TouchApiKeyLastUsed(k)
        PROVE  StampTypes'
    BY <2>0, <2>2 DEF TouchApiKeyLastUsed, requests, StampTypes
  <2>3. CASE Restart
    BY <2>0, <2>3 DEF Restart, StampTypes
  <2>4. CASE UNCHANGED <<stamps, lastAuth>>
    BY <2>0, <2>4 DEF stamps, StampTypes
  <2>5. QED
    BY <2>1, <2>2, <2>3, <2>4 DEF Next, Issue, Withdraw, Request, vars, requests, Tick,
       CreateBusiness, SetBusinessStatus, CreateApiKey, CreateDevice, LoadKey,
       RevokeApiKey, RevokeFindsNothing, RereadKey, LoadDevice, DeactivateDevice,
       CallFails, Present, AuthenticateDevice, ServeMerchant, Heartbeat,
       UpdateDeviceMeta, RequestFails
<1>5. RequestTypes'
  <2>0. RequestTypes
    BY <1>0 DEF TypeOK, RequestTypes
  <2>1. ASSUME NEW r \in Requests, NEW route \in {"key", "device"}, NEW t \in Tokens,
               NEW v \in Versions \cup {NULL}, Present(r, route, t, v)
        PROVE  RequestTypes'
    BY <1>1, <2>0, <2>1 DEF Present, tables, RequestTypes
  <2>2. ASSUME NEW r \in Requests, AuthenticateKey(r)
        PROVE  RequestTypes'
    <3>1. CASE Refuse(r)
      BY <1>1, <2>0, <2>2, <3>1 DEF Refuse, AuthenticateKey, tables, RequestTypes
    <3>2. ASSUME NEW k \in Keys, pc' = [pc EXCEPT ![r] = "serve"],
                 principal' = [principal EXCEPT ![r] = k], UNCHANGED <<bearer, reports>>
          PROVE  RequestTypes'
      BY <1>1, <2>0, <3>2 DEF RequestTypes
    <3>3. QED
      BY <2>2, <3>1, <3>2 DEF AuthenticateKey, KeysByPrefix
  <2>3. ASSUME NEW r \in Requests, AuthenticateDevice(r)
        PROVE  RequestTypes'
    <3>1. CASE Refuse(r)
      BY <1>1, <2>0, <2>3, <3>1 DEF Refuse, AuthenticateDevice, tables, RequestTypes
    <3>2. ASSUME NEW d \in Devices, devices[d] # NULL, pc' = [pc EXCEPT ![r] = "ping"],
                 principal' = [principal EXCEPT ![r] = d], UNCHANGED <<bearer, reports>>
          PROVE  RequestTypes'
      BY <1>1, <2>0, <3>2 DEF RequestTypes
    <3>3. QED
      BY <2>3, <3>1, <3>2 DEF AuthenticateDevice, DevicesByPrefix
  <2>4. ASSUME NEW r \in Requests, Heartbeat(r)
        PROVE  RequestTypes'
    <3>1. /\ UNCHANGED <<bearer, reports, principal>> /\ pc[r] = "ping"
          /\ \/ pc' = [pc EXCEPT ![r] = "done"]
             \/ pc' = [pc EXCEPT ![r] = "meta"] /\ reports[r] # NULL
      BY <2>4 DEF Heartbeat
    <3>2. QED
      BY <1>1, <2>0, <3>1 DEF RequestTypes
  <2>5. ASSUME NEW r \in Requests, ServeMerchant(r) \/ UpdateDeviceMeta(r) \/ RequestFails(r)
        PROVE  RequestTypes'
    <3>1. UNCHANGED <<bearer, reports, principal>> /\ pc' = [pc EXCEPT ![r] = "done"]
      BY <2>5 DEF ServeMerchant, UpdateDeviceMeta, RequestFails
    <3>2. QED
      BY <1>1, <2>0, <3>1 DEF RequestTypes
  <2>6. CASE Restart
    BY <1>1, <2>0, <2>6 DEF Restart, RequestTypes
  <2>7. CASE UNCHANGED <<pc, bearer, reports, principal>>
    BY <1>1, <2>0, <2>7 DEF RequestTypes
  <2>8. QED
    BY <2>1, <2>2, <2>3, <2>4, <2>5, <2>6, <2>7 DEF Next, Issue, Withdraw, Request, vars,
       requests, Tick, CreateBusiness, SetBusinessStatus, CreateApiKey, CreateDevice,
       LoadKey, RevokeApiKey, RevokeFindsNothing, RereadKey, LoadDevice,
       DeactivateDevice, CallFails, TouchApiKeyLastUsed
<1>6. CallTypes'
  <2>0. CallTypes
    BY <1>0 DEF TypeOK, CallTypes
  <2>a. /\ \A at \in Nat \cup {NULL} : Said("ok", at) \in Replies
        /\ Said("error", NULL) \in Replies /\ Said("not_found", NULL) \in Replies
    BY DEF Said, Replies
  <2>b. ASSUME NEW a \in Calls, Answer(a, "error", NULL), UNCHANGED <<target, seen>>
        PROVE  CallTypes'
    BY <1>0, <1>1, <2>0, <2>a, <2>b, Answered DEF CallTypes
  <2>c. ASSUME NEW a \in Calls, NEW at \in Nat \cup {NULL}, Answer(a, "ok", at),
               UNCHANGED <<target, seen>>
        PROVE  CallTypes'
    BY <1>0, <1>1, <2>0, <2>a, <2>c, Answered DEF CallTypes
  <2>1. ASSUME NEW a \in Calls, NEW k \in Keys, LoadKey(a, k)
        PROVE  CallTypes'
    <3>1. UNCHANGED <<keys, devices, seen>> /\ target' = [target EXCEPT ![a] = k]
          /\ step[a] = "idle"
      BY <2>1 DEF LoadKey, tables
    <3>2. CASE Answer(a, "not_found", NULL)
      BY <1>0, <1>1, <2>0, <2>a, <3>1, <3>2, Answered DEF CallTypes
    <3>3. CASE keys[k] # NULL /\ step' = [step EXCEPT ![a] = "revoke"] /\ UNCHANGED reply
      BY <1>1, <2>0, <3>1, <3>3 DEF CallTypes
    <3>4. QED
      BY <2>1, <3>2, <3>3 DEF LoadKey, Known
  <2>2. ASSUME NEW a \in Calls, NEW d \in Devices, LoadDevice(a, d)
        PROVE  CallTypes'
    <3>1. UNCHANGED <<keys, devices>> /\ target' = [target EXCEPT ![a] = d]
          /\ step[a] = "idle"
      BY <2>2 DEF LoadDevice, tables
    <3>2. CASE Answer(a, "not_found", NULL) /\ UNCHANGED seen
      BY <1>0, <1>1, <2>0, <2>a, <3>1, <3>2, Answered DEF CallTypes
    <3>3. CASE devices[d] # NULL /\ step' = [step EXCEPT ![a] = "deactivate"]
               /\ seen' = [seen EXCEPT ![a] = devices[d].deactivated] /\ UNCHANGED reply
      <4>1. devices[d].deactivated \in Nat \cup {NULL}
        BY <1>0, <3>3 DEF TypeOK, DeviceRow
      <4>2. QED
        BY <1>1, <2>0, <3>1, <3>3, <4>1 DEF CallTypes
    <3>4. QED
      BY <2>2, <3>2, <3>3 DEF LoadDevice, Known
  <2>3. ASSUME NEW a \in Calls, RevokeApiKey(a)
        PROVE  CallTypes'
    BY <1>0, <2>b, <2>c, <2>3 DEF RevokeApiKey
  <2>4. ASSUME NEW a \in Calls, RevokeFindsNothing(a)
        PROVE  CallTypes'
    <3>1. /\ UNCHANGED <<keys, devices, target, seen, reply>> /\ step[a] = "revoke"
          /\ step' = [step EXCEPT ![a] = "reread"]
      BY <2>4 DEF RevokeFindsNothing, tables
    <3>2. QED
      BY <2>0, <3>1 DEF CallTypes
  <2>5. ASSUME NEW a \in Calls, RereadKey(a)
        PROVE  CallTypes'
    <3>1. keys[target[a]] \in KeyRow
      BY <1>0, <2>5 DEF RereadKey, TypeOK
    <3>2. keys[target[a]].revoked \in Nat \cup {NULL}
      BY <3>1 DEF KeyRow
    <3>3. Answer(a, "ok", keys[target[a]].revoked) /\ UNCHANGED <<target, seen>>
      BY <2>5 DEF RereadKey, Reread
    <3>4. QED
      BY <2>c, <3>2, <3>3
  <2>6. ASSUME NEW a \in Calls, DeactivateDevice(a)
        PROVE  CallTypes'
    <3>1. seen[a] \in Nat \cup {NULL}
      BY <2>0 DEF CallTypes
    <3>2. QED
      BY <1>0, <2>b, <2>c, <2>6, <3>1 DEF DeactivateDevice
  <2>7. ASSUME NEW a \in Calls, CallFails(a)
        PROVE  CallTypes'
    BY <2>b, <2>7 DEF CallFails
  <2>8. CASE Restart
    BY <1>1, <2>0, <2>a, <2>8 DEF Restart, CallTypes
  <2>9. CASE UNCHANGED calls
    BY <1>1, <2>0, <2>9 DEF CallTypes, calls
  <2>10. QED
    BY <2>1, <2>2, <2>3, <2>4, <2>5, <2>6, <2>7, <2>8, <2>9 DEF Next, Issue, Withdraw,
       Request, vars, Tick, CreateBusiness, SetBusinessStatus, CreateApiKey, CreateDevice,
       Present, AuthenticateKey, AuthenticateDevice, ServeMerchant, Heartbeat,
       UpdateDeviceMeta, RequestFails, TouchApiKeyLastUsed
<1>7. QED
  BY <1>1, <1>2, <1>3, <1>4, <1>5, <1>6 DEF TypeOK, StampTypes, RequestTypes, CallTypes

--------------------------------------------------------------------------------
\* Theorems.

\* The invariant holds of every reachable state.
THEOREM Invariance == Spec => []Inv
<1>1. Init => Inv
  BY InitInv
<1>2. Inv /\ [Next]_vars => Inv'
  <2> SUFFICES ASSUME Inv, [Next]_vars PROVE Inv'
    OBVIOUS
  <2>1. \A k \in Keys : KeyInv(k)'
    BY KeyInvKept
  <2>2. \A d \in Devices : DeviceInv(d)'
    BY DeviceInvKept
  <2>3. \A r \in Requests : RequestInv(r)'
    BY RequestInvKept
  <2>4. \A a \in Calls : CallInv(a)'
    BY CallInvKept
  <2>5. QED
    BY TypesKept, <2>1, <2>2, <2>3, <2>4 DEF Inv
<1>3. QED
  BY <1>1, <1>2, PTL DEF Spec

\* Every table and every request keeps its type; in particular a request that acts
\* for a key or a phone acts for one that exists.
THEOREM TypeCorrect == Spec => []TypeOK
<1>1. Inv => TypeOK
  BY DEF Inv
<1>2. QED
  BY Invariance, <1>1, PTL

\* Whatever prefixes the tokens share, the principal of a request is the holder of
\* the token it presents (APIKeyAuth, DeviceAuth).
THEOREM NoImpersonation == Spec => []ActsAsItself
<1>1. Inv => ActsAsItself
  BY DEF Inv, TypeOK, RequestInv, ActsAsItself
<1>2. QED
  BY Invariance, <1>1, PTL

\* No key authenticates and no phone comes online after it was withdrawn
\* (ListApiKeysByPrefix, DeviceHeartbeat).
THEOREM OutAtOnce == Spec => []WithdrawnIsOut
<1>1. Inv => WithdrawnIsOut
  BY DEF Inv, KeyInv, DeviceInv, WithdrawnIsOut
<1>2. QED
  BY Invariance, <1>1, PTL

\* All administrators who are told that a key is revoked are told the same time
\* (ManageHandler.RevokeApiKey).
THEOREM OneRevocation == Spec => []RevocationIsReported
<1>1. Inv => RevocationIsReported
  BY DEF Inv, CallInv, RevocationIsReported
<1>2. QED
  BY Invariance, <1>1, PTL

\* The throttle of the usage stamps loses less than an interval (touchLastUsed).
THEOREM UseIsSeen == Spec => []LastUsedIsFresh
<1>1. Inv => LastUsedIsFresh
  BY DEF Inv, KeyInv, LastUsedIsFresh
<1>2. QED
  BY Invariance, <1>1, PTL

\* Nothing revives a credential or hands it to another tenant.
THEOREM NothingReturns == Spec => CredentialsAreFinal
<1>1. Inv /\ [Next]_vars =>
        [/\ \A k \in Keys : KeyKept(k)
         /\ \A d \in Devices : DeviceKept(d)]_vars
  BY KeysKept, DevicesKept
<1>2. Spec => [][/\ \A k \in Keys : KeyKept(k)
                 /\ \A d \in Devices : DeviceKept(d)]_vars
  BY <1>1, Invariance, PTL DEF Spec
<1>3. QED
  BY <1>2 DEF CredentialsAreFinal, KeyKept, DeviceKept
================================================================================
