------------------------------ MODULE Credentials ------------------------------
(***************************************************************************)
(* Who may call: merchant keys, device tokens and the administrator who    *)
(* issues and withdraws them (backend/internal/middleware, the key, device *)
(* and business handlers of backend/internal/handlers/manage*.go).         *)
(*                                                                         *)
(* A request is authenticated by one statement and handled later, so what  *)
(* the administrator does meanwhile is seen or missed; withdrawing a       *)
(* credential takes two or three statements, and several administrators    *)
(* may do it at once.  The usage stamp of a key is written by a goroutine  *)
(* nobody waits for, throttled by a map in the memory of the process.      *)
(*                                                                         *)
(* A definition Name_Bug is Name with one plausible bug, kept beside it to *)
(* show that the properties notice; nothing refers to it.                  *)
(***************************************************************************)
EXTENDS Naturals

CONSTANTS
  Businesses,  \* tenants
  Keys,        \* ids of api_keys rows
  Devices,     \* ids of devices rows
  Tokens,      \* plaintext tokens, 24 random bytes each
  PrefixOf,    \* PrefixOf[t]: the 8 characters a token is looked up by
  Versions,    \* app and OS versions a phone may report
  Requests,    \* requests of merchants and phones, each served once
  Calls,       \* withdrawals an administrator asks for, each served once
  Interval,    \* lastUsedWriteInterval, in ticks
  MaxClock,    \* bound on the clock, a bound of the model only
  NULL         \* SQL NULL, no row, no value

KeyRow    == [business : Businesses, token : Tokens, used : Nat \cup {NULL},
              revoked : Nat \cup {NULL}]
DeviceRow == [business : Businesses, token : Tokens, version : Versions \cup {NULL},
              ping : Nat \cup {NULL}, deactivated : Nat \cup {NULL}]

ASSUME CredentialsAssumption ==
  /\ NULL \notin Nat \cup KeyRow \cup DeviceRow
  /\ NULL \notin Keys \cup Devices \cup Versions
  /\ Keys \cap Devices = {}
  /\ Interval \in Nat \ {0}
  /\ MaxClock \in Nat

VARIABLES
  clock,      \* now() of the database; the Go process reads the same clock
  status,     \* table businesses: the status of b, or "absent"
  keys,       \* table api_keys, by id; NULL: no such row
  devices,    \* table devices, by id; NULL: no such row
  lastWrite,  \* lastUsedWrites of the process: when the last stamp of k began
  writes,     \* stamps whose goroutine still runs
  pc,         \* pc[r]: the statement request r executes next
  bearer,     \* bearer[r]: the token request r presents
  reports,    \* reports[r]: the version a heartbeat reports, or NULL
  principal,  \* principal[r]: the key or device r acts as, or NULL
  step,       \* step[a]: the statement withdrawal a executes next
  target,     \* target[a]: the key or device to withdraw
  seen,       \* seen[a]: deactivated_at of the device as a read it first
  reply,      \* reply[a]: what the administrator is told
  lastAuth,   \* history: when key k last authenticated a request, or NULL
  lost        \* history: keys whose latest stamp was dropped

tables   == <<status, keys, devices>>
stamps   == <<lastWrite, writes, lost>>
requests == <<pc, bearer, reports, principal, lastAuth>>
calls    == <<step, target, seen, reply>>
vars     == <<clock, tables, stamps, requests, calls>>

\* "ok" comes with the time the answer shows in revoked_at or deactivated_at.
Replies == [code : {"none", "not_found", "error"}, at : {NULL}]
             \cup [code : {"ok"}, at : Nat \cup {NULL}]
Said(code, at) == [code |-> code, at |-> at]

TypeOK ==
  /\ clock \in Nat
  /\ status \in [Businesses -> {"absent", "active", "suspended"}]
  /\ keys \in [Keys -> KeyRow \cup {NULL}]
  /\ devices \in [Devices -> DeviceRow \cup {NULL}]
  /\ lastWrite \in [Keys -> Nat \cup {NULL}]
  /\ writes \subseteq Keys
  /\ pc \in [Requests -> {"idle", "key", "device", "serve", "ping", "meta", "done"}]
  /\ bearer \in [Requests -> Tokens \cup {NULL}]
  /\ reports \in [Requests -> Versions \cup {NULL}]
  /\ principal \in [Requests -> Keys \cup Devices \cup {NULL}]
  /\ step \in [Calls -> {"idle", "revoke", "reread", "deactivate", "done"}]
  /\ target \in [Calls -> Keys \cup Devices \cup {NULL}]
  /\ seen \in [Calls -> Nat \cup {NULL}]
  /\ reply \in [Calls -> Replies]
  /\ lastAuth \in [Keys -> Nat \cup {NULL}]
  /\ lost \subseteq Keys
  /\ \A r \in Requests :
       /\ pc[r] = "serve" => principal[r] \in Keys
       /\ pc[r] \in {"ping", "meta"} =>
            principal[r] \in Devices /\ devices[principal[r]] # NULL
       /\ pc[r] = "meta" => reports[r] # NULL
  /\ \A a \in Calls :
       /\ step[a] \in {"revoke", "reread"} => target[a] \in Keys /\ keys[target[a]] # NULL
       /\ step[a] = "deactivate" => target[a] \in Devices /\ devices[target[a]] # NULL

Init ==
  /\ clock = 0
  /\ status = [b \in Businesses |-> "absent"]
  /\ keys = [k \in Keys |-> NULL]
  /\ devices = [d \in Devices |-> NULL]
  /\ lastWrite = [k \in Keys |-> NULL]
  /\ writes = {}
  /\ pc = [r \in Requests |-> "idle"]
  /\ bearer = [r \in Requests |-> NULL]
  /\ reports = [r \in Requests |-> NULL]
  /\ principal = [r \in Requests |-> NULL]
  /\ step = [a \in Calls |-> "idle"]
  /\ target = [a \in Calls |-> NULL]
  /\ seen = [a \in Calls |-> NULL]
  /\ reply = [a \in Calls |-> Said("none", NULL)]
  /\ lastAuth = [k \in Keys |-> NULL]
  /\ lost = {}

Tick ==
  /\ clock < MaxClock
  /\ clock' = clock + 1
  /\ UNCHANGED <<tables, stamps, requests, calls>>

--------------------------------------------------------------------------------
\* The administrator opens businesses and issues credentials.

CreateBusiness(b) ==
  /\ status[b] = "absent"
  /\ status' = [status EXCEPT ![b] = "active"]
  /\ UNCHANGED <<clock, keys, devices, stamps, requests, calls>>

SetBusinessStatus(b, s) ==
  /\ status[b] # "absent"
  /\ status' = [status EXCEPT ![b] = s]
  /\ UNCHANGED <<clock, keys, devices, stamps, requests, calls>>

\* requireBusiness reads the row in a statement of its own; no business is ever
\* deleted, so what it read still holds at the insertion.
RequireBusiness(b) == status[b] # "absent"

Issued == {keys[k].token : k \in {i \in Keys : keys[i] # NULL}}
            \cup {devices[d].token : d \in {i \in Devices : devices[i] # NULL}}

\* GenerateToken draws 24 random bytes: never those of an earlier token, though
\* its first four characters, all the prefix keeps of them, may be the same.
GenerateToken == Tokens \ Issued

\* The rows the two INSERT statements write.
NewKey(b, t) == [business |-> b, token |-> t, used |-> NULL, revoked |-> NULL]
NewDevice(b, t) ==
  [business |-> b, token |-> t, version |-> NULL, ping |-> NULL, deactivated |-> NULL]

\* Keys begin with vpk_ and device tokens with vdt_; each kind is looked up in
\* its own table, so that the prefixes of the two never meet.
CreateApiKey(k, b, t) ==
  /\ keys[k] = NULL
  /\ RequireBusiness(b)
  /\ t \in GenerateToken
  /\ keys' = [keys EXCEPT ![k] = NewKey(b, t)]
  /\ UNCHANGED <<clock, status, devices, stamps, requests, calls>>

CreateDevice(d, b, t) ==
  /\ devices[d] = NULL
  /\ RequireBusiness(b)
  /\ t \in GenerateToken
  /\ devices' = [devices EXCEPT ![d] = NewDevice(b, t)]
  /\ UNCHANGED <<clock, status, keys, stamps, requests, calls>>

--------------------------------------------------------------------------------
\* The administrator withdraws them.

Answer(a, code, at) ==
  /\ step' = [step EXCEPT ![a] = "done"]
  /\ reply' = [reply EXCEPT ![a] = Said(code, at)]

\* pgx.ErrNoRows, answered 404.
Known(row) == row # NULL

\* GetApiKeyByID.
LoadKey(a, k) ==
  /\ step[a] = "idle"
  /\ target' = [target EXCEPT ![a] = k]
  /\ \/ ~Known(keys[k]) /\ Answer(a, "not_found", NULL)
     \/ /\ Known(keys[k])
        /\ step' = [step EXCEPT ![a] = "revoke"]
        /\ UNCHANGED reply
  /\ UNCHANGED <<clock, tables, stamps, requests, seen>>

\* The WHERE clause of RevokeApiKey.
Revocable_Again(row) == TRUE
Revocable(row) == row.revoked = NULL

\* The UPDATE, which may commit without its caller learning so.
RevokeApiKey(a) ==
  LET k == target[a] IN
  /\ step[a] = "revoke"
  /\ Revocable(keys[k])
  /\ keys' = [keys EXCEPT ![k].revoked = clock]
  /\ Answer(a, "ok", clock) \/ Answer(a, "error", NULL)
  /\ UNCHANGED <<clock, status, devices, stamps, requests, target, seen>>

RevokeFindsNothing(a) ==
  /\ step[a] = "revoke"
  /\ ~Revocable(keys[target[a]])
  /\ step' = [step EXCEPT ![a] = "reread"]
  /\ UNCHANGED <<clock, tables, stamps, requests, target, seen, reply>>

\* The key is read again to answer a repeated revocation.
Reread_Now(row) == clock
Reread(row) == row.revoked

RereadKey(a) ==
  /\ step[a] = "reread"
  /\ Answer(a, "ok", Reread(keys[target[a]]))
  /\ UNCHANGED <<clock, tables, stamps, requests, target, seen>>

\* GetDeviceByID, then GetBusiness, which finds it.
LoadDevice(a, d) ==
  /\ step[a] = "idle"
  /\ target' = [target EXCEPT ![a] = d]
  /\ \/ ~Known(devices[d]) /\ Answer(a, "not_found", NULL) /\ UNCHANGED seen
     \/ /\ Known(devices[d])
        /\ step' = [step EXCEPT ![a] = "deactivate"]
        /\ seen' = [seen EXCEPT ![a] = devices[d].deactivated]
        /\ UNCHANGED reply
  /\ UNCHANGED <<clock, tables, stamps, requests>>

\* The WHERE clause DeactivateDevice and DeviceHeartbeat share.
Active_Any(row) == TRUE
Active(row) == row.deactivated = NULL

\* The UPDATE; a device already inactive is answered as it was read at first.
DeactivateDevice(a) ==
  LET d == target[a] IN
  /\ step[a] = "deactivate"
  /\ \/ /\ Active(devices[d])
        /\ devices' = [devices EXCEPT ![d].deactivated = clock]
        /\ Answer(a, "ok", clock) \/ Answer(a, "error", NULL)
     \/ /\ ~Active(devices[d])
        /\ Answer(a, "ok", seen[a])
        /\ UNCHANGED devices
  /\ UNCHANGED <<clock, status, keys, stamps, requests, target, seen>>

\* A statement fails before it changes anything.
CallFails(a) ==
  /\ step[a] \in {"revoke", "reread", "deactivate"}
  /\ Answer(a, "error", NULL)
  /\ UNCHANGED <<clock, tables, stamps, requests, target, seen>>

--------------------------------------------------------------------------------
\* Requests of merchants and phones.

\* A merchant calls /api/v1, a phone posts a heartbeat; either presents a token.
Present(r, route, t, v) ==
  /\ pc[r] = "idle"
  /\ pc' = [pc EXCEPT ![r] = route]
  /\ bearer' = [bearer EXCEPT ![r] = t]
  /\ reports' = [reports EXCEPT ![r] = v]
  /\ UNCHANGED <<clock, tables, stamps, principal, lastAuth, calls>>

Refuse(r) ==
  /\ pc' = [pc EXCEPT ![r] = "done"]
  /\ UNCHANGED principal

\* ListApiKeysByPrefix and GetDeviceByTokenPrefix.
KeysByPrefix(t) ==
  {k \in Keys : keys[k] # NULL /\ PrefixOf[keys[k].token] = PrefixOf[t]}
DevicesByPrefix(t) ==
  {d \in Devices : /\ devices[d] # NULL
                   /\ PrefixOf[devices[d].token] = PrefixOf[t]
                   /\ Active(devices[d])}

\* The hashes are equal.
Matches_Prefix(row, t) == PrefixOf[row.token] = PrefixOf[t]
Matches(row, t) == row.token = t

\* touchLastUsed: at most one stamp per interval, begun before it is written.
Throttled_Inclusive(k) == lastWrite[k] # NULL /\ clock <= lastWrite[k] + Interval
Throttled(k) == lastWrite[k] # NULL /\ clock < lastWrite[k] + Interval

Touch(k) ==
  IF Throttled(k)
  THEN UNCHANGED <<lastWrite, writes>>
  ELSE /\ lastWrite' = [lastWrite EXCEPT ![k] = clock]
       /\ writes' = writes \cup {k}

\* APIKeyAuth: the candidates with the prefix, then the hash, then the
\* revocation.  The status of the business is not asked for.
AuthenticateKey(r) ==
  /\ pc[r] = "key"
  /\ \/ Refuse(r) /\ UNCHANGED <<stamps, lastAuth>>  \* no match, or the query failed
     \/ \E k \in KeysByPrefix(bearer[r]) :
          /\ Matches(keys[k], bearer[r])
          /\ Revocable(keys[k])
          /\ pc' = [pc EXCEPT ![r] = "serve"]
          /\ principal' = [principal EXCEPT ![r] = k]
          /\ lastAuth' = [lastAuth EXCEPT ![k] = clock]
          /\ Touch(k)
          /\ UNCHANGED lost
  /\ UNCHANGED <<clock, tables, bearer, reports, calls>>

\* DeviceAuth: inactive devices are not even candidates.
AuthenticateDevice(r) ==
  /\ pc[r] = "device"
  /\ \/ Refuse(r)
     \/ \E d \in DevicesByPrefix(bearer[r]) :
          /\ Matches(devices[d], bearer[r])
          /\ pc' = [pc EXCEPT ![r] = "ping"]
          /\ principal' = [principal EXCEPT ![r] = d]
  /\ UNCHANGED <<clock, tables, stamps, bearer, reports, lastAuth, calls>>

\* The handler behind the key runs, for the business of the key.
ServeMerchant(r) ==
  /\ pc[r] = "serve"
  /\ pc' = [pc EXCEPT ![r] = "done"]
  /\ UNCHANGED <<clock, tables, stamps, bearer, reports, principal, lastAuth, calls>>

\* DeviceHeartbeat: the device may have been deactivated since.
Pinged(row) == [row EXCEPT !.ping = IF Active(row) THEN clock ELSE row.ping]

Heartbeat(r) ==
  LET d == principal[r] IN
  /\ pc[r] = "ping"
  /\ devices' = [devices EXCEPT ![d] = Pinged(devices[d])]
  /\ pc' = [pc EXCEPT ![r] = IF reports[r] = NULL THEN "done" ELSE "meta"]
  /\ UNCHANGED <<clock, status, keys, stamps, bearer, reports, principal, lastAuth, calls>>

\* UpdateDeviceMeta, whether the device is active or not.
UpdateDeviceMeta(r) ==
  /\ pc[r] = "meta"
  /\ devices' = [devices EXCEPT ![principal[r]].version = reports[r]]
  /\ pc' = [pc EXCEPT ![r] = "done"]
  /\ UNCHANGED <<clock, status, keys, stamps, bearer, reports, principal, lastAuth, calls>>

\* A statement of the handler fails, or the caller goes away.
RequestFails(r) ==
  /\ pc[r] \in {"serve", "ping", "meta"}
  /\ pc' = [pc EXCEPT ![r] = "done"]
  /\ UNCHANGED <<clock, tables, stamps, bearer, reports, principal, lastAuth, calls>>

\* The goroutine stamps the key, or its error is dropped.
TouchApiKeyLastUsed(k) ==
  /\ k \in writes
  /\ writes' = writes \ {k}
  /\ \/ keys' = [keys EXCEPT ![k].used = clock] /\ lost' = lost \ {k}
     \/ UNCHANGED keys /\ lost' = lost \cup {k}
  /\ UNCHANGED <<clock, status, devices, lastWrite, requests, calls>>

\* The process is replaced: requests end, the map and the goroutines are gone.
Restart ==
  /\ lastWrite' = [k \in Keys |-> NULL]
  /\ writes' = {}
  /\ lost' = lost \cup writes
  /\ pc' = [r \in Requests |-> IF pc[r] = "idle" THEN "idle" ELSE "done"]
  /\ step' = [a \in Calls |-> IF step[a] = "idle" THEN "idle" ELSE "done"]
  /\ reply' = [a \in Calls |-> IF step[a] \in {"idle", "done"} THEN reply[a]
                              ELSE Said("error", NULL)]
  /\ UNCHANGED <<clock, tables, bearer, reports, principal, lastAuth, target, seen>>

--------------------------------------------------------------------------------
Issue ==
  \/ \E b \in Businesses : CreateBusiness(b)
  \/ \E b \in Businesses, s \in {"active", "suspended"} : SetBusinessStatus(b, s)
  \/ \E k \in Keys, b \in Businesses, t \in Tokens : CreateApiKey(k, b, t)
  \/ \E d \in Devices, b \in Businesses, t \in Tokens : CreateDevice(d, b, t)

Withdraw(a) ==
  \/ \E k \in Keys : LoadKey(a, k)
  \/ RevokeApiKey(a)
  \/ RevokeFindsNothing(a)
  \/ RereadKey(a)
  \/ \E d \in Devices : LoadDevice(a, d)
  \/ DeactivateDevice(a)
  \/ CallFails(a)

Request(r) ==
  \/ \E t \in Tokens : Present(r, "key", t, NULL)
  \/ \E t \in Tokens, v \in Versions \cup {NULL} : Present(r, "device", t, v)
  \/ AuthenticateKey(r)
  \/ AuthenticateDevice(r)
  \/ ServeMerchant(r)
  \/ Heartbeat(r)
  \/ UpdateDeviceMeta(r)
  \/ RequestFails(r)

Next ==
  \/ Tick
  \/ Issue
  \/ \E a \in Calls : Withdraw(a)
  \/ \E r \in Requests : Request(r)
  \/ \E k \in Keys : TouchApiKeyLastUsed(k)
  \/ Restart

Spec == Init /\ [][Next]_vars

--------------------------------------------------------------------------------
\* Correctness.

\* A caller acts as the holder of the very token it presents, also when tokens
\* of other tenants share the prefix it is looked up by (APIKeyAuth, DeviceAuth).
ActsAsItself ==
  \A r \in Requests : principal[r] # NULL =>
    \/ principal[r] \in Keys /\ keys[principal[r]].token = bearer[r]
    \/ principal[r] \in Devices /\ devices[principal[r]].token = bearer[r]

\* A withdrawn credential is out at once: a key authenticated nobody, and a
\* phone did not come online, later than its withdrawal, whatever was in flight
\* then (ListApiKeysByPrefix, DeviceHeartbeat).
WithdrawnIsOut ==
  /\ \A k \in Keys :
       keys[k] # NULL /\ lastAuth[k] # NULL /\ keys[k].revoked # NULL =>
         lastAuth[k] <= keys[k].revoked
  /\ \A d \in Devices :
       devices[d] # NULL /\ devices[d].ping # NULL /\ devices[d].deactivated # NULL =>
         devices[d].ping <= devices[d].deactivated

\* Revoking twice, also at the same time, is revoking once: every administrator
\* who is answered 200 is shown the one time at which the key went out
\* (ManageHandler.RevokeApiKey).
RevocationIsReported ==
  \A a \in Calls : reply[a].code = "ok" /\ target[a] \in Keys =>
    /\ reply[a].at # NULL
    /\ reply[a].at = keys[target[a]].revoked

\* No interleaving brings a credential back, moves it to another tenant or
\* changes its token or the time it was withdrawn.
CredentialsAreFinal ==
  [][/\ \A k \in Keys : keys[k] # NULL =>
          /\ keys'[k] # NULL
          /\ keys'[k].business = keys[k].business /\ keys'[k].token = keys[k].token
          /\ keys[k].revoked # NULL => keys'[k].revoked = keys[k].revoked
     /\ \A d \in Devices : devices[d] # NULL =>
          /\ devices'[d] # NULL
          /\ devices'[d].business = devices[d].business
          /\ devices'[d].token = devices[d].token
          /\ devices[d].deactivated # NULL =>
               devices'[d].deactivated = devices[d].deactivated]_vars

\* The throttle does not hide use: unless a stamp was dropped or is still being
\* written, a key was used less than one interval after its stamp, across
\* restarts (touchLastUsed).
LastUsedIsFresh ==
  \A k \in Keys : keys[k] # NULL /\ lastAuth[k] # NULL =>
    \/ k \in writes \cup lost
    \/ keys[k].used # NULL /\ lastAuth[k] < keys[k].used + Interval

--------------------------------------------------------------------------------
\* The inductive invariant behind the safety properties.

\* What a key, its last use and its stamps have to do with each other.
KeyInv(k) ==
  /\ lastAuth[k] # NULL => keys[k] # NULL /\ lastAuth[k] <= clock
  /\ lastWrite[k] # NULL => keys[k] # NULL /\ lastWrite[k] <= clock
  /\ k \in writes => keys[k] # NULL
  /\ keys[k] # NULL =>
       /\ lastAuth[k] # NULL /\ keys[k].revoked # NULL => lastAuth[k] <= keys[k].revoked
       /\ lastWrite[k] # NULL /\ k \notin writes \cup lost =>
            keys[k].used # NULL /\ lastWrite[k] <= keys[k].used
       /\ lastAuth[k] # NULL /\ k \notin writes \cup lost =>
            keys[k].used # NULL /\ lastAuth[k] < keys[k].used + Interval

DeviceInv(d) ==
  devices[d] # NULL /\ devices[d].ping # NULL =>
    /\ devices[d].ping <= clock
    /\ devices[d].deactivated # NULL => devices[d].ping <= devices[d].deactivated

RequestInv(r) ==
  /\ pc[r] = "idle" => principal[r] = NULL
  /\ principal[r] \in Keys =>
       keys[principal[r]] # NULL /\ keys[principal[r]].token = bearer[r]
  /\ principal[r] \in Devices =>
       devices[principal[r]] # NULL /\ devices[principal[r]].token = bearer[r]

CallInv(a) ==
  /\ step[a] = "idle" => reply[a].code = "none"
  /\ step[a] = "reread" => keys[target[a]].revoked # NULL
  /\ reply[a].code = "ok" /\ target[a] \in Keys =>
       /\ keys[target[a]] # NULL
       /\ reply[a].at # NULL
       /\ reply[a].at = keys[target[a]].revoked

Inv ==
  /\ TypeOK
  /\ \A k \in Keys : KeyInv(k)
  /\ \A d \in Devices : DeviceInv(d)
  /\ \A r \in Requests : RequestInv(r)
  /\ \A a \in Calls : CallInv(a)
================================================================================
