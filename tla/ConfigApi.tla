----------------------------- MODULE ConfigApi ------------------------------
(***************************************************************************)
(* config-api: the HTTP server behind the dashboard.  net/http runs every  *)
(* request in a goroutine of its own, so up to |Slots| requests that touch *)
(* a device are in flight at once, and each of their database statements   *)
(* and SNMP probes is a step of its own.  A request that only reads, or    *)
(* that is refused before it changes anything, changes no state and has no *)
(* action.                                                                 *)
(***************************************************************************)
EXTENDS DeviceStore

CONSTANTS
    Slots,          \* request goroutines
    PostRequests,   \* bodies of POST /devices
    PatchRequests,  \* bodies of PATCH /devices/{id}: records of present fields
    IntervalRequests, \* values sent to POST /settings/polling-interval
    DupRequests     \* values sent to POST /settings/credential-duplication

VARIABLES
    handlers,       \* slot -> what the request in it does next
    apiKey          \* config-api's ENCRYPTION_KEY

apiVars == <<handlers, apiKey>>

PostRequest ==
    [ip : IPs \cup {""}, hostname : Text,
     snmp_version : Versions \cup {"", "other"}, community : Plain, v3 : Plain]

\* A JSON object decoded into a map: any field may be missing or null.
IsPatchRequest(req) ==
    /\ "hostname"     \in DOMAIN req => req.hostname \in Text \cup {Null}
    /\ "snmp_version" \in DOMAIN req =>
           req.snmp_version \in Versions \cup {"", "other", Null}
    /\ "community"    \in DOMAIN req => req.community \in Plain \cup {Null}
    /\ "v3"           \in DOMAIN req => req.v3 \in Plain \cup {Null}
    /\ "status"       \in DOMAIN req => req.status \in Statuses \cup {"other", Null}

ASSUME ApiAssumption ==
    /\ Keys # {}
    /\ Null \notin Secrets
    /\ PostRequests \subseteq PostRequest
    /\ \A req \in PatchRequests : IsPatchRequest(req)
    /\ IntervalRequests \subseteq Nat
    /\ DupRequests \subseteq BOOLEAN

\* What a goroutine keeps across its steps.
HandlerState ==
    [pc : {"idle"}] \cup
    [pc : {"insert"}, d : Device] \cup
    [pc : {"get"}, id : Ids, reprobe : BOOLEAN] \cup
    [pc : {"probe"}, id : Ids, d : Device] \cup
    [pc : {"status"}, id : Ids, ip : IPs, status : Statuses]

Idle == [pc |-> "idle"]

-----------------------------------------------------------------------------
\* probeStatus: the statuses the probe may come back with.
probeStatus(ip, creds) ==
    IF creds.version = "" THEN {"pending"}
    ELSE {IF ok THEN "active" ELSE "failed" : ok \in Verify(ip, creds)}

\* Create, up to and with the probe: the row it is going to insert.
NewDevice(req, status) ==
    [ip             |-> req.ip,
     hostname       |-> req.hostname,
     snmp_version   |-> req.snmp_version,
     community      |-> Encrypt(apiKey, req.community),
     v3             |-> Encrypt(apiKey, req.v3),
     status         |-> status,
     is_public_ip   |-> IsPublic(req.ip),
     discovered_via |-> "manual"]

PostProbe(s) ==
    /\ ~calm
    /\ handlers[s] = Idle
    /\ \E req \in PostRequests :
           /\ req.ip # ""
           /\ \E status \in probeStatus(req.ip,
                    Credentials(req.snmp_version, req.community, req.v3)) :
                  handlers' = [handlers EXCEPT ![s] =
                                  [pc |-> "insert", d |-> NewDevice(req, status)]]
    /\ UNCHANGED <<storeVars, apiKey>>

\* Create's INSERT; the Get that follows only shapes the response.
PostInsert(s) ==
    /\ handlers[s].pc = "insert"
    /\ \E ok \in Outcome("db") :
           IF ok /\ CanInsert(handlers[s].d)
           THEN Insert(handlers[s].d)
           ELSE UNCHANGED storeVars
    /\ handlers' = [handlers EXCEPT ![s] = Idle]
    /\ UNCHANGED apiKey

-----------------------------------------------------------------------------
\* The SQL columns a PATCH writes: plain fields as they came, null included;
\* secrets encrypted, a null (or any non-string) as the empty string.
Sealed(v) == Encrypt(apiKey, IF v = Null THEN "" ELSE v)

UpdatesOf(req) ==
    [c \in DOMAIN req |-> IF c \in {"community", "v3"} THEN Sealed(req[c]) ELSE req[c]]

snmpFieldsChanged(req) == DOMAIN req \cap {"snmp_version", "community", "v3"} # {}

Reprobes(req) == snmpFieldsChanged(req) /\ "status" \notin DOMAIN req

\* Update's first write.  With no known field in the body the store returns
\* at once, without looking for the row.
PatchWrite(s) ==
    /\ ~calm
    /\ handlers[s] = Idle
    /\ \E id \in Ids, req \in PatchRequests :
           /\ IF DOMAIN req = {}
              THEN UNCHANGED storeVars
              ELSE /\ RowsWithId(id) # {}
                   /\ CanUpdate(id, UpdatesOf(req))
                   /\ Update(id, UpdatesOf(req))
           /\ handlers' = [handlers EXCEPT ![s] =
                              [pc |-> "get", id |-> id, reprobe |-> Reprobes(req)]]
    /\ UNCHANGED apiKey

\* Whether Update goes on to probe the row it has just re-read: only if it
\* can be scanned, an SNMP field was in the request and the secrets decrypt.
GoesOnToProbe(s, r) ==
    /\ handlers[s].reprobe
    /\ Scannable(r.d)
    /\ CanDecrypt(apiKey, r.d)

\* Update's re-read; the request ends here unless a probe is due.
PatchGet(s) ==
    /\ handlers[s].pc = "get"
    /\ \/ \E r \in RowsWithId(handlers[s].id) :
              /\ GoesOnToProbe(s, r)
              /\ handlers' = [handlers EXCEPT ![s] =
                                 [pc |-> "probe", id |-> r.id, d |-> r.d]]
       \/ /\ \/ FALSE \in Outcome("db")
             \/ \A r \in RowsWithId(handlers[s].id) : ~GoesOnToProbe(s, r)
          /\ handlers' = [handlers EXCEPT ![s] = Idle]
    /\ UNCHANGED <<storeVars, apiKey>>

PatchProbe(s) ==
    /\ handlers[s].pc = "probe"
    /\ \E status \in probeStatus(handlers[s].d.ip,
                                 decryptCredentials(apiKey, handlers[s].d)) :
           handlers' = [handlers EXCEPT ![s] =
                           [pc |-> "status", id |-> handlers[s].id,
                            ip |-> handlers[s].d.ip, status |-> status]]
    /\ UNCHANGED <<storeVars, apiKey>>

\* Update's second write: the probe's verdict, whatever the row holds by now.
PatchStatus(s) ==
    /\ handlers[s].pc = "status"
    /\ \E ok \in Outcome("db") :
           LET u == [status |-> handlers[s].status]
           IN  IF ok /\ CanUpdate(handlers[s].id, u)
               THEN Update(handlers[s].id, u)
               ELSE UNCHANGED storeVars
    /\ handlers' = [handlers EXCEPT ![s] = Idle]
    /\ UNCHANGED apiKey

-----------------------------------------------------------------------------
\* DELETE /devices/{id}: one statement.
DeleteDevice(id) ==
    /\ ~calm
    /\ RowsWithId(id) # {}
    /\ Remove(id)
    /\ UNCHANGED apiVars

SetPollingInterval(seconds) ==
    /\ ~calm
    /\ seconds \in allowedPollingIntervals
    /\ SetSetting("interval", seconds)
    /\ UNCHANGED apiVars

SetCredentialDuplication(enabled) ==
    /\ ~calm
    /\ SetSetting("dup", IF enabled THEN "1" ELSE "0")
    /\ UNCHANGED apiVars

\* The container dies and is restarted; requests in flight are gone, and the
\* operator may have changed ENCRYPTION_KEY meanwhile.
ApiCrash ==
    /\ "crash" \in Faults /\ ~calm
    /\ handlers' = [s \in Slots |-> Idle]
    /\ apiKey' \in Keys
    /\ UNCHANGED storeVars

-----------------------------------------------------------------------------
ApiInit ==
    /\ handlers = [s \in Slots |-> Idle]
    /\ apiKey \in Keys

\* The steps of a request once it is in flight.
HandlerStep(s) == PostInsert(s) \/ PatchGet(s) \/ PatchProbe(s) \/ PatchStatus(s)

\* What requests do, whatever else happens to the process.
ApiRequests ==
    \/ \E s \in Slots : PostProbe(s) \/ PatchWrite(s) \/ HandlerStep(s)
    \/ \E id \in Ids : DeleteDevice(id)
    \/ \E seconds \in IntervalRequests : SetPollingInterval(seconds)
    \/ \E enabled \in DupRequests : SetCredentialDuplication(enabled)

ApiNext == ApiRequests \/ ApiCrash

ApiTypeOK ==
    /\ handlers \in [Slots -> HandlerState]
    /\ apiKey \in Keys
=============================================================================
