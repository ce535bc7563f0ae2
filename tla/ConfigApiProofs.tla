-------------------------- MODULE ConfigApiProofs ---------------------------
(***************************************************************************)
(* Every step of config-api keeps its own state and the tables well formed. *)
(***************************************************************************)
EXTENDS ConfigApi, DeviceStoreProofs

\* probeStatus answers with one of the three statuses.
LEMMA ProbeStatusType ==
    ASSUME NEW ip, NEW creds, NEW status \in probeStatus(ip, creds)
    PROVE  status \in Statuses
BY DEF probeStatus, Statuses

\* Create's row for a request with an address is a well-formed device.
LEMMA NewDeviceType ==
    ASSUME ApiTypeOK, NEW req \in PostRequest, req.ip # "", NEW status \in Statuses
    PROVE  NewDevice(req, status) \in Device
<1>1. /\ req.ip \in IPs
      /\ req.hostname \in Text
      /\ req.snmp_version \in Versions \cup {"", "other"}
      /\ req.community \in Plain
      /\ req.v3 \in Plain
  BY DEF PostRequest
<1>2. Encrypt(apiKey, req.community) \in Cipher /\ Encrypt(apiKey, req.v3) \in Cipher
  BY <1>1, EncryptType DEF ApiTypeOK
<1>3. "manual" \in Sources
  BY DEF Sources
<1>4. IsPublic(req.ip) \in BOOLEAN
  BY IsPublicType
<1> QED
  BY <1>1, <1>2, <1>3, <1>4 DEF NewDevice, Device

\* The columns a PATCH writes are well formed, null fields included.
LEMMA UpdatesOfType ==
    ASSUME ApiTypeOK, NEW req, IsPatchRequest(req)
    PROVE  IsUpdates(UpdatesOf(req))
<1>1. DOMAIN UpdatesOf(req) = DOMAIN req
  BY DEF UpdatesOf
<1>2. ASSUME NEW v \in Plain \cup {Null}
      PROVE  Sealed(v) \in Cipher
  <2>1. (IF v = Null THEN "" ELSE v) \in Plain
    BY DEF Plain
  <2> QED
    BY <2>1, EncryptType DEF Sealed, ApiTypeOK
<1>3. /\ "hostname" \in DOMAIN req => UpdatesOf(req).hostname = req.hostname
      /\ "snmp_version" \in DOMAIN req => UpdatesOf(req).snmp_version = req.snmp_version
      /\ "status" \in DOMAIN req => UpdatesOf(req).status = req.status
      /\ "community" \in DOMAIN req => UpdatesOf(req).community = Sealed(req.community)
      /\ "v3" \in DOMAIN req => UpdatesOf(req).v3 = Sealed(req.v3)
  BY DEF UpdatesOf
<1> QED
  BY <1>1, <1>2, <1>3 DEF IsUpdates, IsPatchRequest

\* What a request keeps depends on how far it is.
LEMMA HandlerCases ==
    ASSUME ApiTypeOK, NEW s \in Slots
    PROVE  /\ handlers[s].pc = "insert" => handlers[s].d \in Device
           /\ handlers[s].pc = "get" =>
                  handlers[s].id \in Ids /\ handlers[s].reprobe \in BOOLEAN
           /\ handlers[s].pc = "probe" =>
                  handlers[s].id \in Ids /\ handlers[s].d \in Device
           /\ handlers[s].pc = "status" =>
                  /\ handlers[s].id \in Ids
                  /\ handlers[s].ip \in IPs
                  /\ handlers[s].status \in Statuses
BY DEF ApiTypeOK, HandlerState

\* Putting a well-formed state into a slot.
LEMMA SetHandler ==
    ASSUME ApiTypeOK, NEW s \in Slots, NEW h \in HandlerState,
           handlers' = [handlers EXCEPT ![s] = h], UNCHANGED apiKey
    PROVE  ApiTypeOK'
BY DEF ApiTypeOK

\* An empty slot is a handler state.
LEMMA IdleType == Idle \in HandlerState
BY DEF Idle, HandlerState

\* Each kind of handler state, as a member of HandlerState.
LEMMA HandlerStates ==
    /\ \A d \in Device : [pc |-> "insert", d |-> d] \in HandlerState
    /\ \A id \in Ids, b \in BOOLEAN :
           [pc |-> "get", id |-> id, reprobe |-> b] \in HandlerState
    /\ \A id \in Ids, d \in Device : [pc |-> "probe", id |-> id, d |-> d] \in HandlerState
    /\ \A id \in Ids, ip \in IPs, status \in Statuses :
           [pc |-> "status", id |-> id, ip |-> ip, status |-> status] \in HandlerState
BY DEF HandlerState

\* Whether a PATCH re-probes is a Boolean.
LEMMA ReprobesType == \A req : Reprobes(req) \in BOOLEAN
BY SMT DEF Reprobes, snmpFieldsChanged

-----------------------------------------------------------------------------
\* No step of config-api breaks the types of its state or of the tables.
LEMMA ApiStepType ==
    ASSUME StoreTypeOK, ApiTypeOK, ApiNext
    PROVE  StoreTypeOK' /\ ApiTypeOK'
<1>1. ASSUME NEW s \in Slots, PostProbe(s)
      PROVE  StoreTypeOK' /\ ApiTypeOK'
  <2>1. PICK req \in PostRequests :
            /\ req.ip # ""
            /\ \E status \in probeStatus(req.ip,
                    Credentials(req.snmp_version, req.community, req.v3)) :
                   handlers' = [handlers EXCEPT ![s] =
                                   [pc |-> "insert", d |-> NewDevice(req, status)]]
    BY <1>1 DEF PostProbe
  <2>2. PICK status \in probeStatus(req.ip,
                    Credentials(req.snmp_version, req.community, req.v3)) :
            handlers' = [handlers EXCEPT ![s] =
                            [pc |-> "insert", d |-> NewDevice(req, status)]]
    BY <2>1
  <2>3. status \in Statuses
    BY <2>2, ProbeStatusType
  <2>4. req \in PostRequest
    BY ApiAssumption
  <2>5. NewDevice(req, status) \in Device
    BY <2>1, <2>3, <2>4, NewDeviceType
  <2>6. ApiTypeOK'
    BY <1>1, <2>2, <2>5, HandlerStates, SetHandler DEF PostProbe
  <2> QED
    BY <1>1, <2>6 DEF PostProbe, StoreTypeOK, storeVars
<1>2. ASSUME NEW s \in Slots, PostInsert(s)
      PROVE  StoreTypeOK' /\ ApiTypeOK'
  <2>1. handlers[s].d \in Device
    BY <1>2, HandlerCases DEF PostInsert
  <2>2. ApiTypeOK'
    BY <1>2, IdleType, SetHandler DEF PostInsert
  <2>3. CASE CanInsert(handlers[s].d) /\ Insert(handlers[s].d)
    BY <2>1, <2>2, <2>3, InsertType
  <2>4. CASE UNCHANGED storeVars
    BY <2>2, <2>4 DEF StoreTypeOK, storeVars
  <2> QED
    BY <1>2, <2>3, <2>4 DEF PostInsert
<1>3. ASSUME NEW s \in Slots, PatchWrite(s)
      PROVE  StoreTypeOK' /\ ApiTypeOK'
  <2>1. PICK id \in Ids, req \in PatchRequests :
            /\ \/ UNCHANGED storeVars
               \/ Update(id, UpdatesOf(req))
            /\ handlers' = [handlers EXCEPT ![s] =
                              [pc |-> "get", id |-> id, reprobe |-> Reprobes(req)]]
    BY <1>3 DEF PatchWrite
  <2>2. ApiTypeOK'
    BY <1>3, <2>1, HandlerStates, ReprobesType, SetHandler DEF PatchWrite
  <2>3. IsUpdates(UpdatesOf(req))
    BY ApiAssumption, UpdatesOfType
  <2>4. StoreTypeOK'
    BY <2>1, <2>3, UpdateType DEF StoreTypeOK, storeVars
  <2> QED
    BY <2>2, <2>4
<1>4. ASSUME NEW s \in Slots, PatchGet(s)
      PROVE  StoreTypeOK' /\ ApiTypeOK'
  <2>1. StoreTypeOK'
    BY <1>4 DEF PatchGet, StoreTypeOK, storeVars
  <2>2. ASSUME NEW r \in devices,
               handlers' = [handlers EXCEPT ![s] = [pc |-> "probe", id |-> r.id, d |-> r.d]]
        PROVE  ApiTypeOK'
    <3>1. r.id \in Ids /\ r.d \in Device
      BY DEF StoreTypeOK, Row
    <3> QED
      BY <1>4, <2>2, <3>1, HandlerStates, SetHandler DEF PatchGet
  <2>3. CASE handlers' = [handlers EXCEPT ![s] = Idle]
    BY <1>4, <2>1, <2>3, IdleType, SetHandler DEF PatchGet
  <2> QED
    BY <1>4, <2>1, <2>2, <2>3 DEF PatchGet, RowsWithId
<1>5. ASSUME NEW s \in Slots, PatchProbe(s)
      PROVE  StoreTypeOK' /\ ApiTypeOK'
  <2>1. handlers[s].id \in Ids /\ handlers[s].d \in Device
    BY <1>5, HandlerCases DEF PatchProbe
  <2>2. handlers[s].d.ip \in IPs
    BY <2>1 DEF Device
  <2>3. PICK status \in probeStatus(handlers[s].d.ip,
                                    decryptCredentials(apiKey, handlers[s].d)) :
            handlers' = [handlers EXCEPT ![s] =
                            [pc |-> "status", id |-> handlers[s].id,
                             ip |-> handlers[s].d.ip, status |-> status]]
    BY <1>5 DEF PatchProbe
  <2>4. status \in Statuses
    BY <2>3, ProbeStatusType
  <2>5. ApiTypeOK'
    BY <1>5, <2>1, <2>2, <2>3, <2>4, HandlerStates, SetHandler DEF PatchProbe
  <2> QED
    BY <1>5, <2>5 DEF PatchProbe, StoreTypeOK, storeVars
<1>6. ASSUME NEW s \in Slots, PatchStatus(s)
      PROVE  StoreTypeOK' /\ ApiTypeOK'
  <2>1. handlers[s].status \in Statuses
    BY <1>6, HandlerCases DEF PatchStatus
  <2>2. ApiTypeOK'
    BY <1>6, IdleType, SetHandler DEF PatchStatus
  <2>3. CASE Update(handlers[s].id, [status |-> handlers[s].status])
    BY <2>1, <2>2, <2>3, StatusUpdates, UpdateType
  <2>4. CASE UNCHANGED storeVars
    BY <2>2, <2>4 DEF StoreTypeOK, storeVars
  <2> QED
    BY <1>6, <2>3, <2>4 DEF PatchStatus
<1>7. ASSUME NEW id \in Ids, DeleteDevice(id)
      PROVE  StoreTypeOK' /\ ApiTypeOK'
  BY <1>7, RemoveType DEF DeleteDevice, ApiTypeOK, apiVars
<1>8. ASSUME NEW seconds \in IntervalRequests, SetPollingInterval(seconds)
      PROVE  StoreTypeOK' /\ ApiTypeOK'
  BY <1>8 DEF SetPollingInterval, SetSetting, StoreTypeOK, Settings, ApiTypeOK, apiVars
<1>9. ASSUME NEW enabled \in DupRequests, SetCredentialDuplication(enabled)
      PROVE  StoreTypeOK' /\ ApiTypeOK'
  BY <1>9 DEF SetCredentialDuplication, SetSetting, StoreTypeOK, Settings, ApiTypeOK, apiVars
<1>10. ASSUME ApiCrash
       PROVE  StoreTypeOK' /\ ApiTypeOK'
  BY <1>10, IdleType DEF ApiCrash, StoreTypeOK, storeVars, ApiTypeOK
<1> QED
  BY <1>1, <1>2, <1>3, <1>4, <1>5, <1>6, <1>7, <1>8, <1>9, <1>10 DEF ApiNext, ApiRequests, HandlerStep
=============================================================================
