------------------------ MODULE NetworkMonitorProofs ------------------------
(***************************************************************************)
(* The types of the composed system, for any number of requests, devices,  *)
(* addresses and ids, and what telegraf is told to load.                   *)
(***************************************************************************)
EXTENDS NetworkMonitor, ConfigApiProofs

-----------------------------------------------------------------------------
(***************************************************************************)
(* config-watcher: every step keeps its own state, telegraf's files and    *)
(* the tables well formed; in particular a sweep stays within its cap.     *)
(***************************************************************************)
\* What each function keeps depends on how far it is.
LEMMA JobCases ==
    ASSUME job \in JobState
    PROVE  /\ job.pc = "gwProbe" => job \in [pc : {"gwProbe"}, id : Ids, try : 1 .. 3]
           /\ job.pc = "gwUpdate" => job \in [pc : {"gwUpdate"}, id : Ids, found : 0 .. 3]
           /\ job.pc = "health" => job \in [pc : {"health"}, todo : SUBSET Row]
           /\ job.pc = "healthWrite" =>
                  job \in [pc : {"healthWrite"}, todo : SUBSET Row, r : Row, status : Statuses]
           /\ job.pc = "render" =>
                  job \in [pc : {"render"}, interval : allowedPollingIntervals]
           /\ job.pc = "write" => job \in [pc : {"write"}, text : Conf]
           /\ job.pc = "list" => job \in [pc : {"list"}, dup : BOOLEAN]
           /\ job.pc = "parents" => job \in [pc : {"parents"}, sweep : Sweeping]
           /\ job.pc = "hops" =>
                  job \in [pc : {"hops"}, sweep : Sweeping, parent : Row, hops : SUBSET IPs]
           /\ job.pc = "found" =>
                  job \in [pc : {"found"}, sweep : BelowCap, parent : Row,
                           hops : SUBSET IPs, hop : IPs]
           /\ job.pc = "add" =>
                  job \in [pc : {"add"}, sweep : BelowCap, parent : Row,
                           hops : SUBSET IPs, d : Device]
BY DEF JobState, NoJob, GatewayJob, HealthJob, ReconcileJob, SweepJob

\* Each kind of job state, as a member of JobState.
LEMMA JobStates ==
    /\ NoJob \in JobState
    /\ [pc |-> "gwCreate"] \in JobState
    /\ [pc |-> "reload"] \in JobState
    /\ \A id \in Ids, n \in 1 .. 3 : [pc |-> "gwProbe", id |-> id, try |-> n] \in JobState
    /\ \A id \in Ids, n \in 0 .. 3 : [pc |-> "gwUpdate", id |-> id, found |-> n] \in JobState
    /\ \A rows \in SUBSET Row : [pc |-> "health", todo |-> rows] \in JobState
    /\ \A rows \in SUBSET Row, row \in Row, status \in Statuses :
           [pc |-> "healthWrite", todo |-> rows, r |-> row, status |-> status] \in JobState
    /\ \A n \in allowedPollingIntervals : [pc |-> "render", interval |-> n] \in JobState
    /\ \A text \in Conf : [pc |-> "write", text |-> text] \in JobState
    /\ \A b \in BOOLEAN : [pc |-> "list", dup |-> b] \in JobState
BY DEF JobState, NoJob, GatewayJob, HealthJob, ReconcileJob, SweepJob

\* ... and those of a running sweep.
LEMMA SweepJobStates ==
    /\ \A sweep \in Sweeping : [pc |-> "parents", sweep |-> sweep] \in JobState
    /\ \A sweep \in Sweeping, row \in Row, hops \in SUBSET IPs :
           [pc |-> "hops", sweep |-> sweep, parent |-> row, hops |-> hops] \in JobState
    /\ \A sweep \in BelowCap, row \in Row, hops \in SUBSET IPs, hop \in IPs :
           [pc |-> "found", sweep |-> sweep, parent |-> row, hops |-> hops, hop |-> hop]
               \in JobState
    /\ \A sweep \in BelowCap, row \in Row, hops \in SUBSET IPs, d \in Device :
           [pc |-> "add", sweep |-> sweep, parent |-> row, hops |-> hops, d |-> d] \in JobState
BY DEF JobState, SweepJob

\* The candidates of ProbeDefaults.
LEMMA DefaultCommunities ==
    /\ Len(defaultCommunities) = 3
    /\ \A n \in 1 .. 3 : /\ defaultCommunities[n].version \in Versions
                         /\ defaultCommunities[n].community \in Plain
<1>1. Len(defaultCommunities) = 3
  BY DEF defaultCommunities
<1>2. /\ defaultCommunities[1].version = "v2c"
      /\ defaultCommunities[2].version = "v2c"
      /\ defaultCommunities[3].version = "v1"
  BY DEF defaultCommunities, Credentials
<1>3. /\ defaultCommunities[1].community = "public"
      /\ defaultCommunities[2].community = "private"
      /\ defaultCommunities[3].community = "public"
  BY DEF defaultCommunities, Credentials
<1>4. "public" \in Plain /\ "private" \in Plain
  BY SnmpAssumption DEF Plain
<1>5. \A n \in 1 .. 3 : defaultCommunities[n].version \in Versions
  BY <1>2 DEF Versions
<1>6. \A n \in 1 .. 3 : defaultCommunities[n].community \in Plain
  BY <1>3, <1>4
<1> QED
  BY <1>1, <1>5, <1>6

\* The gateway's row is a well-formed device.
LEMMA GatewayDeviceType ==
    ASSUME watcherKey \in Keys
    PROVE  GatewayDevice \in Device
<1>1. Encrypt(watcherKey, "") \in Cipher
  BY EncryptType DEF Plain
<1>2. Gateway \in IPs /\ IsPublic(Gateway) \in BOOLEAN
  BY WatcherAssumption, IsPublicType
<1> QED
  BY <1>1, <1>2 DEF GatewayDevice, Device, Text, Statuses, Sources

\* probeAndUpdate writes well-formed columns, found or not.
LEMMA ProbedColumnsType ==
    ASSUME watcherKey \in Keys, NEW n \in 0 .. 3
    PROVE  IsUpdates(ProbedColumns(n))
<1>1. CASE n = 0
  BY <1>1 DEF ProbedColumns, IsUpdates, Statuses
<1>2. CASE n # 0
  <2>1. /\ defaultCommunities[n].version \in Versions
        /\ Encrypt(watcherKey, defaultCommunities[n].community) \in Cipher
    BY <1>2, DefaultCommunities, EncryptType
  <2> QED
    BY <1>2, <2>1 DEF ProbedColumns, IsUpdates, Statuses
<1> QED
  BY <1>1, <1>2

\* decryptCredentials gives plain texts and the stored version.
LEMMA CredentialsType ==
    ASSUME NEW d \in Device
    PROVE  /\ decryptCredentials(watcherKey, d).version = d.snmp_version
           /\ decryptCredentials(watcherKey, d).community \in Plain
           /\ decryptCredentials(watcherKey, d).v3 \in Plain
BY DecryptType DEF decryptCredentials, Credentials, Device

\* What reconcile renders is a whole configuration.
LEMMA RenderType ==
    ASSUME NEW n \in allowedPollingIntervals, NEW rows \in SUBSET Row
    PROVE  renderTelegrafConfig(n, rows) \in Conf
<1>1. ASSUME NEW r \in rows
      PROVE  AgentOf(r.d) \in Agent
  <2>1. r.d \in Device /\ r.d.ip \in IPs
    BY DEF Row, Device
  <2>2. versionNumber(r.d.snmp_version) \in {1, 2, 3}
    BY DEF versionNumber
  <2> QED
    BY <2>1, <2>2, CredentialsType DEF AgentOf, Agent
<1>2. {AgentOf(r.d) : r \in rows} \in SUBSET Agent
  BY <1>1
<1> QED
  BY <1>2 DEF renderTelegrafConfig, Conf

\* The row a sweep inserts is a well-formed device.
LEMMA DiscoveredDeviceType ==
    ASSUME watcherKey \in Keys, NEW ip \in IPs, NEW d \in Device, NEW dup \in BOOLEAN,
           NEW status \in DiscoveredStatus(ip, decryptCredentials(watcherKey, d), dup)
    PROVE  DiscoveredDevice(ip, decryptCredentials(watcherKey, d), dup, status) \in Device
<1> DEFINE creds == decryptCredentials(watcherKey, d)
<1>1. status \in Statuses
  BY DEF DiscoveredStatus, Statuses
<1>2. (IF dup THEN creds.version ELSE "") \in Versions \cup {"", "other", Null}
  BY CredentialsType DEF Device
<1>3. (IF dup THEN creds.community ELSE "") \in Plain
  BY CredentialsType DEF Plain
<1>4. /\ Encrypt(watcherKey, IF dup THEN creds.community ELSE "") \in Cipher
      /\ Encrypt(watcherKey, "") \in Cipher
  BY <1>3, EncryptType DEF Plain
<1> HIDE DEF creds
<1>5. DiscoveredDevice(ip, creds, dup, status) \in Device
  BY <1>1, <1>2, <1>4 DEF DiscoveredDevice, Device, Text, Sources
<1> QED
  BY <1>5 DEF creds

\* Most steps change nothing of the watcher's but the job.
LEMMA SetJob ==
    ASSUME WatcherTypeOK, job' \in JobState, UNCHANGED <<main, watcherKey, conf, running>>
    PROVE  WatcherTypeOK'
BY DEF WatcherTypeOK

\* What main does after a call is one of its stages.
LEMMA MainAfterType ==
    ASSUME NEW stage
    PROVE  MainAfter(stage) \in {"gateway", "health", "reconcile", "select"}
BY DEF MainAfter

-----------------------------------------------------------------------------
\* Gateway discovery keeps the types.
LEMMA GatewayStepType ==
    ASSUME StoreTypeOK, WatcherTypeOK,
           DiscoverGateway \/ CreateGateway \/ ProbeDefaults \/ probeAndUpdate
    PROVE  StoreTypeOK' /\ WatcherTypeOK'
<1>1. CASE DiscoverGateway
  <2>1. job' \in JobState
    BY <1>1, JobStates DEF DiscoverGateway
  <2> QED
    BY <1>1, <2>1, MainAfterType
       DEF DiscoverGateway, StoreTypeOK, WatcherTypeOK, storeVars, confVars
<1>2. CASE CreateGateway
  <2>1. CASE CanInsert(GatewayDevice) /\ Insert(GatewayDevice)
             /\ job' = [pc |-> "gwProbe", id |-> NextId, try |-> 1]
    <3>1. NextId \in Ids /\ 1 \in 1 .. 3
      BY <2>1 DEF CanInsert
    <3>2. job' \in JobState
      BY <2>1, <3>1, JobStates
    <3>3. StoreTypeOK'
      BY <2>1, GatewayDeviceType, InsertType DEF WatcherTypeOK
    <3> QED
      BY <1>2, <3>2, <3>3, SetJob DEF CreateGateway, confVars
  <2>2. CASE UNCHANGED storeVars /\ job' = NoJob
    BY <1>2, <2>2, JobStates, SetJob DEF CreateGateway, confVars, storeVars, StoreTypeOK
  <2> QED
    BY <1>2, <2>1, <2>2 DEF CreateGateway
<1>3. CASE ProbeDefaults
  <2>1. job.id \in Ids /\ job.try \in 1 .. 3 /\ job = [pc |-> "gwProbe", id |-> job.id, try |-> job.try]
    BY <1>3, JobCases DEF ProbeDefaults, WatcherTypeOK
  <2>2. \/ job' = [pc |-> "gwUpdate", id |-> job.id, found |-> job.try]
        \/ job.try < Len(defaultCommunities) /\ job' = [job EXCEPT !.try = @ + 1]
        \/ job' = [pc |-> "gwUpdate", id |-> job.id, found |-> 0]
    BY <1>3 DEF ProbeDefaults
  <2>3. ASSUME job.try < Len(defaultCommunities), job' = [job EXCEPT !.try = @ + 1]
        PROVE  job' \in JobState
    <3>1. job.try + 1 \in 1 .. 3
      BY <2>1, <2>3, DefaultCommunities
    <3>2. job' = [pc |-> "gwProbe", id |-> job.id, try |-> job.try + 1]
      BY <2>1, <2>3
    <3> QED
      BY <2>1, <3>1, <3>2, JobStates
  <2>4. job.try \in 0 .. 3 /\ 0 \in 0 .. 3
    BY <2>1
  <2>5. job' \in JobState
    BY <2>1, <2>2, <2>3, <2>4, JobStates
  <2> QED
    BY <1>3, <2>5, SetJob DEF ProbeDefaults, confVars, storeVars, StoreTypeOK
<1>4. CASE probeAndUpdate
  <2>1. job.found \in 0 .. 3
    BY <1>4, JobCases DEF probeAndUpdate, WatcherTypeOK
  <2>2. IsUpdates(ProbedColumns(job.found))
    BY <2>1, ProbedColumnsType DEF WatcherTypeOK
  <2>3. StoreTypeOK'
    BY <1>4, <2>2, UpdateType DEF probeAndUpdate, StoreTypeOK, storeVars
  <2> QED
    BY <1>4, <2>3, JobStates, SetJob DEF probeAndUpdate, confVars
<1> QED
  BY <1>1, <1>2, <1>3, <1>4

\* The health check keeps the types.
LEMMA HealthStepType ==
    ASSUME StoreTypeOK, WatcherTypeOK,
           ListForHealth \/ ProbeHealth \/ WriteHealth \/ FinishHealth
    PROVE  StoreTypeOK' /\ WatcherTypeOK'
<1>1. CASE ListForHealth
  <2>1. HealthCandidates \in SUBSET Row
    BY DEF HealthCandidates, StoreTypeOK
  <2>2. job' \in JobState
    BY <1>1, <2>1, JobStates DEF ListForHealth
  <2> QED
    BY <1>1, <2>2, MainAfterType
       DEF ListForHealth, StoreTypeOK, WatcherTypeOK, storeVars, confVars
<1>2. CASE ProbeHealth
  <2>1. job.todo \in SUBSET Row /\ job = [pc |-> "health", todo |-> job.todo]
    BY <1>2, JobCases DEF ProbeHealth, WatcherTypeOK
  <2>2. PICK r \in NextRow(job.todo), status \in {"active", "failed"} :
            job' = IF status = r.d.status
                   THEN [job EXCEPT !.todo = job.todo \ {r}]
                   ELSE [pc |-> "healthWrite", todo |-> job.todo \ {r}, r |-> r,
                         status |-> status]
    BY <1>2 DEF ProbeHealth
  <2>3. r \in Row /\ status \in Statuses
    BY <2>1, <2>2 DEF NextRow, Statuses
  <2>4. [job EXCEPT !.todo = job.todo \ {r}] = [pc |-> "health", todo |-> job.todo \ {r}]
    BY <2>1
  <2>5. job.todo \ {r} \in SUBSET Row
    BY <2>1
  <2>6. job' \in JobState
    BY <2>2, <2>3, <2>4, <2>5, JobStates
  <2> QED
    BY <1>2, <2>6, SetJob DEF ProbeHealth, confVars, storeVars, StoreTypeOK
<1>3. CASE WriteHealth
  <2>1. job.todo \in SUBSET Row /\ job.status \in Statuses
    BY <1>3, JobCases DEF WriteHealth, WatcherTypeOK
  <2>2. IsUpdates(HealthColumns(job.r, job.status))
    BY <2>1, StatusUpdates DEF HealthColumns
  <2>3. StoreTypeOK'
    BY <1>3, <2>2, UpdateType DEF WriteHealth, StoreTypeOK, storeVars
  <2> QED
    BY <1>3, <2>1, <2>3, JobStates, SetJob DEF WriteHealth, confVars
<1>4. CASE FinishHealth
  BY <1>4, JobStates, SetJob DEF FinishHealth, confVars, storeVars, StoreTypeOK
<1> QED
  BY <1>1, <1>2, <1>3, <1>4

\* Reconciling, and telegraf's restarts, keep the types.
LEMMA ReconcileStepType ==
    ASSUME StoreTypeOK, WatcherTypeOK,
           ReadInterval \/ RenderConfig \/ FinishWrite \/ reloadTelegraf \/ TelegrafRestart
    PROVE  StoreTypeOK' /\ WatcherTypeOK'
<1>1. CASE ReadInterval
  <2>1. settings.interval \in allowedPollingIntervals
    BY DEF StoreTypeOK, Settings
  <2>2. job' \in JobState
    BY <1>1, <2>1, JobStates DEF ReadInterval
  <2> QED
    BY <1>1, <2>2, MainAfterType
       DEF ReadInterval, StoreTypeOK, WatcherTypeOK, storeVars, confVars
<1>2. CASE RenderConfig
  <2> DEFINE text == renderTelegrafConfig(job.interval, RowsWithStatus("active"))
  <2>1. job.interval \in allowedPollingIntervals
    BY <1>2, JobCases DEF RenderConfig, WatcherTypeOK
  <2>2. RowsWithStatus("active") \in SUBSET Row
    BY DEF RowsWithStatus, StoreTypeOK
  <2>3. text \in Conf
    BY <2>1, <2>2, RenderType
  <2>4. TornConf \in Conf
    BY DEF TornConf, Conf
  <2>5. \/ job' = NoJob /\ UNCHANGED conf
        \/ job' = [pc |-> "write", text |-> text] /\ conf' = TornConf
    BY <1>2 DEF RenderConfig
  <2> HIDE DEF text
  <2>6. job' \in JobState /\ conf' \in Conf
    BY <2>3, <2>4, <2>5, JobStates DEF WatcherTypeOK
  <2> QED
    BY <1>2, <2>6 DEF RenderConfig, StoreTypeOK, WatcherTypeOK, storeVars
<1>3. CASE FinishWrite
  <2>1. job.text \in Conf
    BY <1>3, JobCases DEF FinishWrite, WatcherTypeOK
  <2>2. job' \in JobState /\ conf' \in Conf
    BY <1>3, <2>1, JobStates DEF FinishWrite, WatcherTypeOK
  <2> QED
    BY <1>3, <2>2 DEF FinishWrite, StoreTypeOK, WatcherTypeOK, storeVars
<1>4. CASE reloadTelegraf
  BY <1>4, JobStates DEF reloadTelegraf, StoreTypeOK, WatcherTypeOK, storeVars
<1>5. CASE TelegrafRestart
  BY <1>5 DEF TelegrafRestart, StoreTypeOK, WatcherTypeOK, storeVars, watcherVars
<1> QED
  BY <1>1, <1>2, <1>3, <1>4, <1>5

\* What a sweep carries, field by field.
LEMMA SweepFields ==
    ASSUME NEW n \in Nat
    PROVE  /\ \A sweep \in SweepState(n) :
                  /\ sweep.dup \in BOOLEAN
                  /\ sweep.todo \in SUBSET Row
                  /\ sweep.count \in 0 .. n
                  /\ sweep = [dup |-> sweep.dup, todo |-> sweep.todo, count |-> sweep.count]
           /\ \A dup \in BOOLEAN, rows \in SUBSET Row, count \in 0 .. n :
                  [dup |-> dup, todo |-> rows, count |-> count] \in SweepState(n)
BY DEF SweepState

\* A sweep that is not at its cap has room for one more device.
LEMMA RoomBelowCap ==
    /\ \A sweep \in Sweeping :
           ~(sweep.count >= MaxNewDevicesPerSweep) => sweep \in BelowCap
    /\ \A sweep \in BelowCap :
           /\ sweep \in Sweeping
           /\ [sweep EXCEPT !.count = @ + 1] \in Sweeping
<1> USE WatcherAssumption
<1>1. MaxNewDevicesPerSweep \in Nat /\ MaxNewDevicesPerSweep - 1 \in Nat
  OBVIOUS
<1>2. ASSUME NEW sweep \in Sweeping, ~(sweep.count >= MaxNewDevicesPerSweep)
      PROVE  sweep \in BelowCap
  <2>1. /\ sweep.dup \in BOOLEAN /\ sweep.todo \in SUBSET Row
        /\ sweep.count \in 0 .. MaxNewDevicesPerSweep
        /\ sweep = [dup |-> sweep.dup, todo |-> sweep.todo, count |-> sweep.count]
    BY <1>1, SweepFields DEF Sweeping
  <2>2. sweep.count \in 0 .. (MaxNewDevicesPerSweep - 1)
    BY <1>1, <1>2, <2>1
  <2>3. [dup |-> sweep.dup, todo |-> sweep.todo, count |-> sweep.count] \in BelowCap
    BY <1>1, <2>1, <2>2, SweepFields DEF BelowCap
  <2> QED
    BY <2>1, <2>3
<1>3. ASSUME NEW sweep \in BelowCap
      PROVE  sweep \in Sweeping /\ [sweep EXCEPT !.count = @ + 1] \in Sweeping
  <2>1. /\ sweep.dup \in BOOLEAN /\ sweep.todo \in SUBSET Row
        /\ sweep.count \in 0 .. (MaxNewDevicesPerSweep - 1)
        /\ sweep = [dup |-> sweep.dup, todo |-> sweep.todo, count |-> sweep.count]
    BY <1>1, SweepFields DEF BelowCap
  <2>2. /\ sweep.count \in 0 .. MaxNewDevicesPerSweep
        /\ sweep.count + 1 \in 0 .. MaxNewDevicesPerSweep
    BY <1>1, <2>1
  <2>3. [sweep EXCEPT !.count = @ + 1]
            = [dup |-> sweep.dup, todo |-> sweep.todo, count |-> sweep.count + 1]
    BY <2>1
  <2>4. /\ [dup |-> sweep.dup, todo |-> sweep.todo, count |-> sweep.count] \in Sweeping
        /\ [dup |-> sweep.dup, todo |-> sweep.todo, count |-> sweep.count + 1] \in Sweeping
    BY <1>1, <2>1, <2>2, SweepFields DEF Sweeping
  <2> QED
    BY <2>1, <2>3, <2>4
<1> QED
  BY <1>2, <1>3

\* Whether duplication is on is a Boolean.
LEMMA DupEnabledType == DupEnabled \in BOOLEAN
BY SMT DEF DupEnabled

\* The sweep keeps the types, its cap among them.
LEMMA SweepStepType ==
    ASSUME StoreTypeOK, WatcherTypeOK,
           \/ ReadDuplication \/ ListParents \/ WalkRoutes
           \/ (\E hop \in IPs : ConsiderHop(hop))
           \/ VerifyDiscovered \/ InsertDiscovered \/ LeaveParent \/ FinishSweep
    PROVE  StoreTypeOK' /\ WatcherTypeOK'
<1> DEFINE SameStore == UNCHANGED <<storeVars, confVars, main, watcherKey>>
<1>a. ASSUME SameStore, job' \in JobState
      PROVE  StoreTypeOK' /\ WatcherTypeOK'
  BY <1>a, SetJob DEF confVars, storeVars, StoreTypeOK
<1>1. CASE ReadDuplication
  <2>1. job' \in JobState
    BY <1>1, JobStates, DupEnabledType DEF ReadDuplication
  <2> QED
    BY <1>1, <1>a, <2>1 DEF ReadDuplication
<1>2. CASE ListParents
  <2> DEFINE rows == {r \in RowsWithStatus("active") : CanDecrypt(watcherKey, r.d)}
  <2>1. job.dup \in BOOLEAN
    BY <1>2, JobCases DEF ListParents, WatcherTypeOK
  <2>2. rows \in SUBSET Row
    BY DEF RowsWithStatus, StoreTypeOK
  <2>3. 0 \in 0 .. MaxNewDevicesPerSweep /\ MaxNewDevicesPerSweep \in Nat
    BY WatcherAssumption
  <2>4. \/ job' = NoJob
        \/ job' = [pc |-> "parents", sweep |-> [dup |-> job.dup, todo |-> rows, count |-> 0]]
    BY <1>2 DEF ListParents
  <2> HIDE DEF rows
  <2>5. [dup |-> job.dup, todo |-> rows, count |-> 0] \in Sweeping
    BY <2>1, <2>2, <2>3, SweepFields DEF Sweeping
  <2>6. job' \in JobState
    BY <2>4, <2>5, JobStates, SweepJobStates
  <2> QED
    BY <1>2, <1>a, <2>6 DEF ListParents
<1>3. CASE WalkRoutes
  <2>1. job.sweep \in Sweeping
    BY <1>3, JobCases DEF WalkRoutes, WatcherTypeOK
  <2>2. PICK r \in NextRow(job.sweep.todo) :
            LET sweep == [job.sweep EXCEPT !.todo = @ \ {r}]
            IN  \/ job' = [pc |-> "hops", sweep |-> sweep, parent |-> r,
                           hops |-> WalkRouteNextHops(r.d.ip)]
                \/ job' = [pc |-> "parents", sweep |-> sweep]
    BY <1>3 DEF WalkRoutes
  <2> DEFINE sweep == [job.sweep EXCEPT !.todo = @ \ {r}]
  <2>3. MaxNewDevicesPerSweep \in Nat
    BY WatcherAssumption
  <2>4. /\ job.sweep.dup \in BOOLEAN /\ job.sweep.todo \in SUBSET Row
        /\ job.sweep.count \in 0 .. MaxNewDevicesPerSweep
        /\ job.sweep = [dup |-> job.sweep.dup, todo |-> job.sweep.todo, count |-> job.sweep.count]
    BY <2>1, <2>3, SweepFields DEF Sweeping
  <2>5. r \in Row /\ job.sweep.todo \ {r} \in SUBSET Row
    BY <2>2, <2>4 DEF NextRow
  <2>6. sweep = [dup |-> job.sweep.dup, todo |-> job.sweep.todo \ {r}, count |-> job.sweep.count]
    BY <2>4
  <2>7. sweep \in Sweeping
    BY <2>3, <2>4, <2>5, <2>6, SweepFields DEF Sweeping
  <2>8. r.d.ip \in IPs
    BY <2>5 DEF Row, Device
  <2>9. Routes \in [IPs -> SUBSET IPs]
    BY SnmpAssumption
  <2>10. WalkRouteNextHops(r.d.ip) \in SUBSET IPs
    BY <2>8, <2>9 DEF WalkRouteNextHops
  <2>11. \/ job' = [pc |-> "hops", sweep |-> sweep, parent |-> r,
                    hops |-> WalkRouteNextHops(r.d.ip)]
         \/ job' = [pc |-> "parents", sweep |-> sweep]
    BY <2>2
  <2> HIDE DEF sweep
  <2>12. job' \in JobState
    BY <2>5, <2>7, <2>10, <2>11, SweepJobStates
  <2> QED
    BY <1>3, <1>a, <2>12 DEF WalkRoutes
<1>4. ASSUME NEW hop \in IPs, ConsiderHop(hop)
      PROVE  StoreTypeOK' /\ WatcherTypeOK'
  <2>1. /\ job.sweep \in Sweeping /\ job.parent \in Row /\ job.hops \in SUBSET IPs
        /\ job = [pc |-> "hops", sweep |-> job.sweep, parent |-> job.parent, hops |-> job.hops]
    BY <1>4, JobCases DEF ConsiderHop, WatcherTypeOK
  <2>2. job.sweep \in BelowCap
    BY <1>4, <2>1, RoomBelowCap DEF ConsiderHop, AtCap
  <2>3. job.hops \ {hop} \in SUBSET IPs
    BY <2>1
  <2>4. \/ job' = [pc |-> "found", sweep |-> job.sweep, parent |-> job.parent,
                   hops |-> job.hops \ {hop}, hop |-> hop]
        \/ job' = [job EXCEPT !.hops = job.hops \ {hop}]
    BY <1>4 DEF ConsiderHop
  <2>5. [job EXCEPT !.hops = job.hops \ {hop}]
            = [pc |-> "hops", sweep |-> job.sweep, parent |-> job.parent, hops |-> job.hops \ {hop}]
    BY <2>1
  <2>6. job' \in JobState
    BY <2>1, <2>2, <2>3, <2>4, <2>5, SweepJobStates
  <2> QED
    BY <1>4, <1>a, <2>6 DEF ConsiderHop
<1>5. CASE VerifyDiscovered
  <2> DEFINE creds == decryptCredentials(watcherKey, job.parent.d)
  <2>1. /\ job.sweep \in BelowCap /\ job.parent \in Row
        /\ job.hops \in SUBSET IPs /\ job.hop \in IPs
    BY <1>5, JobCases DEF VerifyDiscovered, WatcherTypeOK
  <2>2. job.parent.d \in Device /\ job.sweep.dup \in BOOLEAN
    BY <2>1 DEF Row, BelowCap, SweepState
  <2>3. PICK status \in DiscoveredStatus(job.hop, creds, job.sweep.dup) :
            job' = [pc |-> "add", sweep |-> job.sweep, parent |-> job.parent,
                    hops |-> job.hops,
                    d |-> DiscoveredDevice(job.hop, creds, job.sweep.dup, status)]
    BY <1>5 DEF VerifyDiscovered
  <2>4. DiscoveredDevice(job.hop, creds, job.sweep.dup, status) \in Device
    BY <2>1, <2>2, <2>3, DiscoveredDeviceType DEF WatcherTypeOK
  <2> HIDE DEF creds
  <2>5. job' \in JobState
    BY <2>1, <2>3, <2>4, SweepJobStates
  <2> QED
    BY <1>5, <1>a, <2>5 DEF VerifyDiscovered
<1>6. CASE InsertDiscovered
  <2>1. /\ job.sweep \in BelowCap /\ job.parent \in Row
        /\ job.hops \in SUBSET IPs /\ job.d \in Device
    BY <1>6, JobCases DEF InsertDiscovered, WatcherTypeOK
  <2>2. PICK created \in BOOLEAN :
            /\ IF created THEN CanInsert(job.d) /\ Insert(job.d) ELSE UNCHANGED storeVars
            /\ job' = [pc |-> "hops", parent |-> job.parent, hops |-> job.hops,
                       sweep |-> [job.sweep EXCEPT !.count = IF created THEN @ + 1 ELSE @]]
    <3>1. PICK ok \in Outcome("db") :
              LET created == ok /\ CanInsert(job.d)
              IN  /\ IF created THEN Insert(job.d) ELSE UNCHANGED storeVars
                  /\ job' = [pc |-> "hops", parent |-> job.parent, hops |-> job.hops,
                             sweep |-> [job.sweep EXCEPT !.count = IF created THEN @ + 1 ELSE @]]
      BY <1>6 DEF InsertDiscovered
    <3>2. CASE ok /\ CanInsert(job.d)
      BY <3>1, <3>2
    <3>3. CASE ~(ok /\ CanInsert(job.d))
      BY <3>1, <3>3
    <3> QED
      BY <3>2, <3>3
  <2>3. StoreTypeOK'
    BY <2>1, <2>2, InsertType DEF StoreTypeOK, storeVars
  <2>4. [job.sweep EXCEPT !.count = IF created THEN @ + 1 ELSE @] \in Sweeping
    <3>1. CASE created
      BY <2>1, <3>1, RoomBelowCap
    <3>2. CASE ~created
      <4>1. [job.sweep EXCEPT !.count = job.sweep.count] = job.sweep
        BY <2>1 DEF BelowCap, SweepState
      <4> QED
        BY <2>1, <3>2, <4>1, RoomBelowCap
    <3> QED
      BY <3>1, <3>2
  <2>5. job' \in JobState
    BY <2>1, <2>2, <2>4, SweepJobStates
  <2> QED
    BY <1>6, <2>3, <2>5, SetJob DEF InsertDiscovered, confVars
<1>7. CASE LeaveParent
  <2>1. job.sweep \in Sweeping
    BY <1>7, JobCases DEF LeaveParent, WatcherTypeOK
  <2>2. job' \in JobState
    BY <1>7, <2>1, SweepJobStates DEF LeaveParent
  <2> QED
    BY <1>7, <1>a, <2>2 DEF LeaveParent
<1>8. CASE FinishSweep
  <2>1. job' \in JobState
    BY <1>8, JobStates DEF FinishSweep
  <2> QED
    BY <1>8, <1>a, <2>1 DEF FinishSweep
<1> QED
  BY <1>1, <1>2, <1>3, <1>4, <1>5, <1>6, <1>7, <1>8

\* No step of config-watcher breaks the types of its state or of the tables.
LEMMA WatcherStepType ==
    ASSUME StoreTypeOK, WatcherTypeOK, WatcherNext
    PROVE  StoreTypeOK' /\ WatcherTypeOK'
<1>1. CASE WatcherCrash
  BY <1>1, JobStates DEF WatcherCrash, StoreTypeOK, storeVars, WatcherTypeOK, confVars
<1> QED
  BY <1>1, GatewayStepType, HealthStepType, ReconcileStepType, SweepStepType
     DEF WatcherNext, JobStep

-----------------------------------------------------------------------------
(***************************************************************************)
(* The composed system.                                                    *)
(***************************************************************************)
\* The system starts in a well-formed state.
LEMMA InitType ==
    ASSUME Init
    PROVE  TypeOK
<1>1. NetTypeOK
  <2>1. AcceptChoices \subseteq SUBSET Login
    BY SnmpAssumption
  <2> QED
    BY <2>1 DEF Init, NetInit, NetTypeOK
<1>2. StoreTypeOK
  <2>1. 0 \in 0 .. MaxId
    BY StoreAssumption
  <2> QED
    BY <2>1 DEF Init, StoreInit, StoreTypeOK, Settings, allowedPollingIntervals
<1>3. ApiTypeOK
  BY IdleType DEF Init, ApiInit, ApiTypeOK
<1>4. WatcherTypeOK
  BY JobStates DEF Init, WatcherInit, WatcherTypeOK, NoConf, Conf
<1> QED
  BY <1>1, <1>2, <1>3, <1>4 DEF TypeOK

\* Whatever the network does, a device accepts a set of logins.
LEMMA EnvironmentType ==
    ASSUME NetTypeOK, Environment
    PROVE  NetTypeOK'
<1>1. AcceptChoices \subseteq SUBSET Login
  BY SnmpAssumption
<1>2. CASE Calm
  BY <1>2 DEF Calm, NetTypeOK
<1>3. ASSUME NEW ip \in IPs, Reconfigure(ip)
      PROVE  NetTypeOK'
  BY <1>1, <1>3 DEF Reconfigure, NetTypeOK
<1> QED
  BY <1>2, <1>3 DEF Environment

\* Every step keeps the types.
LEMMA NextType ==
    ASSUME TypeOK, [Next]_vars
    PROVE  TypeOK'
<1> USE DEF TypeOK
<1>1. CASE Environment
  <2>1. NetTypeOK'
    BY <1>1, EnvironmentType
  <2>2. StoreTypeOK'
    BY <1>1 DEF Environment, StoreTypeOK, storeVars
  <2>3. ApiTypeOK'
    BY <1>1 DEF Environment, ApiTypeOK, apiVars
  <2>4. WatcherTypeOK'
    BY <1>1 DEF Environment, WatcherTypeOK, watcherVars, confVars
  <2> QED
    BY <2>1, <2>2, <2>3, <2>4
<1>2. CASE Api
  <2>1. NetTypeOK'
    BY <1>2 DEF Api, NetTypeOK, netVars
  <2>2. WatcherTypeOK'
    BY <1>2 DEF Api, WatcherTypeOK, watcherVars, confVars
  <2> QED
    BY <1>2, <2>1, <2>2, ApiStepType DEF Api
<1>3. CASE Watcher
  <2>1. NetTypeOK'
    BY <1>3 DEF Watcher, NetTypeOK, netVars
  <2>2. ApiTypeOK'
    BY <1>3 DEF Watcher, ApiTypeOK, apiVars
  <2> QED
    BY <1>3, <2>1, <2>2, WatcherStepType DEF Watcher
<1>4. CASE UNCHANGED vars
  <2> USE <1>4 DEF vars
  <2>1. NetTypeOK'
    BY DEF NetTypeOK, netVars
  <2>2. StoreTypeOK'
    BY DEF StoreTypeOK, storeVars
  <2>3. ApiTypeOK'
    BY DEF ApiTypeOK, apiVars
  <2>4. WatcherTypeOK'
    BY DEF WatcherTypeOK, watcherVars, confVars
  <2> QED
    BY <2>1, <2>2, <2>3, <2>4
<1> QED
  BY <1>1, <1>2, <1>3, <1>4 DEF Next

\* Both processes and the database stay well formed: no interleaving of
\* requests, jobs, crashes and failures brings a value into a column, a
\* handler or a job that it cannot hold, and no sweep exceeds its cap.
THEOREM TypeCorrect == Spec => []TypeOK
<1>1. Init => TypeOK
  BY InitType
<1>2. TypeOK /\ [Next]_vars => TypeOK'
  BY NextType
<1> QED
  BY <1>1, <1>2, PTL DEF Spec

-----------------------------------------------------------------------------
(***************************************************************************)
(* What telegraf is told to load.  The reload is a step of its own, but    *)
(* the one goroutine that writes the file is the one that asks for it, and *)
(* only after a write that reported no error.                              *)
(***************************************************************************)
ReloadInv ==
    /\ running # TornConf
    /\ job.pc = "reload" => conf # TornConf
    /\ job.pc = "write" => job.text # TornConf

\* Every other step of a job leaves the file and telegraf alone, and is not
\* on its way to a write or a reload.
Aside == job'.pc \notin {"write", "reload"} /\ UNCHANGED <<conf, running>>

LEMMA OtherJobSteps ==
    ASSUME WatcherTypeOK,
           WatcherNext, ~RenderConfig, ~FinishWrite, ~reloadTelegraf, ~TelegrafRestart
    PROVE  Aside
<1> USE DEF Aside, confVars, NoJob
<1>0. job \in JobState
  BY DEF WatcherTypeOK
<1>1. CASE DiscoverGateway \/ CreateGateway \/ probeAndUpdate
  BY <1>1 DEF DiscoverGateway, CreateGateway, probeAndUpdate
<1>2. CASE ProbeDefaults
  <2>1. job \in [pc : {"gwProbe"}, id : Ids, try : 1 .. 3]
    BY <1>0, <1>2, JobCases DEF ProbeDefaults
  <2> QED BY <1>2, <2>1 DEF ProbeDefaults
<1>3. CASE ProbeHealth
  <2>1. job \in [pc : {"health"}, todo : SUBSET Row]
    BY <1>0, <1>3, JobCases DEF ProbeHealth
  <2> QED BY <1>3, <2>1 DEF ProbeHealth
<1>4. CASE ListForHealth \/ WriteHealth \/ FinishHealth
  BY <1>4 DEF ListForHealth, WriteHealth, FinishHealth
<1>5. CASE ReadInterval \/ ReadDuplication \/ ListParents \/ WalkRoutes
  BY <1>5 DEF ReadInterval, ReadDuplication, ListParents, WalkRoutes
<1>6. ASSUME NEW hop \in IPs, ConsiderHop(hop)
      PROVE  Aside
  <2>1. job \in [pc : {"hops"}, sweep : Sweeping, parent : Row, hops : SUBSET IPs]
    BY <1>0, <1>6, JobCases DEF ConsiderHop
  <2> QED BY <1>6, <2>1 DEF ConsiderHop
<1>7. CASE VerifyDiscovered \/ InsertDiscovered \/ LeaveParent \/ FinishSweep
  BY <1>7 DEF VerifyDiscovered, InsertDiscovered, LeaveParent, FinishSweep
<1>8. CASE WatcherCrash
  BY <1>8 DEF WatcherCrash
<1> QED
  BY <1>1, <1>2, <1>3, <1>4, <1>5, <1>6, <1>7, <1>8 DEF WatcherNext, JobStep

\* Every step keeps the invariant, as long as telegraf does not restart by
\* itself and load the file in the middle of a write.
LEMMA ReloadStep ==
    ASSUME TypeOK, ReloadInv, [Next]_vars, "crash" \notin Faults
    PROVE  ReloadInv'
<1>1. CASE Watcher
  <2>1. CASE RenderConfig
    <3>1. \A n, rows : renderTelegrafConfig(n, rows) # TornConf
      BY DEF renderTelegrafConfig, TornConf
    <3> QED BY <2>1, <3>1 DEF RenderConfig, ReloadInv, NoJob
  <2>2. CASE FinishWrite
    BY <2>2 DEF FinishWrite, ReloadInv, NoJob
  <2>3. CASE reloadTelegraf
    BY <2>3 DEF reloadTelegraf, ReloadInv, NoJob
  <2>4. ~TelegrafRestart
    BY DEF TelegrafRestart
  <2>5. CASE Aside
    BY <2>5 DEF Aside, ReloadInv
  <2> QED
    BY <1>1, <2>1, <2>2, <2>3, <2>4, <2>5, OtherJobSteps DEF Watcher, TypeOK
<1>2. CASE UNCHANGED <<watcherVars, confVars>>
  BY <1>2 DEF watcherVars, confVars, ReloadInv
<1> QED
  BY <1>1, <1>2 DEF Next, Environment, Api, vars

\* writeIfChanged and reloadTelegraf never make telegraf load a truncated
\* file, for any number of devices, failed writes and failed reloads.
THEOREM ReloadSafe ==
    ASSUME "crash" \notin Faults
    PROVE  Spec => []ReloadSeesWholeFile
<1>1. Init => ReloadInv
  BY DEF Init, WatcherInit, ReloadInv, NoConf, TornConf, NoJob
<1>2. TypeOK /\ ReloadInv /\ [Next]_vars => ReloadInv'
  BY ReloadStep
<1>3. ReloadInv => ReloadSeesWholeFile
  BY DEF ReloadInv, ReloadSeesWholeFile
<1> QED
  BY <1>1, <1>2, <1>3, TypeCorrect, PTL DEF Spec
=============================================================================
