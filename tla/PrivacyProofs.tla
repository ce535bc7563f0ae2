---------------------------- MODULE PrivacyProofs ---------------------------
(***************************************************************************)
(* Sweeps stay on private addresses.  SweepStaysPrivate is not inductive:  *)
(* what is about to be inserted must be right while it waits in a request  *)
(* or in the sweep, which is what PrivacyInv adds.  Credentials are reused *)
(* only by those who asked for it: a sweep carries the setting it has read *)
(* through all its steps.                                                  *)
(***************************************************************************)
EXTENDS NetworkMonitorProofs

\* is_public_ip is right, and a sweep adds private addresses only.
Honest(d) ==
    /\ d.is_public_ip = IsPublic(d.ip)
    /\ d.discovered_via = "routing_table_sweep" => ~IsPublic(d.ip)

RowsHonest == \A r \in devices : Honest(r.d)

\* A row is honest before it is inserted, and a hop private once considered.
PostsHonest == \A s \in Slots : handlers[s].pc = "insert" => Honest(handlers[s].d)
FindsPrivate == job.pc = "found" => ~IsPublic(job.hop)
AddsHonest   == job.pc = "add" => Honest(job.d)

PrivacyInv == RowsHonest /\ PostsHonest /\ FindsPrivate /\ AddsHonest

\* Create keeps rows honest if the new one is.
LEMMA InsertHonest ==
    ASSUME RowsHonest, NEW d, Honest(d), Insert(d)
    PROVE  RowsHonest'
BY DEF RowsHonest, Insert, Honest

\* Update writes none of the columns involved.
LEMMA UpdateHonest ==
    ASSUME StoreTypeOK, RowsHonest, NEW id, NEW u, Update(id, u)
    PROVE  RowsHonest'
<1>1. ASSUME NEW r \in devices
      PROVE  Honest(SetColumns(r.d, u))
  <2>1. r.d \in Device
    BY DEF StoreTypeOK, Row
  <2>2. Honest(r.d)
    BY DEF RowsHonest
  <2> QED
    BY <2>1, <2>2, SetColumnsKeepsAddress DEF Honest
<1>2. ASSUME NEW q \in devices'
      PROVE  Honest(q.d)
  <2>1. PICK r \in devices : q = IF r.id = id THEN [r EXCEPT !.d = SetColumns(r.d, u)] ELSE r
    BY DEF Update
  <2>2. CASE r.id = id
    <3>1. r = [id |-> r.id, d |-> r.d]
      BY DEF StoreTypeOK, Row
    <3>2. [r EXCEPT !.d = SetColumns(r.d, u)] = [id |-> r.id, d |-> SetColumns(r.d, u)]
      BY <3>1
    <3> QED
      BY <1>1, <2>1, <2>2, <3>2
  <2>3. CASE r.id # id
    BY <2>1, <2>3 DEF RowsHonest
  <2> QED
    BY <2>2, <2>3
<1> QED
  BY <1>2 DEF RowsHonest, Honest

\* Requests keep rows honest, and prepare honest ones.
LEMMA ApiHonest ==
    ASSUME TypeOK, RowsHonest, PostsHonest, ApiNext
    PROVE  RowsHonest' /\ PostsHonest'
<1> USE DEF TypeOK
<1>1. ASSUME NEW s \in Slots, NEW h, handlers' = [handlers EXCEPT ![s] = h],
             h.pc = "insert" => Honest(h.d)
      PROVE  PostsHonest'
  <2>1. \A t \in Slots : handlers'[t] = IF t = s THEN h ELSE handlers[t]
    BY <1>1 DEF ApiTypeOK
  <2> QED
    BY <1>1, <2>1 DEF PostsHonest, Honest
<1>2. ASSUME UNCHANGED devices
      PROVE  RowsHonest'
  BY <1>2 DEF RowsHonest, Honest
<1>3. ASSUME NEW s \in Slots, PostProbe(s)
      PROVE  RowsHonest' /\ PostsHonest'
  <2>1. PICK req, status : handlers' = [handlers EXCEPT ![s] =
                                           [pc |-> "insert", d |-> NewDevice(req, status)]]
    BY <1>3 DEF PostProbe
  <2>2. Honest(NewDevice(req, status))
    BY DEF NewDevice, Honest
  <2>3. PostsHonest'
    BY <1>1, <2>1, <2>2
  <2> QED
    BY <1>2, <1>3, <2>3 DEF PostProbe, storeVars
<1>4. ASSUME NEW s \in Slots, PostInsert(s)
      PROVE  RowsHonest' /\ PostsHonest'
  <2>1. PostsHonest'
    BY <1>1, <1>4 DEF PostInsert, Idle
  <2>2. Honest(handlers[s].d)
    BY <1>4 DEF PostInsert, PostsHonest
  <2> QED
    BY <1>2, <1>4, <2>1, <2>2, InsertHonest DEF PostInsert, storeVars
<1>5. ASSUME NEW s \in Slots, PatchWrite(s)
      PROVE  RowsHonest' /\ PostsHonest'
  <2>1. PostsHonest'
    BY <1>1, <1>5 DEF PatchWrite
  <2> QED
    BY <1>2, <1>5, <2>1, UpdateHonest DEF PatchWrite, storeVars
<1>6. ASSUME NEW s \in Slots, PatchGet(s)
      PROVE  RowsHonest' /\ PostsHonest'
  <2>1. PostsHonest'
    BY <1>1, <1>6 DEF PatchGet, Idle
  <2> QED
    BY <1>2, <1>6, <2>1 DEF PatchGet, storeVars
<1>7. ASSUME NEW s \in Slots, PatchProbe(s)
      PROVE  RowsHonest' /\ PostsHonest'
  <2>1. PostsHonest'
    BY <1>1, <1>7 DEF PatchProbe
  <2> QED
    BY <1>2, <1>7, <2>1 DEF PatchProbe, storeVars
<1>8. ASSUME NEW s \in Slots, PatchStatus(s)
      PROVE  RowsHonest' /\ PostsHonest'
  <2>1. PostsHonest'
    BY <1>1, <1>8 DEF PatchStatus, Idle
  <2> QED
    BY <1>2, <1>8, <2>1, UpdateHonest DEF PatchStatus, storeVars
<1>9. ASSUME NEW id \in Ids, DeleteDevice(id)
      PROVE  RowsHonest' /\ PostsHonest'
  <2>1. RowsHonest'
    BY <1>9 DEF DeleteDevice, Remove, RowsHonest, Honest
  <2>2. PostsHonest'
    BY <1>9 DEF DeleteDevice, apiVars, PostsHonest, Honest
  <2> QED
    BY <2>1, <2>2
<1>10. CASE \/ \E seconds \in IntervalRequests : SetPollingInterval(seconds)
            \/ \E enabled \in DupRequests : SetCredentialDuplication(enabled)
  <2>1. UNCHANGED devices /\ UNCHANGED apiVars
    BY <1>10 DEF SetPollingInterval, SetCredentialDuplication, SetSetting
  <2>2. PostsHonest'
    BY <2>1 DEF apiVars, PostsHonest, Honest
  <2> QED
    BY <1>2, <2>1, <2>2
<1>11. CASE ApiCrash
  <2>1. PostsHonest'
    BY <1>11 DEF ApiCrash, Idle, PostsHonest
  <2> QED
    BY <1>2, <1>11, <2>1 DEF ApiCrash, storeVars
<1> QED
  BY <1>3, <1>4, <1>5, <1>6, <1>7, <1>8, <1>9, <1>10, <1>11 DEF ApiNext, ApiRequests, HandlerStep

\* A step of the job that ends neither before nor at an insertion.
LEMMA OtherJobs ==
    ASSUME job'.pc \notin {"found", "add"}
    PROVE  FindsPrivate' /\ AddsHonest'
BY DEF FindsPrivate, AddsHonest

\* The watcher considers private hops only, and prepares honest rows.
LEMMA JobHonest ==
    ASSUME TypeOK, FindsPrivate, AddsHonest, WatcherNext
    PROVE  FindsPrivate' /\ AddsHonest'
<1> USE DEF TypeOK
<1>1. ASSUME NEW hop \in IPs, ConsiderHop(hop)
      PROVE  FindsPrivate' /\ AddsHonest'
  <2>1. job = [pc |-> "hops", sweep |-> job.sweep, parent |-> job.parent, hops |-> job.hops]
    BY <1>1, JobCases DEF ConsiderHop, WatcherTypeOK
  <2>2. [job EXCEPT !.hops = job.hops \ {hop}].pc = "hops"
    BY <2>1
  <2>3. \/ job'.pc = "found" /\ job'.hop = hop /\ ~IsPublic(hop)
        \/ job'.pc = "hops"
    BY <1>1, <2>2 DEF ConsiderHop, shouldConsiderDiscoveredIP
  <2> QED
    BY <2>3 DEF FindsPrivate, AddsHonest, IsPublic
<1>2. CASE VerifyDiscovered
  <2>1. ~IsPublic(job.hop)
    BY <1>2 DEF VerifyDiscovered, FindsPrivate
  <2>2. PICK creds, status :
            /\ job'.pc = "add"
            /\ job'.d = DiscoveredDevice(job.hop, creds, job.sweep.dup, status)
    BY <1>2 DEF VerifyDiscovered
  <2>3. IsPublic(job.hop) = FALSE
    BY <2>1, IsPublicType
  <2>4. Honest(DiscoveredDevice(job.hop, creds, job.sweep.dup, status))
    BY <2>3 DEF DiscoveredDevice, Honest
  <2> QED
    BY <2>2, <2>4 DEF FindsPrivate, AddsHonest, Honest, IsPublic
<1>3. CASE ProbeDefaults
  <2>1. job = [pc |-> "gwProbe", id |-> job.id, try |-> job.try]
    BY <1>3, JobCases DEF ProbeDefaults, WatcherTypeOK
  <2>2. [job EXCEPT !.try = job.try + 1].pc = "gwProbe"
    BY <2>1
  <2>3. job'.pc \in {"gwProbe", "gwUpdate"}
    BY <1>3, <2>2 DEF ProbeDefaults
  <2> QED
    BY <2>3, OtherJobs
<1>4. CASE ProbeHealth
  <2>1. job = [pc |-> "health", todo |-> job.todo]
    BY <1>4, JobCases DEF ProbeHealth, WatcherTypeOK
  <2>2. \A rows : [job EXCEPT !.todo = rows].pc = "health"
    BY <2>1
  <2>3. job'.pc \in {"health", "healthWrite"}
    BY <1>4, <2>2 DEF ProbeHealth
  <2> QED
    BY <2>3, OtherJobs
<1>5. CASE \/ DiscoverGateway \/ CreateGateway \/ probeAndUpdate
           \/ ListForHealth \/ WriteHealth \/ FinishHealth
  BY <1>5, OtherJobs DEF DiscoverGateway, CreateGateway, probeAndUpdate,
                         ListForHealth, WriteHealth, FinishHealth, NoJob
<1>6. CASE ReadInterval \/ RenderConfig \/ FinishWrite \/ reloadTelegraf \/ WatcherCrash
  BY <1>6, OtherJobs DEF ReadInterval, RenderConfig, FinishWrite, reloadTelegraf,
                         WatcherCrash, NoJob
<1>7. CASE \/ ReadDuplication \/ ListParents \/ WalkRoutes
           \/ InsertDiscovered \/ LeaveParent \/ FinishSweep
  BY <1>7, OtherJobs DEF ReadDuplication, ListParents, WalkRoutes, InsertDiscovered,
                         LeaveParent, FinishSweep, NoJob
<1>8. CASE TelegrafRestart
  BY <1>8 DEF TelegrafRestart, watcherVars, FindsPrivate, AddsHonest, Honest, IsPublic
<1> QED
  BY <1>1, <1>2, <1>3, <1>4, <1>5, <1>6, <1>7, <1>8 DEF WatcherNext, JobStep

\* The watcher's own writes keep rows honest.
LEMMA WatcherHonest ==
    ASSUME TypeOK, RowsHonest, AddsHonest, WatcherNext
    PROVE  RowsHonest'
<1> USE DEF TypeOK
<1>1. ASSUME UNCHANGED storeVars
      PROVE  RowsHonest'
  BY <1>1 DEF storeVars, RowsHonest, Honest
<1>2. CASE CreateGateway
  <2>1. Honest(GatewayDevice)
    BY DEF GatewayDevice, Honest
  <2> QED
    BY <1>1, <1>2, <2>1, InsertHonest DEF CreateGateway
<1>3. CASE InsertDiscovered
  <2>1. Honest(job.d)
    BY <1>3 DEF InsertDiscovered, AddsHonest
  <2> QED
    BY <1>1, <1>3, <2>1, InsertHonest DEF InsertDiscovered
<1>4. CASE probeAndUpdate
  BY <1>1, <1>4, UpdateHonest DEF probeAndUpdate
<1>5. CASE WriteHealth
  BY <1>1, <1>5, UpdateHonest DEF WriteHealth
<1>6. CASE DiscoverGateway \/ ProbeDefaults \/ ListForHealth \/ ProbeHealth \/ FinishHealth
  BY <1>1, <1>6 DEF DiscoverGateway, ProbeDefaults, ListForHealth, ProbeHealth, FinishHealth
<1>7. CASE \/ ReadInterval \/ RenderConfig \/ FinishWrite \/ reloadTelegraf
           \/ TelegrafRestart \/ WatcherCrash
  BY <1>1, <1>7 DEF ReadInterval, RenderConfig, FinishWrite, reloadTelegraf,
                    TelegrafRestart, WatcherCrash
<1>8. CASE \/ ReadDuplication \/ ListParents \/ WalkRoutes
           \/ (\E hop \in IPs : ConsiderHop(hop))
           \/ VerifyDiscovered \/ LeaveParent \/ FinishSweep
  BY <1>1, <1>8 DEF ReadDuplication, ListParents, WalkRoutes, ConsiderHop,
                    VerifyDiscovered, LeaveParent, FinishSweep
<1> QED
  BY <1>2, <1>3, <1>4, <1>5, <1>6, <1>7, <1>8 DEF WatcherNext, JobStep

\* No interleaving of requests and sweeps lets a public address into the
\* table through a sweep, or falsifies is_public_ip.
THEOREM SweepPrivacy == Spec => []SweepStaysPrivate
<1>1. Init => PrivacyInv
  BY DEF Init, StoreInit, ApiInit, WatcherInit, Idle, NoJob, PrivacyInv, RowsHonest,
         PostsHonest, FindsPrivate, AddsHonest
<1>2. TypeOK /\ PrivacyInv /\ [Next]_vars => PrivacyInv'
  <2> SUFFICES ASSUME TypeOK, PrivacyInv, [Next]_vars
               PROVE  PrivacyInv'
    OBVIOUS
  <2>1. ASSUME UNCHANGED devices
        PROVE  RowsHonest'
    BY <2>1 DEF PrivacyInv, RowsHonest, Honest, IsPublic
  <2>2. ASSUME UNCHANGED handlers
        PROVE  PostsHonest'
    BY <2>2 DEF PrivacyInv, PostsHonest, Honest, IsPublic
  <2>3. ASSUME UNCHANGED job
        PROVE  FindsPrivate' /\ AddsHonest'
    BY <2>3 DEF PrivacyInv, FindsPrivate, AddsHonest, Honest, IsPublic
  <2>4. CASE Environment \/ UNCHANGED vars
    <3>1. UNCHANGED devices /\ UNCHANGED handlers /\ UNCHANGED job
      BY <2>4 DEF Environment, vars, storeVars, apiVars, watcherVars
    <3> QED
      BY <2>1, <2>2, <2>3, <3>1 DEF PrivacyInv
  <2>5. CASE Api
    <3>1. RowsHonest' /\ PostsHonest'
      BY <2>5, ApiHonest DEF Api, PrivacyInv
    <3>2. UNCHANGED job
      BY <2>5 DEF Api, watcherVars
    <3> QED
      BY <2>3, <3>1, <3>2 DEF PrivacyInv
  <2>6. CASE Watcher
    <3>1. RowsHonest' /\ FindsPrivate' /\ AddsHonest'
      BY <2>6, WatcherHonest, JobHonest DEF Watcher, PrivacyInv
    <3>2. UNCHANGED handlers
      BY <2>6 DEF Watcher, apiVars
    <3> QED
      BY <2>2, <3>1, <3>2 DEF PrivacyInv
  <2> QED
    BY <2>4, <2>5, <2>6 DEF Next
<1>3. PrivacyInv => SweepStaysPrivate
  BY DEF PrivacyInv, RowsHonest, FindsPrivate, Honest, SweepStaysPrivate
<1> QED
  BY <1>1, <1>2, <1>3, TypeCorrect, PTL DEF Spec

-----------------------------------------------------------------------------
SweepStages == {"parents", "hops", "found", "add"}

\* While the setting is off, so is every copy of it that a sweep carries.
OptInInv ==
    /\ job.pc = "list" => ~job.dup
    /\ job.pc \in SweepStages => ~job.sweep.dup
    /\ job.pc = "add" => job.d.snmp_version = "" /\ job.d.status = "pending"

\* Steps that end outside a sweep.
LEMMA OutsideSweep ==
    ASSUME job'.pc \notin SweepStages \cup {"list"}
    PROVE  OptInInv'
BY DEF OptInInv, SweepStages

\* Steps inside a sweep that keep what it carries.
LEMMA InsideSweep ==
    ASSUME OptInInv, job.pc \in SweepStages, job'.pc \in SweepStages \ {"add"},
           job'.sweep.dup = job.sweep.dup
    PROVE  OptInInv'
BY DEF OptInInv, SweepStages

LEMMA OptInStep ==
    ASSUME TypeOK, OptInInv, settings.dup = "0", WatcherNext
    PROVE  OptInInv'
<1> USE DEF TypeOK, SweepStages
<1>1. CASE \/ DiscoverGateway \/ CreateGateway \/ probeAndUpdate
           \/ ListForHealth \/ WriteHealth \/ FinishHealth
  BY <1>1, OutsideSweep DEF DiscoverGateway, CreateGateway, probeAndUpdate,
                            ListForHealth, WriteHealth, FinishHealth, NoJob
<1>2. CASE ReadInterval \/ RenderConfig \/ FinishWrite \/ reloadTelegraf \/ WatcherCrash
  BY <1>2, OutsideSweep DEF ReadInterval, RenderConfig, FinishWrite, reloadTelegraf,
                            WatcherCrash, NoJob
<1>3. CASE ProbeDefaults
  <2>1. job = [pc |-> "gwProbe", id |-> job.id, try |-> job.try]
    BY <1>3, JobCases DEF ProbeDefaults, WatcherTypeOK
  <2>2. [job EXCEPT !.try = job.try + 1].pc = "gwProbe"
    BY <2>1
  <2>3. job'.pc \in {"gwProbe", "gwUpdate"}
    BY <1>3, <2>2 DEF ProbeDefaults
  <2> QED
    BY <2>3, OutsideSweep
<1>4. CASE ProbeHealth
  <2>1. job = [pc |-> "health", todo |-> job.todo]
    BY <1>4, JobCases DEF ProbeHealth, WatcherTypeOK
  <2>2. \A rows : [job EXCEPT !.todo = rows].pc = "health"
    BY <2>1
  <2>3. job'.pc \in {"health", "healthWrite"}
    BY <1>4, <2>2 DEF ProbeHealth
  <2> QED
    BY <2>3, OutsideSweep
<1>5. CASE ReadDuplication
  <2>1. ~DupEnabled
    BY DEF DupEnabled
  <2>2. job' = NoJob \/ (job'.pc = "list" /\ job'.dup = DupEnabled)
    BY <1>5 DEF ReadDuplication
  <2>3. CASE job' = NoJob
    BY <2>3, OutsideSweep DEF NoJob
  <2>4. CASE job'.pc = "list" /\ job'.dup = DupEnabled
    <3>1. ~job'.dup
      BY <2>1, <2>4
    <3> QED BY <2>4, <3>1 DEF OptInInv
  <2> QED BY <2>2, <2>3, <2>4
<1>6. CASE ListParents
  <2>1. ~job.dup
    BY <1>6 DEF ListParents, OptInInv
  <2>2. job' = NoJob \/ (job'.pc = "parents" /\ job'.sweep.dup = job.dup)
    BY <1>6 DEF ListParents
  <2>3. CASE job' = NoJob
    BY <2>3, OutsideSweep DEF NoJob
  <2>4. CASE job'.pc = "parents" /\ job'.sweep.dup = job.dup
    <3>1. ~job'.sweep.dup
      BY <2>1, <2>4
    <3> QED BY <2>4, <3>1 DEF OptInInv
  <2> QED BY <2>2, <2>3, <2>4
<1>7. CASE WalkRoutes
  <2>1. job.sweep = [dup |-> job.sweep.dup, todo |-> job.sweep.todo, count |-> job.sweep.count]
    BY <1>7, JobCases DEF WalkRoutes, WatcherTypeOK, Sweeping, SweepState
  <2>2. \A rows : [job.sweep EXCEPT !.todo = rows].dup = job.sweep.dup
    BY <2>1
  <2>3. PICK rows, hops, parent :
            \/ job' = [pc |-> "hops", sweep |-> [job.sweep EXCEPT !.todo = rows],
                        parent |-> parent, hops |-> hops]
            \/ job' = [pc |-> "parents", sweep |-> [job.sweep EXCEPT !.todo = rows]]
    BY <1>7, Zenon DEF WalkRoutes
  <2> DEFINE sweep == [job.sweep EXCEPT !.todo = rows]
  <2>4. job'.pc \in {"hops", "parents"} /\ job'.sweep = sweep
    <3> HIDE DEF sweep
    <3>1. \/ job' = [pc |-> "hops", sweep |-> sweep, parent |-> parent, hops |-> hops]
          \/ job' = [pc |-> "parents", sweep |-> sweep]
      BY <2>3 DEF sweep
    <3> QED BY <3>1
  <2>5. job.pc = "parents" /\ job'.sweep.dup = job.sweep.dup
    BY <1>7, <2>2, <2>4, Zenon DEF WalkRoutes
  <2> QED
    BY <2>4, <2>5, InsideSweep
<1>8. ASSUME NEW hop \in IPs, ConsiderHop(hop)
      PROVE  OptInInv'
  <2>1. job = [pc |-> "hops", sweep |-> job.sweep, parent |-> job.parent, hops |-> job.hops]
    BY <1>8, JobCases DEF ConsiderHop, WatcherTypeOK
  <2>2. \A hops : /\ [job EXCEPT !.hops = hops].pc = "hops"
                  /\ [job EXCEPT !.hops = hops].sweep = job.sweep
    BY <2>1
  <2>3. job.pc = "hops" /\ job'.pc \in {"found", "hops"} /\ job'.sweep = job.sweep
    BY <1>8, <2>2 DEF ConsiderHop
  <2> QED
    BY <2>3, InsideSweep
<1>9. CASE VerifyDiscovered
  <2>1. job.pc = "found" /\ ~job.sweep.dup
    BY <1>9 DEF VerifyDiscovered, OptInInv
  <2> DEFINE creds == decryptCredentials(watcherKey, job.parent.d)
  <2>2. PICK status \in DiscoveredStatus(job.hop, creds, job.sweep.dup) :
            /\ job'.pc = "add" /\ job'.sweep = job.sweep
            /\ job'.d = DiscoveredDevice(job.hop, creds, job.sweep.dup, status)
    BY <1>9 DEF VerifyDiscovered
  <2>3. status = "pending"
    BY <2>1, <2>2 DEF DiscoveredStatus
  <2>4. job'.d.snmp_version = "" /\ job'.d.status = "pending"
    <3>1. \A dup : /\ DiscoveredDevice(job.hop, creds, dup, status).status = status
                   /\ DiscoveredDevice(job.hop, creds, dup, status).snmp_version
                          = IF dup THEN creds.version ELSE ""
      BY Zenon DEF DiscoveredDevice
    <3> HIDE DEF creds
    <3> QED BY <2>1, <2>2, <2>3, <3>1, Zenon
  <2> QED
    BY <2>1, <2>2, <2>4 DEF OptInInv
<1>10. CASE InsertDiscovered
  <2>1. job.sweep = [dup |-> job.sweep.dup, todo |-> job.sweep.todo, count |-> job.sweep.count]
    BY <1>10, JobCases DEF InsertDiscovered, WatcherTypeOK, BelowCap, SweepState
  <2>2. \A n : [job.sweep EXCEPT !.count = n].dup = job.sweep.dup
    BY <2>1
  <2>3. PICK n : job' = [pc |-> "hops", parent |-> job.parent, hops |-> job.hops,
                         sweep |-> [job.sweep EXCEPT !.count = n]]
    BY <1>10, Zenon DEF InsertDiscovered
  <2>4. job'.pc = "hops" /\ job'.sweep = [job.sweep EXCEPT !.count = n]
    BY <2>3, Zenon
  <2>5. job.pc = "add" /\ job'.sweep.dup = job.sweep.dup
    BY <1>10, <2>2, <2>4, Zenon DEF InsertDiscovered
  <2> QED
    BY <2>4, <2>5, InsideSweep
<1>11. CASE LeaveParent
  BY <1>11, InsideSweep DEF LeaveParent
<1>12. CASE FinishSweep
  BY <1>12, OutsideSweep DEF FinishSweep, NoJob
<1>13. CASE TelegrafRestart
  BY <1>13 DEF TelegrafRestart, watcherVars, OptInInv
<1> QED
  BY <1>1, <1>2, <1>3, <1>4, <1>5, <1>6, <1>7, <1>8, <1>9, <1>10, <1>11, <1>12, <1>13
     DEF WatcherNext, JobStep

\* Without anybody opting in, runDiscoverySweep never reuses a credential,
\* for any number of devices and sweeps.
THEOREM OptInSafe == Spec => OptInOnly
<1>1. Init => OptInInv
  BY DEF Init, WatcherInit, OptInInv, NoJob, SweepStages
<1>2. TypeOK /\ OptInInv /\ settings.dup = "0" /\ [Next]_vars => OptInInv'
  <2>1. UNCHANGED job /\ OptInInv => OptInInv'
    BY DEF OptInInv
  <2>2. Environment \/ Api \/ UNCHANGED vars => UNCHANGED job
    BY DEF Environment, Api, vars, watcherVars
  <2> QED
    BY <2>1, <2>2, OptInStep DEF Next, Watcher
<1>3. OptInInv => (job.pc = "add" => job.d.snmp_version = "" /\ job.d.status = "pending")
  BY DEF OptInInv
<1> QED
  BY <1>1, <1>2, <1>3, TypeCorrect, PTL DEF Spec, OptInOnly

-----------------------------------------------------------------------------
\* A job comes to its insertion by probing the device it has found, and by no
\* other step; a new key comes with a new job.
LEMMA OnlyVerifyAdds ==
    ASSUME TypeOK, [Next]_vars, job'.pc = "add"
    PROVE  VerifyDiscovered \/ UNCHANGED <<job, watcherKey>>
<1> USE DEF TypeOK
<1> DEFINE Goal == VerifyDiscovered \/ UNCHANGED <<job, watcherKey>>
<1>1. CASE Environment \/ Api \/ UNCHANGED vars
  BY <1>1 DEF Environment, Api, vars, watcherVars
<1>2. CASE WatcherNext
  <2>1. CASE \/ DiscoverGateway \/ CreateGateway \/ probeAndUpdate
             \/ ListForHealth \/ WriteHealth \/ FinishHealth
    BY <2>1 DEF DiscoverGateway, CreateGateway, probeAndUpdate,
                ListForHealth, WriteHealth, FinishHealth, NoJob
  <2>2. CASE ReadInterval \/ RenderConfig \/ FinishWrite \/ reloadTelegraf \/ WatcherCrash
    BY <2>2 DEF ReadInterval, RenderConfig, FinishWrite, reloadTelegraf, WatcherCrash, NoJob
  <2>3. CASE \/ ReadDuplication \/ ListParents \/ WalkRoutes
             \/ InsertDiscovered \/ LeaveParent \/ FinishSweep
    BY <2>3 DEF ReadDuplication, ListParents, WalkRoutes, InsertDiscovered,
                LeaveParent, FinishSweep, NoJob
  <2>4. CASE ProbeDefaults
    <3>1. job = [pc |-> "gwProbe", id |-> job.id, try |-> job.try]
      BY <2>4, JobCases DEF ProbeDefaults, WatcherTypeOK
    <3>2. [job EXCEPT !.try = job.try + 1].pc = "gwProbe"
      BY <3>1
    <3> QED BY <2>4, <3>2 DEF ProbeDefaults
  <2>5. CASE ProbeHealth
    <3>1. job = [pc |-> "health", todo |-> job.todo]
      BY <2>5, JobCases DEF ProbeHealth, WatcherTypeOK
    <3>2. \A rows : [job EXCEPT !.todo = rows].pc = "health"
      BY <3>1
    <3> QED BY <2>5, <3>2 DEF ProbeHealth
  <2>6. ASSUME NEW hop \in IPs, ConsiderHop(hop)
        PROVE  Goal
    <3>1. job = [pc |-> "hops", sweep |-> job.sweep, parent |-> job.parent, hops |-> job.hops]
      BY <2>6, JobCases DEF ConsiderHop, WatcherTypeOK
    <3>2. \A hops : [job EXCEPT !.hops = hops].pc = "hops"
      BY <3>1
    <3> QED BY <2>6, <3>2 DEF ConsiderHop
  <2>7. CASE TelegrafRestart
    BY <2>7 DEF TelegrafRestart, watcherVars
  <2> QED
    BY <1>2, <2>1, <2>2, <2>3, <2>4, <2>5, <2>6, <2>7 DEF WatcherNext, JobStep
<1> QED
  BY <1>1, <1>2 DEF Next, Watcher

\* What the sweep has tried is what DiscoveredDevice records, sealed so that
\* the watcher can open it again.
LEMMA VerifyRecords ==
    ASSUME VerifyDiscovered
    PROVE  AttemptIsRecorded'
<1> DEFINE parent == job.parent.d
           creds  == decryptCredentials(watcherKey, parent)
           dup    == job.sweep.dup
           text   == IF dup THEN creds.community ELSE ""
<1>1. PICK status : job' = [pc |-> "add", sweep |-> job.sweep, parent |-> job.parent,
                            hops |-> job.hops,
                            d |-> DiscoveredDevice(job.hop, creds, dup, status)]
  BY DEF VerifyDiscovered
<1> DEFINE new == DiscoveredDevice(job.hop, creds, dup, status)
<1>2. /\ new.community = Encrypt(watcherKey, text)
      /\ new.v3 = Encrypt(watcherKey, "")
      /\ new.snmp_version = IF dup THEN creds.version ELSE ""
  BY DEF DiscoveredDevice
<1>3. /\ creds.version = parent.snmp_version
      /\ creds.community = Decrypt(watcherKey, parent.community)
  BY DEF decryptCredentials, Credentials
<1> HIDE DEF creds, new, dup
<1>4. CanDecrypt(watcherKey, new)
  BY <1>2, EncryptOpens DEF CanDecrypt
<1>5. ASSUME dup, parent.snmp_version # "v3"
      PROVE  LoginOf(decryptCredentials(watcherKey, new)) = LoginOf(decryptCredentials(watcherKey, parent))
  <2>1. /\ new.snmp_version = parent.snmp_version
        /\ Decrypt(watcherKey, new.community) = Decrypt(watcherKey, parent.community)
    BY <1>2, <1>3, <1>5, EncryptOpens
  <2>2. /\ decryptCredentials(watcherKey, new).version = parent.snmp_version
        /\ decryptCredentials(watcherKey, new).community = Decrypt(watcherKey, parent.community)
    BY <2>1 DEF decryptCredentials, Credentials
  <2>3. /\ decryptCredentials(watcherKey, parent).version = parent.snmp_version
        /\ decryptCredentials(watcherKey, parent).community = Decrypt(watcherKey, parent.community)
    BY DEF decryptCredentials, Credentials
  <2> HIDE DEF parent
  <2> QED
    BY <1>5, <2>2, <2>3 DEF LoginOf
<1>6. /\ job'.d = new /\ job'.parent = job.parent /\ job'.sweep = job.sweep
      /\ watcherKey' = watcherKey
  BY <1>1 DEF VerifyDiscovered, new
<1> QED
  BY <1>4, <1>5, <1>6 DEF AttemptIsRecorded, CanDecrypt, LoginOf, decryptCredentials, dup

\* A status that a sweep gives a new device is the verdict on credentials that
\* the row holds and the watcher can open, whatever restarts and changes of key
\* come between.
THEOREM AttemptsRecorded == Spec => []AttemptIsRecorded
<1>1. Init => AttemptIsRecorded
  BY DEF Init, WatcherInit, NoJob, AttemptIsRecorded
<1>2. TypeOK /\ AttemptIsRecorded /\ [Next]_vars => AttemptIsRecorded'
  <2> SUFFICES ASSUME TypeOK, AttemptIsRecorded, [Next]_vars, job'.pc = "add"
               PROVE  AttemptIsRecorded'
    BY DEF AttemptIsRecorded
  <2>1. CASE VerifyDiscovered
    BY <2>1, VerifyRecords
  <2>2. CASE UNCHANGED <<job, watcherKey>>
    BY <2>2 DEF AttemptIsRecorded
  <2> QED
    BY <2>1, <2>2, OnlyVerifyAdds
<1> QED
  BY <1>1, <1>2, TypeCorrect, PTL DEF Spec
=============================================================================
