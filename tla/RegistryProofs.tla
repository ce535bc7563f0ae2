--------------------------- MODULE RegistryProofs ---------------------------
(***************************************************************************)
(* The devices table as the writers that share it see it: the composed     *)
(* system implements DeviceRegistry, and an id kept by a request or a job  *)
(* never comes to name another device.  Both rest on one invariant about   *)
(* the pairs (id, address), RegistryInv, which the steps of the writers    *)
(* are first reduced to.  Then what the writers put into the columns:      *)
(* settings are the operators', and statuses that have come to tell the    *)
(* truth go on doing so.                                                   *)
(***************************************************************************)
EXTENDS NetworkMonitorProofs

Held == HeldByApi \cup HeldByWatcher

\* What a step may do to the pairs in the table.
Adds(ip) ==
    /\ \A e \in Registered : e.ip # ip
    /\ lastId + 1 \in Ids
    /\ Registered' = Registered \cup {[id |-> lastId + 1, ip |-> ip]}
    /\ lastId' = lastId + 1

Drops(id) ==
    /\ Registered' = {e \in Registered : e.id # id}
    /\ lastId' = lastId

Keeps == Registered' = Registered /\ lastId' = lastId

TableStep == (\E ip \in IPs : Adds(ip)) \/ (\E id \in Ids : Drops(id)) \/ Keeps

-----------------------------------------------------------------------------
\* Create adds one pair, under an id that was never used.
LEMMA InsertAdds ==
    ASSUME NEW d \in Device, CanInsert(d), Insert(d)
    PROVE  TableStep
<1>1. d.ip \in IPs
  BY DEF Device
<1>2. \A e \in Registered : e.ip # d.ip
  BY DEF Registered, CanInsert, RowsWithIP
<1>3. Registered' = Registered \cup {[id |-> lastId + 1, ip |-> d.ip]}
  <2> DEFINE row == [id |-> NextId, d |-> d]
  <2>1. row.id = lastId + 1 /\ row.d.ip = d.ip
    BY DEF NextId
  <2>2. devices' = devices \cup {row}
    BY DEF Insert
  <2> HIDE DEF row
  <2>3. Registered' = Registered \cup {[id |-> row.id, ip |-> row.d.ip]}
    BY <2>2 DEF Registered
  <2> QED
    BY <2>1, <2>3
<1> QED
  BY <1>1, <1>2, <1>3 DEF TableStep, Adds, CanInsert, Insert, NextId

\* Update changes no pair: the address is not one of its columns.
LEMMA UpdateKeeps ==
    ASSUME StoreTypeOK, NEW id, NEW u, Update(id, u)
    PROVE  TableStep
<1> DEFINE new(r) == IF r.id = id THEN [r EXCEPT !.d = SetColumns(r.d, u)] ELSE r
<1>1. devices' = {new(r) : r \in devices}
  BY DEF Update
<1>2. ASSUME NEW r \in devices
      PROVE  new(r).id = r.id /\ new(r).d.ip = r.d.ip
  <2>1. r \in Row /\ r.d \in Device
    BY DEF StoreTypeOK, Row
  <2>2. SetColumns(r.d, u).ip = r.d.ip
    BY <2>1, SetColumnsKeepsAddress
  <2>3. r = [id |-> r.id, d |-> r.d]
    BY <2>1 DEF Row
  <2>4. [r EXCEPT !.d = SetColumns(r.d, u)] = [id |-> r.id, d |-> SetColumns(r.d, u)]
    BY <2>3
  <2> QED
    BY <2>2, <2>4
<1> HIDE DEF new
<1>3. Registered' = Registered
  BY <1>1, <1>2 DEF Registered
<1> QED
  BY <1>3 DEF TableStep, Keeps, Update

\* Delete drops the pairs with that id.
LEMMA RemoveDrops ==
    ASSUME NEW id \in Ids, Remove(id)
    PROVE  TableStep
BY DEF TableStep, Drops, Remove, Registered

\* A step that leaves the table alone.
LEMMA UnchangedKeeps ==
    ASSUME UNCHANGED <<devices, lastId>>
    PROVE  TableStep
BY DEF TableStep, Keeps, Registered

\* Every step of the system is one of these on the pairs.
LEMMA NextIsTableStep ==
    ASSUME TypeOK, [Next]_vars
    PROVE  TableStep
<1> USE DEF TypeOK
<1>1. CASE UNCHANGED storeVars
  BY <1>1, UnchangedKeeps DEF storeVars
<1>2. CASE ApiNext
  <2>1. ASSUME NEW s \in Slots, PostInsert(s)
        PROVE  TableStep
    <3>1. handlers[s].d \in Device
      BY <2>1, HandlerCases DEF PostInsert
    <3>2. \/ CanInsert(handlers[s].d) /\ Insert(handlers[s].d)
          \/ UNCHANGED storeVars
      BY <2>1 DEF PostInsert
    <3> QED
      BY <1>1, <3>1, <3>2, InsertAdds
  <2>2. ASSUME NEW s \in Slots, PatchWrite(s)
        PROVE  TableStep
    BY <1>1, <2>2, UpdateKeeps DEF PatchWrite
  <2>3. ASSUME NEW s \in Slots, PatchStatus(s)
        PROVE  TableStep
    BY <1>1, <2>3, UpdateKeeps DEF PatchStatus
  <2>4. ASSUME NEW id \in Ids, DeleteDevice(id)
        PROVE  TableStep
    BY <2>4, RemoveDrops DEF DeleteDevice
  <2>5. ASSUME NEW s \in Slots, PostProbe(s) \/ PatchGet(s) \/ PatchProbe(s)
        PROVE  TableStep
    BY <1>1, <2>5 DEF PostProbe, PatchGet, PatchProbe
  <2>6. CASE \/ \E seconds \in IntervalRequests : SetPollingInterval(seconds)
             \/ \E enabled \in DupRequests : SetCredentialDuplication(enabled)
    BY <2>6, UnchangedKeeps DEF SetPollingInterval, SetCredentialDuplication, SetSetting
  <2>7. CASE ApiCrash
    BY <1>1, <2>7 DEF ApiCrash
  <2> QED
    BY <1>2, <2>1, <2>2, <2>3, <2>4, <2>5, <2>6, <2>7 DEF ApiNext, ApiRequests, HandlerStep
<1>3. CASE WatcherNext
  <2>1. CASE CreateGateway
    <3>1. GatewayDevice \in Device
      BY GatewayDeviceType DEF WatcherTypeOK
    <3>2. \/ CanInsert(GatewayDevice) /\ Insert(GatewayDevice)
          \/ UNCHANGED storeVars
      BY <2>1 DEF CreateGateway
    <3> QED
      BY <1>1, <3>1, <3>2, InsertAdds
  <2>2. CASE InsertDiscovered
    <3>1. job.d \in Device
      BY <2>2, JobCases DEF InsertDiscovered, WatcherTypeOK
    <3>2. \/ CanInsert(job.d) /\ Insert(job.d)
          \/ UNCHANGED storeVars
      BY <2>2 DEF InsertDiscovered
    <3> QED
      BY <1>1, <3>1, <3>2, InsertAdds
  <2>3. CASE probeAndUpdate
    BY <1>1, <2>3, UpdateKeeps DEF probeAndUpdate
  <2>4. CASE WriteHealth
    BY <1>1, <2>4, UpdateKeeps DEF WriteHealth
  <2>5. CASE DiscoverGateway \/ ProbeDefaults \/ ListForHealth \/ ProbeHealth \/ FinishHealth
    BY <1>1, <2>5 DEF DiscoverGateway, ProbeDefaults, ListForHealth, ProbeHealth, FinishHealth
  <2>6. CASE \/ ReadInterval \/ RenderConfig \/ FinishWrite \/ reloadTelegraf
             \/ TelegrafRestart \/ WatcherCrash
    BY <1>1, <2>6 DEF ReadInterval, RenderConfig, FinishWrite, reloadTelegraf,
                      TelegrafRestart, WatcherCrash
  <2>7. CASE \/ ReadDuplication \/ ListParents \/ WalkRoutes
             \/ (\E hop \in IPs : ConsiderHop(hop))
             \/ VerifyDiscovered \/ LeaveParent \/ FinishSweep
    BY <1>1, <2>7 DEF ReadDuplication, ListParents, WalkRoutes, ConsiderHop,
                      VerifyDiscovered, LeaveParent, FinishSweep
  <2> QED
    BY <1>3, <2>1, <2>2, <2>3, <2>4, <2>5, <2>6, <2>7 DEF WatcherNext, JobStep
<1> QED
  BY <1>1, <1>2, <1>3 DEF Next, Environment, Api, Watcher, vars

-----------------------------------------------------------------------------
\* Ids are given out in order, and no two pairs share one.
IdsGivenInOrder ==
    \A e \in Registered : /\ e \in [id : Ids, ip : IPs]
                          /\ e.id <= lastId
                          /\ \A f \in Registered : f.id = e.id => f = e

\* Nobody keeps an id that was not given out.
HeldIdsGiven == \A e \in Held : e.id \in Ids /\ e.id <= lastId

RegistryInv == IdsGivenInOrder /\ HeldIdsGiven /\ HandlesNameSameDevice

\* The table's part of the invariant is kept by every step.
LEMMA IdsStep ==
    ASSUME TypeOK, IdsGivenInOrder, TableStep
    PROVE  IdsGivenInOrder'
<1>1. lastId \in Nat /\ MaxId \in Nat
  BY StoreAssumption DEF TypeOK, StoreTypeOK
<1>2. ASSUME NEW ip \in IPs, Adds(ip)
      PROVE  IdsGivenInOrder'
  <2> DEFINE new == [id |-> lastId + 1, ip |-> ip]
  <2>1. new \in [id : Ids, ip : IPs] /\ new.id = lastId + 1
    BY <1>2 DEF Adds
  <2>2. \A e \in Registered : e.id \in Ids /\ e.id <= lastId /\ e.id # lastId + 1
    BY <1>1 DEF IdsGivenInOrder, Ids
  <2>3. Registered' = Registered \cup {new} /\ lastId' = lastId + 1
    BY <1>2 DEF Adds
  <2> HIDE DEF new
  <2>4. ASSUME NEW e \in Registered'
        PROVE  /\ e \in [id : Ids, ip : IPs]
               /\ \A f \in Registered' : f.id = e.id => f = e
    BY <2>1, <2>2, <2>3 DEF IdsGivenInOrder
  <2>5. ASSUME NEW e \in Registered'
        PROVE  e.id <= lastId'
    BY <1>1, <2>1, <2>2, <2>3 DEF Ids
  <2> QED
    BY <2>4, <2>5 DEF IdsGivenInOrder
<1>3. ASSUME NEW id \in Ids, Drops(id)
      PROVE  IdsGivenInOrder'
  BY <1>3 DEF Drops, IdsGivenInOrder
<1>4. CASE Keeps
  BY <1>4 DEF Keeps, IdsGivenInOrder
<1> QED
  BY <1>2, <1>3, <1>4 DEF TableStep

-----------------------------------------------------------------------------
\* A request comes by a pair only by re-reading the row.
LEMMA ApiHolds ==
    ASSUME TypeOK, ApiNext
    PROVE  HeldByApi' \subseteq HeldByApi \cup Registered'
<1> USE DEF TypeOK
<1> DEFINE Pairs(h) == (IF h.pc = "probe" THEN {[id |-> h.id, ip |-> h.d.ip]} ELSE {}) \cup
                       (IF h.pc = "status" THEN {[id |-> h.id, ip |-> h.ip]} ELSE {})
<1>1. HeldByApi = UNION {Pairs(handlers[s]) : s \in Slots}
  BY DEF HeldByApi
<1>2. HeldByApi' = UNION {Pairs(handlers'[s]) : s \in Slots}
  BY DEF HeldByApi
<1>3. Pairs(Idle) = {}
  BY DEF Idle
<1> HIDE DEF Pairs
\* it is enough to look at the slot that moves
<1>4. ASSUME NEW s \in Slots, NEW h, handlers' = [handlers EXCEPT ![s] = h],
             Pairs(h) \subseteq Pairs(handlers[s]) \cup Registered'
      PROVE  HeldByApi' \subseteq HeldByApi \cup Registered'
  <2>1. \A t \in Slots : handlers'[t] = IF t = s THEN h ELSE handlers[t]
    BY <1>4 DEF ApiTypeOK
  <2>2. \A t \in Slots : Pairs(handlers'[t]) \subseteq Pairs(handlers[t]) \cup Registered'
    BY <1>4, <2>1
  <2> QED
    BY <1>1, <1>2, <2>2
<1>5. ASSUME NEW s \in Slots, PostInsert(s) \/ PatchStatus(s)
      PROVE  HeldByApi' \subseteq HeldByApi \cup Registered'
  BY <1>3, <1>4, <1>5 DEF PostInsert, PatchStatus
<1>6. ASSUME NEW s \in Slots, PostProbe(s)
      PROVE  HeldByApi' \subseteq HeldByApi \cup Registered'
  <2>1. PICK d : handlers' = [handlers EXCEPT ![s] = [pc |-> "insert", d |-> d]]
    BY <1>6 DEF PostProbe
  <2>2. Pairs([pc |-> "insert", d |-> d]) = {}
    BY DEF Pairs
  <2> QED
    BY <1>4, <2>1, <2>2
<1>7. ASSUME NEW s \in Slots, PatchWrite(s)
      PROVE  HeldByApi' \subseteq HeldByApi \cup Registered'
  <2>1. PICK id \in Ids, req \in PatchRequests :
            handlers' = [handlers EXCEPT ![s] =
                            [pc |-> "get", id |-> id, reprobe |-> Reprobes(req)]]
    BY <1>7 DEF PatchWrite
  <2>2. Pairs([pc |-> "get", id |-> id, reprobe |-> Reprobes(req)]) = {}
    BY DEF Pairs
  <2> QED
    BY <1>4, <2>1, <2>2
<1>8. ASSUME NEW s \in Slots, PatchGet(s)
      PROVE  HeldByApi' \subseteq HeldByApi \cup Registered'
  <2>1. ASSUME NEW r \in devices,
               handlers' = [handlers EXCEPT ![s] = [pc |-> "probe", id |-> r.id, d |-> r.d]]
        PROVE  HeldByApi' \subseteq HeldByApi \cup Registered'
    <3>1. Pairs([pc |-> "probe", id |-> r.id, d |-> r.d]) = {[id |-> r.id, ip |-> r.d.ip]}
      BY DEF Pairs
    <3>2. [id |-> r.id, ip |-> r.d.ip] \in Registered'
      BY <1>8 DEF PatchGet, Registered, storeVars
    <3> QED
      BY <1>4, <2>1, <3>1, <3>2
  <2>2. CASE handlers' = [handlers EXCEPT ![s] = Idle]
    BY <1>3, <1>4, <2>2
  <2> QED
    BY <1>8, <2>1, <2>2 DEF PatchGet, RowsWithId
<1>9. ASSUME NEW s \in Slots, PatchProbe(s)
      PROVE  HeldByApi' \subseteq HeldByApi \cup Registered'
  <2>1. PICK status :
            handlers' = [handlers EXCEPT ![s] =
                            [pc |-> "status", id |-> handlers[s].id,
                             ip |-> handlers[s].d.ip, status |-> status]]
    BY <1>9 DEF PatchProbe
  <2>2. Pairs([pc |-> "status", id |-> handlers[s].id,
               ip |-> handlers[s].d.ip, status |-> status])
            = {[id |-> handlers[s].id, ip |-> handlers[s].d.ip]}
    BY DEF Pairs
  <2>3. Pairs(handlers[s]) = {[id |-> handlers[s].id, ip |-> handlers[s].d.ip]}
    BY <1>9 DEF Pairs, PatchProbe
  <2> QED
    BY <1>4, <2>1, <2>2, <2>3
<1>10. CASE ApiCrash
  <2>1. \A s \in Slots : handlers'[s] = Idle
    BY <1>10 DEF ApiCrash
  <2> QED
    BY <1>2, <1>3, <2>1
<1>11. CASE UNCHANGED apiVars
  BY <1>1, <1>2, <1>11 DEF apiVars
<1> QED
  BY <1>5, <1>6, <1>7, <1>8, <1>9, <1>10, <1>11
     DEF ApiNext, ApiRequests, HandlerStep, DeleteDevice, SetPollingInterval, SetCredentialDuplication

\* The rows a job keeps, by how far it is.
LEMMA HeldRowsCases ==
    ASSUME NEW j
    PROVE  /\ j.pc = "health" => HeldRows(j) = j.todo
           /\ j.pc = "healthWrite" => HeldRows(j) = j.todo \cup {j.r}
           /\ j.pc = "parents" => HeldRows(j) = j.sweep.todo
           /\ j.pc \in {"hops", "found", "add"} => HeldRows(j) = j.sweep.todo \cup {j.parent}
           /\ j.pc \notin {"health", "healthWrite", "parents", "hops", "found", "add"}
                  => HeldRows(j) = {}
BY DEF HeldRows

\* A job comes by rows only by listing the table.
LEMMA JobHoldsRows ==
    ASSUME TypeOK, WatcherNext
    PROVE  HeldRows(job') \subseteq HeldRows(job) \cup devices'
<1> USE DEF TypeOK
<1> DEFINE Goal == HeldRows(job') \subseteq HeldRows(job) \cup devices'
<1>1. ASSUME job'.pc \notin {"health", "healthWrite", "parents", "hops", "found", "add"}
      PROVE  Goal
  BY <1>1, HeldRowsCases
<1>2. CASE ListForHealth
  <2>1. CASE job' = NoJob
    BY <1>1, <2>1 DEF NoJob
  <2>2. CASE job' = [pc |-> "health", todo |-> HealthCandidates]
    <3>1. HeldRows(job') = HealthCandidates
      BY <2>2, HeldRowsCases
    <3> QED
      BY <1>2, <3>1 DEF ListForHealth, HealthCandidates, storeVars
  <2> QED
    BY <1>2, <2>1, <2>2 DEF ListForHealth
<1>3. CASE ProbeHealth
  <2>1. job.pc = "health" /\ HeldRows(job) = job.todo /\ job = [pc |-> "health", todo |-> job.todo]
    BY <1>3, HeldRowsCases, JobCases DEF ProbeHealth, WatcherTypeOK
  <2>2. PICK r \in job.todo, status \in {"active", "failed"} :
            \/ job' = [job EXCEPT !.todo = job.todo \ {r}]
            \/ job' = [pc |-> "healthWrite", todo |-> job.todo \ {r}, r |-> r, status |-> status]
    BY <1>3 DEF ProbeHealth, NextRow
  <2>3. [job EXCEPT !.todo = job.todo \ {r}] = [pc |-> "health", todo |-> job.todo \ {r}]
    BY <2>1
  <2>4. CASE job' = [pc |-> "health", todo |-> job.todo \ {r}]
    <3>1. HeldRows(job') = job.todo \ {r}
      BY <2>4, HeldRowsCases
    <3> QED
      BY <2>1, <3>1
  <2>5. CASE job' = [pc |-> "healthWrite", todo |-> job.todo \ {r}, r |-> r, status |-> status]
    <3>1. HeldRows(job') = (job.todo \ {r}) \cup {r}
      BY <2>5, HeldRowsCases
    <3> QED
      BY <2>1, <3>1
  <2> QED
    BY <2>2, <2>3, <2>4, <2>5
<1>4. CASE WriteHealth
  <2>1. HeldRows(job) = job.todo \cup {job.r}
    BY <1>4, HeldRowsCases DEF WriteHealth
  <2>2. job' = [pc |-> "health", todo |-> job.todo]
    BY <1>4 DEF WriteHealth
  <2>3. HeldRows(job') = job.todo
    BY <2>2, HeldRowsCases
  <2> QED
    BY <2>1, <2>3
<1>5. CASE ListParents
  <2> DEFINE rows == {r \in RowsWithStatus("active") : CanDecrypt(watcherKey, r.d)}
  <2>1. CASE job' = NoJob
    BY <1>1, <2>1 DEF NoJob
  <2>2. CASE job' = [pc |-> "parents", sweep |-> [dup |-> job.dup, todo |-> rows, count |-> 0]]
    <3>1. HeldRows(job') = rows
      BY <2>2, HeldRowsCases
    <3> QED
      BY <1>5, <3>1 DEF ListParents, RowsWithStatus, storeVars
  <2> QED
    BY <1>5, <2>1, <2>2 DEF ListParents
<1>6. CASE WalkRoutes
  <2>1. job.pc = "parents" /\ HeldRows(job) = job.sweep.todo /\ job.sweep \in Sweeping
    BY <1>6, HeldRowsCases, JobCases DEF WalkRoutes, WatcherTypeOK
  <2>2. PICK r \in job.sweep.todo :
            LET sweep == [job.sweep EXCEPT !.todo = @ \ {r}]
            IN  \/ job' = [pc |-> "hops", sweep |-> sweep, parent |-> r,
                           hops |-> WalkRouteNextHops(r.d.ip)]
                \/ job' = [pc |-> "parents", sweep |-> sweep]
    BY <1>6 DEF WalkRoutes, NextRow
  <2> DEFINE sweep == [job.sweep EXCEPT !.todo = @ \ {r}]
  <2>3. sweep.todo = job.sweep.todo \ {r}
    BY <2>1 DEF Sweeping, SweepState
  <2>4. \/ job' = [pc |-> "hops", sweep |-> sweep, parent |-> r,
                   hops |-> WalkRouteNextHops(r.d.ip)]
        \/ job' = [pc |-> "parents", sweep |-> sweep]
    BY <2>2
  <2> HIDE DEF sweep
  <2>5. \/ HeldRows(job') = sweep.todo \cup {r}
        \/ HeldRows(job') = sweep.todo
    BY <2>4, HeldRowsCases
  <2> QED
    BY <2>1, <2>2, <2>3, <2>5
\* within a sweep the rows only get fewer
<1>7. ASSUME job.pc \in {"hops", "found", "add"}, job'.pc \in {"hops", "found", "add"},
             job'.parent = job.parent, job'.sweep.todo = job.sweep.todo
      PROVE  Goal
  BY <1>7, HeldRowsCases
<1>8. ASSUME NEW hop \in IPs, ConsiderHop(hop)
      PROVE  Goal
  <2>1. job.pc = "hops"
        /\ job = [pc |-> "hops", sweep |-> job.sweep, parent |-> job.parent, hops |-> job.hops]
    BY <1>8, JobCases DEF ConsiderHop, WatcherTypeOK
  <2>2. \/ job' = [pc |-> "found", sweep |-> job.sweep, parent |-> job.parent,
                   hops |-> job.hops \ {hop}, hop |-> hop]
        \/ job' = [job EXCEPT !.hops = job.hops \ {hop}]
    BY <1>8 DEF ConsiderHop
  <2>3. [job EXCEPT !.hops = job.hops \ {hop}]
            = [pc |-> "hops", sweep |-> job.sweep, parent |-> job.parent, hops |-> job.hops \ {hop}]
    BY <2>1
  <2>4. /\ job'.pc \in {"hops", "found", "add"}
        /\ job'.parent = job.parent
        /\ job'.sweep = job.sweep
    BY <2>2, <2>3
  <2> QED
    BY <1>7, <2>1, <2>4
<1>9. CASE VerifyDiscovered
  BY <1>7, <1>9 DEF VerifyDiscovered
<1>10. CASE InsertDiscovered
  <2>1. job.sweep \in BelowCap
    BY <1>10, JobCases DEF InsertDiscovered, WatcherTypeOK
  <2>2. PICK n : job' = [pc |-> "hops", parent |-> job.parent, hops |-> job.hops,
                         sweep |-> [job.sweep EXCEPT !.count = n]]
    BY <1>10 DEF InsertDiscovered
  <2>3. [job.sweep EXCEPT !.count = n].todo = job.sweep.todo
    BY <2>1 DEF BelowCap, SweepState
  <2> QED
    BY <1>7, <1>10, <2>2, <2>3 DEF InsertDiscovered
<1>11. CASE LeaveParent
  <2>1. HeldRows(job) = job.sweep.todo \cup {job.parent}
    BY <1>11, HeldRowsCases DEF LeaveParent
  <2>2. job' = [pc |-> "parents", sweep |-> job.sweep]
    BY <1>11 DEF LeaveParent
  <2>3. HeldRows(job') = job.sweep.todo
    BY <2>2, HeldRowsCases
  <2> QED
    BY <2>1, <2>3
<1>12. CASE DiscoverGateway \/ CreateGateway \/ probeAndUpdate
  BY <1>1, <1>12 DEF DiscoverGateway, CreateGateway, probeAndUpdate, NoJob
<1>13. CASE ProbeDefaults
  <2>1. job = [pc |-> "gwProbe", id |-> job.id, try |-> job.try]
    BY <1>13, JobCases DEF ProbeDefaults, WatcherTypeOK
  <2>2. [job EXCEPT !.try = job.try + 1].pc = "gwProbe"
    BY <2>1
  <2>3. job'.pc \in {"gwProbe", "gwUpdate"}
    BY <1>13, <2>2 DEF ProbeDefaults
  <2> QED
    BY <1>1, <2>3
<1>14. CASE \/ FinishHealth \/ FinishWrite \/ reloadTelegraf \/ FinishSweep \/ WatcherCrash
  BY <1>1, <1>14 DEF FinishHealth, FinishWrite, reloadTelegraf, FinishSweep, WatcherCrash, NoJob
<1>15. CASE ReadInterval \/ RenderConfig \/ ReadDuplication
  BY <1>1, <1>15 DEF ReadInterval, RenderConfig, ReadDuplication, NoJob
<1>16. CASE TelegrafRestart
  BY <1>16 DEF TelegrafRestart, watcherVars
<1> QED
  BY <1>2, <1>3, <1>4, <1>5, <1>6, <1>8, <1>9, <1>10, <1>11, <1>12, <1>13, <1>14, <1>15, <1>16
     DEF WatcherNext, JobStep

\* ... and by the gateway's id only when it has just created the row.
LEMMA JobHoldsGateway ==
    ASSUME TypeOK, WatcherNext
    PROVE  HeldGateway(job') \subseteq HeldGateway(job) \cup Registered'
<1> USE DEF TypeOK
<1> DEFINE Goal == HeldGateway(job') \subseteq HeldGateway(job) \cup Registered'
<1>1. ASSUME job'.pc \notin {"gwProbe", "gwUpdate"}
      PROVE  Goal
  BY <1>1 DEF HeldGateway
<1>2. CASE CreateGateway
  <2>1. CASE Insert(GatewayDevice) /\ job' = [pc |-> "gwProbe", id |-> NextId, try |-> 1]
    <3>1. HeldGateway(job') = {[id |-> NextId, ip |-> Gateway]}
      BY <2>1 DEF HeldGateway
    <3>2. [id |-> NextId, d |-> GatewayDevice] \in devices'
      BY <2>1 DEF Insert
    <3>3. GatewayDevice.ip = Gateway
      BY DEF GatewayDevice
    <3>4. [id |-> NextId, ip |-> Gateway] \in Registered'
      BY <3>2, <3>3 DEF Registered
    <3> QED
      BY <3>1, <3>4
  <2>2. CASE job' = NoJob
    BY <1>1, <2>2 DEF NoJob
  <2> QED
    BY <1>2, <2>1, <2>2 DEF CreateGateway
<1>3. CASE ProbeDefaults
  <2>1. job = [pc |-> "gwProbe", id |-> job.id, try |-> job.try]
    BY <1>3, JobCases DEF ProbeDefaults, WatcherTypeOK
  <2>2. [job EXCEPT !.try = job.try + 1] = [pc |-> "gwProbe", id |-> job.id, try |-> job.try + 1]
    BY <2>1
  <2>3. job'.pc \in {"gwProbe", "gwUpdate"} /\ job'.id = job.id
    BY <1>3, <2>2 DEF ProbeDefaults
  <2> QED
    BY <1>3, <2>3 DEF HeldGateway, ProbeDefaults
<1>4. CASE DiscoverGateway \/ probeAndUpdate \/ FinishHealth \/ WriteHealth \/ ListForHealth
  BY <1>1, <1>4 DEF DiscoverGateway, probeAndUpdate, FinishHealth, WriteHealth, ListForHealth, NoJob
<1>5. CASE ProbeHealth
  <2>1. job = [pc |-> "health", todo |-> job.todo]
    BY <1>5, JobCases DEF ProbeHealth, WatcherTypeOK
  <2>2. \A rows : [job EXCEPT !.todo = rows].pc = "health"
    BY <2>1
  <2>3. job'.pc \in {"health", "healthWrite"}
    BY <1>5, <2>2 DEF ProbeHealth
  <2> QED
    BY <1>1, <2>3
<1>6. ASSUME NEW hop \in IPs, ConsiderHop(hop)
      PROVE  Goal
  <2>1. job = [pc |-> "hops", sweep |-> job.sweep, parent |-> job.parent, hops |-> job.hops]
    BY <1>6, JobCases DEF ConsiderHop, WatcherTypeOK
  <2>2. \A hops : [job EXCEPT !.hops = hops].pc = "hops"
    BY <2>1
  <2>3. job'.pc \in {"hops", "found"}
    BY <1>6, <2>2 DEF ConsiderHop
  <2> QED
    BY <1>1, <2>3
<1>7. CASE FinishWrite \/ reloadTelegraf \/ ReadInterval \/ RenderConfig \/ WatcherCrash
  BY <1>1, <1>7 DEF FinishWrite, reloadTelegraf, ReadInterval, RenderConfig, WatcherCrash, NoJob
<1>8. CASE \/ ReadDuplication \/ ListParents \/ WalkRoutes \/ VerifyDiscovered
           \/ InsertDiscovered \/ LeaveParent \/ FinishSweep
  BY <1>1, <1>8 DEF ReadDuplication, ListParents, WalkRoutes, VerifyDiscovered,
                    InsertDiscovered, LeaveParent, FinishSweep, NoJob
<1>9. CASE TelegrafRestart
  BY <1>9 DEF TelegrafRestart, watcherVars
<1> QED
  BY <1>2, <1>3, <1>4, <1>5, <1>6, <1>7, <1>8, <1>9 DEF WatcherNext, JobStep

-----------------------------------------------------------------------------
\* Together: a pair that is kept was kept before, or is in the table now.
LEMMA HeldStep ==
    ASSUME TypeOK, [Next]_vars
    PROVE  Held' \subseteq Held \cup Registered'
<1>1. CASE UNCHANGED <<handlers, job>>
  BY <1>1 DEF Held, HeldByApi, HeldByWatcher
<1>2. CASE Api
  <2>1. HeldByWatcher' = HeldByWatcher
    BY <1>2 DEF Api, watcherVars, HeldByWatcher
  <2> QED
    BY <1>2, <2>1, ApiHolds DEF Api, Held
<1>3. CASE Watcher
  <2>1. HeldByApi' = HeldByApi
    BY <1>3 DEF Watcher, apiVars, HeldByApi
  <2> DEFINE Pairs(rows) == {[id |-> r.id, ip |-> r.d.ip] : r \in rows}
  <2>2. HeldByWatcher = Pairs(HeldRows(job)) \cup HeldGateway(job)
    BY DEF HeldByWatcher
  <2>3. HeldByWatcher' = Pairs(HeldRows(job')) \cup HeldGateway(job')
    BY DEF HeldByWatcher, HeldRows, HeldGateway
  <2>4. Pairs(devices') = Registered'
    BY DEF Registered
  <2>5. HeldRows(job') \subseteq HeldRows(job) \cup devices'
    BY <1>3, JobHoldsRows DEF Watcher
  <2>6. Pairs(HeldRows(job')) \subseteq Pairs(HeldRows(job)) \cup Pairs(devices')
    BY <2>5
  <2>7. HeldGateway(job') \subseteq HeldGateway(job) \cup Registered'
    BY <1>3, JobHoldsGateway DEF Watcher
  <2> HIDE DEF Pairs
  <2>8. HeldByWatcher' \subseteq HeldByWatcher \cup Registered'
    BY <2>2, <2>3, <2>4, <2>6, <2>7
  <2> QED
    BY <2>1, <2>8 DEF Held
<1> QED
  BY <1>1, <1>2, <1>3 DEF Next, Environment, vars, apiVars, watcherVars

\* Nothing is registered and nothing is kept at the start.
LEMMA RegistryInit ==
    ASSUME Init
    PROVE  RegistryInv
<1>1. Registered = {}
  BY DEF Init, StoreInit, Registered
<1>2. HeldByApi = {}
  BY DEF Init, ApiInit, Idle, HeldByApi
<1>3. HeldRows(job) = {} /\ HeldGateway(job) = {}
  BY HeldRowsCases DEF Init, WatcherInit, NoJob, HeldGateway
<1>4. Held = {}
  BY <1>2, <1>3 DEF Held, HeldByWatcher
<1> QED
  BY <1>1, <1>4 DEF RegistryInv, IdsGivenInOrder, HeldIdsGiven, HandlesNameSameDevice, Held

\* Every step keeps the invariant: a new pair has an id above every id that
\* anybody keeps.
LEMMA RegistryStep ==
    ASSUME TypeOK, RegistryInv, [Next]_vars
    PROVE  RegistryInv'
<1>1. TableStep
  BY NextIsTableStep
<1>2. IdsGivenInOrder'
  BY <1>1, IdsStep DEF RegistryInv
<1>3. Held' \subseteq Held \cup Registered'
  BY HeldStep
<1>4. lastId \in Nat /\ lastId' \in Nat /\ lastId <= lastId'
  <2>1. lastId \in Nat
    BY StoreAssumption DEF TypeOK, StoreTypeOK
  <2> QED
    BY <1>1, <2>1 DEF TableStep, Adds, Drops, Keeps
<1>5. HeldIdsGiven'
  <2>1. ASSUME NEW e \in Held'
        PROVE  e.id \in Ids /\ e.id <= lastId'
    <3>1. CASE e \in Held
      BY <1>4, <3>1, StoreAssumption DEF RegistryInv, HeldIdsGiven, Ids
    <3>2. CASE e \in Registered'
      BY <1>2, <3>2 DEF IdsGivenInOrder
    <3> QED
      BY <1>3, <3>1, <3>2
  <2> QED
    BY <2>1 DEF HeldIdsGiven
<1>6. ASSUME NEW e \in Held', NEW f \in Registered', f.id = e.id
      PROVE  f = e
  <2>1. CASE e \in Registered'
    BY <1>2, <1>6, <2>1 DEF IdsGivenInOrder
  <2>2. CASE e \in Held
    <3>1. e.id \in Ids /\ e.id # lastId + 1
      BY <1>4, <2>2, StoreAssumption DEF RegistryInv, HeldIdsGiven, Ids
    <3>2. f \in Registered
      BY <1>1, <1>6, <3>1 DEF TableStep, Adds, Drops, Keeps
    <3> QED
      BY <1>6, <2>2, <3>2 DEF RegistryInv, HandlesNameSameDevice, Held
  <2> QED
    BY <1>3, <2>1, <2>2
<1>7. HandlesNameSameDevice'
  BY <1>6 DEF HandlesNameSameDevice, Held
<1> QED
  BY <1>2, <1>5, <1>7 DEF RegistryInv

\* The inductive invariant holds in every reachable state.
THEOREM RegistryInvariant == Spec => []RegistryInv
<1>1. Init => RegistryInv
  BY RegistryInit
<1>2. TypeOK /\ RegistryInv /\ [Next]_vars => RegistryInv'
  BY RegistryStep
<1> QED
  BY <1>1, <1>2, TypeCorrect, PTL DEF Spec

\* The id that a PATCH, a health check, a sweep or the gateway probe keeps
\* while it waits for SNMP names the same address or no row, however many
\* requests delete and add devices meanwhile.
THEOREM HandlesSafe == Spec => []HandlesNameSameDevice
<1>1. RegistryInv => HandlesNameSameDevice
  BY DEF RegistryInv
<1> QED
  BY <1>1, RegistryInvariant, PTL

\* Every step of the system registers a new address under a fresh id, drops
\* one registration, or leaves the registry alone.
LEMMA RegistrySimulation ==
    ASSUME TypeOK, IdsGivenInOrder, [Next]_vars
    PROVE  [Registry!Next]_(Registry!registryVars)
<1>1. ASSUME NEW ip \in IPs, Adds(ip)
      PROVE  Registry!Next
  <2>1. lastId \in Nat /\ MaxId \in Nat
    BY StoreAssumption DEF TypeOK, StoreTypeOK
  <2>2. lastId + 1 \in (lastId + 1) .. MaxId
    BY <1>1, <2>1 DEF Adds, Ids
  <2>3. Registry!Register(ip)
    BY <1>1, <2>2 DEF Adds, Registry!Register
  <2> QED
    BY <2>3 DEF Registry!Next
<1>2. ASSUME NEW id \in Ids, Drops(id)
      PROVE  [Registry!Next]_(Registry!registryVars)
  <2>1. CASE \E e \in Registered : e.id = id
    <3>1. PICK e \in Registered : e.id = id
      BY <2>1
    <3>2. Registered' = Registered \ {e}
      BY <1>2, <3>1 DEF Drops, IdsGivenInOrder
    <3>3. Registry!Deregister(e)
      BY <1>2, <3>2 DEF Drops, Registry!Deregister
    <3> QED
      BY <3>1, <3>3 DEF Registry!Next
  <2>2. CASE \A e \in Registered : e.id # id
    BY <1>2, <2>2 DEF Drops, Registry!registryVars
  <2> QED
    BY <2>1, <2>2
<1>3. CASE Keeps
  BY <1>3 DEF Keeps, Registry!registryVars
<1> QED
  BY <1>1, <1>2, <1>3, NextIsTableStep DEF TableStep

\* The handlers, gateway discovery and the sweep, each of which looks an
\* address up and inserts it in two separate statements, together implement
\* the abstract registry.
THEOREM RegistryRefinement == Spec => RegistrySpec
<1>1. Init => Registry!Init
  BY DEF Init, StoreInit, Registered, Registry!Init
<1>2. RegistryInv => IdsGivenInOrder
  BY DEF RegistryInv
<1>3. TypeOK /\ IdsGivenInOrder /\ [Next]_vars => [Registry!Next]_(Registry!registryVars)
  BY RegistrySimulation
<1> QED
  BY <1>1, <1>2, <1>3, TypeCorrect, RegistryInvariant, PTL DEF Spec, RegistrySpec, Registry!Spec

-----------------------------------------------------------------------------
(***************************************************************************)
(* Who writes the columns an operator fills in.  Every step of the two     *)
(* processes issues at most one statement against the table; the invariant *)
(* needed is that id is a key of it.                                       *)
(***************************************************************************)

\* id is the table's primary key.
OneRowPerId == \A r \in devices : \A q \in devices : q.id = r.id => q = r

\* A slot takes a new request.
RequestStarts == \E s \in Slots : handlers[s] = Idle /\ handlers'[s] # Idle

\* The statement a step issues: the columns of an UPDATE are the status alone,
\* unless the operator or the gateway's first probe fills in others.
Statement ==
    \/ UNCHANGED devices
    \/ \E d \in Device : CanInsert(d) /\ Insert(d)
    \/ \E id \in Ids : Remove(id)
    \/ \E id \in Ids, status \in Statuses : Update(id, [status |-> status])
    \/ \E id \in Ids : \E u : Update(id, u) /\ RequestStarts
    \/ \E u : Update(job.id, u) /\ job.pc = "gwUpdate"

\* Settings of a row that a statement has left alone.
SettingsKept ==
    \A r \in devices : \A q \in devices' :
        q.id = r.id => OperatorColumns(q.d) = OperatorColumns(r.d)

\* A new row has an id no other row has.
LEMMA InsertFresh ==
    ASSUME TypeOK, IdsGivenInOrder, OneRowPerId, NEW d \in Device, Insert(d)
    PROVE  OneRowPerId' /\ SettingsKept
<1> DEFINE row == [id |-> NextId, d |-> d]
<1>1. devices' = devices \cup {row} /\ row.id = lastId + 1
  BY DEF Insert, NextId
<1>2. lastId \in Nat /\ MaxId \in Nat
  BY StoreAssumption DEF TypeOK, StoreTypeOK
<1>3. ASSUME NEW r \in devices
      PROVE  r.id # lastId + 1
  <2>1. [id |-> r.id, ip |-> r.d.ip] \in Registered
    BY DEF Registered
  <2>2. r.id \in Ids /\ r.id <= lastId
    BY <2>1 DEF IdsGivenInOrder
  <2> QED
    BY <1>2, <2>2 DEF Ids
<1> HIDE DEF row
<1>4. ASSUME NEW r \in devices, NEW q \in devices', q.id = r.id
      PROVE  q = r
  BY <1>1, <1>3, <1>4 DEF OneRowPerId
<1>5. OneRowPerId'
  BY <1>1, <1>3, <1>4 DEF OneRowPerId
<1>6. SettingsKept
  BY <1>4 DEF SettingsKept
<1> QED
  BY <1>5, <1>6

\* An UPDATE keeps id a key and writes to the row with that id only.
LEMMA UpdateOwnRow ==
    ASSUME TypeOK, OneRowPerId, NEW id, NEW u, Update(id, u)
    PROVE  /\ OneRowPerId'
           /\ \A r \in devices : \A q \in devices' :
                  q.id = r.id => q = IF r.id = id THEN [id |-> r.id, d |-> SetColumns(r.d, u)] ELSE r
<1> DEFINE new(r) == IF r.id = id THEN [id |-> r.id, d |-> SetColumns(r.d, u)] ELSE r
<1>1. ASSUME NEW r \in devices
      PROVE  /\ (IF r.id = id THEN [r EXCEPT !.d = SetColumns(r.d, u)] ELSE r) = new(r)
             /\ new(r).id = r.id
  <2>1. r \in Row
    BY DEF TypeOK, StoreTypeOK
  <2> QED
    BY <2>1 DEF Row
<1>2. devices' = {new(r) : r \in devices}
  BY <1>1 DEF Update
<1> HIDE DEF new
<1>3. ASSUME NEW r \in devices, NEW q \in devices', q.id = r.id
      PROVE  q = new(r)
  <2>1. PICK p \in devices : q = new(p)
    BY <1>2
  <2>2. p = r
    BY <1>1, <1>3, <2>1 DEF OneRowPerId
  <2> QED
    BY <2>1, <2>2
<1>4. OneRowPerId'
  <2>1. ASSUME NEW p \in devices', NEW q \in devices', q.id = p.id
        PROVE  q = p
    <3>1. PICK r \in devices : p = new(r)
      BY <1>2
    <3>2. q.id = r.id
      BY <1>1, <2>1, <3>1
    <3> QED
      BY <1>3, <3>1, <3>2
  <2> QED
    BY <2>1 DEF OneRowPerId
<1> QED
  BY <1>3, <1>4 DEF new

\* Writing the status leaves the operator's columns alone.
LEMMA StatusKeepsSettings ==
    ASSUME TypeOK, OneRowPerId, NEW id, NEW status, Update(id, [status |-> status])
    PROVE  SettingsKept
<1> DEFINE u == [status |-> status]
<1>1. ASSUME NEW d
      PROVE  OperatorColumns(SetColumns(d, u)) = OperatorColumns(d)
  BY DEF SetColumns, OperatorColumns
<1>2. \A r \in devices : \A q \in devices' :
          q.id = r.id => q = IF r.id = id THEN [id |-> r.id, d |-> SetColumns(r.d, u)] ELSE r
  BY UpdateOwnRow
<1> HIDE DEF u
<1>3. ASSUME NEW r \in devices, NEW q \in devices', q.id = r.id
      PROVE  q.d = SetColumns(r.d, u) \/ q.d = r.d
  BY <1>2, <1>3
<1> QED
  BY <1>1, <1>3 DEF SettingsKept

\* Every step issues one of those statements, or none.
LEMMA NextIsStatement ==
    ASSUME TypeOK, [Next]_vars
    PROVE  Statement
<1> USE DEF TypeOK
<1>1. CASE UNCHANGED storeVars
  BY <1>1 DEF Statement, storeVars
<1>2. CASE ApiNext
  <2>1. ASSUME NEW s \in Slots, PostInsert(s)
        PROVE  Statement
    <3>1. handlers[s].d \in Device
      BY <2>1, HandlerCases DEF PostInsert
    <3>2. \/ CanInsert(handlers[s].d) /\ Insert(handlers[s].d)
          \/ UNCHANGED storeVars
      BY <2>1 DEF PostInsert
    <3> QED
      BY <1>1, <3>1, <3>2 DEF Statement
  <2>2. ASSUME NEW s \in Slots, PatchWrite(s)
        PROVE  Statement
    <3>1. PICK id \in Ids, req \in PatchRequests :
              /\ UNCHANGED storeVars \/ Update(id, UpdatesOf(req))
              /\ handlers' = [handlers EXCEPT ![s] =
                                 [pc |-> "get", id |-> id, reprobe |-> Reprobes(req)]]
      BY <2>2 DEF PatchWrite
    <3>2. handlers'[s] = [pc |-> "get", id |-> id, reprobe |-> Reprobes(req)]
      BY <3>1 DEF ApiTypeOK
    <3>3. handlers'[s].pc = "get" /\ Idle.pc = "idle"
      BY <3>2 DEF Idle
    <3>4. RequestStarts
      BY <2>2, <3>3 DEF PatchWrite, RequestStarts
    <3> QED
      BY <1>1, <3>1, <3>4 DEF Statement
  <2>3. ASSUME NEW s \in Slots, PatchStatus(s)
        PROVE  Statement
    <3>1. handlers[s].id \in Ids /\ handlers[s].status \in Statuses
      BY <2>3, HandlerCases DEF PatchStatus
    <3>2. \/ Update(handlers[s].id, [status |-> handlers[s].status])
          \/ UNCHANGED storeVars
      BY <2>3 DEF PatchStatus
    <3> QED
      BY <1>1, <3>1, <3>2 DEF Statement
  <2>4. ASSUME NEW id \in Ids, DeleteDevice(id)
        PROVE  Statement
    BY <2>4 DEF DeleteDevice, Statement
  <2>5. ASSUME NEW s \in Slots, PostProbe(s) \/ PatchGet(s) \/ PatchProbe(s)
        PROVE  Statement
    BY <1>1, <2>5 DEF PostProbe, PatchGet, PatchProbe
  <2>6. CASE \/ \E seconds \in IntervalRequests : SetPollingInterval(seconds)
             \/ \E enabled \in DupRequests : SetCredentialDuplication(enabled)
    BY <2>6 DEF SetPollingInterval, SetCredentialDuplication, SetSetting, Statement
  <2>7. CASE ApiCrash
    BY <1>1, <2>7 DEF ApiCrash
  <2> QED
    BY <1>2, <2>1, <2>2, <2>3, <2>4, <2>5, <2>6, <2>7 DEF ApiNext, ApiRequests, HandlerStep
<1>3. CASE WatcherNext
  <2>1. CASE CreateGateway
    <3>1. GatewayDevice \in Device
      BY GatewayDeviceType DEF WatcherTypeOK
    <3>2. \/ CanInsert(GatewayDevice) /\ Insert(GatewayDevice)
          \/ UNCHANGED storeVars
      BY <2>1 DEF CreateGateway
    <3> QED
      BY <1>1, <3>1, <3>2 DEF Statement
  <2>2. CASE InsertDiscovered
    <3>1. job.d \in Device
      BY <2>2, JobCases DEF InsertDiscovered, WatcherTypeOK
    <3>2. \/ CanInsert(job.d) /\ Insert(job.d)
          \/ UNCHANGED storeVars
      BY <2>2 DEF InsertDiscovered
    <3> QED
      BY <1>1, <3>1, <3>2 DEF Statement
  <2>3. CASE probeAndUpdate
    BY <1>1, <2>3 DEF probeAndUpdate, Statement
  <2>4. CASE WriteHealth
    <3>1. job.r \in Row /\ job.status \in Statuses
      BY <2>4, JobCases DEF WriteHealth, WatcherTypeOK
    <3>2. job.r.id \in Ids
      BY <3>1 DEF Row
    <3>3. \/ Update(job.r.id, [status |-> job.status])
          \/ UNCHANGED storeVars
      BY <2>4 DEF WriteHealth, HealthColumns
    <3> QED
      BY <1>1, <3>1, <3>2, <3>3 DEF Statement
  <2>5. CASE DiscoverGateway \/ ProbeDefaults \/ ListForHealth \/ ProbeHealth \/ FinishHealth
    BY <1>1, <2>5 DEF DiscoverGateway, ProbeDefaults, ListForHealth, ProbeHealth, FinishHealth
  <2>6. CASE \/ ReadInterval \/ RenderConfig \/ FinishWrite \/ reloadTelegraf
             \/ TelegrafRestart \/ WatcherCrash
    BY <1>1, <2>6 DEF ReadInterval, RenderConfig, FinishWrite, reloadTelegraf,
                      TelegrafRestart, WatcherCrash
  <2>7. CASE \/ ReadDuplication \/ ListParents \/ WalkRoutes
             \/ (\E hop \in IPs : ConsiderHop(hop))
             \/ VerifyDiscovered \/ LeaveParent \/ FinishSweep
    BY <1>1, <2>7 DEF ReadDuplication, ListParents, WalkRoutes, ConsiderHop,
                      VerifyDiscovered, LeaveParent, FinishSweep
  <2> QED
    BY <1>3, <2>1, <2>2, <2>3, <2>4, <2>5, <2>6, <2>7 DEF WatcherNext, JobStep
<1> QED
  BY <1>1, <1>2, <1>3 DEF Next, Environment, Api, Watcher, vars

\* Every step keeps id a key, and keeps the operator's columns unless a
\* request starts or the gateway's first probe ends, on its own row.
LEMMA SettingsStep ==
    ASSUME TypeOK, RegistryInv, OneRowPerId, [Next]_vars
    PROVE  /\ OneRowPerId'
           /\ \A r \in devices : \A q \in devices' :
                  (q.id = r.id /\ OperatorColumns(q.d) # OperatorColumns(r.d))
                      => RequestStarts \/ (job.pc = "gwUpdate" /\ job.id = r.id /\ r.d.ip = Gateway)
<1>2. ASSUME NEW d \in Device, Insert(d)
      PROVE  OneRowPerId' /\ SettingsKept
  BY <1>2, InsertFresh DEF RegistryInv
<1>3. ASSUME NEW id \in Ids, Remove(id)
      PROVE  OneRowPerId' /\ SettingsKept
  BY <1>3 DEF Remove, OneRowPerId, SettingsKept
<1>4. ASSUME NEW id \in Ids, NEW status \in Statuses, Update(id, [status |-> status])
      PROVE  OneRowPerId' /\ SettingsKept
  BY <1>4, UpdateOwnRow, StatusKeepsSettings
<1>5. ASSUME NEW id, NEW u, Update(id, u)
      PROVE  /\ OneRowPerId'
             /\ \A r \in devices : \A q \in devices' : (q.id = r.id /\ q # r) => r.id = id
  BY <1>5, UpdateOwnRow
<1>6. ASSUME job.pc = "gwUpdate", NEW r \in devices, r.id = job.id
      PROVE  r.d.ip = Gateway
  <2> DEFINE e == [id |-> job.id, ip |-> Gateway]
             f == [id |-> r.id, ip |-> r.d.ip]
  <2>1. e \in HeldByWatcher
    BY <1>6 DEF HeldByWatcher, HeldGateway
  <2>2. f \in Registered
    BY DEF Registered
  <2>3. f.id = e.id
    BY <1>6
  <2>4. f = e
    BY <2>1, <2>2, <2>3 DEF RegistryInv, HandlesNameSameDevice
  <2> QED
    BY <2>4
<1> DEFINE Owned(r, q) == (q.id = r.id /\ OperatorColumns(q.d) # OperatorColumns(r.d))
               => RequestStarts \/ (job.pc = "gwUpdate" /\ job.id = r.id /\ r.d.ip = Gateway)
           Goal == OneRowPerId' /\ \A r \in devices : \A q \in devices' : Owned(r, q)
<1>7. CASE OneRowPerId' /\ SettingsKept
  BY <1>7 DEF SettingsKept
<1>8. ASSUME NEW id \in Ids, NEW u, Update(id, u), RequestStarts
      PROVE  Goal
  BY <1>5, <1>8
<1>9. ASSUME NEW u, Update(job.id, u), job.pc = "gwUpdate"
      PROVE  Goal
  <2>1. OneRowPerId'
    BY <1>5, <1>9
  <2>2. ASSUME NEW r \in devices, NEW q \in devices', q.id = r.id, q # r
        PROVE  job.id = r.id /\ r.d.ip = Gateway
    BY <1>5, <1>6, <1>9, <2>2
  <2> QED
    BY <1>9, <2>1, <2>2
<1>1. UNCHANGED devices => Goal
  BY DEF OneRowPerId
<1> HIDE DEF Goal
<1>11. Goal
  BY <1>2, <1>3, <1>4, <1>7, <1>8, <1>9, <1>1, NextIsStatement DEF Statement, Goal
<1> QED
  BY <1>11 DEF Goal

\* Whatever requests, health checks, sweeps and re-probes run side by side, a
\* device's saved name and credentials change only by a PATCH, or by the first
\* probe of the gateway's own row: no writer puts back what it read before.
THEOREM SettingsOwned == Spec => OperatorOwnsSettings
<1> DEFINE Owned == \A r \in devices : \A q \in devices' :
               (q.id = r.id /\ OperatorColumns(q.d) # OperatorColumns(r.d))
                   => \/ \E s \in Slots : handlers[s] = Idle /\ handlers'[s] # Idle
                      \/ job.pc = "gwUpdate" /\ job.id = r.id /\ r.d.ip = Gateway
<1>1. Init => OneRowPerId
  BY DEF Init, StoreInit, OneRowPerId
<1>2. TypeOK /\ RegistryInv /\ OneRowPerId /\ [Next]_vars => OneRowPerId' /\ Owned
  BY SettingsStep DEF RequestStarts
<1>3. (Spec => [][Owned]_vars) => (Spec => OperatorOwnsSettings)
  BY DEF OperatorOwnsSettings
<1> HIDE DEF Owned
<1> QED
  BY <1>1, <1>2, <1>3, TypeCorrect, RegistryInvariant, PTL DEF Spec

-----------------------------------------------------------------------------
(***************************************************************************)
(* Statuses that tell the truth, once it is quiet.  Only the watcher moves *)
(* then, nothing it relies on changes under it, and every verdict it       *)
(* reaches is one it could reach again.                                    *)
(***************************************************************************)
Verdict(answers) == IF answers THEN "active" ELSE "failed"

\* What no step may do to the rows.
TruthKept ==
    \A q \in devices' :
        \/ TellsTruth(q.d)
        \/ \E r \in devices : r.id = q.id /\ ~TellsTruth(r.d)
        \/ q.id > lastId /\ q.d.snmp_version = "v3"

\* The stages at which a job holds what Quiet speaks of.
HoldsFindings(j) == j.pc \in {"health", "healthWrite", "gwProbe", "gwUpdate", "add"}

\* Nobody asks for anything and nothing fails: only jobs go on.
LEMMA OnlyJobsMove ==
    ASSUME Quiet, [Next]_vars
    PROVE  /\ UNCHANGED <<accepts, calm, handlers, watcherKey>>
           /\ JobStep \/ ListForHealth \/ ReadInterval \/ ReadDuplication \/ UNCHANGED vars
<1>1. calm /\ \A s \in Slots : handlers[s] = Idle
  BY DEF Quiet
<1>2. \A s \in Slots : handlers[s].pc = "idle"
  BY <1>1 DEF Idle
<1>3. ~ApiNext
  BY <1>1, <1>2 DEF ApiNext, ApiRequests, ApiCrash, PostProbe, PatchWrite, HandlerStep,
                    PostInsert, PatchGet, PatchProbe, PatchStatus, DeleteDevice,
                    SetPollingInterval, SetCredentialDuplication
<1>4. ~Calm /\ ~(\E ip \in IPs : Reconfigure(ip)) /\ ~WatcherCrash /\ ~TelegrafRestart
  BY <1>1 DEF Calm, Reconfigure, WatcherCrash, TelegrafRestart
<1>5. CASE UNCHANGED vars
  BY <1>5 DEF vars, netVars, apiVars, watcherVars
<1>6. CASE Next
  <2>1. Watcher
    BY <1>3, <1>4, <1>6 DEF Next, Environment, Api
  <2>2. JobStep \/ ListForHealth \/ ReadInterval \/ ReadDuplication
    BY <1>4, <2>1 DEF Watcher, WatcherNext
  <2>3. UNCHANGED <<accepts, calm, handlers>>
    BY <2>1 DEF Watcher, netVars, apiVars
  <2>4. UNCHANGED watcherKey
    BY <2>2 DEF JobStep, ListForHealth, ReadInterval, ReadDuplication, DiscoverGateway,
                CreateGateway, ProbeDefaults, probeAndUpdate, ProbeHealth, WriteHealth,
                FinishHealth, RenderConfig, FinishWrite, reloadTelegraf, ListParents,
                WalkRoutes, ConsiderHop, VerifyDiscovered, InsertDiscovered, LeaveParent,
                FinishSweep
  <2> QED BY <2>2, <2>3, <2>4
<1> QED BY <1>5, <1>6

\* Without lost datagrams a probe's result is whether the device answers.
LEMMA CalmVerify ==
    ASSUME calm, NEW ip, NEW creds, NEW ok \in Verify(ip, creds)
    PROVE  Verdict(ok) = Verdict(Answers(ip, creds)) /\ (ok => Answers(ip, creds))
BY DEF Verify, Outcome, Verdict

\* A job that holds nothing disturbs nothing.
LEMMA QuietAside ==
    ASSUME Quiet, UNCHANGED <<calm, handlers, devices>>, ~HoldsFindings(job')
    PROVE  Quiet' /\ TruthKept
<1>1. Quiet'
  BY DEF Quiet, HoldsFindings
<1>2. TruthKept
  BY DEF TruthKept
<1> QED BY <1>1, <1>2

\* The rows after an UPDATE.
LEMMA UpdatedRow ==
    ASSUME TypeOK, NEW id, NEW u, Update(id, u), NEW q \in devices'
    PROVE  \E r \in devices : /\ q.id = r.id
                              /\ q.d = IF r.id = id THEN SetColumns(r.d, u) ELSE r.d
<1>1. PICK r \in devices : q = IF r.id = id THEN [r EXCEPT !.d = SetColumns(r.d, u)] ELSE r
  BY DEF Update
<1>2. r = [id |-> r.id, d |-> r.d]
  BY DEF TypeOK, StoreTypeOK, Row
<1>3. q.id = r.id /\ q.d = IF r.id = id THEN SetColumns(r.d, u) ELSE r.d
  BY <1>1, <1>2
<1> QED BY <1>3

\* The rows after an INSERT.
LEMMA InsertedRow ==
    ASSUME TypeOK, IdsGivenInOrder, NEW d, Insert(d)
    PROVE  /\ \A q \in devices' : q \in devices \/ (q.id = NextId /\ q.d = d)
           /\ \A r \in devices : r.id # NextId
           /\ NextId > lastId
<1>1. lastId \in Nat
  BY DEF TypeOK, StoreTypeOK
<1>2. ASSUME NEW r \in devices
      PROVE  r.id # lastId + 1
  <2>1. [id |-> r.id, ip |-> r.d.ip] \in Registered
    BY DEF Registered
  <2>2. r.id \in Ids /\ r.id <= lastId
    BY <2>1 DEF IdsGivenInOrder
  <2> QED BY <1>1, <2>2, StoreAssumption DEF Ids
<1> QED BY <1>1, <1>2 DEF Insert, NextId

\* What a row that a job has kept says of the row in the table.
LEMMA HeldNames ==
    ASSUME RegistryInv, NEW e \in Held, NEW r \in devices, r.id = e.id
    PROVE  r.d.ip = e.ip
<1> DEFINE f == [id |-> r.id, ip |-> r.d.ip]
<1>1. f \in Registered /\ f.id = r.id /\ f.ip = r.d.ip
  BY DEF Registered
<1> HIDE DEF f
<1>2. f = e
  BY <1>1 DEF RegistryInv, HandlesNameSameDevice, Held
<1> QED BY <1>1, <1>2

\* The credentials that answered are the ones probeAndUpdate records.
LEMMA ProbedTruth ==
    ASSUME TypeOK, job.pc = "gwUpdate", job.found # 0, NEW d, d.ip = Gateway,
           Answers(Gateway, defaultCommunities[job.found])
    PROVE  TellsTruth(SetColumns(d, ProbedColumns(job.found)))
<1> DEFINE c   == defaultCommunities[job.found]
           new == SetColumns(d, ProbedColumns(job.found))
           own == decryptCredentials(watcherKey, new)
<1>1. job.found \in 1 .. 3
  BY JobCases DEF TypeOK, WatcherTypeOK
<1>2. c.version # "v3"
  <2>1. /\ defaultCommunities[1].version = "v2c"
        /\ defaultCommunities[2].version = "v2c"
        /\ defaultCommunities[3].version = "v1"
    BY DEF defaultCommunities, Credentials
  <2> QED BY <1>1, <2>1
<1>3. /\ new.ip = Gateway /\ new.status = "active" /\ new.snmp_version = c.version
      /\ new.community = Encrypt(watcherKey, c.community)
  BY DEF ProbedColumns, SetColumns
<1> HIDE DEF c, new
<1>4. own.version = c.version /\ own.community = c.community
  BY <1>3, EncryptOpens DEF decryptCredentials, Credentials
<1> HIDE DEF own
<1>5. LoginOf(own) = LoginOf(c)
  BY <1>2, <1>4 DEF LoginOf
<1>6. Answers(Gateway, own)
  BY <1>4, <1>5 DEF Answers, c
<1> QED BY <1>3, <1>6 DEF TellsTruth, own, new

\* discoverGatewayDevice: a row without credentials makes no claim, and the
\* probe's verdict is about the gateway.
LEMMA QuietGateway ==
    ASSUME TypeOK, RegistryInv, Quiet, UNCHANGED <<accepts, calm, handlers, watcherKey>>,
           DiscoverGateway \/ CreateGateway \/ ProbeDefaults \/ probeAndUpdate
    PROVE  Quiet' /\ TruthKept
<1>1. CASE DiscoverGateway
  BY <1>1, QuietAside DEF DiscoverGateway, storeVars, HoldsFindings, NoJob
<1>2. CASE CreateGateway
  <2>1. CASE Insert(GatewayDevice) /\ job' = [pc |-> "gwProbe", id |-> NextId, try |-> 1]
    <3>1. GatewayDevice.snmp_version = ""
      BY DEF GatewayDevice
    <3>2. TellsTruth(GatewayDevice)
      BY <3>1 DEF TellsTruth
    <3>3. \A q \in devices' : q \in devices \/ (q.id = NextId /\ q.d = GatewayDevice)
      BY <2>1, InsertedRow DEF RegistryInv
    <3>4. \A r \in devices : r.id # NextId
      BY <2>1, InsertedRow DEF RegistryInv
    <3>5. TruthKept
      BY <3>2, <3>3 DEF TruthKept
    <3>6. job'.pc = "gwProbe" /\ job'.id = NextId
      BY <2>1
    <3>7. \A r \in RowsWithId(job.id)' : r.d.snmp_version = ""
      BY <3>1, <3>3, <3>4, <3>6 DEF RowsWithId
    <3> QED BY <3>5, <3>6, <3>7 DEF Quiet
  <2>2. CASE UNCHANGED storeVars /\ job' = NoJob
    BY <2>2, QuietAside DEF storeVars, HoldsFindings, NoJob
  <2> QED BY <1>2, <2>1, <2>2 DEF CreateGateway
<1>3. CASE ProbeDefaults
  <2>1. job.pc = "gwProbe" /\ UNCHANGED devices
    BY <1>3 DEF ProbeDefaults, storeVars
  <2>2. job = [pc |-> "gwProbe", id |-> job.id, try |-> job.try] /\ job.try \in 1 .. 3
    BY <2>1, JobCases DEF TypeOK, WatcherTypeOK
  <2>3. PICK ok \in Verify(Gateway, defaultCommunities[job.try]) :
            job' = IF ok
                   THEN [pc |-> "gwUpdate", id |-> job.id, found |-> job.try]
                   ELSE IF job.try < Len(defaultCommunities)
                   THEN [job EXCEPT !.try = @ + 1]
                   ELSE [pc |-> "gwUpdate", id |-> job.id, found |-> 0]
    BY <1>3 DEF ProbeDefaults
  <2>4. /\ job'.pc \in {"gwProbe", "gwUpdate"} /\ job'.id = job.id
        /\ (job'.pc = "gwUpdate" /\ job'.found # 0) => ok /\ job'.found = job.try
    <3> DEFINE next == [job EXCEPT !.try = @ + 1]
    <3>1. next.pc = "gwProbe" /\ next.id = job.id
      BY <2>2
    <3> HIDE DEF next
    <3> QED BY <2>3, <3>1 DEF next
  <2>5. ok => Answers(Gateway, defaultCommunities[job.try])
    BY <2>3, CalmVerify DEF Quiet
  <2>6. (job'.pc = "gwUpdate" /\ job'.found # 0) => Answers(Gateway, defaultCommunities[job.found])'
    BY <2>4, <2>5 DEF Answers, LoginOf
  <2>7. \A r \in RowsWithId(job.id)' : r.d.snmp_version = ""
    BY <2>1, <2>4 DEF RowsWithId, Quiet
  <2>8. Quiet'
    BY <2>4, <2>6, <2>7 DEF Quiet
  <2> QED BY <2>1, <2>8 DEF TruthKept
<1>4. CASE probeAndUpdate
  <2>1. job.pc = "gwUpdate" /\ job' = NoJob
    BY <1>4 DEF probeAndUpdate
  <2>2. Quiet'
    BY <2>1 DEF Quiet, NoJob
  <2>3. CASE UNCHANGED storeVars
    BY <2>1, <2>3, QuietAside DEF storeVars, HoldsFindings, NoJob
  <2>4. CASE Update(job.id, ProbedColumns(job.found))
    <3> SUFFICES ASSUME NEW q \in devices'
                 PROVE  \/ TellsTruth(q.d)
                        \/ \E r \in devices : r.id = q.id /\ ~TellsTruth(r.d)
      BY <2>2 DEF TruthKept
    <3> DEFINE u == ProbedColumns(job.found)
    <3>1. PICK r \in devices : /\ q.id = r.id
                               /\ q.d = IF r.id = job.id THEN SetColumns(r.d, u) ELSE r.d
      BY <2>4, UpdatedRow
    <3>2. CASE r.id # job.id
      BY <3>1, <3>2
    <3>3. CASE r.id = job.id
      <4>1. r.d.snmp_version = "" /\ q.d = SetColumns(r.d, u)
        BY <2>1, <3>1, <3>3 DEF Quiet, RowsWithId
      <4>2. r.d.ip = Gateway
        <5> DEFINE e == [id |-> job.id, ip |-> Gateway]
        <5>1. e \in Held /\ e.id = job.id /\ e.ip = Gateway
          BY <2>1 DEF Held, HeldByWatcher, HeldGateway
        <5> HIDE DEF e
        <5> QED BY <3>3, <5>1, HeldNames
      <4>3. CASE job.found = 0
        <5>1. u = [status |-> "failed"]
          BY <4>3 DEF ProbedColumns
        <5>2. \A d : SetColumns(d, [status |-> "failed"]).snmp_version = d.snmp_version
          BY DEF SetColumns
        <5>3. q.d.snmp_version = ""
          BY <4>1, <5>1, <5>2
        <5> QED BY <5>3 DEF TellsTruth
      <4>4. CASE job.found # 0
        BY <2>1, <4>1, <4>2, <4>4, ProbedTruth DEF Quiet
      <4> QED BY <4>3, <4>4
    <3> QED BY <3>2, <3>3
  <2> QED BY <1>4, <2>3, <2>4 DEF probeAndUpdate
<1> QED BY <1>1, <1>2, <1>3, <1>4

\* Two rows with the same address and settings are in the same case.
LEMMA SameCase ==
    ASSUME NEW d, NEW e, d.ip = e.ip, OperatorColumns(d) = OperatorColumns(e)
    PROVE  /\ decryptCredentials(watcherKey, d) = decryptCredentials(watcherKey, e)
           /\ Answers(d.ip, decryptCredentials(watcherKey, d))
                  <=> Answers(e.ip, decryptCredentials(watcherKey, e))
<1>1. d.snmp_version = e.snmp_version /\ d.community = e.community /\ d.v3 = e.v3
  BY DEF OperatorColumns
<1>2. decryptCredentials(watcherKey, d) = decryptCredentials(watcherKey, e)
  BY <1>1 DEF decryptCredentials
<1> QED BY <1>2

\* checkDeviceHealth: what it has listed is what the table holds, and what it
\* writes is what it would find again.
LEMMA QuietHealth ==
    ASSUME TypeOK, RegistryInv, OneRowPerId, Quiet,
           UNCHANGED <<accepts, calm, handlers, watcherKey>>,
           ListForHealth \/ ProbeHealth \/ WriteHealth \/ FinishHealth
    PROVE  Quiet' /\ TruthKept
<1> DEFINE Fresh(rows) == \A r \in rows, q \in devices' :
                              q.id = r.id => OperatorColumns(q.d) = OperatorColumns(r.d)
\* what is to be shown of a job that is back in its loop
<1>1. ASSUME NEW rows, job' = [pc |-> "health", todo |-> rows], Fresh(rows)
      PROVE  Quiet'
  <2>1. job'.pc = "health" /\ HeldRows(job') = rows
    BY <1>1 DEF HeldRows
  <2> QED BY <1>1, <2>1 DEF Quiet, HeldRows
<1>2. CASE ListForHealth
  <2>1. UNCHANGED devices
    BY <1>2 DEF ListForHealth, storeVars
  <2>2. CASE job' = NoJob
    BY <2>1, <2>2, QuietAside DEF HoldsFindings, NoJob
  <2>3. CASE job' = [pc |-> "health", todo |-> HealthCandidates]
    <3>1. Fresh(HealthCandidates)
      BY <2>1 DEF HealthCandidates, OneRowPerId
    <3> QED BY <1>1, <2>1, <2>3, <3>1 DEF TruthKept
  <2> QED BY <1>2, <2>2, <2>3 DEF ListForHealth
<1>3. CASE ProbeHealth
  <2>1. UNCHANGED devices /\ job.pc = "health"
    BY <1>3 DEF ProbeHealth, storeVars
  <2>2. job = [pc |-> "health", todo |-> job.todo] /\ job.todo \in SUBSET Row
    BY <2>1, JobCases DEF TypeOK, WatcherTypeOK
  <2>3. Fresh(job.todo)
    BY <2>1 DEF Quiet, HeldRows
  <2>9. PICK r \in NextRow(job.todo) :
             \E ok \in Verify(r.d.ip, decryptCredentials(watcherKey, r.d)) :
                 job' = IF Verdict(ok) = r.d.status
                        THEN [job EXCEPT !.todo = job.todo \ {r}]
                        ELSE [pc |-> "healthWrite", todo |-> job.todo \ {r}, r |-> r,
                              status |-> Verdict(ok)]
    BY <1>3 DEF ProbeHealth, Verdict
  <2>4. PICK ok \in Verify(r.d.ip, decryptCredentials(watcherKey, r.d)) :
            job' = IF Verdict(ok) = r.d.status
                   THEN [job EXCEPT !.todo = job.todo \ {r}]
                   ELSE [pc |-> "healthWrite", todo |-> job.todo \ {r}, r |-> r,
                         status |-> Verdict(ok)]
    BY <2>9
  <2>5. r \in job.todo
    BY <2>9 DEF NextRow
  <2>6. CASE job' = [job EXCEPT !.todo = job.todo \ {r}]
    <3>1. job' = [pc |-> "health", todo |-> job.todo \ {r}]
      BY <2>2, <2>6
    <3>2. Fresh(job.todo \ {r})
      BY <2>3
    <3> QED BY <1>1, <2>1, <3>1, <3>2 DEF TruthKept
  <2>7. CASE job' = [pc |-> "healthWrite", todo |-> job.todo \ {r}, r |-> r,
                     status |-> Verdict(ok)]
    <3>1. job'.pc = "healthWrite" /\ job'.r = r /\ job'.status = Verdict(ok)
      BY <2>7
    <3>2. HeldRows(job') \subseteq job.todo
      BY <2>5, <2>7 DEF HeldRows
    <3>3. Fresh(HeldRows(job'))
      BY <2>3, <3>2
    <3>4. Verdict(ok) = Verdict(Works(r))
      BY <2>4, CalmVerify DEF Quiet, Works
    <3>5. Works(job.r)' <=> Works(r)
      BY <3>1 DEF Works, Answers, LoginOf, decryptCredentials
    <3>6. Quiet'
      BY <3>1, <3>3, <3>4, <3>5 DEF Quiet, Verdict
    <3> QED BY <2>1, <3>6 DEF TruthKept
  <2> QED BY <2>4, <2>6, <2>7
<1>4. CASE WriteHealth
  <2> DEFINE u == [status |-> job.status]
  <2>1. job.pc = "healthWrite" /\ job' = [pc |-> "health", todo |-> job.todo]
    BY <1>4 DEF WriteHealth
  <2>2. job.todo \cup {job.r} = HeldRows(job)
    BY <2>1 DEF HeldRows
  <2>3. \A r \in job.todo \cup {job.r}, q \in devices :
            q.id = r.id => OperatorColumns(q.d) = OperatorColumns(r.d)
    BY <2>1, <2>2 DEF Quiet
  <2>4. CASE UNCHANGED storeVars
    <3>1. Fresh(job.todo) /\ UNCHANGED devices
      BY <2>3, <2>4 DEF storeVars
    <3> QED BY <1>1, <2>1, <3>1 DEF TruthKept
  <2>5. CASE Update(job.r.id, u)
    <3>1. \A d : OperatorColumns(SetColumns(d, u)) = OperatorColumns(d)
      BY DEF SetColumns, OperatorColumns
    <3>2. \A d : SetColumns(d, u).status = job.status /\ SetColumns(d, u).ip = d.ip
      BY DEF SetColumns
    <3>3. \A q \in devices' : \E r \in devices :
              q.id = r.id /\ q.d = IF r.id = job.r.id THEN SetColumns(r.d, u) ELSE r.d
      BY <2>5, UpdatedRow
    <3> HIDE DEF u
    <3>4. Fresh(job.todo)
      BY <2>3, <3>1, <3>3
    <3>5. ASSUME NEW q \in devices'
          PROVE  TellsTruth(q.d) \/ \E r \in devices : r.id = q.id /\ ~TellsTruth(r.d)
      <4>1. PICK r \in devices :
                q.id = r.id /\ q.d = IF r.id = job.r.id THEN SetColumns(r.d, u) ELSE r.d
        BY <3>3
      <4>2. CASE r.id # job.r.id
        BY <4>1, <4>2
      <4>3. CASE r.id = job.r.id
        <5> DEFINE e == [id |-> job.r.id, ip |-> job.r.d.ip]
        <5>1. e \in Held /\ e.id = job.r.id /\ e.ip = job.r.d.ip
          BY <2>2 DEF Held, HeldByWatcher
        <5> HIDE DEF e
        <5>2. r.d.ip = job.r.d.ip
          BY <4>3, <5>1, HeldNames
        <5>3. q.d.ip = job.r.d.ip /\ q.d.status = job.status
          BY <3>2, <4>1, <4>3, <5>2
        <5>4. OperatorColumns(q.d) = OperatorColumns(job.r.d)
          BY <2>3, <3>1, <4>1, <4>3
        <5>5. Answers(q.d.ip, decryptCredentials(watcherKey, q.d)) <=> Works(job.r)
          BY <5>3, <5>4, SameCase DEF Works
        <5>6. job.status = IF Works(job.r) THEN "active" ELSE "failed"
          BY <2>1 DEF Quiet
        <5> QED BY <5>3, <5>5, <5>6 DEF TellsTruth
      <4> QED BY <4>2, <4>3
    <3>6. TruthKept
      BY <3>5 DEF TruthKept
    <3> QED BY <1>1, <2>1, <3>4, <3>6
  <2> QED BY <1>4, <2>4, <2>5 DEF WriteHealth, HealthColumns
<1>5. CASE FinishHealth
  BY <1>5, QuietAside DEF FinishHealth, storeVars, HoldsFindings, NoJob
<1> QED BY <1>2, <1>3, <1>4, <1>5

\* The row a sweep is about to add says what the row would be probed with
\* again, when that is a community.
LEMMA DiscoveredTruth ==
    ASSUME calm, NEW ip, NEW creds, NEW dup \in BOOLEAN, creds.version # "v3",
           NEW status \in DiscoveredStatus(ip, creds, dup)
    PROVE  TellsTruth(DiscoveredDevice(ip, creds, dup, status))
<1> DEFINE new == DiscoveredDevice(ip, creds, dup, status)
           own == decryptCredentials(watcherKey, new)
<1>1. /\ new.ip = ip /\ new.status = status
      /\ new.snmp_version = IF dup THEN creds.version ELSE ""
      /\ new.community = Encrypt(watcherKey, IF dup THEN creds.community ELSE "")
  BY DEF DiscoveredDevice
<1> HIDE DEF new
<1>2. CASE ~dup
  BY <1>1, <1>2 DEF TellsTruth, new
<1>3. CASE dup
  <2>1. own.version = creds.version /\ own.community = creds.community
    BY <1>1, <1>3, EncryptOpens DEF decryptCredentials, Credentials
  <2> HIDE DEF own
  <2>2. LoginOf(own) = LoginOf(creds)
    BY <2>1 DEF LoginOf
  <2>3. Answers(ip, own) <=> Answers(ip, creds)
    BY <2>1, <2>2 DEF Answers
  <2>4. PICK ok \in Verify(ip, creds) : status = Verdict(ok)
    BY <1>3 DEF DiscoveredStatus, Verdict
  <2>5. status = Verdict(Answers(ip, creds))
    BY <2>4, CalmVerify
  <2> QED BY <1>1, <2>3, <2>5 DEF TellsTruth, Verdict, own, new
<1> QED BY <1>2, <1>3

\* runDiscoverySweep: nothing it holds matters to Quiet but the row it is
\* about to add, and only that row is written.
LEMMA QuietSweep ==
    ASSUME TypeOK, RegistryInv, Quiet, UNCHANGED <<accepts, calm, handlers, watcherKey>>,
           \/ ReadDuplication \/ ListParents \/ WalkRoutes \/ (\E hop \in IPs : ConsiderHop(hop))
           \/ VerifyDiscovered \/ InsertDiscovered \/ LeaveParent \/ FinishSweep
    PROVE  Quiet' /\ TruthKept
<1>1. CASE ReadDuplication \/ ListParents \/ WalkRoutes \/ LeaveParent \/ FinishSweep
  <2>1. UNCHANGED devices
    BY <1>1 DEF ReadDuplication, ListParents, WalkRoutes, LeaveParent, FinishSweep, storeVars
  <2>2. ~HoldsFindings(job')
    BY <1>1 DEF ReadDuplication, ListParents, WalkRoutes, LeaveParent, FinishSweep,
                HoldsFindings, NoJob
  <2> QED BY <2>1, <2>2, QuietAside
<1>2. ASSUME NEW hop \in IPs, ConsiderHop(hop)
      PROVE  Quiet' /\ TruthKept
  <2>1. job = [pc |-> "hops", sweep |-> job.sweep, parent |-> job.parent, hops |-> job.hops]
    BY <1>2, JobCases DEF ConsiderHop, TypeOK, WatcherTypeOK
  <2>2. \A hops : [job EXCEPT !.hops = hops].pc = "hops"
    BY <2>1
  <2>3. job'.pc \in {"found", "hops"}
    BY <1>2, <2>2 DEF ConsiderHop
  <2>4. UNCHANGED devices /\ ~HoldsFindings(job')
    BY <1>2, <2>3 DEF ConsiderHop, storeVars, HoldsFindings
  <2> QED BY <2>4, QuietAside
<1>3. CASE VerifyDiscovered
  <2> DEFINE creds == decryptCredentials(watcherKey, job.parent.d)
             dup   == job.sweep.dup
  <2>1. PICK status \in DiscoveredStatus(job.hop, creds, dup) :
            job' = [pc |-> "add", sweep |-> job.sweep, parent |-> job.parent,
                    hops |-> job.hops, d |-> DiscoveredDevice(job.hop, creds, dup, status)]
    BY <1>3 DEF VerifyDiscovered
  <2> DEFINE new == DiscoveredDevice(job.hop, creds, dup, status)
  <2>2. dup \in BOOLEAN
    <3>1. job.pc = "found"
      BY <1>3 DEF VerifyDiscovered
    <3>2. job.sweep \in BelowCap
      BY <3>1, JobCases DEF TypeOK, WatcherTypeOK
    <3> QED BY <3>2 DEF BelowCap, SweepState
  <2>3. new.snmp_version = IF dup THEN creds.version ELSE ""
    BY DEF DiscoveredDevice
  <2>4. job'.pc = "add" /\ job'.d = new
    BY <2>1
  <2> HIDE DEF creds, dup
  <2>5. new.snmp_version # "v3" => TellsTruth(new)
    <3>1. CASE creds.version # "v3"
      BY <2>1, <2>2, <3>1, DiscoveredTruth DEF Quiet
    <3>2. CASE ~dup
      BY <2>3, <3>2 DEF TellsTruth
    <3> QED BY <2>2, <2>3, <3>1, <3>2
  <2> HIDE DEF new
  <2>6. job'.d.snmp_version # "v3" => TellsTruth(job.d)'
    BY <2>4, <2>5 DEF TellsTruth, Answers, LoginOf, CanDecrypt, decryptCredentials
  <2>7. UNCHANGED devices
    BY <1>3 DEF VerifyDiscovered, storeVars
  <2>8. Quiet'
    BY <2>4, <2>6 DEF Quiet
  <2> QED BY <2>7, <2>8 DEF TruthKept
<1>4. CASE InsertDiscovered
  <2>1. job.pc = "add" /\ ~HoldsFindings(job')
    BY <1>4 DEF InsertDiscovered, HoldsFindings
  <2>2. CASE UNCHANGED storeVars
    BY <2>1, <2>2, QuietAside DEF storeVars
  <2>3. CASE Insert(job.d)
    <3>1. NextId > lastId
      BY <2>3, InsertedRow DEF RegistryInv
    <3>2. \A q \in devices' : q \in devices \/ (q.id = NextId /\ q.d = job.d)
      BY <2>3, InsertedRow DEF RegistryInv
    <3>3. job.d.snmp_version # "v3" => TellsTruth(job.d)
      BY <2>1 DEF Quiet
    <3>4. TruthKept
      BY <3>1, <3>2, <3>3 DEF TruthKept
    <3>5. Quiet'
      BY <2>1 DEF Quiet, HoldsFindings
    <3> QED BY <3>4, <3>5
  <2> QED BY <1>4, <2>2, <2>3 DEF InsertDiscovered
<1> QED BY <1>1, <1>2, <1>3, <1>4

\* One step of the composed system, when it is quiet.
LEMMA QuietStep ==
    ASSUME TypeOK, RegistryInv, OneRowPerId, Quiet, [Next]_vars
    PROVE  Quiet' /\ TruthKept
<1>1. /\ UNCHANGED <<accepts, calm, handlers, watcherKey>>
      /\ JobStep \/ ListForHealth \/ ReadInterval \/ ReadDuplication \/ UNCHANGED vars
  BY OnlyJobsMove
<1>2. CASE DiscoverGateway \/ CreateGateway \/ ProbeDefaults \/ probeAndUpdate
  BY <1>1, <1>2, QuietGateway
<1>3. CASE ListForHealth \/ ProbeHealth \/ WriteHealth \/ FinishHealth
  BY <1>1, <1>3, QuietHealth
<1>4. CASE \/ ReadDuplication \/ ListParents \/ WalkRoutes \/ (\E hop \in IPs : ConsiderHop(hop))
           \/ VerifyDiscovered \/ InsertDiscovered \/ LeaveParent \/ FinishSweep
  BY <1>1, <1>4, QuietSweep
<1>5. CASE ReadInterval \/ RenderConfig \/ FinishWrite \/ reloadTelegraf
  <2>1. UNCHANGED devices
    BY <1>5 DEF ReadInterval, RenderConfig, FinishWrite, reloadTelegraf, storeVars
  <2>2. ~HoldsFindings(job')
    BY <1>5 DEF ReadInterval, RenderConfig, FinishWrite, reloadTelegraf, HoldsFindings, NoJob
  <2> QED BY <1>1, <2>1, <2>2, QuietAside
<1>6. CASE UNCHANGED vars
  <2>1. UNCHANGED <<accepts, calm, devices, handlers, job, watcherKey>>
    BY <1>6 DEF vars, netVars, storeVars, apiVars, watcherVars
  <2>2. Quiet'
    BY <2>1 DEF Quiet, Works, Answers, LoginOf, TellsTruth, CanDecrypt, decryptCredentials,
                RowsWithId
  <2> QED BY <2>1, <2>2 DEF TruthKept
<1> QED BY <1>1, <1>2, <1>3, <1>4, <1>5, <1>6 DEF JobStep

\* Once nothing from before is under way it stays so, and the statuses that
\* tell the truth go on telling it: no probe of the gateway, health check or
\* sweep falsifies one or adds a device with a false one, except for a device
\* found through an SNMPv3 parent.
THEOREM StatusClosed == Spec => StatusStable
<1> DEFINE Stays == Quiet =>
               /\ Quiet'
               /\ \A q \in devices' :
                      \/ TellsTruth(q.d)'
                      \/ \E r \in devices : r.id = q.id /\ ~TellsTruth(r.d)
                      \/ q.id > lastId /\ q.d.snmp_version = "v3"
<1>1. Init => OneRowPerId
  BY DEF Init, StoreInit, OneRowPerId
<1>2. TypeOK /\ RegistryInv /\ OneRowPerId /\ [Next]_vars => OneRowPerId' /\ Stays
  <2> SUFFICES ASSUME TypeOK, RegistryInv, OneRowPerId, [Next]_vars
               PROVE  OneRowPerId' /\ Stays
    OBVIOUS
  <2>1. OneRowPerId'
    BY SettingsStep
  <2>2. ASSUME Quiet
        PROVE  Quiet' /\ TruthKept /\ UNCHANGED <<accepts, watcherKey>>
    BY <2>2, QuietStep, OnlyJobsMove
  <2>3. ASSUME UNCHANGED <<accepts, watcherKey>>, NEW q \in devices', TellsTruth(q.d)
        PROVE  TellsTruth(q.d)'
    BY <2>3 DEF Answers, TellsTruth, LoginOf, CanDecrypt, decryptCredentials
  <2> QED BY <2>1, <2>2, <2>3 DEF TruthKept
<1>3. (Spec => [][Stays]_vars) => (Spec => StatusStable)
  BY DEF StatusStable
<1> HIDE DEF Stays
<1> QED
  BY <1>1, <1>2, <1>3, TypeCorrect, RegistryInvariant, PTL DEF Spec

-----------------------------------------------------------------------------
(***************************************************************************)
(* The converged system comes to rest.  A health check that is still on    *)
(* its way writes what is written already, which needs an invariant: what  *)
(* it has listed has credentials that it can open.                         *)
(***************************************************************************)
Listing(j) == j.pc \in {"health", "healthWrite"}

ListedOpen ==
    Listing(job) => \A r \in HeldRows(job) :
        r.d.snmp_version # "" /\ CanDecrypt(watcherKey, r.d)

\* Which steps leave a job with rows that it has listed for a health check.
LEMMA OnlyHealthLists ==
    ASSUME TypeOK, [Next]_vars, Listing(job')
    PROVE  ListForHealth \/ ProbeHealth \/ WriteHealth \/ UNCHANGED <<job, watcherKey>>
<1> USE DEF TypeOK
<1> DEFINE Goal == ListForHealth \/ ProbeHealth \/ WriteHealth \/ UNCHANGED <<job, watcherKey>>
<1>1. CASE Environment \/ Api \/ UNCHANGED vars
  BY <1>1 DEF Environment, Api, vars, watcherVars
<1>2. CASE WatcherNext
  <2>1. CASE \/ DiscoverGateway \/ CreateGateway \/ probeAndUpdate \/ FinishHealth
             \/ ReadInterval \/ RenderConfig \/ FinishWrite \/ reloadTelegraf \/ WatcherCrash
    BY <2>1 DEF DiscoverGateway, CreateGateway, probeAndUpdate, FinishHealth, ReadInterval,
                RenderConfig, FinishWrite, reloadTelegraf, WatcherCrash, NoJob, Listing
  <2>2. CASE \/ ReadDuplication \/ ListParents \/ WalkRoutes \/ VerifyDiscovered
             \/ InsertDiscovered \/ LeaveParent \/ FinishSweep
    BY <2>2 DEF ReadDuplication, ListParents, WalkRoutes, VerifyDiscovered, InsertDiscovered,
                LeaveParent, FinishSweep, NoJob, Listing
  <2>3. CASE ProbeDefaults
    <3>1. job = [pc |-> "gwProbe", id |-> job.id, try |-> job.try]
      BY <2>3, JobCases DEF ProbeDefaults, WatcherTypeOK
    <3>2. [job EXCEPT !.try = job.try + 1].pc = "gwProbe"
      BY <3>1
    <3> QED BY <2>3, <3>2 DEF ProbeDefaults, Listing
  <2>4. ASSUME NEW hop \in IPs, ConsiderHop(hop)
        PROVE  Goal
    <3>1. job = [pc |-> "hops", sweep |-> job.sweep, parent |-> job.parent, hops |-> job.hops]
      BY <2>4, JobCases DEF ConsiderHop, WatcherTypeOK
    <3>2. \A hops : [job EXCEPT !.hops = hops].pc = "hops"
      BY <3>1
    <3> QED BY <2>4, <3>2 DEF ConsiderHop, Listing
  <2>5. CASE TelegrafRestart
    BY <2>5 DEF TelegrafRestart, watcherVars
  <2> QED
    BY <1>2, <2>1, <2>2, <2>3, <2>4, <2>5 DEF WatcherNext, JobStep
<1> QED
  BY <1>1, <1>2 DEF Next, Watcher

\* The loop of the health check holds what it has listed, and less and less.
LEMMA ListedShrinks ==
    ASSUME TypeOK, ProbeHealth \/ WriteHealth
    PROVE  Listing(job) /\ HeldRows(job') \subseteq HeldRows(job) /\ UNCHANGED watcherKey
<1>1. CASE ProbeHealth
  <2>1. job.pc = "health" /\ UNCHANGED watcherKey
    BY <1>1 DEF ProbeHealth
  <2>2. job = [pc |-> "health", todo |-> job.todo] /\ HeldRows(job) = job.todo
    BY <2>1, JobCases DEF TypeOK, WatcherTypeOK, HeldRows
  <2>3. PICK r \in NextRow(job.todo) :
            \/ job' = [job EXCEPT !.todo = job.todo \ {r}]
            \/ \E status : job' = [pc |-> "healthWrite", todo |-> job.todo \ {r}, r |-> r,
                                   status |-> status]
    BY <1>1 DEF ProbeHealth
  <2>4. r \in job.todo
    BY <2>3 DEF NextRow
  <2>5. CASE job' = [job EXCEPT !.todo = job.todo \ {r}]
    <3>1. job' = [pc |-> "health", todo |-> job.todo \ {r}]
      BY <2>2, <2>5
    <3>2. HeldRows(job') = job.todo \ {r}
      BY <3>1 DEF HeldRows
    <3> QED BY <2>1, <2>2, <3>2 DEF Listing
  <2>6. ASSUME NEW status, job' = [pc |-> "healthWrite", todo |-> job.todo \ {r}, r |-> r,
                                   status |-> status]
        PROVE  HeldRows(job') \subseteq HeldRows(job)
    <3>1. HeldRows(job') = (job.todo \ {r}) \cup {r}
      BY <2>6 DEF HeldRows
    <3> QED BY <2>2, <2>4, <3>1
  <2> QED BY <2>1, <2>3, <2>5, <2>6 DEF Listing
<1>2. CASE WriteHealth
  <2>1. job.pc = "healthWrite" /\ job' = [pc |-> "health", todo |-> job.todo] /\ UNCHANGED watcherKey
    BY <1>2 DEF WriteHealth
  <2>2. HeldRows(job) = job.todo \cup {job.r} /\ HeldRows(job') = job.todo
    BY <2>1 DEF HeldRows
  <2> QED BY <2>1, <2>2 DEF Listing
<1> QED BY <1>1, <1>2

LEMMA ListedOpenStep ==
    ASSUME TypeOK, ListedOpen, [Next]_vars
    PROVE  ListedOpen'
<1> SUFFICES ASSUME Listing(job')
             PROVE  \A r \in HeldRows(job') : r.d.snmp_version # "" /\ CanDecrypt(watcherKey', r.d)
  BY DEF ListedOpen, Listing, HeldRows, CanDecrypt
<1>1. CASE UNCHANGED <<job, watcherKey>>
  BY <1>1 DEF ListedOpen
<1>2. CASE ProbeHealth \/ WriteHealth
  BY <1>2, ListedShrinks DEF ListedOpen
<1>3. CASE ListForHealth
  <2>1. job' = [pc |-> "health", todo |-> HealthCandidates] /\ UNCHANGED watcherKey
    BY <1>3 DEF ListForHealth, Listing, NoJob
  <2>2. HeldRows(job') = HealthCandidates
    BY <2>1 DEF HeldRows
  <2> QED BY <2>1, <2>2 DEF HealthCandidates
<1> QED BY <1>1, <1>2, <1>3, OnlyHealthLists

\* A row of the device that a health check is about to write to has the status
\* that will be written.
LEMMA WrittenAlready ==
    ASSUME RegistryInv, ListedOpen, Converged, job.pc = "healthWrite",
           NEW r \in devices, r.id = job.r.id
    PROVE  r.d.status = job.status
<1>1. job.r \in HeldRows(job)
  BY DEF HeldRows
<1>2. OperatorColumns(r.d) = OperatorColumns(job.r.d)
  BY <1>1 DEF Converged, Quiet
<1>3. r.d.ip = job.r.d.ip
  <2> DEFINE e == [id |-> job.r.id, ip |-> job.r.d.ip]
  <2>1. e \in Held /\ e.id = job.r.id /\ e.ip = job.r.d.ip
    BY <1>1 DEF Held, HeldByWatcher
  <2> HIDE DEF e
  <2> QED BY <2>1, HeldNames
<1>4. job.r.d.snmp_version # "" /\ CanDecrypt(watcherKey, job.r.d)
  BY <1>1 DEF ListedOpen, Listing
<1>5. r.d.snmp_version # "" /\ CanDecrypt(watcherKey, r.d)
  BY <1>2, <1>4 DEF OperatorColumns, CanDecrypt
<1>6. r.d.status = IF Answers(r.d.ip, decryptCredentials(watcherKey, r.d)) THEN "active" ELSE "failed"
  BY <1>5 DEF Converged, TellsTruth
<1>7. Answers(r.d.ip, decryptCredentials(watcherKey, r.d)) <=> Works(job.r)
  BY <1>2, <1>3, SameCase DEF Works
<1>8. job.status = IF Works(job.r) THEN "active" ELSE "failed"
  BY DEF Converged, Quiet
<1> QED BY <1>6, <1>7, <1>8

\* So writing it again changes nothing.
LEMMA WriteHealthIdle ==
    ASSUME TypeOK, RegistryInv, ListedOpen, Converged, WriteHealth
    PROVE  UNCHANGED storeVars
<1> DEFINE u == [status |-> job.status]
           new(r) == IF r.id = job.r.id THEN [r EXCEPT !.d = SetColumns(r.d, u)] ELSE r
<1>1. job.pc = "healthWrite"
  BY DEF WriteHealth
<1>2. CASE Update(job.r.id, u)
  <2>1. ASSUME NEW r \in devices
        PROVE  new(r) = r
    <3>1. r = [id |-> r.id, d |-> r.d] /\ r.d \in Device
      BY DEF TypeOK, StoreTypeOK, Row
    <3>2. CASE r.id = job.r.id
      <4>1. r.d.status = job.status
        BY <1>1, <3>2, WrittenAlready
      <4>2. SetColumns(r.d, u) = r.d
        BY <3>1, <4>1 DEF SetColumns, Device
      <4>3. [r EXCEPT !.d = r.d] = r
        BY <3>1
      <4> QED BY <3>2, <4>2, <4>3
    <3> QED BY <3>2
  <2>2. devices' = {new(r) : r \in devices} /\ UNCHANGED <<lastId, settings>>
    BY <1>2 DEF Update
  <2> HIDE DEF new
  <2> QED BY <2>1, <2>2 DEF storeVars
<1> QED BY <1>2 DEF WriteHealth, HealthColumns

\* Unless a device comes in or the gateway gets its verdict, the table is
\* left as it is.
LEMMA TableAtRest ==
    ASSUME TypeOK, RegistryInv, ListedOpen, Converged, [Next]_vars,
           ~(lastId' > lastId), job.pc # "gwUpdate"
    PROVE  UNCHANGED storeVars
<1>1. JobStep \/ ListForHealth \/ ReadInterval \/ ReadDuplication \/ UNCHANGED vars
  BY OnlyJobsMove DEF Converged
<1>2. ASSUME NEW d
      PROVE  ~Insert(d)
  BY InsertedRow DEF RegistryInv, Insert
<1>3. CASE CreateGateway \/ InsertDiscovered \/ probeAndUpdate
  BY <1>2, <1>3 DEF CreateGateway, InsertDiscovered, probeAndUpdate
<1>4. CASE WriteHealth
  BY <1>4, WriteHealthIdle
<1>5. CASE \/ DiscoverGateway \/ ProbeDefaults \/ ListForHealth \/ ProbeHealth \/ FinishHealth
           \/ ReadInterval \/ RenderConfig \/ FinishWrite \/ reloadTelegraf
  BY <1>5 DEF DiscoverGateway, ProbeDefaults, ListForHealth, ProbeHealth, FinishHealth,
              ReadInterval, RenderConfig, FinishWrite, reloadTelegraf
<1>6. CASE \/ ReadDuplication \/ ListParents \/ WalkRoutes \/ (\E hop \in IPs : ConsiderHop(hop))
           \/ VerifyDiscovered \/ LeaveParent \/ FinishSweep
  BY <1>6 DEF ReadDuplication, ListParents, WalkRoutes, ConsiderHop, VerifyDiscovered,
              LeaveParent, FinishSweep
<1>7. CASE UNCHANGED vars
  BY <1>7 DEF vars
<1> QED BY <1>1, <1>3, <1>4, <1>5, <1>6, <1>7 DEF JobStep

\* The part of Converged that is about telegraf's configuration.
Served(j) ==
    /\ j.pc = "render" => j.interval = settings.interval
    /\ j.pc = "write" => j.text = Rendered

\* A reconcile that finds the right file leaves it, and one that began before
\* writes and reloads the right one.
LEMMA FileAtRest ==
    ASSUME TypeOK, Converged, [Next]_vars, UNCHANGED <<storeVars, watcherKey>>
    PROVE  Served(job') /\ UNCHANGED confVars
<1> DEFINE Goal == Served(job') /\ UNCHANGED confVars
<1>1. JobStep \/ ListForHealth \/ ReadInterval \/ ReadDuplication \/ UNCHANGED vars
  BY OnlyJobsMove DEF Converged
<1>2. conf = Rendered /\ running = conf /\ Served(job)
  BY DEF Converged, Served
<1>3. CASE ReadInterval
  <2>1. job' = NoJob \/ job' = [pc |-> "render", interval |-> settings.interval]
    BY <1>3 DEF ReadInterval
  <2> QED BY <1>3, <2>1 DEF ReadInterval, Served, NoJob
<1>4. CASE RenderConfig
  <2>1. job.pc = "render" /\ job.interval = settings.interval
    BY <1>2, <1>4 DEF RenderConfig, Served
  <2>2. Unchanged(renderTelegrafConfig(job.interval, RowsWithStatus("active")))
    BY <1>2, <2>1 DEF Unchanged, Rendered
  <2>3. job' = NoJob /\ UNCHANGED confVars
    BY <1>4, <2>2 DEF RenderConfig, confVars
  <2> QED BY <2>3 DEF Served, NoJob
<1>5. CASE FinishWrite
  <2>1. job.pc = "write" /\ job.text = conf
    BY <1>2, <1>5 DEF FinishWrite, Served
  <2>2. UNCHANGED confVars /\ job' \in {NoJob, [pc |-> "reload"]}
    BY <1>5, <2>1 DEF FinishWrite, confVars
  <2> QED BY <2>2 DEF Served, NoJob
<1>6. CASE reloadTelegraf
  <2>1. job' = NoJob /\ UNCHANGED confVars
    BY <1>2, <1>6 DEF reloadTelegraf, confVars
  <2> QED BY <2>1 DEF Served, NoJob
<1>7. CASE \/ DiscoverGateway \/ CreateGateway \/ probeAndUpdate
           \/ ListForHealth \/ WriteHealth \/ FinishHealth
  BY <1>7 DEF DiscoverGateway, CreateGateway, probeAndUpdate, ListForHealth, WriteHealth,
              FinishHealth, Served, NoJob
<1>8. CASE \/ ReadDuplication \/ ListParents \/ WalkRoutes
           \/ VerifyDiscovered \/ InsertDiscovered \/ LeaveParent \/ FinishSweep
  BY <1>8 DEF ReadDuplication, ListParents, WalkRoutes, VerifyDiscovered, InsertDiscovered,
              LeaveParent, FinishSweep, Served, NoJob
<1>9. CASE ProbeDefaults
  <2>1. job = [pc |-> "gwProbe", id |-> job.id, try |-> job.try]
    BY <1>9, JobCases DEF ProbeDefaults, TypeOK, WatcherTypeOK
  <2>2. [job EXCEPT !.try = job.try + 1].pc = "gwProbe"
    BY <2>1
  <2>3. job'.pc \in {"gwProbe", "gwUpdate"} /\ UNCHANGED confVars
    BY <1>9, <2>2 DEF ProbeDefaults
  <2> QED BY <2>3 DEF Served
<1>10. CASE ProbeHealth
  <2>1. job = [pc |-> "health", todo |-> job.todo]
    BY <1>10, JobCases DEF ProbeHealth, TypeOK, WatcherTypeOK
  <2>2. \A rows : [job EXCEPT !.todo = rows].pc = "health"
    BY <2>1
  <2>3. job'.pc \in {"health", "healthWrite"} /\ UNCHANGED confVars
    BY <1>10, <2>2 DEF ProbeHealth
  <2> QED BY <2>3 DEF Served
<1>11. ASSUME NEW hop \in IPs, ConsiderHop(hop)
       PROVE  Goal
  <2>1. job = [pc |-> "hops", sweep |-> job.sweep, parent |-> job.parent, hops |-> job.hops]
    BY <1>11, JobCases DEF ConsiderHop, TypeOK, WatcherTypeOK
  <2>2. \A hops : [job EXCEPT !.hops = hops].pc = "hops"
    BY <2>1
  <2>3. job'.pc \in {"found", "hops"} /\ UNCHANGED confVars
    BY <1>11, <2>2 DEF ConsiderHop
  <2> QED BY <2>3 DEF Served
<1>12. CASE UNCHANGED vars
  BY <1>2, <1>12 DEF vars, watcherVars
<1> QED
  BY <1>1, <1>3, <1>4, <1>5, <1>6, <1>7, <1>8, <1>9, <1>10, <1>11, <1>12 DEF JobStep

LEMMA ConvergedStep ==
    ASSUME TypeOK, RegistryInv, OneRowPerId, ListedOpen, Converged, [Next]_vars
    PROVE  Converged' \/ lastId' > lastId \/ job.pc = "gwUpdate"
<1> SUFFICES ASSUME ~(lastId' > lastId), job.pc # "gwUpdate"
             PROVE  Converged'
  OBVIOUS
<1>1. UNCHANGED <<accepts, calm, handlers, watcherKey>> /\ Quiet'
  BY OnlyJobsMove, QuietStep DEF Converged
<1>2. UNCHANGED storeVars
  BY TableAtRest
<1>3. Served(job') /\ UNCHANGED confVars
  BY <1>1, <1>2, FileAtRest
<1>4. UNCHANGED <<accepts, watcherKey, devices, settings, conf, running>>
  BY <1>1, <1>2, <1>3 DEF storeVars, confVars
<1>5. Rendered' = Rendered
  BY <1>4 DEF Rendered, renderTelegrafConfig, RowsWithStatus, AgentOf, decryptCredentials
<1>6. \A r \in devices : TellsTruth(r.d)'
  BY <1>4 DEF Converged, Answers, TellsTruth, LoginOf, CanDecrypt, decryptCredentials
<1> QED BY <1>1, <1>3, <1>4, <1>5, <1>6 DEF Converged, Served

\* Once statuses, file and telegraf agree with the network, no number of
\* health checks, reconciles and sweeps moves them again: they are left alone
\* until a device is added or the gateway gets its verdict.
THEOREM ComesToRest == Spec => ConvergenceStable
<1> DEFINE Rests == Converged => Converged' \/ lastId' > lastId \/ job.pc = "gwUpdate"
<1>1. Init => OneRowPerId /\ ListedOpen
  BY DEF Init, StoreInit, OneRowPerId, WatcherInit, NoJob, ListedOpen, Listing
<1>2. TypeOK /\ RegistryInv /\ OneRowPerId /\ ListedOpen /\ [Next]_vars
          => OneRowPerId' /\ ListedOpen' /\ Rests
  BY SettingsStep, ListedOpenStep, ConvergedStep
<1>3. (Spec => [][Rests]_vars) => (Spec => ConvergenceStable)
  BY DEF ConvergenceStable
<1> HIDE DEF Rests
<1> QED
  BY <1>1, <1>2, <1>3, TypeCorrect, RegistryInvariant, PTL DEF Spec
=============================================================================
