--------------------------- MODULE ConfigWatcher ----------------------------
(***************************************************************************)
(* config-watcher: one goroutine that discovers the default gateway at     *)
(* start-up and then, whenever a ticker fires, checks device health,       *)
(* reconciles telegraf.conf with the devices table, or sweeps routing      *)
(* tables for new devices.  main says what the main function does next,    *)
(* job what the function it has called is about to do; every database      *)
(* statement, SNMP exchange and file or docker operation is a step.        *)
(*                                                                         *)
(* Snapshots of rows are kept by value, as the Go slices of *Device are:   *)
(* nothing re-reads a row that a job has already listed.                   *)
(***************************************************************************)
EXTENDS DeviceStore

CONSTANTS
    Gateway,                \* the host's default gateway
    MaxNewDevicesPerSweep,  \* maxNewDevicesPerSweep (10)
    Tickers                 \* the loops whose ticker fires in the time modelled

VARIABLES
    main,           \* "gateway", "health", "reconcile" at start-up, then "select"
    job,            \* the running function's local state
    watcherKey,     \* config-watcher's ENCRYPTION_KEY
    conf,           \* the file telegraf.conf on the shared volume
    running         \* the configuration telegraf last loaded

watcherVars == <<main, job, watcherKey>>
confVars    == <<conf, running>>

ASSUME WatcherAssumption ==
    /\ Gateway \in IPs
    /\ MaxNewDevicesPerSweep \in Nat \ {0}
    /\ Tickers \subseteq {"health", "reconcile", "sweep"}

-----------------------------------------------------------------------------
\* One [[inputs.snmp]] block.
Agent == [ip : IPs, version : {1, 2, 3}, secret : Plain]

\* The file: absent or not ours yet, cut short by a write that did not finish,
\* or a rendered configuration.  Blocks are in id order, so a set will do.
Conf ==
    [kind : {"none", "torn"}] \cup
    [kind : {"whole"}, interval : allowedPollingIntervals, agents : SUBSET Agent]

NoConf   == [kind |-> "none"]
TornConf == [kind |-> "torn"]

\* What a running sweep carries: the setting it read, the parents still to
\* walk and the number of devices it has inserted, at most n.
SweepState(n) == [dup : BOOLEAN, todo : SUBSET Row, count : 0 .. n]

Sweeping == SweepState(MaxNewDevicesPerSweep)
BelowCap == SweepState(MaxNewDevicesPerSweep - 1)

\* The local state of each function main calls, step by step.
GatewayJob ==
    [pc : {"gwCreate"}] \cup
    [pc : {"gwProbe"}, id : Ids, try : 1 .. 3] \cup
    [pc : {"gwUpdate"}, id : Ids, found : 0 .. 3]

HealthJob ==
    [pc : {"health"}, todo : SUBSET Row] \cup
    [pc : {"healthWrite"}, todo : SUBSET Row, r : Row, status : Statuses]

ReconcileJob ==
    [pc : {"render"}, interval : allowedPollingIntervals] \cup
    [pc : {"write"}, text : Conf] \cup
    [pc : {"reload"}]

SweepJob ==
    [pc : {"list"}, dup : BOOLEAN] \cup
    [pc : {"parents"}, sweep : Sweeping] \cup
    [pc : {"hops"}, sweep : Sweeping, parent : Row, hops : SUBSET IPs] \cup
    [pc : {"found"}, sweep : BelowCap, parent : Row, hops : SUBSET IPs, hop : IPs] \cup
    [pc : {"add"}, sweep : BelowCap, parent : Row, hops : SUBSET IPs, d : Device]

NoJob == [pc |-> "none"]

JobState == {NoJob} \cup GatewayJob \cup HealthJob \cup ReconcileJob \cup SweepJob

\* The row a loop over an ORDER BY id listing comes to next.
NextRow(todo) == {r \in todo : \A q \in todo : r.id <= q.id}

\* main is at the start-up call of stage, or its ticker fires in select.
MayCall(stage) ==
    /\ job = NoJob
    /\ main = stage \/ (main = "select" /\ stage \in Tickers)

\* After a start-up call main goes on to the next one, later back to select.
MainAfter(stage) ==
    CASE main = "select"   -> "select"
      [] stage = "gateway" -> "health"
      [] stage = "health"  -> "reconcile"
      [] OTHER             -> "select"

-----------------------------------------------------------------------------
\* discoverGatewayDevice: find the gateway and look its row up.  A row that
\* exists, readable or not, ends it.
DiscoverGateway ==
    /\ main = "gateway" /\ job = NoJob
    /\ main' = MainAfter("gateway")
    /\ \E found \in Outcome("gateway"), ok \in Outcome("db") :
           job' = IF found /\ ok /\ RowsWithIP(Gateway) = {}
                  THEN [pc |-> "gwCreate"] ELSE NoJob
    /\ UNCHANGED <<storeVars, confVars, watcherKey>>

GatewayDevice ==
    [ip             |-> Gateway,
     hostname       |-> "",
     snmp_version   |-> "",
     community      |-> Encrypt(watcherKey, ""),
     v3             |-> Encrypt(watcherKey, ""),
     status         |-> "pending",
     is_public_ip   |-> IsPublic(Gateway),
     discovered_via |-> "gateway"]

\* discoverGatewayDevice: create the row, then probe it.
CreateGateway ==
    /\ job.pc = "gwCreate"
    /\ \E ok \in Outcome("db") :
           IF ok /\ CanInsert(GatewayDevice)
           THEN /\ Insert(GatewayDevice)
                /\ job' = [pc |-> "gwProbe", id |-> NextId, try |-> 1]
           ELSE UNCHANGED storeVars /\ job' = NoJob
    /\ UNCHANGED <<confVars, main, watcherKey>>

\* ProbeDefaults: one candidate; the first that works wins, none is 0.
ProbeDefaults ==
    /\ job.pc = "gwProbe"
    /\ \E ok \in Verify(Gateway, defaultCommunities[job.try]) :
           job' = IF ok
                  THEN [pc |-> "gwUpdate", id |-> job.id, found |-> job.try]
                  ELSE IF job.try < Len(defaultCommunities)
                  THEN [job EXCEPT !.try = @ + 1]
                  ELSE [pc |-> "gwUpdate", id |-> job.id, found |-> 0]
    /\ UNCHANGED <<storeVars, confVars, main, watcherKey>>

Bug_CommunityNotRecorded(found) ==
    IF found = 0 THEN [status |-> "failed"]
    ELSE [snmp_version |-> defaultCommunities[found].version, status |-> "active"]

\* probeAndUpdate's columns: only the status when nothing worked.
ProbedColumns(found) ==
    IF found = 0 THEN [status |-> "failed"]
    ELSE [snmp_version |-> defaultCommunities[found].version,
          community    |-> Encrypt(watcherKey, defaultCommunities[found].community),
          status       |-> "active"]

probeAndUpdate ==
    /\ job.pc = "gwUpdate"
    /\ \E ok \in Outcome("db") :
           IF ok /\ CanUpdate(job.id, ProbedColumns(job.found))
           THEN Update(job.id, ProbedColumns(job.found))
           ELSE UNCHANGED storeVars
    /\ job' = NoJob
    /\ UNCHANGED <<confVars, main, watcherKey>>

-----------------------------------------------------------------------------
Bug_OnlyActive ==
    {r \in RowsWithStatus("active") : CanDecrypt(watcherKey, r.d)}

\* The rows the health check's loop does not pass over: those with a version
\* and with secrets that decrypt, whatever their status.
HealthCandidates ==
    {r \in devices : r.d.snmp_version # "" /\ CanDecrypt(watcherKey, r.d)}

\* checkDeviceHealth: list every device.
ListForHealth ==
    /\ MayCall("health")
    /\ main' = MainAfter("health")
    /\ \E ok \in Outcome("db") :
           job' = IF ~ok \/ ListFails(devices) THEN NoJob
                  ELSE [pc |-> "health", todo |-> HealthCandidates]
    /\ UNCHANGED <<storeVars, confVars, watcherKey>>

Bug_StopAtFirstFailure ==
    /\ job.pc = "health"
    /\ \E r \in NextRow(job.todo) :
       \E ok \in Verify(r.d.ip, decryptCredentials(watcherKey, r.d)) :
           LET newStatus == IF ok THEN "active" ELSE "failed"
           IN  job' = IF newStatus = r.d.status
                      THEN IF ok THEN [job EXCEPT !.todo = @ \ {r}] ELSE NoJob
                      ELSE [pc |-> "healthWrite", todo |-> job.todo \ {r}, r |-> r,
                            status |-> newStatus]
    /\ UNCHANGED <<storeVars, confVars, main, watcherKey>>

\* Probe the next device; its listed status decides whether to write.  The
\* ping before it is only logged.
ProbeHealth ==
    /\ job.pc = "health"
    /\ \E r \in NextRow(job.todo) :
       \E ok \in Verify(r.d.ip, decryptCredentials(watcherKey, r.d)) :
           LET newStatus == IF ok THEN "active" ELSE "failed"
               rest      == job.todo \ {r}
           IN  job' = IF newStatus = r.d.status
                      THEN [job EXCEPT !.todo = rest]
                      ELSE [pc |-> "healthWrite", todo |-> rest, r |-> r,
                            status |-> newStatus]
    /\ UNCHANGED <<storeVars, confVars, main, watcherKey>>

Bug_WholeRow(r, status) ==
    [hostname |-> r.d.hostname, snmp_version |-> r.d.snmp_version,
     community |-> r.d.community, v3 |-> r.d.v3, status |-> status]

\* The columns the health check writes back.
HealthColumns(r, status) == [status |-> status]

WriteHealth ==
    /\ job.pc = "healthWrite"
    /\ \E ok \in Outcome("db") :
           LET u == HealthColumns(job.r, job.status)
           IN  IF ok /\ CanUpdate(job.r.id, u)
               THEN Update(job.r.id, u)
               ELSE UNCHANGED storeVars
    /\ job' = [pc |-> "health", todo |-> job.todo]
    /\ UNCHANGED <<confVars, main, watcherKey>>

FinishHealth ==
    /\ job.pc = "health" /\ job.todo = {}
    /\ job' = NoJob
    /\ UNCHANGED <<storeVars, confVars, main, watcherKey>>

-----------------------------------------------------------------------------
\* reconcileTelegrafConfig: read the interval.
ReadInterval ==
    /\ MayCall("reconcile")
    /\ main' = MainAfter("reconcile")
    /\ \E ok \in Outcome("db") :
           job' = IF ok THEN [pc |-> "render", interval |-> settings.interval] ELSE NoJob
    /\ UNCHANGED <<storeVars, confVars, watcherKey>>

versionNumber(version) == CASE version = "v1" -> 1 [] version = "v3" -> 3 [] OTHER -> 2

\* The template prints the v3 identity for version 3 and the community otherwise.
AgentOf(d) ==
    LET n == versionNumber(d.snmp_version)
        c == decryptCredentials(watcherKey, d)
    IN  [ip |-> d.ip, version |-> n, secret |-> IF n = 3 THEN c.v3 ELSE c.community]

renderTelegrafConfig(interval, rows) ==
    [kind |-> "whole", interval |-> interval, agents |-> {AgentOf(r.d) : r \in rows}]

\* One active row that cannot be scanned or decrypted stops the whole render.
RenderFails(rows) == ListFails(rows) \/ \E r \in rows : ~CanDecrypt(watcherKey, r.d)

Bug_SameAddresses(text) ==
    /\ conf.kind = "whole"
    /\ {a.ip : a \in conf.agents} = {a.ip : a \in text.agents}

Bug_ComparesPrefix(text) == conf = text \/ conf = TornConf

Bug_AlwaysWrites(text) == FALSE

\* writeIfChanged: the file already holds this text.
Unchanged(text) == conf = text

\* List the active devices, render, compare with the file.  os.WriteFile
\* truncates the file before it writes.
RenderConfig ==
    /\ job.pc = "render"
    /\ LET rows == RowsWithStatus("active")
           text == renderTelegrafConfig(job.interval, rows)
       IN  \E ok \in Outcome("db"), readable \in Outcome("file") :
               IF ~ok \/ RenderFails(rows) \/ ~readable \/ Unchanged(text)
               THEN job' = NoJob /\ UNCHANGED conf
               ELSE job' = [pc |-> "write", text |-> text] /\ conf' = TornConf
    /\ UNCHANGED <<storeVars, running, main, watcherKey>>

Bug_WriteErrorIgnored ==
    /\ job.pc = "write"
    /\ \E ok \in Outcome("file") : conf' = IF ok THEN job.text ELSE conf
    /\ job' = [pc |-> "reload"]
    /\ UNCHANGED <<storeVars, running, main, watcherKey>>

Bug_ReloadsForNewAgentsOnly ==
    /\ job.pc = "write"
    /\ \E ok \in Outcome("file") :
           IF ok
           THEN /\ conf' = job.text
                /\ job' = IF /\ running.kind = "whole"
                             /\ {a.ip : a \in running.agents} = {a.ip : a \in job.text.agents}
                          THEN NoJob ELSE [pc |-> "reload"]
           ELSE UNCHANGED conf /\ job' = NoJob
    /\ UNCHANGED <<storeVars, running, main, watcherKey>>

\* The rest of writeIfChanged: an error leaves the file cut short.
FinishWrite ==
    /\ job.pc = "write"
    /\ \E ok \in Outcome("file") :
           IF ok
           THEN conf' = job.text /\ job' = [pc |-> "reload"]
           ELSE UNCHANGED conf /\ job' = NoJob
    /\ UNCHANGED <<storeVars, running, main, watcherKey>>

\* docker exec ... kill -SIGHUP: telegraf loads the file as it is now.  A
\* failure is logged, nothing more.
reloadTelegraf ==
    /\ job.pc = "reload"
    /\ \E ok \in Outcome("docker") : running' = IF ok THEN conf ELSE running
    /\ job' = NoJob
    /\ UNCHANGED <<storeVars, conf, main, watcherKey>>

\* The telegraf container restarts and loads the file.
TelegrafRestart ==
    /\ "crash" \in Faults /\ ~calm
    /\ running' = conf
    /\ UNCHANGED <<storeVars, conf, watcherVars>>

-----------------------------------------------------------------------------
Bug_AnyValueEnables == settings.dup # ""

\* The setting is the string "1" when duplication is on.
DupEnabled == settings.dup = "1"

\* runDiscoverySweep: read the duplication setting, once for the whole sweep.
ReadDuplication ==
    /\ MayCall("sweep")
    /\ \E ok \in Outcome("db") :
           job' = IF ok THEN [pc |-> "list", dup |-> DupEnabled] ELSE NoJob
    /\ UNCHANGED <<storeVars, confVars, main, watcherKey>>

\* The active devices are the parents; one whose secrets do not decrypt is
\* passed over.
ListParents ==
    /\ job.pc = "list"
    /\ \E ok \in Outcome("db") :
           job' = IF ~ok \/ ListFails(RowsWithStatus("active")) THEN NoJob
                  ELSE [pc |-> "parents",
                        sweep |-> [dup   |-> job.dup,
                                   todo  |-> {r \in RowsWithStatus("active") :
                                                 CanDecrypt(watcherKey, r.d)},
                                   count |-> 0]]
    /\ UNCHANGED <<storeVars, confVars, main, watcherKey>>

Bug_CapOffByOne == job.sweep.count > MaxNewDevicesPerSweep

\* Enough new devices for this sweep.
AtCap == job.sweep.count >= MaxNewDevicesPerSweep

\* Walk the next parent's routing table; a failed walk goes on to the next.
WalkRoutes ==
    /\ job.pc = "parents" /\ ~AtCap
    /\ \E r \in NextRow(job.sweep.todo) :
       \E ok \in Verify(r.d.ip, decryptCredentials(watcherKey, r.d)) :
           LET sweep == [job.sweep EXCEPT !.todo = @ \ {r}]
           IN  job' = IF ok
                      THEN [pc |-> "hops", sweep |-> sweep, parent |-> r,
                            hops |-> WalkRouteNextHops(r.d.ip)]
                      ELSE [pc |-> "parents", sweep |-> sweep]
    /\ UNCHANGED <<storeVars, confVars, main, watcherKey>>

Bug_PublicHopsToo(ip, parentIP) == ip # parentIP /\ RowsWithIP(ip) = {}

\* shouldConsiderDiscoveredIP: a row that exists, readable or not, rules it out.
shouldConsiderDiscoveredIP(ip, parentIP) ==
    /\ ip # parentIP
    /\ ~IsPublic(ip)
    /\ RowsWithIP(ip) = {}

Bug_TrackedHopsCount(hop) ==
    /\ job.pc = "hops" /\ ~AtCap
    /\ hop \in job.hops
    /\ LET rest == job.hops \ {hop}
       IN  job' = IF shouldConsiderDiscoveredIP(hop, job.parent.d.ip)
                  THEN [pc |-> "found", sweep |-> job.sweep, parent |-> job.parent,
                        hops |-> rest, hop |-> hop]
                  ELSE [job EXCEPT !.hops = rest, !.sweep.count = @ + 1]
    /\ UNCHANGED <<storeVars, confVars, main, watcherKey>>

\* One next hop, in the order the device listed it.
ConsiderHop(hop) ==
    /\ job.pc = "hops" /\ ~AtCap
    /\ hop \in job.hops
    /\ \E ok \in Outcome("db") :
           LET rest == job.hops \ {hop}
           IN  job' = IF ok /\ shouldConsiderDiscoveredIP(hop, job.parent.d.ip)
                      THEN [pc |-> "found", sweep |-> job.sweep, parent |-> job.parent,
                            hops |-> rest, hop |-> hop]
                      ELSE [job EXCEPT !.hops = rest]
    /\ UNCHANGED <<storeVars, confVars, main, watcherKey>>

Bug_CommunityNotCopied(ip, parentCreds, dup, status) ==
    [ip             |-> ip,
     hostname       |-> "",
     snmp_version   |-> IF dup THEN parentCreds.version ELSE "",
     community      |-> Encrypt(watcherKey, ""),
     v3             |-> Encrypt(watcherKey, ""),
     status         |-> status,
     is_public_ip   |-> FALSE,
     discovered_via |-> "routing_table_sweep"]

\* insertDiscoveredDevice's row.  With duplication on it carries the parent's
\* version and community (not its v3 identity) and the verdict of the probe.
DiscoveredDevice(ip, parentCreds, dup, status) ==
    [ip             |-> ip,
     hostname       |-> "",
     snmp_version   |-> IF dup THEN parentCreds.version ELSE "",
     community      |-> Encrypt(watcherKey, IF dup THEN parentCreds.community ELSE ""),
     v3             |-> Encrypt(watcherKey, ""),
     status         |-> status,
     is_public_ip   |-> FALSE,
     discovered_via |-> "routing_table_sweep"]

Bug_VerdictDropped(ip, parentCreds, dup) == {"pending"}

DiscoveredStatus(ip, parentCreds, dup) ==
    IF ~dup THEN {"pending"}
    ELSE {IF ok THEN "active" ELSE "failed" : ok \in Verify(ip, parentCreds)}

VerifyDiscovered ==
    /\ job.pc = "found"
    /\ LET creds == decryptCredentials(watcherKey, job.parent.d)
       IN  \E status \in DiscoveredStatus(job.hop, creds, job.sweep.dup) :
               job' = [pc |-> "add", sweep |-> job.sweep, parent |-> job.parent,
                       hops |-> job.hops,
                       d |-> DiscoveredDevice(job.hop, creds, job.sweep.dup, status)]
    /\ UNCHANGED <<storeVars, confVars, main, watcherKey>>

\* Create counts only when it succeeds.
InsertDiscovered ==
    /\ job.pc = "add"
    /\ \E ok \in Outcome("db") :
           LET created == ok /\ CanInsert(job.d)
           IN  /\ IF created THEN Insert(job.d) ELSE UNCHANGED storeVars
               /\ job' = [pc |-> "hops", parent |-> job.parent, hops |-> job.hops,
                          sweep |-> [job.sweep EXCEPT !.count = IF created THEN @ + 1 ELSE @]]
    /\ UNCHANGED <<confVars, main, watcherKey>>

LeaveParent ==
    /\ job.pc = "hops" /\ (AtCap \/ job.hops = {})
    /\ job' = [pc |-> "parents", sweep |-> job.sweep]
    /\ UNCHANGED <<storeVars, confVars, main, watcherKey>>

FinishSweep ==
    /\ job.pc = "parents" /\ (AtCap \/ job.sweep.todo = {})
    /\ job' = NoJob
    /\ UNCHANGED <<storeVars, confVars, main, watcherKey>>

-----------------------------------------------------------------------------
\* The process dies and is restarted, perhaps under another ENCRYPTION_KEY.
WatcherCrash ==
    /\ "crash" \in Faults /\ ~calm
    /\ main' = "gateway"
    /\ job' = NoJob
    /\ watcherKey' \in Keys
    /\ UNCHANGED <<storeVars, confVars>>

WatcherInit ==
    /\ main = "gateway"
    /\ job = NoJob
    /\ watcherKey \in Keys
    /\ conf = NoConf
    /\ running = NoConf

\* What the goroutine does inside a call, or at start-up; and the tickers.
JobStep ==
    \/ DiscoverGateway \/ CreateGateway \/ ProbeDefaults \/ probeAndUpdate
    \/ ProbeHealth \/ WriteHealth \/ FinishHealth
    \/ RenderConfig \/ FinishWrite \/ reloadTelegraf
    \/ ListParents \/ WalkRoutes \/ (\E hop \in IPs : ConsiderHop(hop))
    \/ VerifyDiscovered \/ InsertDiscovered \/ LeaveParent \/ FinishSweep

WatcherNext ==
    \/ JobStep
    \/ ListForHealth \/ ReadInterval \/ ReadDuplication
    \/ WatcherCrash \/ TelegrafRestart

WatcherTypeOK ==
    /\ main \in {"gateway", "health", "reconcile", "select"}
    /\ job \in JobState
    /\ watcherKey \in Keys
    /\ conf \in Conf
    /\ running \in Conf
=============================================================================
