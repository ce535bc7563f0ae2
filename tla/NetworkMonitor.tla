--------------------------- MODULE NetworkMonitor ---------------------------
(***************************************************************************)
(* config-api and config-watcher together: two processes that share        *)
(* config.db, the devices on the network, and telegraf's configuration.    *)
(***************************************************************************)
EXTENDS ConfigApi, ConfigWatcher

vars == <<netVars, storeVars, apiVars, watcherVars, confVars>>

\* Both processes are started from the same .env file.
Init == NetInit /\ StoreInit /\ ApiInit /\ WatcherInit /\ apiKey = watcherKey

Environment ==
    /\ Calm \/ \E ip \in IPs : Reconfigure(ip)
    /\ UNCHANGED <<storeVars, apiVars, watcherVars, confVars>>

Api     == ApiNext /\ UNCHANGED <<netVars, watcherVars, confVars>>
Watcher == WatcherNext /\ UNCHANGED <<netVars, apiVars>>

Next == Environment \/ Api \/ Watcher

Spec == Init /\ [][Next]_vars

-----------------------------------------------------------------------------
(***************************************************************************)
(* Fairness.  Every call a request or a job makes ends (SNMP has a timeout, *)
(* SQLite a busy timeout, docker exec and file operations return), so both *)
(* go on to their next step.  The tickers keep firing and select takes a   *)
(* ready case at random, so none of the three loops is passed over for     *)
(* ever; each is only enabled between two jobs, hence strong fairness.     *)
(***************************************************************************)
Others == UNCHANGED <<netVars, apiVars>>

Fairness ==
    /\ \A s \in Slots :
           WF_vars(HandlerStep(s) /\ UNCHANGED <<netVars, watcherVars, confVars>>)
    /\ WF_vars(JobStep /\ Others)
    /\ SF_vars(ListForHealth /\ Others)
    /\ SF_vars(ReadInterval /\ Others)
    /\ SF_vars(ReadDuplication /\ Others)

FairSpec == Spec /\ Fairness

-----------------------------------------------------------------------------
\* The state of both processes and of the database is well formed; in
\* particular a sweep never counts more insertions than its cap.
TypeOK == NetTypeOK /\ StoreTypeOK /\ ApiTypeOK /\ WatcherTypeOK

\* What the table says: which id names which address.
Registered == {[id |-> r.id, ip |-> r.d.ip] : r \in devices}

\* The (id, address) pairs that requests and jobs keep in local variables
\* while others write to the table.
HeldByApi ==
    {[id |-> handlers[s].id, ip |-> handlers[s].d.ip]
        : s \in {s \in Slots : handlers[s].pc = "probe"}} \cup
    {[id |-> handlers[s].id, ip |-> handlers[s].ip]
        : s \in {s \in Slots : handlers[s].pc = "status"}}

HeldRows(j) ==
    CASE j.pc = "health"                  -> j.todo
      [] j.pc = "healthWrite"             -> j.todo \cup {j.r}
      [] j.pc = "parents"                 -> j.sweep.todo
      [] j.pc \in {"hops", "found", "add"} -> j.sweep.todo \cup {j.parent}
      [] OTHER                            -> {}

HeldGateway(j) ==
    IF j.pc \in {"gwProbe", "gwUpdate"} THEN {[id |-> j.id, ip |-> Gateway]} ELSE {}

HeldByWatcher == {[id |-> r.id, ip |-> r.d.ip] : r \in HeldRows(job)} \cup HeldGateway(job)

\* A verdict is written to the device that was probed: whatever was deleted
\* and added while a PATCH, a health check, a sweep or the gateway probe was
\* waiting for SNMP, the id it kept names the same address or no row at all.
HandlesNameSameDevice ==
    \A e \in HeldByApi \cup HeldByWatcher :
        \A f \in Registered : f.id = e.id => f = e

\* The three writers together keep the registry's promises: look-up and
\* insert are separate statements in each of them, so only the table's
\* constraints keep two of them from registering one address twice.
Registry == INSTANCE DeviceRegistry WITH
                Addresses <- IPs,
                registry  <- Registered,
                last      <- lastId

RegistrySpec == Registry!Spec

\* The columns an operator fills in.
OperatorColumns(d) == <<d.hostname, d.snmp_version, d.community, d.v3>>

\* Saved settings of a device change only by a PATCH, or when the watcher
\* records the default community that worked for the gateway row it has just
\* created: no health check, sweep or re-probe writes back what it read.
OperatorOwnsSettings ==
    [][\A r \in devices : \A q \in devices' :
           (q.id = r.id /\ OperatorColumns(q.d) # OperatorColumns(r.d))
               => \/ \E s \in Slots : handlers[s] = Idle /\ handlers'[s] # Idle
                  \/ job.pc = "gwUpdate" /\ job.id = r.id /\ r.d.ip = Gateway
      ]_vars

\* A public address in a routing table is never probed or added by a sweep,
\* and is_public_ip is what netutil says of the row's address.
SweepStaysPrivate ==
    /\ \A r \in devices :
           /\ r.d.is_public_ip = IsPublic(r.d.ip)
           /\ r.d.discovered_via = "routing_table_sweep" => ~IsPublic(r.d.ip)
    /\ job.pc = "found" => ~IsPublic(job.hop)

\* While nobody turns credential duplication on, no device a sweep adds is
\* given its parent's credentials or probed with them.
OptInOnly ==
    [](settings.dup = "0")
        => [](job.pc = "add" => job.d.snmp_version = "" /\ job.d.status = "pending")

\* The credentials a sweep has probed a new device with are the ones its row
\* is going to hold, under a key the watcher still runs with: the health check
\* can repeat the attempt that the status stands for.  (From an SNMPv3 parent
\* only the version is copied, so the second part is about communities.)
AttemptIsRecorded ==
    job.pc = "add" =>
        /\ CanDecrypt(watcherKey, job.d)
        /\ (job.sweep.dup /\ job.parent.d.snmp_version # "v3") =>
               LoginOf(decryptCredentials(watcherKey, job.d))
                   = LoginOf(decryptCredentials(watcherKey, job.parent.d))

-----------------------------------------------------------------------------
(***************************************************************************)
(* Convergence: what holds for ever from some moment on once the           *)
(* environment has calmed down (no more requests, changes on the network,  *)
(* crashes or faults), whatever happened before.                           *)
(***************************************************************************)
Works(r) == Answers(r.d.ip, decryptCredentials(watcherKey, r.d))

\* The feedback loop of the health check: the stored status of every device
\* with credentials ends up telling whether the device answers to them.
StatusConverges ==
    <>[]calm => <>[](\A r \in devices :
                         r.d.snmp_version # "" => r.d.status = IF Works(r) THEN "active" ELSE "failed")

\* A device's status tells whether the device answers, as far as the watcher
\* can try.
TellsTruth(d) ==
    (d.snmp_version # "" /\ CanDecrypt(watcherKey, d))
        => d.status = IF Answers(d.ip, decryptCredentials(watcherKey, d))
                      THEN "active" ELSE "failed"

\* Nothing from before is under way any more: no request, and what the
\* running job has read or found out is still so.
Quiet ==
    /\ calm /\ \A s \in Slots : handlers[s] = Idle
    /\ job.pc \in {"health", "healthWrite"} =>
           \A r \in HeldRows(job), q \in devices :
               q.id = r.id => OperatorColumns(q.d) = OperatorColumns(r.d)
    /\ job.pc = "healthWrite" => job.status = IF Works(job.r) THEN "active" ELSE "failed"
    /\ job.pc \in {"gwProbe", "gwUpdate"} =>
           \A r \in RowsWithId(job.id) : r.d.snmp_version = ""
    /\ (job.pc = "gwUpdate" /\ job.found # 0) => Answers(Gateway, defaultCommunities[job.found])
    /\ (job.pc = "add" /\ job.d.snmp_version # "v3") => TellsTruth(job.d)

\* What has converged stays so, and not only in the end: once it is quiet it
\* remains quiet, and no gateway probe, health check or sweep turns a true
\* status into a false one or adds a device with a false one.  (A sweep does
\* from an SNMPv3 parent, whose identity it tries but does not record.)
StatusStable ==
    [][Quiet =>
           /\ Quiet'
           /\ \A q \in devices' :
                  \/ TellsTruth(q.d)'
                  \/ \E r \in devices : r.id = q.id /\ ~TellsTruth(r.d)
                  \/ q.id > lastId /\ q.d.snmp_version = "v3"
      ]_vars

\* The file that the table and the settings ask for.
Rendered == renderTelegrafConfig(settings.interval, RowsWithStatus("active"))

\* Every status tells the truth, the file on disk says so, telegraf runs it,
\* and no reconcile is about to write another.
Converged ==
    /\ Quiet /\ \A r \in devices : TellsTruth(r.d)
    /\ job.pc = "render" => job.interval = settings.interval
    /\ job.pc = "write" => job.text = Rendered
    /\ conf = Rendered /\ running = conf

\* The loops come to rest: whatever health checks, reconciles and sweeps go on
\* afterwards, the converged system is left only for a device that a sweep or
\* gateway discovery adds, or for the verdict on the new gateway.
ConvergenceStable ==
    [][Converged => Converged' \/ lastId' > lastId \/ job.pc = "gwUpdate"]_vars

\* End to end: telegraf.conf ends up whole, with the saved interval and one
\* agent, under its stored credentials, for exactly the devices that answer.
ConfConverges ==
    <>[]calm => <>[](conf = renderTelegrafConfig(settings.interval, {r \in devices : Works(r)}))

\* Telegraf ends up running the configuration that is on disk.
TelegrafConverges == <>[]calm => <>[](running = conf)

\* A SIGHUP is only sent for a file that was written to its end: telegraf
\* never loads a truncated configuration.
ReloadSeesWholeFile == running # TornConf

\* The cap slows discovery down but starves nobody: every private next hop
\* of a device that stays active ends up with a row (while there are ids left).
DiscoveryConverges ==
    <>[]calm =>
        <>[](lastId = MaxId \/ \A r \in RowsWithStatus("active") :
                 Works(r) => \A hop \in Routes[r.d.ip] : IsPublic(hop) \/ RowsWithIP(hop) # {})

-----------------------------------------------------------------------------
(***************************************************************************)
(* What comments and documents of the repository say and the code does not *)
(* keep; the runs that check these find a counterexample.                  *)
(***************************************************************************)

\* store/devices.go on Update: "Only non-nil fields in updates are written."
NilIsNotWritten == \A r \in devices : Scannable(r.d)

\* discovery.go on the gateway's row: default credentials are probed "the
\* first time the row is created", and calling it on every start-up is safe;
\* so the row does not stay without a verdict.
GatewayGetsVerdict ==
    <>[]calm => <>[](\A r \in devices :
                         r.d.discovered_via = "gateway" => r.d.status # "pending")

\* handlers/devices.go: without a version "there's nothing to probe yet and
\* the device stays pending".
UncredentialedStaysPending ==
    <>[]calm => <>[](\A r \in devices :
                         (r.d.discovered_via = "manual" /\ r.d.snmp_version = "")
                             => r.d.status = "pending")
=============================================================================
