# TLA+ model of beacon-v2

beacon-v2 monitors a network by SNMP. Operators register devices through a
dashboard, a background process finds more devices and keeps their status up to
date, telegraf polls the devices that work, traps are stored and attributed to
devices, and a chat service answers questions about it all with the help of a
language model. This directory models its four Go services:

* `config-api` and `config-watcher`, which share a database, a network that
  loses datagrams and a configuration file (`NetworkMonitor`);
* `trap-receiver` and the trap handlers of `config-api`, which share `traps.db`
  (`TrapPipeline`);
* `chat-api` (`ChatApi`).

## 1. The system

| component | state it keeps | operations | talks to |
|---|---|---|---|
| device and settings store (`internal/store`) | `config.db`: `devices`, `settings`, SQLite's id sequence | Create, Get, GetByIP, List, ListByStatus, Update, Delete; settings Get, Set | both processes below, one connection each, one transaction per statement |
| credential encryption (`internal/crypto`) | the key each process was started with | Encrypt, Decrypt | used for every stored secret |
| SNMP probing (`internal/snmp`, `internal/netutil`) | none of its own; the devices have theirs | Verify, ProbeDefaults, WalkRouteNextHops, IsPublic | the network, over UDP with a timeout and one retry |
| config-api (`config-api/`) | goroutine-local state of each request | POST, PATCH, DELETE devices, two settings; reads | store, network |
| config-watcher (`config-watcher/`) | one goroutine: start-up, then a `select` over three tickers | gateway discovery, health check, reconcile, routing-table sweep | store, network, `telegraf.conf`, `docker exec` |
| telegraf | the configuration it loaded last | load on start and on SIGHUP | reads `telegraf.conf` |
| trap-receiver (`trap-receiver/`, `internal/store/traps.go`) | `traps.db` | open and migrate the table; receive, translate and insert a trap | read by config-api's trap handlers, which open and migrate the same file |
| config-api's trap handlers (`handlers/traps.go`) | goroutine-local | page of traps, naming, attribution to a device, interface | `traps.db`, `devices` |
| chat-api (`chat-api/`) | one log of admitted requests per client address; goroutine-local transcript | rate limiter, loop of model and tool calls, four tools | Gemini, InfluxDB, config-api, over HTTP with timeouts |
| InfluxDB, Grafana, dashboard | outside this project | | |

What is hard here:

* **Interleaving.** Requests run in goroutines of their own and the watcher in
  another process. Look-up and insert, listing and writing back, first and
  second write of a PATCH are separate statements with an SNMP exchange
  (seconds) between them.
* **Stale copies.** Health check and sweep work through rows listed at their
  start; a PATCH writes a verdict for the row it read before probing.
* **Failure.** Datagrams get lost, statements fail, a process dies between any
  two steps, `os.WriteFile` truncates before it writes, `docker exec` fails, a
  key is changed between two starts.
* **Convergence.** Table, file and telegraf are brought to agree only by loops
  that each look at part of the state.
* **Two openers.** `traps.db` is migrated statement by statement by whichever
  processes happen to start, each of which meets what the other has done.
* **Identity.** A trap's datagram carries the port-forwarding host's address; its
  sender has to be found from other fields, over a table that changes meanwhile.
* **An unpredictable caller.** The language model decides which tools run, with
  which arguments, in what number and whether the loop goes on; every reply
  costs money.

What makes each part correct is stated as properties, in `NetworkMonitor.tla`
for the first four, then in `TrapPipeline.tla`, `RateLimiter.tla`, `ChatApi.tla`:

* store: an address is registered once, an id never names two addresses
  (`RegistrySpec`, `HandlesNameSameDevice`);
* handlers: nobody but an operator changes saved settings
  (`OperatorOwnsSettings`);
* health check and reconcile: status and file come to tell the truth
  (`StatusConverges`, `ConfConverges`) and stay so (`StatusStable`,
  `ConvergenceStable`), telegraf comes to run the file and, as long as no
  process dies, is never given half of one (`TelegrafConverges`,
  `ReloadSeesWholeFile`);
* sweep: public addresses stay out, credentials are reused only after opting in
  and recorded as tried, the cap holds and starves nobody (`SweepStaysPrivate`,
  `OptInOnly`, `AttemptIsRecorded`, `TypeOK`, `DiscoveryConverges`);
* traps: a process that serves finds the columns it uses, and gets there
  (`MigrationComplete`, `TrapsServe`); what is shown of a trap is true, and shown
  when it can be known (`ReadableTrapsTrue`, `AttributionComplete`);
* rate limiter: no window holds more than the limit, nobody is refused without
  cause (`LimitHolds`, `LimiterExact`);
* tool loop: it ends (`EveryQuestionAnswered`, by `QuestionsProgress`), its cost
  is bounded, the transcript is well formed
  (`CostBounded`, `TranscriptWellFormed`);
* tools: queries are safe whatever is asked, a reference is not taken over by a
  look-alike, rankings are sorted, totals true (`QueriesAreSafe`, `ReferenceKept`,
  `RankingSorted`, `RateTotalTrue`).

## 2. Modules

```
Crypto <- Snmp <- DeviceStore <-+- ConfigWatcher -+
                                |                 +- NetworkMonitor <- MCNetworkMonitor
                                +- ConfigApi -----+        |
                                       |                   +-- INSTANCE DeviceRegistry
                                       +- TrapPipeline <- MCTrapPipeline

RateLimiter -+
             +- ChatApi <- MCChatApi
MetricTools -+

DeviceStoreProofs <- ConfigApiProofs <-+- NetworkMonitorProofs <-+- RegistryProofs
                                       +- TrapProofs             +- PrivacyProofs
MetricToolsProofs <- ChatApiProofs
```

| module | code | how state and actions correspond |
|---|---|---|
| `Crypto` | `internal/crypto/crypto.go` | a stored secret is the key that sealed it and the text; it opens under that key only; the empty string is never sealed |
| `Snmp` | `internal/snmp/probe.go`, `routes.go`, `internal/netutil` | `accepts[ip]` is what a device answers to now; `Verify` gives the set of results a probe may have; `calm` and `Faults` say whether and how the environment interferes |
| `DeviceStore` | `internal/store/devices.go`, `settings.go`, `schema.go` | `devices` is a set of rows, `lastId` is `sqlite_sequence`; CHECK, UNIQUE, AUTOINCREMENT, and rows that cannot be scanned because a column is NULL |
| `ConfigApi` | `config-api/main.go`, `handlers/devices.go`, `handlers/settings.go` | `handlers[s]` is what the request in goroutine `s` does next; POST is probe, insert; PATCH is write, re-read, probe, second write; DELETE and the settings are one statement |
| `ConfigWatcher` | `config-watcher/*.go`, `telegraf.conf.tmpl` | `main` is where the main function stands, `job` the local state of the function it called; one action per statement, SNMP exchange, file or docker operation |
| `DeviceRegistry` | the promise of the `devices` table | abstract specification: Register a free address under a fresh id, Deregister |
| `NetworkMonitor` | config-api and config-watcher, as `docker-compose.yml` starts them | composition, fairness and their properties |
| `TrapPipeline` | `trap-receiver/*.go`, `internal/store/traps.go`, `OpenTrapsDB`, `internal/snmp/trapnames.go`, `handlers/traps.go` | `columns` is what `traps` has, `opening[p]` the statement of `OpenTrapsDB` process `p` is at; `traps` its rows; `reader` a GET /traps/readable between two statements. config-api's other requests are those of `ConfigApi` |
| `RateLimiter` | `chat-api/ratelimit.go` | `requests[c]` is the client's pruned log; `allow` and `refuse` are the two outcomes of the call, one step because of the mutex; `admitted` is history |
| `MetricTools` | `chat-api/tools.go`, `schema.go`, `devices.go`, `influx.go` | operators from a tool call to its result; `steps(job)` are the jobs a running tool may become with the answer to its next request |
| `ChatApi` | `chat-api/handler.go`, `gemini.go`, `main.go` | `chats[s]` is the question goroutine `s` works on: waiting for the model, or running a tool with the calls still to come and the answers so far |
| `MCNetworkMonitor`, `MCTrapPipeline`, `MCChatApi` | | what devices accept, routing tables, request bodies, packets, fleets, replies of the model for TLC |

Definitions named `Bug_...` are not part of the specification: each is what a
plausible mistake would make of the definition after it, and is used to
confirm that a property can fail.

### Abstractions

* `hostname` stands for the columns no probe reads (`hostname`, `group_name`).
  `v3` stands for the five `v3_*` columns: one value is one complete identity.
  They differ in one respect: `v3_user` is a plain column, so a null there
  becomes SQL NULL, as a null hostname does.
* A login is the version and the secret that version uses. A device accepts a
  set of logins, which may change at any moment until `calm`.
* `telegraf.conf` is absent, torn, or a whole rendering: the interval and a set
  of agents (blocks are in id order, so order carries nothing).
* Encryption's nonce and base64 are left out, and the failure of the system's
  random source.
* `pingHost` feeds a log line only and is left out.
* A sweep visits next hops in any order, which covers the device's own.
* Requests that are refused before a write, and reads, change nothing and have
  no action. A POST's or PATCH's response is not modelled.
* Telegraf is external. A successful `docker exec ... kill -HUP` is modelled as
  telegraf having loaded the file as it is at that moment.
* The duplication setting is read once per sweep, as in the code: `OptInOnly` is
  about the time before anybody opts in; a sweep under way when the setting is
  switched off goes on to its end under the value it read.
* A fault of kind `db` makes one statement of a request or job fail. It is not
  added to single-statement requests, whose failure is the same as no request.
* Traps: an OID is a sequence of its parts, without the leading dot that
  `TrapName` adds where it is missing, and a prefix of fixed arcs is one part.
  Varbinds keep their names and values; the JSON they are stored as loses
  neither. A device is shown as its address if it has a name: the property is
  about which device, not about the spelling. Each packet carries what really happened (`sender`, `event`,
  `interface`), for the properties only.
* Any trap of the instance may arrive at any time, any number of times, or
  never: loss, duplication and reordering are included.
* chat-api: names are sequences of parts, trimmed and in lower case, so that
  prefixes and substrings mean something without characters. A float is a
  multiple of 1/6 (`Unit`), exact for the averages that occur. Rates are compared
  and not shown, so the factor 8/1e6 is left out. A query is the fields
  of its SQL that vary; InfluxDB's own aggregations are not evaluated, `rateQuery`
  is, because the sum over wrapped deltas is this program's. The first sample has
  no delta (SQL's NULL, which the sum passes over) and counts as 0.
* `Readings` is what was really counted; the counter the device reports is that
  modulo `Wrap`.
* Answers and status codes of chat-api are left out, and so are texts: an error's
  text is either there or empty.
* A question of chat-api sees a clock only through the limiter. A step of a
  question may take any time.

## 3. Runs

`calm` becomes TRUE at a moment of the environment's choosing; after that there
are no requests, changes on the network, crashes or faults. Convergence is stated
as *once calm for ever, eventually for ever ...*, from whatever state came before.

| run | instance | shows |
|---|---|---|
| `MCRegistry` | 2 requests at once (symmetric), 3 addresses of which one public, 2 ids, health check and sweep | kept ids stay true; the table implements `DeviceRegistry` although look-up and insert are apart; public addresses stay out; only operators change settings |
| `MCConverge` | all kinds of POST and PATCH body, interval changed to a legal value (and one refused), v2c or v3 device, `db`, `file`, `gateway` and `loss` faults | status, file and telegraf converge, and further rounds of the loops leave them alone; telegraf never loads a torn file |
| `MCCrash` | two devices failing independently, crashes of both processes and of telegraf, failing writes | status and file converge from torn files and half-done jobs; one device's failure does not stop the other's check |
| `MCDiscovery` | tree of four devices, cap 1, deletions, duplication switched both ways | cap holds; every private neighbour is found in the end; no reuse without opting in; what was tried is recorded; once it is quiet, statuses that are true stay true while devices are added |
| `MCTraps` | tables without, with one and with both new columns, an old row; 4 kinds of packet behind a rewritten address; devices with a community of another key or none; `crash` and `db` faults | both processes come up with every column; traps are shown truly, and attributed when they can be |
| `MCChat` | 2 questions at once, limit 2 in a window of 2 ticks, 2 calls of the model per question, bodies that are malformed, empty or over-long in history, several calls in one reply | limit, exactness, cost, transcript, termination and the measure behind it |
| `MCTools` | every tool; about thirty calls with right, wrong and missing arguments; lists that change between calls, with look-alike names in different orders; every series of up to 3 samples and increments below the wrap | queries, references, ranking, total; no tool goes round in a circle |

Five runs check what a comment or document says and find that the code does
otherwise (details and quotations are in `PROJECT.json` under `findings`):

| run | property | what happens |
|---|---|---|
| `MCReloadLost` | `TelegrafConverges` | a failed `docker exec` is never made up for: the next reconcile finds the file unchanged |
| `MCGatewayCrash` | `GatewayGetsVerdict` | dying between creating and probing the gateway row leaves it pending for good |
| `MCNull` | `NilIsNotWritten` | a null in a PATCH is written as NULL, and the row can no longer be scanned |
| `MCCleared` | `UncredentialedStaysPending` | the health check overtakes a PATCH that clears the version, and its verdict stays |
| `MCErrorLost` | `ToolErrorsReachModel` | a tool's error reaches the model as `{"error": ""}`: every error path returns the empty string as result, and the result is what is wrapped |

The passing convergence runs leave those situations out, each by its instance:
no null in a plain column, no PATCH that clears the version or sets a
version-less device active, one key, and for `TelegrafConverges` a `docker exec`
that works and no crash.

### Also noticed

Met while modelling; no run is about them, or an instance leaves them out:

* A sweep that duplicates an SNMPv3 parent's credentials records the version and
  not the identity it tried (`discovery_sweep.go:129`); `AttemptIsRecorded` is
  about the other versions.
* After a restart under another key, one active device that cannot be decrypted
  fails every rendering (`telegraf_gen.go:41`), while the health check passes
  over it, so `telegraf.conf` is frozen for all.
* `rank_devices` passes over every device for a column of `interface`, because
  these have no default interface, while its description (`tools.go:63-65`)
  promises throughput "device-wide, summed across interfaces".
* `rateQuery` sums from the first sample but measures time from the second: with
  few samples the rate comes out too high, and with two there is none. A counter
  reset by a reboot looks like a wrap.
* `AVG` over no rows is a row with NULL, which ranks the device at 0.
* `resolveDevice("")` selects an unnamed device, if there is one, or the only
  device: a `query_metric` without its required `device` (`tools.go:56`) is
  answered, where `docs/chatbot-plan.md:53-56` has anything outside the known set
  rejected. Of several devices with the same name the first is taken.
  `ReferenceKept` says nothing against any of this.
* A reference whose device has left the list may come to mean another one whose
  name begins with it; the answer then names that one.
* `list_devices` returns an array, which `buildFunctionResponsePart` cannot
  decode as an object and wraps as text.
* The last round's tools run although their results are never sent.
* The enterprise OID of a v1 trap is followed by the specific number without the
  `0` between them, so a v1 `ConfigChanged` is shown as an OID, as
  `ReadableTrapsTrue` allows.
* Devices that share a community make attribution pick the first; the handler's
  comment expects communities of their own, and so does the instance.
* `ratelimit.go:8` calls the limiter fixed-window; it slides. A client's entry is
  never removed from the map. `store/traps.go:13` says the community is stored
  for v1 only; it is stored for v2c too.

### Bounds

* `MaxId` is the largest id SQLite hands out; 2 or more lets an id be used,
  deleted and followed by another, which is what reuse of ids would need. 5 in
  `MCDiscovery` is four devices and one that was deleted. 1 in `MCConverge` is
  one device with every kind of request and fault; `MCCrash` has two.
* In `MCRegistry` the third id that a sweep would need to run into an address
  just registered by a POST is out of reach (with `MaxId = 3` TLC does not end in
  reasonable time); that `RegistrySpec` survives this race too is the theorem's
  to say.
* `Slots`: two requests are the first number at which requests race each other;
  one races the watcher. The registry and privacy results are also proved for
  any number.
* `MaxNewDevicesPerSweep = 1` (10 in the code): every sweep meets its cap.
* `Tickers` restricts which of the watcher's loops fire after start-up, so that a
  run is about the loops its question concerns. Start-up always runs gateway
  discovery, health check and reconcile.
* `Faults` names the kinds of failure a run admits.
* `MaxTraps = 2` rows: a page with a newer and an older trap, or a limit that
  cuts one off. `ReadLimits` has an explicit limit and none.
* `MaxTime = 3` in `MCChat`, with a window of 2: a log that fills, is pruned at
  exactly the cutoff, and fills again. The limiter is proved for all values.
* `maxToolIterations = 2` (8 in the code): one round of tools and the last one,
  which is cut off; 1 in `MCTools`, where a question is one call of a tool.
  `maxHistoryTurns = 2` (20) with a history of 3.
* `Wrap = 3` or `4` (2^32): every position of a counter relative to the wrap.
* `SlotSymmetry` is used in `MCRegistry` only, which checks no liveness.

### Fairness

`FairSpec` assumes, and the code justifies:

* weak fairness of each request's and of the running job's next step: SNMP has
  a timeout, SQLite a busy timeout, file operations and `docker exec` return;
* strong fairness of the start of health check, reconcile and sweep: tickers
  keep firing, a ticker's channel holds a tick that came while a job ran, and
  `select` chooses at random among ready cases. Each start is possible only
  between two jobs, so weak fairness would not be enough.

`TrapPipeline` assumes weak fairness of each process's next statement while it
opens `traps.db`: SQLite waits for the other process five seconds at most, and
docker restarts a process that has exited. `ChatApi` assumes it of each question's
next step: the clients of Gemini, InfluxDB and config-api time out after 60, 15
and 10 seconds.

Nothing is assumed of requests, traps, the clock, crashes, changes on the
network or of `calm`.

## 4. Proofs

The theorems hold for all values of the constants that satisfy the named
assumptions of the modules (`CryptoAssumption`, `SnmpAssumption`,
`StoreAssumption`, `ApiAssumption`, `WatcherAssumption`, `TrapAssumption`,
`PacketAssumption`, `LimiterAssumption`, `ToolsAssumption`, `ChatAssumption`): any number of requests,
addresses, keys and ids, any routing tables, request bodies, packets, fleets and
replies of the model, any cap, limit and window and any set of faults, crashes
included. They are about `Spec`, without fairness.

| module | theorem | argument |
|---|---|---|
| `NetworkMonitorProofs` | `TypeCorrect`: `Spec => []TypeOK` | `TypeOK` is inductive because the types say what each program point keeps. `DeviceStoreProofs` shows that each statement keeps the table well formed, `ConfigApiProofs` and the first part of `NetworkMonitorProofs` have one lemma per group of steps. The sweep's cap is part of it: a sweep about to probe or insert has room (`BelowCap`), lost again when the insert is counted |
| `NetworkMonitorProofs` | `ReloadSafe`: `Spec => []ReloadSeesWholeFile` if nothing crashes | `ReloadInv`: the file is whole when a reload is due, and the text about to be written is whole; only rendering, writing, reloading and a restart of telegraf touch either (`OtherJobSteps`) |
| `RegistryProofs` | `RegistryInvariant`, `HandlesSafe`, `RegistryRefinement` | see below |
| `RegistryProofs` | `SettingsOwned`: `Spec => OperatorOwnsSettings` | an action property: every step issues at most one statement against the table, and an UPDATE has more than the status in it only where a request starts or the gateway's first probe ends (`Statement`, `NextIsStatement`). It needs that `id` is a key (`OneRowPerId`), and, for the gateway, that the id kept since its row was created still names it (`RegistryInv`) |
| `RegistryProofs` | `StatusClosed`: `Spec => StatusStable` | an action property, see below |
| `RegistryProofs` | `ComesToRest`: `Spec => ConvergenceStable` | an action property, see below |
| `PrivacyProofs` | `SweepPrivacy`: `Spec => []SweepStaysPrivate` | the rows of the table can only be honest about their address if the records on their way into it are: `PrivacyInv` adds that to POSTs about to insert and to sweeps about to add |
| `PrivacyProofs` | `OptInSafe`: `Spec => OptInOnly` | a temporal premise: while the setting has never been on, `OptInInv` says that every stage of a sweep carries the setting as off, from reading it to the record about to be added |
| `PrivacyProofs` | `AttemptsRecorded`: `Spec => []AttemptIsRecorded` | inductive together with the types: only the end of a probe makes a record ready to be added (`OnlyVerifyAdds`), and the watcher's key cannot change before it is, because a new key means a new process, which has no sweep. What the record seals under that key opens to what was tried (`EncryptOpens`, `VerifyRecords`) |
| `TrapProofs` | `MigrationSafe`: `Spec => []MigrationComplete` | `MigrationInv`: each statement of `OpenTrapsDB` behind a process stands for a column that is there. Columns are only ever added, so the other process cannot take that away (`MigratedMonotone`) |
| `TrapProofs` | `AttributionSafe`: `Spec => []AttributionComplete` | `ReaderInv`: while a page is settled no request is in progress and none can begin, so the table is the one each entry was looked up in (`Undisturbed`), and a lookup that has gone on to the community has found nobody by address (`Attributed`, `Anonymous`) |
| `TrapProofs` | `ReadableTruth`: `Spec /\ []OwnIdentities => []ReadableTrapsTrue` | see below |
| `ChatApiProofs` | `LimiterInvariant`, `LimiterSafe`, `LimiterDecides` | see below |
| `ChatApiProofs` | `ToolQueriesSafe`: `Spec => []QueriesAreSafe` | `ToolsInv` says of every running tool what has been checked so far (`JobOK`): arguments before the devices are listed, the device before the names, the whole query before it is sent; one lemma per kind of step |
| `ChatApiProofs` | `ToolReferenceKept`: `Spec => []ReferenceKept` | `JobOK` also carries the list the device was chosen from and that `resolveDevice` chose it (`Meant`), past the question for interface names. In another list the device either has a whole match before it or is itself among the beginnings, so that nobody else can be the only one (`NoLookAlike`) |
| `ChatApiProofs` | `LoopInvariant`, `TranscriptSafe`: `Spec => []TranscriptWellFormed` | see below |
| `ChatApiProofs` | `CostSafe`: `Spec => []CostBounded` | see below |
| `ChatApiProofs` | `ProgressSafe`: `Spec => QuestionsProgress` | see below |
| `ChatApiProofs` | `ResultsInvariant`, `RankingCorrect`: `Spec => []RankingSorted`, `RateCorrect`: `Spec => []RateTotalTrue` | `ResultsInv` says where the data of an answer come from: which tool is at which request, and that what was found so far has numbers for values. What sort and sum make of that is proved in `MetricToolsProofs`, see below |

`HandlesNameSameDevice` is not inductive: an id that was kept could be given out
again. `RegistryInv` adds that every id in the table or kept by anybody is at most
`lastId`, and that rows agree on ids and addresses. The proof reduces each
action twice. To the table, it adds a row under the next id, drops rows of one id,
or keeps ids and addresses (`NextIsTableStep`); to what is kept, anything kept
after a step was kept before or is in the table after it (`HeldStep`). The
invariant's step (`RegistryStep`) needs only these two facts, as does the
refinement (`RegistrySimulation`).

Convergence itself needs fairness and is TLC's. What is proved is that it does not
come undone. `StatusStable` starts from `Quiet`: a verdict reached before `calm`, by
a request, a health check or a gateway probe that is still under way, may be written
afterwards and be false, so truth of the stored statuses alone is not kept by a
step. `Quiet` says that there is no such verdict: no request is in progress, what
the running job has read is still what the table says, and what it has found out is
still so. It takes one more health check to get there, and it is kept by every
step, which is half of the theorem; from it follows the other half, that the
status a job writes or inserts is the device's. A sweep from an SNMPv3 parent is
excepted in both, because it tries an identity that it does not record.
`ConvergenceStable` adds the file and telegraf. A health check that is still on its
way then writes what is written already, for which `ListedOpen` is needed: the
rows listed for a health check have a version and credentials that open, so that
`TellsTruth` is about them. Table and file come to rest separately (`TableAtRest`,
`FileAtRest`): a reconcile renders what is on disk, so `Unchanged` ends it.

`ReadableTrapsTrue` compares what is shown with what really happened. Two premises
say what a packet and the registry must be like for that. `PacketAssumption` is the
meaning of the fields in the documents devices follow (RFC 1157, RFC 3584, IF-MIB,
and the OIDs of SNMPv2-MIB and CISCO-CONFIG-MAN-MIB, `MibOID`), not of what the code
makes of them; that `trapNames` agrees with them is a lemma (`NamedByMib`). `OwnIdentities` is the expectation in the
comment of `resolveDevice`: a registered address that v1 packets carry is their
sender's, and every device has a community of its own. It is a premise on the
behaviour, at every moment, and holds in every state of the `MCTraps` instance.
`TruthInv` then says that stored traps are rows made from packets, that entries
shown are true, and that a lookup by community is never made for an anonymous trap;
nothing is asked of the table between the two statements of a lookup, because each
of them finds a true sender or nobody.

`LimitHolds` is not inductive either: the limiter compares the pruned log, the
property is about history. `LimiterInv` adds that the log is part of the history
and holds everything of it that is younger than a window (`LogsComplete`), that
no entry is later than the clock, and states the limit for windows that end at
any time at all. A new entry then only counts in windows that end now or later;
whatever else is in such a window is in the log, which had room.

`TranscriptWellFormed` speaks of requests that are waiting for the model. Between
two calls of the model `LoopInv` says that the transcript is a conversation but
for its last turn, and that the functions this turn calls are the answers so far,
the running tool and the calls to come, in that order (`InOrder`). Finishing a
tool moves the border between the three; when no call is left, the answers match
the calls one for one. It also keeps the iteration within its bound.

`CostBounded` is not inductive, as a question in progress will spend more.
`CostInv` counts what is spent together with what may still be: `CallsLeft` has one
member for each call that a question in progress may still make, so that counting
a call takes a member away, ending a question takes all of its own, and letting one
through pays for `maxToolIterations` of them in advance.

Why every question ends is proved, but for fairness. `Left` is what a question has
left to do, four numbers of which the first counts most (`Less`): calls of the
model and rounds of tools, functions not begun, stages of the running tool, devices
it has still to ask about. `ProgressSafe` says that every step of a question
decreases it, to numbers that are not negative, or ends the question. The order is
well founded, so a question takes finitely many steps; that there is a next step
and that it is taken is left to TLC and to weak fairness (`EveryQuestionAnswered`).
The proof rests on `LoopInv` and `ToolsInv`: what is listed, called and still to do
is what they say.

Sort and sum are loops, and they are recursive functions in the model, over the
loop's counter. `MetricToolsProofs` begins with what such functions need and the
library offers only with operators as parameters: induction over an interval, for
a set (`LoopInduction`, from the least member of a set of numbers), and the
existence of a function with a given first value and step (`LoopExists`). The sum
of the deltas then telescopes, because each delta is what was counted between two
samples: two readings less than `Wrap` apart differ, modulo `Wrap`, by the same or
by `Wrap` less (`DeltaIsTrue`). Of the sort's inner loop, `PassInv` says that place
`i` holds the largest of what has been compared, that nothing before it has moved
and that what is behind it was there before; of the outer loop, `SortInv` says that
nothing behind the first `i` places is larger than what stands there. That
elements are neither lost nor doubled is one bijection, for one exchange
(`SwapKeepsBag`).

Only model-checked: liveness, which is beyond the prover (`StatusConverges`,
`ConfConverges`, `TelegrafConverges`, `DiscoveryConverges`, `TrapsServe`,
`EveryQuestionAnswered`). Every invariant and every action property that a passing
run checks is also a theorem.

## 5. Not modelled, and plan

Not modelled: InfluxDB, Grafana, the dashboard, Gemini and telegraf's insides
(third-party programs or user interface); prompts and tool descriptions; logging,
flags, health endpoints, CORS, HTTP and JSON details; requests that only read or
are refused, `pingHost`, and what section 2 lists as abstractions.

What could follow:

1. telegraf's asynchronous handling of SIGHUP: the file read after `docker exec`
   has returned, while a later reconcile truncates it;
2. a measure for the watcher's loops, as `Left` is for questions: how many health
   checks and reconciles a table is away from `Converged`.
