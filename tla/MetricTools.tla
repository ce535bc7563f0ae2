---------------------------- MODULE MetricTools -----------------------------
(***************************************************************************)
(* chat-api's tools: what a function call of the language model turns into. *)
(* A call is its name and its arguments, a record of the fields present (a *)
(* field of another JSON type counts as missing).  A tool that is running  *)
(* is a job; every request it makes to config-api or InfluxDB is a step,   *)
(* and steps(job) is the set of jobs that step may lead to.                *)
(*                                                                         *)
(* Names are sequences of their parts, lower case and trimmed, so that one *)
(* can begin with or contain another; <<>> is the empty string.            *)
(***************************************************************************)
EXTENDS Integers, SequencesExt

CONSTANTS
    Fleets,         \* what GET /devices may return: sequences of devices
    SubNames,       \* sets of interface or pool names a device may report
    Readings,       \* sequences of what was really counted or measured
    TrapLogs,       \* what GET /traps/readable may return: ages, newest first
    Wrap            \* where an SNMP counter starts again (2^32)

maxQueryHours == 72
Unit          == 6      \* fixed point: a float is an integer number of sixths

FleetDevices  == UNION {Range(f) : f \in Fleets}

ASSUME ToolsAssumption ==
    /\ Fleets \subseteq Seq(FleetDevices)
    /\ Readings \subseteq Seq(Nat)
    /\ Wrap \in Nat \ {0}
    /\ \A r \in Readings : \A k \in 2 .. Len(r) : r[k] - r[k - 1] \in 0 .. Wrap - 1

-----------------------------------------------------------------------------
Gauge(sub, default) == [kind |-> "gauge", sub |-> sub, default |-> default]
Counter(sub)        == [kind |-> "counter", sub |-> sub, default |-> <<>>]

metricWhitelist ==
    [cpu       |-> [c \in {"cpu5sec", "cpu1min", "cpu5min"} |-> Gauge("", <<>>)],
     memory    |-> [c \in {"ciscoMemoryPoolUsed", "ciscoMemoryPoolFree",
                           "ciscoMemoryPoolLargestFree"}
                        |-> Gauge("ciscoMemoryPoolName", <<"processor">>)],
     interface |-> [c \in {"ifOperStatus", "ifAdminStatus", "ifSpeed", "ifInOctets",
                           "ifOutOctets", "ifInErrors", "ifOutErrors"}
                        |-> IF c \in {"ifOperStatus", "ifAdminStatus", "ifSpeed"}
                            THEN Gauge("ifDescr", <<>>)
                            ELSE Counter("ifDescr")]]

\* lookupColumn finds something.
Known(table, column) ==
    table \in DOMAIN metricWhitelist /\ column \in DOMAIN metricWhitelist[table]

\* hours is there and clampHours accepts it.
HoursOK(args) ==
    "hours" \in DOMAIN args /\ args.hours > 0 /\ args.hours <= maxQueryHours

inputString(args, key, missing) == IF key \in DOMAIN args THEN args[key] ELSE missing

Column(args) == metricWhitelist[args.table][args.column]

\* The first of devices for which the index is in ks, as a set.
First(devices, ks) == {devices[k] : k \in {k \in ks : \A j \in ks : k <= j}}

Bug_FirstPrefix(devices, ref) ==
    First(devices, {k \in DOMAIN devices : devices[k].ip = ref \/ IsPrefix(ref, devices[k].hostname)})

\* resolveDevice: the address, the whole name, or a beginning that fits one
\* name only; {} is an error.
resolveDevice(devices, ref) ==
    LET byIP     == {k \in DOMAIN devices : devices[k].ip = ref}
        byName   == {k \in DOMAIN devices : devices[k].hostname = ref}
        byPrefix == {k \in DOMAIN devices : IsPrefix(ref, devices[k].hostname)}
    IN  IF byIP # {} THEN First(devices, byIP)
        ELSE IF byName # {} THEN First(devices, byName)
        ELSE IF Cardinality(byPrefix) = 1 THEN First(devices, byPrefix)
        ELSE {}

\* resolveSubFilter against the names a query returned, empty ones dropped;
\* {} is an error.
MatchName(names, requested) ==
    LET known   == names \ {<<>>}
        matches == {v \in known : requested \in SubSeqs(v)}
    IN  IF requested \in known THEN {requested}
        ELSE IF Cardinality(matches) = 1 THEN matches
        ELSE {}

\* resolveSubFilter when the caller gives no name.
DefaultSub(mc) ==
    IF mc.sub = "" \/ mc.default # <<>> THEN {mc.default} ELSE {}

Bug_NoKindCheck(mc, aggregation, args) ==
    \/ aggregation \in {"current", "history", "avg", "max", "min"}
    \/ aggregation = "count_above_threshold" /\ "threshold" \in DOMAIN args
    \/ aggregation = "rate" /\ mc.kind = "counter"

\* buildMetricQuery: the aggregations a column's kind admits.
Applies(mc, aggregation, args) ==
    \/ aggregation \in {"current", "history"}
    \/ aggregation \in {"avg", "max", "min"} /\ mc.kind = "gauge"
    \/ aggregation = "count_above_threshold" /\ mc.kind = "gauge" /\ "threshold" \in DOMAIN args
    \/ aggregation = "rate" /\ mc.kind = "counter"

\* A query: everything of the SQL text that varies.
Query(args, host, sub, aggregation) ==
    [table |-> args.table, column |-> args.column, host |-> host, sub |-> sub,
     aggregation |-> aggregation, hours |-> args.hours]

-----------------------------------------------------------------------------
Bug_NoWrap(values, k) == values[k] - values[k - 1]

\* What the counter grew by between two samples.
Delta(values, k) ==
    LET delta == values[k] - values[k - 1]
    IN  IF delta < 0 THEN delta + Wrap ELSE delta

\* SQL's SUM over a sequence of values.
TotalOf(s) ==
    LET total[k \in 0 .. Len(s)] == IF k = 0 THEN 0 ELSE total[k - 1] + s[k]
    IN  total[Len(s)]

\* rateQuery.  Samples are one poll apart; the first has no delta, so it adds
\* nothing and is not among the rows whose times are compared.
rateQuery(reading) ==
    LET values == [k \in DOMAIN reading |-> reading[k] % Wrap]
        deltas == [k \in DOMAIN reading |-> IF k = 1 THEN 0 ELSE Delta(values, k)]
    IN  [total_bytes  |-> TotalOf(deltas),
         span_seconds |-> IF Len(reading) < 2 THEN 0 ELSE Len(reading) - 2]

Mean(reading) ==
    IF reading = <<>> THEN 0
    ELSE (Unit * TotalOf(reading)) \div Len(reading)

\* InfluxDB's answer; the other aggregations are its own and stay unevaluated.
Rows(q, reading) == IF q.aggregation = "rate" THEN rateQuery(reading) ELSE reading

\* The value rank_devices gives a device; a NULL reads as 0.
RankValue(mc, reading) ==
    IF mc.kind = "counter"
    THEN LET r == rateQuery(reading)
         IN  IF r.span_seconds > 0 THEN (Unit * r.total_bytes) \div r.span_seconds ELSE 0
    ELSE Mean(reading)

Exchange(s, i, j) ==
    IF s[j].value > s[i].value THEN [s EXCEPT ![i] = s[j], ![j] = s[i]] ELSE s

\* The inner loop: place i gets the largest of what stands there and behind.
Pass(s, i) ==
    LET after[j \in i .. Len(s)] == IF j = i THEN s ELSE Exchange(after[j - 1], i, j)
    IN  after[Len(s)]

Bug_OnePass(results) == IF results = <<>> THEN results ELSE Pass(results, 1)

\* The exchange sort at the end of rank_devices: its outer loop.
sortResults(results) ==
    LET sorted[i \in 0 .. Len(results)] == IF i = 0 THEN results ELSE Pass(sorted[i - 1], i)
    IN  sorted[Len(results)]

-----------------------------------------------------------------------------
\* How a tool ends.  Every error comes with the empty string as its result;
\* list_devices returns a JSON array, the others an object.
Failed(call)       == [pc |-> "done", call |-> call, ok |-> FALSE, result |-> "", data |-> <<>>]
Done(call, r, data) == [pc |-> "done", call |-> call, ok |-> TRUE, result |-> r, data |-> data]

\* executeTool up to the first request a tool makes.
executeTool(call) ==
    LET args   == call.args
        column == Known(inputString(args, "table", ""), inputString(args, "column", ""))
    IN  IF \/ call.name = "list_devices"
           \/ call.name \in {"query_metric", "rank_devices"} /\ HoursOK(args) /\ column
        THEN [pc |-> "list", call |-> call]
        ELSE IF call.name = "get_recent_traps" /\ HoursOK(args)
        THEN [pc |-> "traps", call |-> call]
        ELSE Failed(call)

\* toolQueryMetric once device and sub_filter are known.
ToQuery(call, devices, dev, sub) ==
    LET aggregation == inputString(call.args, "aggregation", "")
    IN  IF Applies(Column(call.args), aggregation, call.args)
        THEN [pc |-> "query", call |-> call, devices |-> devices,
              q |-> Query(call.args, dev.ip, sub, aggregation)]
        ELSE Failed(call)

SubRequested(args) == Column(args).sub # "" /\ inputString(args, "sub_filter", <<>>) # <<>>

\* toolQueryMetric once the devices are listed: it asks for the names of
\* interfaces or pools, or goes on to the query, or fails.
Resolved(call, devices, found) ==
    IF SubRequested(call.args)
    THEN {[pc |-> "sub", call |-> call, devices |-> devices, dev |-> d] : d \in found}
    ELSE UNION {{ToQuery(call, devices, d, sub) : sub \in DefaultSub(Column(call.args))} : d \in found}

ResolveQuery(call, devices) ==
    LET next == Resolved(call, devices, resolveDevice(devices, inputString(call.args, "device", <<>>)))
    IN  IF next = {} THEN {Failed(call)} ELSE next

\* What follows listDevices.
Listed(call, devices) ==
    IF call.name = "list_devices" THEN {Done(call, "array", devices)}
    ELSE IF call.name = "rank_devices"
    THEN {[pc |-> "rank", call |-> call, todo |-> devices, results |-> <<>>]}
    ELSE ResolveQuery(call, devices)

\* The query rank_devices makes for one device, if it makes one.
RankQueries(call, d) ==
    LET mc == Column(call.args)
    IN  {Query(call.args, d.ip, sub, IF mc.kind = "counter" THEN "rate" ELSE "avg")
             : sub \in DefaultSub(mc)}

\* One turn of rank_devices' loop: a device whose sub-dimension or query
\* fails is passed over.
PassOver(job) == [job EXCEPT !.todo = Tail(@)]

Bug_RanksAgain(job, value) ==
    [job EXCEPT !.results = Append(@, [device |-> Head(job.todo).hostname, value |-> value])]

Rank(job, value) ==
    [PassOver(job) EXCEPT !.results = Append(@, [device |-> Head(job.todo).hostname, value |-> value])]

RankDevice(job) ==
    {PassOver(job)} \cup
    UNION {{Rank(job, RankValue(Column(job.call.args), r)) : r \in Readings}
              : q \in RankQueries(job.call, Head(job.todo))}

\* getRecentTraps: the newest 500 are fetched, then the old ones dropped.
RecentTraps(call, log) == SelectSeq(log, LAMBDA age : age < call.args.hours)

\* What a running tool may become with the next answer it gets.
AfterList(job) == {Failed(job.call)} \cup UNION {Listed(job.call, f) : f \in Fleets}

AfterSub(job) ==
    {Failed(job.call)} \cup
    UNION {{ToQuery(job.call, job.devices, job.dev, sub)
               : sub \in MatchName(names, job.call.args.sub_filter)} : names \in SubNames}

AfterQuery(job) ==
    {Failed(job.call)} \cup
    {Done(job.call, "object", [q |-> job.q, reading |-> r, rows |-> Rows(job.q, r)]) : r \in Readings}

AfterRank(job) ==
    IF job.todo # <<>> THEN RankDevice(job)
    ELSE {Done(job.call, "object", [found |-> job.results, ranking |-> sortResults(job.results)])}

AfterTraps(job) ==
    {Failed(job.call)} \cup
    {Done(job.call, "object", RecentTraps(job.call, log)) : log \in TrapLogs}

steps(job) ==
    CASE job.pc = "list"  -> AfterList(job)
      [] job.pc = "sub"   -> AfterSub(job)
      [] job.pc = "query" -> AfterQuery(job)
      [] job.pc = "rank"  -> AfterRank(job)
      [] job.pc = "traps" -> AfterTraps(job)
=============================================================================
