--------------------------- MODULE ChatApiProofs ----------------------------
(***************************************************************************)
(* chat-api, for every limit, window and number of clients and of          *)
(* questions at once, every reply of the language model and every list of  *)
(* devices: the rate limiter keeps its promise, what the tools send to     *)
(* InfluxDB is safe and not about a look-alike, what they answer is        *)
(* computed rightly, the transcript is a conversation, questions cost no   *)
(* more than they may, and every step brings them nearer to their end.     *)
(***************************************************************************)
EXTENDS ChatApi, MetricToolsProofs

-----------------------------------------------------------------------------
(***************************************************************************)
(* The rate limiter.  The pruned log suffices because it holds everything  *)
(* that was let through in the window that ends now; entries are never     *)
(* later than now, so a new one only counts in windows that end later, and *)
(* whatever else is in such a window is in the log.                        *)
(***************************************************************************)
LogsComplete ==
    \A c \in Clients :
        /\ requests[c] \subseteq admitted[c]
        /\ \A e \in admitted[c] : e.at <= now
        /\ \A e \in admitted[c] : e.at + Window > now => e \in requests[c]

\* LimitHolds for windows that end at any time.
AlwaysLimited ==
    \A c \in Clients, t \in Nat :
        IsFiniteSet(InWindow(c, t)) /\ Cardinality(InWindow(c, t)) <= Limit

LimiterInv ==
    /\ LimiterTypeOK
    /\ \A c \in Clients : IsFiniteSet(admitted[c])
    /\ LogsComplete
    /\ AlwaysLimited

\* Seen from now, the log and the history agree.
LEMMA LogIsWindow ==
    ASSUME LimiterInv, NEW c \in Clients
    PROVE  recent(requests[c], now) = InWindow(c, now)
<1>1. now \in Nat /\ Window \in Nat
  BY LimiterAssumption DEF LimiterInv, LimiterTypeOK
<1>2. admitted[c] \subseteq Entry /\ requests[c] \subseteq admitted[c]
  BY DEF LimiterInv, LimiterTypeOK, LogsComplete
<1>3. \A e \in admitted[c] : e.at \in Nat /\ e.at <= now
  BY <1>2 DEF LimiterInv, LogsComplete, Entry
<1>4. \A e \in admitted[c] : e.at + Window > now => e \in requests[c]
  BY DEF LimiterInv, LogsComplete
<1> QED BY <1>1, <1>2, <1>3, <1>4 DEF recent, InWindow

\* The history is finite, and so are all its windows.
LEMMA AdmittedFinite ==
    ASSUME LimiterInv, LimiterNext
    PROVE  \A c \in Clients : IsFiniteSet(admitted'[c])
<1>1. ASSUME NEW c \in Clients, allow(c), NEW d \in Clients
      PROVE  IsFiniteSet(admitted'[d])
  <2>1. admitted'[d] = admitted[d] \/ admitted'[d] = admitted[d] \cup {NewEntry(d)}
    BY <1>1 DEF allow, LimiterInv, LimiterTypeOK
  <2>2. IsFiniteSet(admitted[d]) /\ IsFiniteSet(admitted[d] \cup {NewEntry(d)})
    BY FS_AddElement DEF LimiterInv
  <2> QED BY <2>1, <2>2
<1> QED BY <1>1 DEF LimiterInv, LimiterNext, Tick, refuse

\* A new entry is well formed.
LEMMA NewEntryType ==
    ASSUME LimiterInv, NEW c \in Clients
    PROVE  NewEntry(c) \in Entry /\ NewEntry(c).at = now
<1>1. Cardinality(admitted[c]) \in Nat
  BY FS_CardinalityType DEF LimiterInv
<1>2. now \in Nat
  BY LimiterAssumption DEF LimiterInv, LimiterTypeOK
<1> QED BY <1>1, <1>2 DEF NewEntry, Entry

\* Steps of the limiter keep its types.
LEMMA LimiterType ==
    ASSUME LimiterInv, LimiterNext
    PROVE  LimiterTypeOK'
<1>1. CASE Tick
  BY <1>1, LimiterAssumption DEF Tick, LimiterInv, LimiterTypeOK
<1>2. ASSUME NEW c \in Clients, allow(c)
      PROVE  LimiterTypeOK'
  <2>1. recent(requests[c], now) \subseteq Entry
    BY DEF recent, LimiterInv, LimiterTypeOK
  <2> QED BY <1>2, <2>1, NewEntryType DEF allow, LimiterInv, LimiterTypeOK
<1>3. ASSUME NEW c \in Clients, refuse(c)
      PROVE  LimiterTypeOK'
  <2>1. recent(requests[c], now) \subseteq Entry
    BY DEF recent, LimiterInv, LimiterTypeOK
  <2> QED BY <1>3, <2>1 DEF refuse, LimiterInv, LimiterTypeOK
<1> QED BY <1>1, <1>2, <1>3 DEF LimiterNext

\* Pruning never drops what a later decision needs.
LEMMA LogsStep ==
    ASSUME LimiterInv, LimiterNext
    PROVE  LogsComplete'
<1>1. now \in Nat /\ Window \in Nat
  BY LimiterAssumption DEF LimiterInv, LimiterTypeOK
<1>2. \A d \in Clients : \A e \in admitted[d] : e.at \in Nat
  BY DEF LimiterInv, LimiterTypeOK, Entry
<1>3. CASE Tick
  BY <1>1, <1>2, <1>3 DEF Tick, LimiterInv, LogsComplete
<1>4. ASSUME NEW c \in Clients, allow(c)
      PROVE  LogsComplete'
  <2>1. NewEntry(c).at = now
    BY DEF NewEntry
  <2>2. ASSUME NEW d \in Clients
        PROVE  /\ requests'[d] \subseteq admitted'[d]
               /\ \A e \in admitted'[d] : e.at <= now'
               /\ \A e \in admitted'[d] : e.at + Window > now' => e \in requests'[d]
    <3>1. CASE d = c
      BY <1>1, <1>4, <2>1, <3>1 DEF allow, recent, LimiterInv, LimiterTypeOK, LogsComplete
    <3>2. CASE d # c
      BY <1>4, <3>2 DEF allow, LimiterInv, LimiterTypeOK, LogsComplete
    <3> QED BY <3>1, <3>2
  <2> QED BY <2>2 DEF LogsComplete
<1>5. ASSUME NEW c \in Clients, refuse(c)
      PROVE  LogsComplete'
  <2>1. ASSUME NEW d \in Clients
        PROVE  /\ requests'[d] \subseteq admitted'[d]
               /\ \A e \in admitted'[d] : e.at <= now'
               /\ \A e \in admitted'[d] : e.at + Window > now' => e \in requests'[d]
    BY <1>5 DEF refuse, recent, LimiterInv, LimiterTypeOK, LogsComplete
  <2> QED BY <2>1 DEF LogsComplete
<1> QED BY <1>3, <1>4, <1>5 DEF LimiterNext

\* Letting one more question through exceeds the limit in no window.
LEMMA WindowStep ==
    ASSUME LimiterInv, LimiterNext
    PROVE  AlwaysLimited'
<1>1. ASSUME NEW c \in Clients, NEW t \in Nat, admitted'[c] = admitted[c]
      PROVE  IsFiniteSet(InWindow(c, t)') /\ Cardinality(InWindow(c, t)') <= Limit
  <2>1. InWindow(c, t)' = InWindow(c, t)
    BY <1>1 DEF InWindow
  <2> QED BY <2>1 DEF LimiterInv, AlwaysLimited
<1>2. ASSUME NEW c \in Clients, allow(c), NEW t \in Nat
      PROVE  IsFiniteSet(InWindow(c, t)') /\ Cardinality(InWindow(c, t)') <= Limit
  <2> DEFINE new == NewEntry(c)
             log == recent(requests[c], now)
  <2>0. admitted'[c] = admitted[c] \cup {new}
    BY <1>2 DEF allow, LimiterInv, LimiterTypeOK
  <2>1. new.at = now /\ now \in Nat /\ Window \in Nat /\ Limit \in Nat
    BY NewEntryType, LimiterAssumption DEF LimiterInv, LimiterTypeOK
  <2>2. \A e \in admitted[c] : e.at \in Nat
    BY DEF LimiterInv, LimiterTypeOK, Entry
  <2>3. CASE t < now
    <3>1. InWindow(c, t)' = InWindow(c, t)
      BY <2>0, <2>1, <2>3 DEF InWindow
    <3> QED BY <3>1 DEF LimiterInv, AlwaysLimited
  <2>4. CASE t >= now
    <3>1. InWindow(c, t)' \subseteq log \cup {new}
      BY <2>0, <2>1, <2>2, <2>4 DEF InWindow, recent, LimiterInv, LogsComplete
    <3>2. IsFiniteSet(log)
      <4>1. log \subseteq admitted[c]
        BY DEF recent, LimiterInv, LogsComplete
      <4> QED BY <4>1, FS_Subset DEF LimiterInv
    <3>3. IsFiniteSet(log \cup {new}) /\ Cardinality(log \cup {new}) <= Limit
      <4>1. Cardinality(log) \in Nat /\ Cardinality(log) < Limit
        BY <1>2, <3>2, FS_CardinalityType DEF allow, UnderLimit
      <4>2. IsFiniteSet(log \cup {new})
        BY <3>2, FS_AddElement
      <4>3. Cardinality(log \cup {new}) = Cardinality(log)
              \/ Cardinality(log \cup {new}) = Cardinality(log) + 1
        BY <3>2, FS_AddElement
      <4> QED BY <2>1, <4>1, <4>2, <4>3
    <3>4. IsFiniteSet(InWindow(c, t)')
      BY <3>1, <3>3, FS_Subset
    <3>5. Cardinality(InWindow(c, t)') <= Cardinality(log \cup {new})
      BY <3>1, <3>3, FS_Subset
    <3>6. Cardinality(InWindow(c, t)') \in Nat /\ Cardinality(log \cup {new}) \in Nat
      BY <3>3, <3>4, FS_CardinalityType
    <3> QED BY <2>1, <3>3, <3>4, <3>5, <3>6
  <2> QED BY <2>1, <2>3, <2>4
<1>3. ASSUME NEW c \in Clients, NEW t \in Nat
      PROVE  IsFiniteSet(InWindow(c, t)') /\ Cardinality(InWindow(c, t)') <= Limit
  <2>1. CASE allow(c)
    BY <1>2, <2>1
  <2>2. CASE ~allow(c)
    <3>1. admitted'[c] = admitted[c]
      BY <2>2 DEF LimiterNext, Tick, allow, refuse, LimiterInv, LimiterTypeOK
    <3> QED BY <1>1, <3>1
  <2> QED BY <2>1, <2>2
<1> QED BY <1>3 DEF AlwaysLimited

\* Every step of chat-api is one of the limiter's or leaves it alone.
LEMMA ChatIsLimiter ==
    ASSUME [Next]_chatVars
    PROVE  [LimiterNext]_limiterVars
<1>1. ASSUME NEW s \in Slots, NEW c \in Clients, Ask(s, c)
      PROVE  LimiterNext
  BY <1>1 DEF Ask, LimiterNext
<1>2. ASSUME NEW s \in Slots, ChatStep(s)
      PROVE  UNCHANGED limiterVars
  BY <1>2 DEF ChatStep, CallModel, GiveUp, ToolStep, FinishTool
<1>3. Clock => LimiterNext
  BY DEF Clock, LimiterNext
<1>4. UNCHANGED chatVars => UNCHANGED limiterVars
  BY DEF chatVars
<1> QED BY <1>1, <1>2, <1>3, <1>4 DEF Next

LEMMA LimiterInitially ==
    ASSUME LimiterInit
    PROVE  LimiterInv
<1>1. LimiterTypeOK
  BY LimiterAssumption DEF LimiterInit, LimiterTypeOK
<1>2. \A c \in Clients : admitted[c] = {} /\ requests[c] = {}
  BY DEF LimiterInit
<1>3. \A c \in Clients, t \in Nat : InWindow(c, t) = {}
  BY <1>2 DEF InWindow
<1> QED BY <1>1, <1>2, <1>3, FS_EmptySet, LimiterAssumption DEF LimiterInv, LogsComplete, AlwaysLimited

LEMMA LimiterStep ==
    ASSUME LimiterInv, [LimiterNext]_limiterVars
    PROVE  LimiterInv'
<1>1. CASE LimiterNext
  BY <1>1, LimiterType, AdmittedFinite, LogsStep, WindowStep DEF LimiterInv
<1>2. CASE UNCHANGED limiterVars
  BY <1>2 DEF limiterVars, LimiterInv, LimiterTypeOK, LogsComplete, AlwaysLimited, InWindow
<1> QED BY <1>1, <1>2

\* The invariant behind both results.
THEOREM LimiterInvariant == Spec => []LimiterInv
<1>1. Init => LimiterInv
  BY LimiterInitially DEF Init
<1>2. LimiterInv /\ [Next]_chatVars => LimiterInv'
  BY ChatIsLimiter, LimiterStep
<1> QED BY <1>1, <1>2, PTL DEF Spec

\* rateLimiter.allow lets no client exceed the limit in any window, for any
\* limit, window length and number of clients and of requests at once.
THEOREM LimiterSafe == Spec => []LimitHolds
<1>1. LimiterInv => LimitHolds
  BY LimiterAssumption DEF LimiterInv, AlwaysLimited, LimitHolds
<1> QED BY <1>1, LimiterInvariant, PTL

\* Pruning the log changes no decision of rateLimiter.allow: it refuses
\* exactly the questions that the whole history would refuse.
THEOREM LimiterDecides == Spec => []LimiterExact
<1>1. LimiterInv => LimiterExact
  BY LogIsWindow DEF LimiterExact, UnderLimit
<1> QED BY <1>1, LimiterInvariant, PTL

-----------------------------------------------------------------------------
(***************************************************************************)
(* The tools.  What a running tool knows of its call and of the devices at *)
(* each of its requests is what makes the query it ends in safe.           *)
(***************************************************************************)
ValidArgs(args) == Known(args.table, args.column) /\ HoursOK(args)

\* The device a query is about is one that the reference of its call stands
\* for in the list the tool was given.
DeviceRef(call) == inputString(call.args, "device", <<>>)

Meant(call, devices, host) ==
    devices \in Fleets /\ \E d \in resolveDevice(devices, DeviceRef(call)) : d.ip = host

JobOK(j) ==
    /\ j.pc \in {"list", "sub", "query", "rank", "traps", "done"}
    /\ (j.pc = "list" /\ j.call.name # "list_devices") => ValidArgs(j.call.args)
    /\ j.pc = "sub" => /\ ValidArgs(j.call.args)
                       /\ SafeLookup(j.call.args, j.dev)
                       /\ Meant(j.call, j.devices, j.dev.ip)
    /\ j.pc = "query" => SafeQuery(j.q) /\ Meant(j.call, j.devices, j.q.host)
    /\ j.pc = "rank" => /\ ValidArgs(j.call.args)
                       /\ j.todo \in Seq(FleetDevices)
                       /\ {"pc", "call", "todo", "results"} \subseteq DOMAIN j

ToolsInv ==
    /\ chats = [s \in Slots |-> chats[s]]
    /\ \A s \in Slots : chats[s].pc = "tools" =>
           {"pc", "calls", "answers", "job"} \subseteq DOMAIN chats[s] /\ JobOK(chats[s].job)

\* The empty string, which stands for a missing argument, names no table and
\* no column.
LEMMA EmptyIsUnknown ==
    ASSUME NEW table, NEW column, Known(table, column)
    PROVE  table # "" /\ column # ""
<1>1. table \in {"cpu", "memory", "interface"}
  BY DEF Known, metricWhitelist
<1>2. CASE table = "cpu"
  BY <1>2 DEF Known, metricWhitelist
<1>3. CASE table = "memory"
  BY <1>3 DEF Known, metricWhitelist
<1>4. CASE table = "interface"
  BY <1>4 DEF Known, metricWhitelist
<1> QED BY <1>1, <1>2, <1>3, <1>4

\* A tool that has ended sends nothing.
LEMMA EndedOK ==
    ASSUME NEW call, NEW r, NEW data
    PROVE  JobOK(Failed(call)) /\ JobOK(Done(call, r, data))
<1>1. Failed(call).pc = "done" /\ Done(call, r, data).pc = "done"
  BY DEF Failed, Done
<1> QED BY <1>1 DEF JobOK

\* A tool fails or has valid arguments before it makes its first request.
LEMMA ExecuteOK ==
    ASSUME NEW call
    PROVE  JobOK(executeTool(call))
<1> DEFINE args   == call.args
           column == Known(inputString(args, "table", ""), inputString(args, "column", ""))
<1>1. HoursOK(args) /\ column => ValidArgs(args)
  BY EmptyIsUnknown DEF inputString, ValidArgs
<1>2. CASE executeTool(call) = Failed(call)
  BY <1>2, EndedOK
<1>3. CASE executeTool(call) = [pc |-> "traps", call |-> call]
  BY <1>3 DEF JobOK
<1>4. ASSUME executeTool(call) = [pc |-> "list", call |-> call],
             call.name # "list_devices" => ValidArgs(args)
      PROVE  JobOK(executeTool(call))
  BY <1>4 DEF JobOK
<1> QED BY <1>1, <1>2, <1>3, <1>4 DEF executeTool

\* A query is safe when its arguments are valid, its device is known, its
\* sub-dimension is given where there is one, and its aggregation applies.
LEMMA QuerySafe ==
    ASSUME NEW args, NEW host, NEW sub, NEW aggregation,
           ValidArgs(args), \E d \in FleetDevices : d.ip = host,
           Column(args).sub # "" => sub # <<>>,
           aggregation = "rate" => Column(args).kind = "counter",
           Column(args).kind = "counter" => aggregation \in {"current", "history", "rate"}
    PROVE  SafeQuery(Query(args, host, sub, aggregation))
  BY DEF SafeQuery, Query, ValidArgs, HoursOK, Column

LEMMA DefaultGiven ==
    ASSUME NEW mc, NEW sub \in DefaultSub(mc)
    PROVE  mc.sub # "" => sub # <<>>
  BY DEF DefaultSub

LEMMA ToQueryOK ==
    ASSUME NEW call, NEW list, NEW dev \in FleetDevices, NEW sub, ValidArgs(call.args),
           Meant(call, list, dev.ip), Column(call.args).sub # "" => sub # <<>>
    PROVE  JobOK(ToQuery(call, list, dev, sub))
<1> DEFINE aggregation == inputString(call.args, "aggregation", "")
<1>1. CASE Applies(Column(call.args), aggregation, call.args)
  <2>1. /\ aggregation = "rate" => Column(call.args).kind = "counter"
        /\ Column(call.args).kind = "counter" => aggregation \in {"current", "history", "rate"}
    BY <1>1 DEF Applies
  <2> DEFINE q == Query(call.args, dev.ip, sub, aggregation)
             j == [pc |-> "query", call |-> call, devices |-> list, q |-> q]
  <2>2. SafeQuery(q) /\ q.host = dev.ip
    BY <2>1, QuerySafe DEF Query
  <2>3. ToQuery(call, list, dev, sub) = j
    BY <1>1 DEF ToQuery
  <2>4. j.pc = "query" /\ j.call = call /\ j.devices = list /\ j.q = q
    OBVIOUS
  <2> HIDE DEF q, j
  <2> QED BY <2>2, <2>3, <2>4 DEF JobOK
<1>2. CASE ~Applies(Column(call.args), aggregation, call.args)
  BY <1>2, EndedOK DEF ToQuery
<1> QED BY <1>1, <1>2

\* Whatever the model calls a device, only a device of the list is used.
LEMMA ResolvedKnown ==
    ASSUME NEW f \in Fleets, NEW ref, NEW d \in resolveDevice(f, ref)
    PROVE  d \in FleetDevices
<1>1. ASSUME NEW ks \in SUBSET DOMAIN f
      PROVE  First(f, ks) \subseteq FleetDevices
  BY DEF First, FleetDevices, Range
<1> QED BY <1>1 DEF resolveDevice

LEMMA ListedOK ==
    ASSUME NEW call, NEW f \in Fleets, NEW j \in Listed(call, f),
           call.name # "list_devices" => ValidArgs(call.args)
    PROVE  JobOK(j)
<1> DEFINE found == resolveDevice(f, DeviceRef(call))
           mc    == Column(call.args)
<1>1. f \in Seq(FleetDevices)
  BY ToolsAssumption
<1>2. CASE call.name = "list_devices"
  BY <1>2, EndedOK DEF Listed
<1>3. CASE call.name = "rank_devices"
  BY <1>1, <1>3 DEF Listed, JobOK
<1>4. CASE call.name \notin {"list_devices", "rank_devices"}
  <2>1. j \in ResolveQuery(call, f) /\ ValidArgs(call.args)
    BY <1>4 DEF Listed
  <2>2. CASE j = Failed(call)
    BY <2>2, EndedOK
  <2>3. ASSUME NEW d \in found, SubRequested(call.args),
               j = [pc |-> "sub", call |-> call, devices |-> f, dev |-> d]
        PROVE  JobOK(j)
    <3>1. j.pc = "sub" /\ j.call = call /\ j.devices = f /\ j.dev = d
      BY <2>3
    <3>2. Meant(call, f, d.ip)
      BY <2>3 DEF Meant
    <3> QED BY <2>1, <2>3, <3>1, <3>2, ResolvedKnown DEF JobOK, SafeLookup, SubRequested, ValidArgs
  <2>4. ASSUME NEW d \in found, NEW sub \in DefaultSub(mc), j = ToQuery(call, f, d, sub)
        PROVE  JobOK(j)
    <3>1. Meant(call, f, d.ip)
      BY <2>4 DEF Meant
    <3> QED BY <2>1, <2>4, <3>1, ResolvedKnown, DefaultGiven, ToQueryOK
  <2>5. j = Failed(call) \/ j \in Resolved(call, f, found)
    BY <2>1 DEF ResolveQuery, DeviceRef
  <2>6. CASE j \in Resolved(call, f, found) /\ SubRequested(call.args)
    BY <2>3, <2>6 DEF Resolved
  <2>7. CASE j \in Resolved(call, f, found) /\ ~SubRequested(call.args)
    BY <2>4, <2>7 DEF Resolved
  <2> QED BY <2>2, <2>5, <2>6, <2>7
<1> QED BY <1>2, <1>3, <1>4

\* The name of an interface or a pool is one the device has reported.
LEMMA SubOK ==
    ASSUME NEW j, JobOK(j), j.pc = "sub", NEW k \in AfterSub(j)
    PROVE  JobOK(k)
<1>1. CASE k = Failed(j.call)
  BY <1>1, EndedOK
<1>2. ASSUME NEW names \in SubNames, NEW sub \in MatchName(names, j.call.args.sub_filter),
             k = ToQuery(j.call, j.devices, j.dev, sub)
      PROVE  JobOK(k)
  <2>1. sub # <<>>
    BY <1>2 DEF MatchName
  <2> QED BY <1>2, <2>1, ToQueryOK DEF JobOK, SafeLookup
<1> QED BY <1>1, <1>2 DEF AfterSub

LEMMA RankOK ==
    ASSUME NEW j, JobOK(j), j.pc = "rank", NEW k \in AfterRank(j)
    PROVE  JobOK(k)
<1>1. CASE j.todo = <<>>
  BY <1>1, EndedOK DEF AfterRank
<1>2. CASE j.todo # <<>>
  <2> DEFINE next == PassOver(j)
  <2>1. /\ {"pc", "call", "todo", "results"} \subseteq DOMAIN j
        /\ j.todo \in Seq(FleetDevices) /\ ValidArgs(j.call.args)
    BY DEF JobOK
  <2>2. Tail(j.todo) \in Seq(FleetDevices)
    BY <1>2, <2>1
  <2>3. /\ DOMAIN next = DOMAIN j
        /\ next.pc = "rank" /\ next.call = j.call /\ next.todo = Tail(j.todo)
    BY <2>1 DEF PassOver
  <2>4. JobOK(next)
    BY <2>1, <2>2, <2>3 DEF JobOK
  <2>5. ASSUME NEW value, k = Rank(j, value)
        PROVE  JobOK(k)
    <3>1. DOMAIN k = DOMAIN next /\ k.pc = next.pc /\ k.call = next.call /\ k.todo = next.todo
      BY <2>1, <2>3, <2>5 DEF Rank
    <3> QED BY <2>1, <2>2, <2>3, <3>1 DEF JobOK
  <2>6. k \in RankDevice(j)
    BY <1>2 DEF AfterRank
  <2> HIDE DEF next
  <2>7. k = PassOver(j) \/ \E value : k = Rank(j, value)
    BY <2>6 DEF RankDevice
  <2> QED BY <2>4, <2>5, <2>7 DEF next
<1> QED BY <1>1, <1>2

\* Every answer leaves a tool with what it needs.
LEMMA StepsOK ==
    ASSUME NEW j, JobOK(j), j.pc # "done", NEW k \in steps(j)
    PROVE  JobOK(k)
<1>1. CASE j.pc = "list"
  <2>1. k \in AfterList(j)
    BY <1>1 DEF steps
  <2>2. ASSUME NEW f \in Fleets, k \in Listed(j.call, f)
        PROVE  JobOK(k)
    BY <1>1, <2>2, ListedOK DEF JobOK
  <2> QED BY <2>1, <2>2, EndedOK DEF AfterList
<1>2. CASE j.pc = "sub"
  <2>1. k \in AfterSub(j)
    BY <1>2 DEF steps
  <2> QED BY <1>2, <2>1, SubOK
<1>3. CASE j.pc = "query"
  <2>1. k \in AfterQuery(j)
    BY <1>3 DEF steps
  <2> QED BY <2>1, EndedOK DEF AfterQuery
<1>4. CASE j.pc = "rank"
  <2>1. k \in AfterRank(j)
    BY <1>4 DEF steps
  <2> QED BY <1>4, <2>1, RankOK
<1>5. CASE j.pc = "traps"
  <2>1. k \in AfterTraps(j)
    BY <1>5 DEF steps
  <2> QED BY <2>1, EndedOK DEF AfterTraps
<1> QED BY <1>1, <1>2, <1>3, <1>4, <1>5 DEF JobOK

\* A step that gives one request a new state keeps the invariant if that
\* state is not at its tools, or at a tool that is as it should be.
LEMMA OneChat ==
    ASSUME ToolsInv, NEW s \in Slots, NEW chat, chats' = [chats EXCEPT ![s] = chat],
           chat.pc = "tools" =>
               {"pc", "calls", "answers", "job"} \subseteq DOMAIN chat /\ JobOK(chat.job)
    PROVE  ToolsInv'
<1>1. chats' = [r \in Slots |-> chats'[r]]
  BY DEF ToolsInv
<1>2. ASSUME NEW r \in Slots, chats'[r].pc = "tools"
      PROVE  {"pc", "calls", "answers", "job"} \subseteq DOMAIN chats'[r] /\ JobOK(chats'[r].job)
  <2>1. CASE r = s
    BY <1>2, <2>1 DEF ToolsInv
  <2>2. CASE r # s
    BY <1>2, <2>2 DEF ToolsInv
  <2> QED BY <2>1, <2>2
<1>3. \A r \in Slots : chats'[r].pc = "tools" =>
          {"pc", "calls", "answers", "job"} \subseteq DOMAIN chats'[r] /\ JobOK(chats'[r].job)
  BY <1>2
<1> QED BY <1>1, <1>3 DEF ToolsInv, JobOK, SafeQuery

LEMMA ToolsStep ==
    ASSUME ToolsInv, [Next]_chatVars
    PROVE  ToolsInv'
<1>0. CASE UNCHANGED chats
  BY <1>0 DEF ToolsInv, JobOK, SafeQuery
<1>1. ASSUME NEW s \in Slots, NEW c \in Clients, Ask(s, c)
      PROVE  ToolsInv'
  <2>1. CASE UNCHANGED chats
    BY <2>1, <1>0
  <2>2. ASSUME NEW contents,
               chats' = [chats EXCEPT ![s] =
                            [pc |-> "model", client |-> c, i |-> 0, contents |-> contents]]
        PROVE  ToolsInv'
    BY <2>2, OneChat
  <2> QED BY <1>1, <2>1, <2>2 DEF Ask
<1>2. ASSUME NEW s \in Slots, CallModel(s)
      PROVE  ToolsInv'
  <2>1. CASE chats' = [chats EXCEPT ![s] = Idle]
    BY <2>1, OneChat DEF Idle
  <2>2. ASSUME NEW calls \in Replies,
               chats' = [chats EXCEPT ![s] =
                   [pc |-> "tools", client |-> chats[s].client, i |-> chats[s].i,
                    contents |-> Append(chats[s].contents,
                        Turn("model", [k \in DOMAIN calls |-> calls[k].name], <<>>)),
                    calls |-> Tail(calls), answers |-> <<>>, job |-> executeTool(Head(calls))]]
        PROVE  ToolsInv'
    <3> DEFINE turn == Turn("model", [k \in DOMAIN calls |-> calls[k].name], <<>>)
               chat == [pc |-> "tools", client |-> chats[s].client, i |-> chats[s].i,
                        contents |-> Append(chats[s].contents, turn),
                        calls |-> Tail(calls), answers |-> <<>>, job |-> executeTool(Head(calls))]
    <3>1. {"pc", "calls", "answers", "job"} \subseteq DOMAIN chat /\ chat.job = executeTool(Head(calls))
      OBVIOUS
    <3> QED BY <2>2, <3>1, OneChat, ExecuteOK
  <2> QED BY <1>2, <2>1, <2>2 DEF CallModel
<1>3. ASSUME NEW s \in Slots, GiveUp(s)
      PROVE  ToolsInv'
  BY <1>3, OneChat DEF GiveUp, Idle
<1>4. ASSUME NEW s \in Slots, ToolStep(s)
      PROVE  ToolsInv'
  <2>1. PICK job \in steps(chats[s].job) : chats' = [chats EXCEPT ![s].job = job]
    BY <1>4 DEF ToolStep
  <2>2. JobOK(job)
    BY <1>4, StepsOK DEF ToolStep, ToolsInv
  <2> DEFINE chat == [chats[s] EXCEPT !.job = job]
  <2>3. {"pc", "calls", "answers", "job"} \subseteq DOMAIN chat /\ chat.job = job
    BY <1>4 DEF ToolStep, ToolsInv
  <2>4. chats' = [chats EXCEPT ![s] = chat]
    BY <2>1 DEF ToolsInv
  <2> QED BY <2>2, <2>3, <2>4, OneChat
<1>5. ASSUME NEW s \in Slots, FinishTool(s)
      PROVE  ToolsInv'
  <2> DEFINE answers == Append(chats[s].answers, buildFunctionResponsePart(chats[s].job))
             chat    == AfterTool(chats[s], answers)
  <2>1. chats' = [chats EXCEPT ![s] = chat]
    BY <1>5 DEF FinishTool, ToolsInv
  <2>2. {"pc", "calls", "answers", "job"} \subseteq DOMAIN chats[s]
    BY <1>5 DEF FinishTool, ToolsInv
  <2>3. CASE chats[s].calls = <<>>
    <3>1. chat.pc = "model"
      BY <2>3 DEF AfterTool
    <3> QED BY <2>1, <3>1, OneChat
  <2>4. CASE chats[s].calls # <<>>
    <3>1. DOMAIN chat = DOMAIN chats[s] /\ chat.job = executeTool(Head(chats[s].calls))
      BY <2>2, <2>4 DEF AfterTool
    <3> QED BY <2>1, <2>2, <3>1, OneChat, ExecuteOK
  <2> QED BY <2>3, <2>4
<1>6. Clock \/ UNCHANGED chatVars => UNCHANGED chats
  BY DEF Clock, chatVars
<1> QED BY <1>0, <1>1, <1>2, <1>3, <1>4, <1>5, <1>6 DEF Next, ChatStep

LEMMA ToolsSafe ==
    ASSUME ToolsInv
    PROVE  QueriesAreSafe
<1>0. \A job \in Running : JobOK(job)
  BY DEF Running, ToolsInv
<1>1. SUFFICES ASSUME NEW j \in Running, NEW q \in QueriesOf(j)
               PROVE  SafeQuery(q)
  BY <1>0 DEF QueriesAreSafe, JobOK
<1>2. JobOK(j)
  BY <1>0
<1>3. CASE j.pc = "query"
  BY <1>1, <1>2, <1>3 DEF JobOK, QueriesOf
<1>4. CASE j.pc = "rank" /\ j.todo # <<>>
  <2> DEFINE d  == Head(j.todo)
             mc == Column(j.call.args)
  <2>1. d \in FleetDevices /\ ValidArgs(j.call.args)
    BY <1>2, <1>4 DEF JobOK
  <2>2. PICK sub \in DefaultSub(mc) :
            q = Query(j.call.args, d.ip, sub, IF mc.kind = "counter" THEN "rate" ELSE "avg")
    BY <1>1, <1>4 DEF QueriesOf, RankQueries
  <2> QED BY <2>1, <2>2, DefaultGiven, QuerySafe
<1> QED BY <1>1, <1>3, <1>4 DEF QueriesOf

\* Whatever a language model replies and whatever devices are registered,
\* executeTool sends InfluxDB only queries of whitelisted columns, known
\* devices, bounded ranges and fitting aggregations.
THEOREM ToolQueriesSafe == Spec => []QueriesAreSafe
<1>1. Init => ToolsInv
  BY DEF Init, ToolsInv, Idle
<1>2. ToolsInv /\ [Next]_chatVars => ToolsInv'
  BY ToolsStep
<1>3. ToolsInv => QueriesAreSafe
  BY ToolsSafe
<1> QED BY <1>1, <1>2, <1>3, PTL DEF Spec

\* What resolveDevice finds: an address before a name, a name before a
\* beginning, and a beginning only where it fits no other device.
StandsFor(devices, ref, k) ==
    LET byAddress == {j \in DOMAIN devices : devices[j].ip = ref}
        byName    == {j \in DOMAIN devices : devices[j].hostname = ref}
        byPrefix  == {j \in DOMAIN devices : IsPrefix(ref, devices[j].hostname)}
    IN  IF byAddress # {} THEN k \in byAddress
        ELSE IF byName # {} THEN k \in byName
        ELSE byPrefix = {k}

LEMMA ResolvedIsMeant ==
    ASSUME NEW devices \in Fleets, NEW ref, NEW d \in resolveDevice(devices, ref)
    PROVE  \E k \in DOMAIN devices : devices[k] = d /\ StandsFor(devices, ref, k)
<1> DEFINE byAddress == {k \in DOMAIN devices : devices[k].ip = ref}
           byName    == {k \in DOMAIN devices : devices[k].hostname = ref}
           byPrefix  == {k \in DOMAIN devices : IsPrefix(ref, devices[k].hostname)}
<1>1. byAddress \subseteq DOMAIN devices /\ byName \subseteq DOMAIN devices
      /\ byPrefix \subseteq DOMAIN devices
  OBVIOUS
<1>2. IsFiniteSet(byPrefix)
  <2>1. devices \in Seq(FleetDevices)
    BY ToolsAssumption
  <2>2. DOMAIN devices = 1 .. Len(devices) /\ Len(devices) \in Nat
    BY <2>1
  <2>3. IsFiniteSet(DOMAIN devices)
    BY <2>2, FS_Interval
  <2> QED BY <1>1, <2>3, FS_Subset
<1>3. \/ byAddress # {} /\ d \in First(devices, byAddress)
      \/ byAddress = {} /\ byName # {} /\ d \in First(devices, byName)
      \/ /\ byAddress = {} /\ byName = {} /\ Cardinality(byPrefix) = 1
         /\ d \in First(devices, byPrefix)
  BY DEF resolveDevice
<1> HIDE DEF byAddress, byName, byPrefix
<1>4. ASSUME NEW ks, d \in First(devices, ks)
      PROVE  \E k \in ks : devices[k] = d
  BY <1>4 DEF First
<1>5. Cardinality(byPrefix) = 1 => \E k : byPrefix = {k}
  BY <1>2, FS_Singleton
<1>6. \E k \in DOMAIN devices :
          /\ devices[k] = d
          /\ IF byAddress # {} THEN k \in byAddress
             ELSE IF byName # {} THEN k \in byName
             ELSE byPrefix = {k}
  <2>1. CASE byAddress # {} /\ d \in First(devices, byAddress)
    BY <1>1, <1>4, <2>1
  <2>2. CASE byAddress = {} /\ byName # {} /\ d \in First(devices, byName)
    BY <1>1, <1>4, <2>2
  <2>3. CASE /\ byAddress = {} /\ byName = {} /\ Cardinality(byPrefix) = 1
             /\ d \in First(devices, byPrefix)
    BY <1>1, <1>4, <1>5, <2>3
  <2> QED BY <1>3, <2>1, <2>2, <2>3
<1> QED BY <1>6 DEF byAddress, byName, byPrefix, StandsFor

\* A device found in one list stands in the way of every look-alike in any
\* other list that it is in: where the reference is nobody's whole address or
\* name it fits both, and resolveDevice finds neither.
LEMMA NoLookAlike ==
    ASSUME NEW devices \in Fleets, NEW list \in Fleets, NEW ref,
           NEW d \in resolveDevice(devices, ref), d \in Range(list),
           NEW e \in resolveDevice(list, ref)
    PROVE  e.ip = d.ip \/ ref \in {e.ip, e.hostname}
<1>1. d.ip = ref \/ d.hostname = ref \/ IsPrefix(ref, d.hostname)
  <2>1. PICK k \in DOMAIN devices : devices[k] = d /\ StandsFor(devices, ref, k)
    BY ResolvedIsMeant
  <2> QED BY <2>1 DEF StandsFor
<1>2. PICK j \in DOMAIN list : list[j] = e /\ StandsFor(list, ref, j)
  BY ResolvedIsMeant
<1>3. PICK m \in DOMAIN list : list[m] = d
  BY DEF Range
<1>4. CASE \E n \in DOMAIN list : ref \in {list[n].ip, list[n].hostname}
  BY <1>2, <1>4 DEF StandsFor
<1>5. CASE \A n \in DOMAIN list : ref \notin {list[n].ip, list[n].hostname}
  <2>1. {n \in DOMAIN list : IsPrefix(ref, list[n].hostname)} = {j}
    BY <1>2, <1>5 DEF StandsFor
  <2>2. IsPrefix(ref, list[m].hostname)
    BY <1>1, <1>3, <1>5
  <2>3. m = j
    BY <2>1, <2>2
  <2> QED BY <1>2, <1>3, <2>3
<1> QED BY <1>4, <1>5

\* Whatever a language model calls a device, and whatever devices are added,
\* deleted and renamed between two calls of toolQueryMetric, resolveDevice
\* does not pass from a device that is still listed to one whose name only
\* begins alike.
THEOREM ToolReferenceKept == Spec => []ReferenceKept
<1>1. Init => ToolsInv
  BY DEF Init, ToolsInv, Idle
<1>2. ToolsInv /\ [Next]_chatVars => ToolsInv'
  BY ToolsStep
<1>3. ASSUME ToolsInv
      PROVE  ReferenceKept
  <2> SUFFICES ASSUME NEW job \in Running, job.pc = "query"
               PROVE  \E d \in Range(job.devices) :
                          /\ d.ip = job.q.host
                          /\ \A list \in {f \in Fleets : d \in Range(f)} :
                                 \A e \in resolveDevice(list, DeviceRef(job.call)) :
                                     e.ip = d.ip \/ DeviceRef(job.call) \in {e.ip, e.hostname}
    BY DEF ReferenceKept, DeviceRef
  <2>1. Meant(job.call, job.devices, job.q.host)
    BY <1>3 DEF Running, ToolsInv, JobOK
  <2>2. PICK d \in resolveDevice(job.devices, DeviceRef(job.call)) : d.ip = job.q.host
    BY <2>1 DEF Meant
  <2>3. job.devices \in Fleets
    BY <2>1 DEF Meant
  <2>4. d \in Range(job.devices)
    BY <2>3, ResolvedIsMeant DEF Range
  <2>5. ASSUME NEW list \in {f \in Fleets : d \in Range(f)},
               NEW e \in resolveDevice(list, DeviceRef(job.call))
        PROVE  e.ip = d.ip \/ DeviceRef(job.call) \in {e.ip, e.hostname}
    BY <2>3, NoLookAlike
  <2> QED BY <2>2, <2>4, <2>5
<1> QED BY <1>1, <1>2, <1>3, PTL DEF Spec

-----------------------------------------------------------------------------
(***************************************************************************)
(* What the tools answer.  A result is computed in the last step of a tool, *)
(* from what the steps before have gathered; which tool that is, is known  *)
(* from the request it waits for.                                          *)
(***************************************************************************)
Ranked == [device : {d.hostname : d \in FleetDevices}, value : Int]

ResultOK(j) ==
    /\ j.pc \in {"sub", "query"} => j.call.name = "query_metric"
    /\ j.pc = "list" => j.call.name \in {"list_devices", "query_metric", "rank_devices"}
    /\ j.pc = "rank" => j.call.name = "rank_devices" /\ j.results \in Seq(Ranked)
    /\ j.pc = "traps" => j.call.name = "get_recent_traps"
    /\ (j.pc = "done" /\ j.ok) =>
           /\ j.call.name = "query_metric" =>
                  j.data.reading \in Readings /\ j.data.rows = Rows(j.data.q, j.data.reading)
           /\ j.call.name = "rank_devices" =>
                  j.data.found \in Seq(Ranked) /\ j.data.ranking = sortResults(j.data.found)

ResultsInv == \A s \in Slots : chats[s].pc = "tools" => ResultOK(chats[s].job)

LEMMA FailedResult ==
    ASSUME NEW call
    PROVE  ResultOK(Failed(call))
<1>1. Failed(call).pc = "done" /\ Failed(call).ok = FALSE
  BY DEF Failed
<1> QED BY <1>1 DEF ResultOK

LEMMA ExecuteResult ==
    ASSUME NEW call
    PROVE  ResultOK(executeTool(call))
<1>1. CASE executeTool(call) = Failed(call)
  BY <1>1, FailedResult
<1>2. ASSUME executeTool(call) = [pc |-> "traps", call |-> call], call.name = "get_recent_traps"
      PROVE  ResultOK(executeTool(call))
  BY <1>2 DEF ResultOK
<1>3. ASSUME executeTool(call) = [pc |-> "list", call |-> call],
             call.name \in {"list_devices", "query_metric", "rank_devices"}
      PROVE  ResultOK(executeTool(call))
  BY <1>3 DEF ResultOK
<1> QED BY <1>1, <1>2, <1>3 DEF executeTool

LEMMA ToQueryResult ==
    ASSUME NEW call, NEW list, NEW dev, NEW sub, call.name = "query_metric"
    PROVE  ResultOK(ToQuery(call, list, dev, sub))
<1>1. ASSUME NEW q, ToQuery(call, list, dev, sub) = [pc |-> "query", call |-> call, devices |-> list, q |-> q]
      PROVE  ResultOK(ToQuery(call, list, dev, sub))
  BY <1>1 DEF ResultOK
<1> QED BY <1>1, FailedResult DEF ToQuery

LEMMA ListedResult ==
    ASSUME NEW call, call.name \in {"list_devices", "query_metric", "rank_devices"},
           NEW f \in Fleets, NEW k \in Listed(call, f)
    PROVE  ResultOK(k)
<1>1. CASE call.name = "list_devices"
  <2>1. k = Done(call, "array", f)
    BY <1>1 DEF Listed
  <2>2. k.pc = "done" /\ k.call = call
    BY <2>1 DEF Done
  <2> QED BY <1>1, <2>2 DEF ResultOK
<1>2. CASE call.name = "rank_devices"
  <2>1. k = [pc |-> "rank", call |-> call, todo |-> f, results |-> <<>>]
    BY <1>2 DEF Listed
  <2>2. k.pc = "rank" /\ k.call = call /\ k.results = <<>>
    BY <2>1
  <2>3. k.results \in Seq(Ranked)
    BY <2>2
  <2> QED BY <1>2, <2>2, <2>3 DEF ResultOK
<1>3. CASE call.name = "query_metric"
  <2>1. k \in ResolveQuery(call, f)
    BY <1>3 DEF Listed
  <2>2. PICK found : k = Failed(call) \/ k \in Resolved(call, f, found)
    BY <2>1 DEF ResolveQuery
  <2>3. CASE k \in Resolved(call, f, found) /\ SubRequested(call.args)
    <3>1. PICK d : k = [pc |-> "sub", call |-> call, devices |-> f, dev |-> d]
      BY <2>3 DEF Resolved
    <3> QED BY <1>3, <3>1 DEF ResultOK
  <2>4. CASE k \in Resolved(call, f, found) /\ ~SubRequested(call.args)
    <3>1. PICK d, sub : k = ToQuery(call, f, d, sub)
      BY <2>4 DEF Resolved
    <3> QED BY <1>3, <3>1, ToQueryResult
  <2> QED BY <2>2, <2>3, <2>4, FailedResult
<1> QED BY <1>1, <1>2, <1>3

LEMMA RankResult ==
    ASSUME NEW j, JobOK(j), ResultOK(j), j.pc = "rank", NEW k \in AfterRank(j)
    PROVE  ResultOK(k)
<1>1. /\ {"pc", "call", "todo", "results"} \subseteq DOMAIN j
      /\ j.todo \in Seq(FleetDevices) /\ j.results \in Seq(Ranked)
      /\ j.call.name = "rank_devices"
  BY DEF JobOK, ResultOK
<1>2. CASE j.todo = <<>>
  <2> DEFINE data == [found |-> j.results, ranking |-> sortResults(j.results)]
  <2>1. k = Done(j.call, "object", data)
    BY <1>2 DEF AfterRank
  <2>2. data.found = j.results /\ data.ranking = sortResults(j.results)
    OBVIOUS
  <2> HIDE DEF data
  <2>3. k.pc = "done" /\ k.call = j.call /\ k.data = data
    BY <2>1 DEF Done
  <2> QED BY <1>1, <2>2, <2>3 DEF ResultOK
<1>3. CASE j.todo # <<>>
  <2> DEFINE next == PassOver(j)
  <2>1. /\ {"pc", "call", "todo", "results"} \subseteq DOMAIN next
        /\ next.pc = "rank" /\ next.call = j.call /\ next.results = j.results
    BY <1>1 DEF PassOver
  <2>2. CASE k = PassOver(j)
    BY <1>1, <2>1, <2>2 DEF ResultOK
  <2>3. ASSUME NEW r \in Readings, k = Rank(j, RankValue(Column(j.call.args), r))
        PROVE  ResultOK(k)
    <3> DEFINE value == RankValue(Column(j.call.args), r)
               entry == [device |-> Head(j.todo).hostname, value |-> value]
    <3>1. value \in Int
      BY ToolsAssumption, RankValueIsInt DEF ReadingOK
    <3>2. Head(j.todo) \in FleetDevices
      BY <1>1, <1>3
    <3> HIDE DEF value
    <3>3. entry \in Ranked
      BY <3>1, <3>2 DEF Ranked
    <3>4. k = [next EXCEPT !.results = Append(@, entry)]
      BY <2>3 DEF Rank, value
    <3> HIDE DEF entry, next
    <3>5. k.pc = "rank" /\ k.call = j.call /\ k.results = Append(j.results, entry)
      BY <2>1, <3>4
    <3>6. k.results \in Seq(Ranked)
      BY <1>1, <3>3, <3>5
    <3> QED BY <1>1, <3>5, <3>6 DEF ResultOK
  <2>4. k \in RankDevice(j)
    BY <1>3 DEF AfterRank
  <2>5. k = PassOver(j) \/ \E r \in Readings : k = Rank(j, RankValue(Column(j.call.args), r))
    BY <2>4 DEF RankDevice
  <2> QED BY <2>2, <2>3, <2>5
<1> QED BY <1>2, <1>3

LEMMA StepsResult ==
    ASSUME NEW j, JobOK(j), ResultOK(j), j.pc # "done", NEW k \in steps(j)
    PROVE  ResultOK(k)
<1>1. CASE j.pc = "list"
  <2>1. k \in AfterList(j)
    BY <1>1 DEF steps
  <2>2. ASSUME NEW f \in Fleets, k \in Listed(j.call, f)
        PROVE  ResultOK(k)
    BY <1>1, <2>2, ListedResult DEF ResultOK
  <2> QED BY <2>1, <2>2, FailedResult DEF AfterList
<1>2. CASE j.pc = "sub"
  <2>1. k \in AfterSub(j)
    BY <1>2 DEF steps
  <2>2. j.call.name = "query_metric"
    BY <1>2 DEF ResultOK
  <2> QED BY <2>1, <2>2, FailedResult, ToQueryResult DEF AfterSub
<1>3. CASE j.pc = "query"
  <2>1. k \in AfterQuery(j)
    BY <1>3 DEF steps
  <2>2. ASSUME NEW r \in Readings,
               k = Done(j.call, "object", [q |-> j.q, reading |-> r, rows |-> Rows(j.q, r)])
        PROVE  ResultOK(k)
    <3> DEFINE data == [q |-> j.q, reading |-> r, rows |-> Rows(j.q, r)]
    <3>1. data.q = j.q /\ data.reading = r /\ data.rows = Rows(j.q, r)
      OBVIOUS
    <3> HIDE DEF data
    <3>2. k.pc = "done" /\ k.call = j.call /\ k.data = data
      BY <2>2 DEF Done, data
    <3>3. j.call.name = "query_metric"
      BY <1>3 DEF ResultOK
    <3> QED BY <3>1, <3>2, <3>3 DEF ResultOK
  <2> QED BY <2>1, <2>2, FailedResult DEF AfterQuery
<1>4. CASE j.pc = "rank"
  <2>1. k \in AfterRank(j)
    BY <1>4 DEF steps
  <2> QED BY <1>4, <2>1, RankResult
<1>5. CASE j.pc = "traps"
  <2>1. k \in AfterTraps(j) /\ j.call.name = "get_recent_traps"
    BY <1>5 DEF steps, ResultOK
  <2>2. ASSUME NEW data, k = Done(j.call, "object", data)
        PROVE  ResultOK(k)
    <3>1. k.pc = "done" /\ k.call = j.call
      BY <2>2 DEF Done
    <3> QED BY <2>1, <3>1 DEF ResultOK
  <2> QED BY <2>1, <2>2, FailedResult DEF AfterTraps
<1> QED BY <1>1, <1>2, <1>3, <1>4, <1>5 DEF JobOK

\* Where a running tool comes from: it was running already, has just been
\* started, or has got an answer.
LEMMA JobOrigin ==
    ASSUME ToolsInv, [Next]_chatVars, NEW s \in Slots, chats'[s].pc = "tools"
    PROVE  \/ chats'[s] = chats[s]
           \/ \E call : chats'[s].job = executeTool(call)
           \/ /\ chats[s].pc = "tools" /\ chats[s].job.pc # "done"
              /\ chats'[s].job \in steps(chats[s].job)
<1> DEFINE Origin == \/ chats'[s] = chats[s]
                     \/ \E call : chats'[s].job = executeTool(call)
                     \/ /\ chats[s].pc = "tools" /\ chats[s].job.pc # "done"
                        /\ chats'[s].job \in steps(chats[s].job)
<1>1. chats = [r \in Slots |-> chats[r]]
  BY DEF ToolsInv
<1>2. ASSUME NEW r \in Slots, NEW chat, chats' = [chats EXCEPT ![r] = chat], r # s
      PROVE  chats'[s] = chats[s]
  BY <1>1, <1>2
<1>3. ASSUME NEW chat, chats' = [chats EXCEPT ![s] = chat]
      PROVE  chats'[s] = chat
  BY <1>1, <1>3
<1>4. ASSUME NEW r \in Slots, NEW c \in Clients, Ask(r, c)
      PROVE  Origin
  <2>1. ASSUME NEW contents,
               chats' = [chats EXCEPT ![r] =
                            [pc |-> "model", client |-> c, i |-> 0, contents |-> contents]]
        PROVE  chats'[s] = chats[s]
    <3>1. CASE r = s
      <4>1. chats'[s].pc = "model"
        BY <1>3, <2>1, <3>1
      <4> QED BY <4>1
    <3> QED BY <1>2, <2>1, <3>1
  <2> QED BY <1>4, <2>1 DEF Ask
<1>5. ASSUME NEW r \in Slots, CallModel(r)
      PROVE  Origin
  <2>1. ASSUME chats' = [chats EXCEPT ![r] = Idle]
        PROVE  chats'[s] = chats[s]
    BY <1>2, <1>3, <2>1 DEF Idle
  <2>2. ASSUME NEW calls \in Replies, NEW contents,
               chats' = [chats EXCEPT ![r] =
                   [pc |-> "tools", client |-> chats[r].client, i |-> chats[r].i, contents |-> contents,
                    calls |-> Tail(calls), answers |-> <<>>, job |-> executeTool(Head(calls))]]
        PROVE  Origin
    <3>1. CASE r = s
      <4>1. chats'[s].job = executeTool(Head(calls))
        BY <1>3, <2>2, <3>1
      <4> QED BY <4>1
    <3> QED BY <1>2, <2>2, <3>1
  <2> QED BY <1>5, <2>1, <2>2 DEF CallModel
<1>6. ASSUME NEW r \in Slots, GiveUp(r)
      PROVE  Origin
  BY <1>2, <1>3, <1>6 DEF GiveUp, Idle
<1>7. ASSUME NEW r \in Slots, ToolStep(r)
      PROVE  Origin
  <2>1. PICK job \in steps(chats[r].job) : chats' = [chats EXCEPT ![r].job = job]
    BY <1>7 DEF ToolStep
  <2> DEFINE chat == [chats[r] EXCEPT !.job = job]
  <2>2. chats' = [chats EXCEPT ![r] = chat]
    BY <1>1, <2>1
  <2>3. chat.job = job /\ chats[r].pc = "tools" /\ chats[r].job.pc # "done"
    BY <1>7 DEF ToolStep, ToolsInv
  <2> HIDE DEF chat
  <2> QED BY <1>2, <1>3, <2>1, <2>2, <2>3
<1>8. ASSUME NEW r \in Slots, FinishTool(r)
      PROVE  Origin
  <2> DEFINE answers == Append(chats[r].answers, buildFunctionResponsePart(chats[r].job))
             chat    == AfterTool(chats[r], answers)
  <2>1. chats' = [chats EXCEPT ![r] = chat]
    BY <1>1, <1>8 DEF FinishTool
  <2>2. {"pc", "calls", "answers", "job"} \subseteq DOMAIN chats[r]
    BY <1>8 DEF FinishTool, ToolsInv
  <2>3. CASE chats[r].calls = <<>>
    <3>1. chat.pc = "model"
      BY <2>3 DEF AfterTool
    <3> HIDE DEF chat
    <3> QED BY <1>2, <1>3, <2>1, <3>1
  <2>4. CASE chats[r].calls # <<>>
    <3>1. chat.job = executeTool(Head(chats[r].calls))
      BY <2>2, <2>4 DEF AfterTool
    <3> HIDE DEF chat
    <3> QED BY <1>2, <1>3, <2>1, <3>1
  <2> QED BY <2>3, <2>4
<1>9. Clock \/ UNCHANGED chatVars => chats'[s] = chats[s]
  BY DEF Clock, chatVars
<1> QED BY <1>4, <1>5, <1>6, <1>7, <1>8, <1>9 DEF Next, ChatStep

LEMMA ResultsStep ==
    ASSUME ToolsInv, ResultsInv, [Next]_chatVars
    PROVE  ResultsInv'
<1>1. ASSUME NEW s \in Slots, chats'[s].pc = "tools"
      PROVE  ResultOK(chats'[s].job)
  <2>1. CASE chats'[s] = chats[s]
    BY <1>1, <2>1 DEF ResultsInv
  <2>2. CASE \E call : chats'[s].job = executeTool(call)
    BY <2>2, ExecuteResult
  <2>3. CASE /\ chats[s].pc = "tools" /\ chats[s].job.pc # "done"
             /\ chats'[s].job \in steps(chats[s].job)
    <3>1. JobOK(chats[s].job) /\ ResultOK(chats[s].job)
      BY <2>3 DEF ToolsInv, ResultsInv
    <3> QED BY <2>3, <3>1, StepsResult
  <2> QED BY <1>1, <2>1, <2>2, <2>3, JobOrigin
<1> QED BY <1>1 DEF ResultsInv, ResultOK, Ranked

\* The invariant behind what the tools answer.
THEOREM ResultsInvariant == Spec => [](ToolsInv /\ ResultsInv)
<1>1. Init => ToolsInv /\ ResultsInv
  BY DEF Init, ToolsInv, ResultsInv, Idle
<1>2. ToolsInv /\ ResultsInv /\ [Next]_chatVars => (ToolsInv /\ ResultsInv)'
  BY ToolsStep, ResultsStep
<1> QED BY <1>1, <1>2, PTL DEF Spec

\* For any number of devices found, whatever their values and whichever were
\* passed over, the two loops at the end of toolRankDevices put them in
\* order, losing none and listing none twice.
THEOREM RankingCorrect == Spec => []RankingSorted
<1>1. ASSUME ResultsInv
      PROVE  RankingSorted
  <2> SUFFICES ASSUME NEW job \in Running, job.pc = "done", job.ok, job.call.name = "rank_devices"
               PROVE  /\ ToBag(job.data.ranking) = ToBag(job.data.found)
                      /\ IsSorted(job.data.ranking, LAMBDA a, b : a.value >= b.value)
    BY DEF RankingSorted
  <2>1. ResultOK(job)
    BY <1>1 DEF Running, ResultsInv
  <2>2. job.data.found \in Seq(Ranked) /\ job.data.ranking = sortResults(job.data.found)
    BY <2>1 DEF ResultOK
  <2>3. Valued(Ranked)
    BY DEF Valued, Ranked
  <2> QED BY <2>2, <2>3, SortResult
<1> QED BY <1>1, ResultsInvariant, PTL

\* For any number of samples and any width of the counter, the total that
\* rateQuery has InfluxDB add up is what was really counted between the first
\* and the last sample, as long as less than a turn of the counter lies
\* between two samples.
THEOREM RateCorrect == Spec => []RateTotalTrue
<1>1. ASSUME ResultsInv
      PROVE  RateTotalTrue
  <2> SUFFICES ASSUME NEW job \in Running, job.pc = "done", job.ok,
                      job.call.name = "query_metric", job.data.q.aggregation = "rate",
                      job.data.reading # <<>>
               PROVE  job.data.rows.total_bytes = Last(job.data.reading) - Head(job.data.reading)
    BY DEF RateTotalTrue
  <2> DEFINE r == job.data.reading
  <2>1. ResultOK(job)
    BY <1>1 DEF Running, ResultsInv
  <2>2. r \in Readings /\ job.data.rows = Rows(job.data.q, r)
    BY <2>1 DEF ResultOK
  <2>3. ReadingOK(r)
    BY <2>2, ToolsAssumption DEF ReadingOK
  <2>4. job.data.rows = rateQuery(r)
    BY <2>2 DEF Rows
  <2>5. rateQuery(r).total_bytes = r[Len(r)] - r[1]
    BY <2>3, RateIsTrue
  <2>6. Last(r) = r[Len(r)] /\ Head(r) = r[1]
    BY <2>3 DEF Last, ReadingOK
  <2> QED BY <2>4, <2>5, <2>6
<1> QED BY <1>1, ResultsInvariant, PTL

-----------------------------------------------------------------------------
(***************************************************************************)
(* The loop.  What a request holds while it is worked on: which iteration  *)
(* it is in, and a transcript that is a conversation but for the calls of  *)
(* its last turn, which the answers so far, the running tool and the calls *)
(* to come stand for, in that order.                                       *)
(***************************************************************************)
IsSeq(s) == s \in Seq(Range(s))

InOrder(names, answers, call, calls) ==
    /\ DOMAIN names = 1 .. Len(answers) + 1 + Len(calls)
    /\ \A m \in 1 .. Len(answers) : names[m] = answers[m].name
    /\ names[Len(answers) + 1] = call.name
    /\ \A m \in 1 .. Len(calls) : names[Len(answers) + 1 + m] = calls[m].name

Asking(chat) ==
    /\ chat = [pc |-> "model", client |-> chat.client, i |-> chat.i, contents |-> chat.contents]
    /\ chat.client \in Clients
    /\ chat.i \in 0 .. maxToolIterations
    /\ IsSeq(chat.contents)
    /\ Conversation(chat.contents, Len(chat.contents), chat.i)

AtTools(chat) ==
    /\ chat = [pc |-> "tools", client |-> chat.client, i |-> chat.i, contents |-> chat.contents,
               calls |-> chat.calls, answers |-> chat.answers, job |-> chat.job]
    /\ chat.client \in Clients
    /\ chat.i \in 0 .. maxToolIterations - 1
    /\ IsSeq(chat.contents) /\ IsSeq(chat.answers) /\ IsSeq(chat.calls)
    /\ Conversation(chat.contents, Len(chat.contents) - 1, chat.i)
    /\ LET last == chat.contents[Len(chat.contents)]
       IN  /\ last.role = "model" /\ last.answers = <<>>
           /\ last.calls = [m \in DOMAIN last.calls |-> last.calls[m]]
           /\ InOrder(last.calls, chat.answers, chat.job.call, chat.calls)

LoopInv ==
    /\ chats = [s \in Slots |-> chats[s]]
    /\ \A s \in Slots : chats[s] = Idle \/ Asking(chats[s]) \/ AtTools(chats[s])

\* Sequences of anything: what Append and Tail return.
LEMMA AppendSeq ==
    ASSUME NEW s, IsSeq(s), NEW x
    PROVE  /\ IsSeq(Append(s, x))
           /\ Len(s) \in Nat /\ Len(Append(s, x)) = Len(s) + 1
           /\ \A k \in 1 .. Len(s) : Append(s, x)[k] = s[k]
           /\ Append(s, x)[Len(s) + 1] = x
<1> DEFINE S == Range(s) \cup {x}
<1>1. s \in Seq(S)
  BY DEF IsSeq
<1> HIDE DEF S
<1>2. x \in S
  BY DEF S
<1> DEFINE t == Append(s, x)
<1>3. /\ t \in Seq(S)
      /\ Len(s) \in Nat /\ Len(t) = Len(s) + 1
      /\ \A k \in 1 .. Len(s) : t[k] = s[k]
      /\ t[Len(s) + 1] = x
  BY <1>1, <1>2
<1> HIDE DEF t
<1>4. t \in Seq(Range(t))
  BY <1>3 DEF Range
<1> QED BY <1>3, <1>4 DEF IsSeq, t

LEMMA TailSeq ==
    ASSUME NEW s, IsSeq(s), s # <<>>
    PROVE  /\ IsSeq(Tail(s))
           /\ Len(s) \in Nat \ {0} /\ Len(Tail(s)) = Len(s) - 1
           /\ \A k \in 1 .. Len(s) - 1 : Tail(s)[k] = s[k + 1]
           /\ Head(s) = s[1]
<1> DEFINE S == Range(s)
           t == Tail(s)
<1>1. s \in Seq(S)
  BY DEF IsSeq
<1> HIDE DEF S
<1>2. /\ t \in Seq(S)
      /\ Len(s) \in Nat \ {0} /\ Len(t) = Len(s) - 1
      /\ \A k \in 1 .. Len(s) - 1 : t[k] = s[k + 1]
      /\ Head(s) = s[1]
  BY <1>1
<1> HIDE DEF t
<1>3. t \in Seq(Range(t))
  BY <1>2 DEF Range
<1> QED BY <1>2, <1>3 DEF IsSeq, t

\* A conversation depends on its own turns only.
LEMMA ConversationKept ==
    ASSUME NEW a, NEW b, NEW n \in Nat, NEW i \in Nat, Conversation(a, n, i),
           \A k \in 1 .. n : b[k] = a[k]
    PROVE  Conversation(b, n, i)
<1> DEFINE q == n - 2 * i
<1>1. q \in 1 .. maxHistoryTurns + 1 /\ q \in 1 .. n
  BY ChatAssumption DEF Conversation
<1>2. \A k \in 1 .. i : q + 2 * k - 1 \in 1 .. n /\ q + 2 * k \in 1 .. n
  BY <1>1
<1>3. \A k \in 1 .. q : k \in 1 .. n
  BY <1>1
<1> QED BY <1>1, <1>2, <1>3 DEF Conversation

\* A round more: a turn that calls functions, and its answers.
LEMMA ConversationRound ==
    ASSUME NEW a, NEW n \in Nat, NEW i \in Nat, Conversation(a, n, i),
           a[n + 1].role = "model", a[n + 1].calls # <<>>, a[n + 1].answers = <<>>,
           a[n + 2].role = "function", a[n + 2].calls = <<>>,
           a[n + 1].calls = [m \in DOMAIN a[n + 2].answers |-> a[n + 2].answers[m].name]
    PROVE  Conversation(a, n + 2, i + 1)
<1> DEFINE q == n - 2 * i
<1>1. q \in Int /\ (n + 2) - 2 * (i + 1) = q
  OBVIOUS
<1>2. \A k \in 1 .. i + 1 : k \in 1 .. i \/ k = i + 1
  OBVIOUS
<1>3. q + 2 * (i + 1) - 1 = n + 1 /\ q + 2 * (i + 1) = n + 2
  OBVIOUS
<1> DEFINE Round(k) ==
        /\ a[q + 2 * k - 1].role = "model" /\ a[q + 2 * k - 1].calls # <<>>
        /\ a[q + 2 * k - 1].answers = <<>>
        /\ a[q + 2 * k].role = "function" /\ a[q + 2 * k].calls = <<>>
        /\ a[q + 2 * k - 1].calls
               = [m \in DOMAIN a[q + 2 * k].answers |-> a[q + 2 * k].answers[m].name]
<1>4. \A k \in 1 .. i : Round(k)
  BY DEF Conversation
<1>5. Round(i + 1)
  BY <1>3
<1>6. \A k \in 1 .. i + 1 : Round(k)
  <2> HIDE DEF Round
  <2> QED BY <1>2, <1>4, <1>5
<1>7. /\ q \in 1 .. maxHistoryTurns + 1
      /\ a[q].role = "user"
      /\ \A k \in 1 .. q : a[k].calls = <<>> /\ a[k].answers = <<>>
  BY DEF Conversation
<1> QED BY <1>1, <1>6, <1>7, Zenon DEF Conversation

\* handle's cut leaves at most maxHistoryTurns turns.
LEMMA TrimmedShort ==
    ASSUME NEW S, NEW h \in Seq(S)
    PROVE  Trimmed(h) \in Seq(S) /\ Len(Trimmed(h)) \in 0 .. maxHistoryTurns
<1>1. Len(h) \in Nat /\ maxHistoryTurns \in Nat
  BY ChatAssumption
<1>2. CASE Len(h) > maxHistoryTurns
  <2> DEFINE m == Len(h) - maxHistoryTurns + 1
  <2>1. m \in 1 .. Len(h) + 1 /\ Len(h) - m + 1 = maxHistoryTurns
    BY <1>1, <1>2
  <2>2. SubSeq(h, m, Len(h)) \in Seq(S) /\ Len(SubSeq(h, m, Len(h))) = maxHistoryTurns
    BY <1>1, <2>1
  <2> QED BY <1>1, <1>2, <2>2 DEF Trimmed
<1>3. CASE ~(Len(h) > maxHistoryTurns)
  BY <1>1, <1>3 DEF Trimmed
<1> QED BY <1>2, <1>3

\* A request begins with a conversation without rounds.
LEMMA InitialConversation ==
    ASSUME NEW S, NEW h \in Seq(S), Len(h) \in 0 .. maxHistoryTurns
    PROVE  LET contents == buildInitialContents(h)
           IN  IsSeq(contents) /\ Conversation(contents, Len(contents), 0)
<1> DEFINE past     == [k \in DOMAIN h |->
                           Turn(IF h[k] = "user" THEN "user" ELSE "model", <<>>, <<>>)]
           question == Turn("user", <<>>, <<>>)
           contents == Append(past, question)
<1>1. Len(h) \in Nat /\ DOMAIN h = 1 .. Len(h) /\ maxHistoryTurns \in Nat
  BY ChatAssumption
<1>2. IsSeq(past) /\ Len(past) = Len(h)
  <2>1. DOMAIN past = 1 .. Len(h) /\ past = [k \in 1 .. Len(h) |-> past[k]]
    BY <1>1
  <2> HIDE DEF past
  <2>2. past \in Seq(Range(past))
    BY <1>1, <2>1 DEF Range
  <2> QED BY <1>1, <2>1, <2>2 DEF IsSeq
<1>3. \A k \in 1 .. Len(h) : past[k].calls = <<>> /\ past[k].answers = <<>>
  BY <1>1 DEF Turn
<1>4. question.calls = <<>> /\ question.answers = <<>> /\ question.role = "user"
  BY DEF Turn
<1>5. contents = buildInitialContents(h)
  BY DEF buildInitialContents
<1> HIDE DEF past, question
<1>6. /\ IsSeq(contents) /\ Len(contents) = Len(h) + 1
      /\ \A k \in 1 .. Len(h) : contents[k] = past[k]
      /\ contents[Len(h) + 1] = question
  BY <1>2, AppendSeq
<1> HIDE DEF contents
<1>7. Len(contents) - 2 * 0 = Len(h) + 1 /\ Len(h) + 1 \in 1 .. maxHistoryTurns + 1
  BY <1>1, <1>6
<1>8. \A k \in 1 .. Len(h) + 1 : contents[k].calls = <<>> /\ contents[k].answers = <<>>
  <2>1. \A k \in 1 .. Len(h) + 1 : k \in 1 .. Len(h) \/ k = Len(h) + 1
    BY <1>1
  <2> QED BY <1>3, <1>4, <1>6, <2>1
<1>9. Conversation(contents, Len(contents), 0)
  BY <1>4, <1>6, <1>7, <1>8 DEF Conversation
<1> QED BY <1>5, <1>6, <1>9

\* A tool answers under the name it was called by: no step of it changes the
\* call it works for.
LEMMA ExecuteCall ==
    ASSUME NEW call
    PROVE  executeTool(call).call = call
BY DEF executeTool, Failed

LEMMA ToQueryCall ==
    ASSUME NEW call, NEW list, NEW dev, NEW sub
    PROVE  ToQuery(call, list, dev, sub).call = call
BY DEF ToQuery, Failed

LEMMA StepsCall ==
    ASSUME NEW j, JobOK(j), j.pc # "done", NEW k \in steps(j)
    PROVE  k.call = j.call
<1>0. \A call : Failed(call).call = call
  BY DEF Failed
<1>6. \A call, r, data : Done(call, r, data).call = call
  BY DEF Done
<1>1. CASE j.pc = "list"
  <2>1. k \in AfterList(j)
    BY <1>1 DEF steps
  <2>2. ASSUME NEW f \in Fleets, k \in Listed(j.call, f)
        PROVE  k.call = j.call
    <3>1. CASE j.call.name \in {"list_devices", "rank_devices"}
      BY <1>6, <2>2, <3>1 DEF Listed
    <3>2. CASE j.call.name \notin {"list_devices", "rank_devices"}
      <4>1. k \in ResolveQuery(j.call, f)
        BY <2>2, <3>2 DEF Listed
      <4>2. PICK found : k = Failed(j.call) \/ k \in Resolved(j.call, f, found)
        BY <4>1 DEF ResolveQuery
      <4>3. CASE k \in Resolved(j.call, f, found) /\ SubRequested(j.call.args)
        <5>1. PICK d : k = [pc |-> "sub", call |-> j.call, devices |-> f, dev |-> d]
          BY <4>3 DEF Resolved
        <5> QED BY <5>1
      <4>4. CASE k \in Resolved(j.call, f, found) /\ ~SubRequested(j.call.args)
        <5>1. PICK d, sub : k = ToQuery(j.call, f, d, sub)
          BY <4>4 DEF Resolved
        <5> QED BY <5>1, ToQueryCall
      <4> QED BY <1>0, <4>2, <4>3, <4>4
    <3> QED BY <3>1, <3>2
  <2> QED BY <1>0, <2>1, <2>2 DEF AfterList
<1>2. CASE j.pc = "sub"
  <2>1. k \in AfterSub(j)
    BY <1>2 DEF steps
  <2> QED BY <1>0, <2>1, ToQueryCall DEF AfterSub
<1>3. CASE j.pc = "query"
  <2>1. k \in AfterQuery(j)
    BY <1>3 DEF steps
  <2>2. k = Failed(j.call) \/ \E data : k = Done(j.call, "object", data)
    BY <2>1, Zenon DEF AfterQuery
  <2> QED BY <1>0, <1>6, <2>2
<1>4. CASE j.pc = "rank"
  <2>1. k \in AfterRank(j)
    BY <1>4 DEF steps
  <2>2. {"pc", "call", "todo", "results"} \subseteq DOMAIN j
    BY <1>4 DEF JobOK
  <2>3. PassOver(j).call = j.call /\ {"call", "results"} \subseteq DOMAIN PassOver(j)
    BY <2>2 DEF PassOver
  <2>4. \A value : Rank(j, value).call = j.call
    BY <2>3 DEF Rank
  <2>5. CASE j.todo = <<>>
    BY <1>6, <2>1, <2>5 DEF AfterRank
  <2>6. CASE j.todo # <<>>
    BY <2>1, <2>3, <2>4, <2>6 DEF AfterRank, RankDevice
  <2> QED BY <2>5, <2>6
<1>5. CASE j.pc = "traps"
  <2>1. k \in AfterTraps(j)
    BY <1>5 DEF steps
  <2> QED BY <1>0, <1>6, <2>1 DEF AfterTraps
<1> QED BY <1>1, <1>2, <1>3, <1>4, <1>5 DEF JobOK

\* A step that gives one request a new state.
LEMMA LoopSlot ==
    ASSUME LoopInv, NEW s \in Slots, NEW chat, chats' = [chats EXCEPT ![s] = chat],
           chat = Idle \/ Asking(chat) \/ AtTools(chat)
    PROVE  LoopInv'
<1>1. chats' = [r \in Slots |-> chats'[r]]
  BY DEF LoopInv
<1>2. \A r \in Slots : chats'[r] = IF r = s THEN chat ELSE chats[r]
  BY DEF LoopInv
<1>3. \A r \in Slots : chats'[r] = Idle \/ Asking(chats'[r]) \/ AtTools(chats'[r])
  BY <1>2, Zenon DEF LoopInv
<1> QED BY <1>1, <1>3 DEF LoopInv

LEMMA EmptyIsSeq == IsSeq(<<>>) /\ Len(<<>>) = 0
<1>1. ASSUME NEW S
      PROVE  <<>> \in Seq(S)
  OBVIOUS
<1>2. Len(<<>>) = 0
  OBVIOUS
<1> QED BY <1>1, <1>2 DEF IsSeq

\* How far a request is tells which part of the invariant is about it.
LEMMA LoopCases ==
    ASSUME NEW chat
    PROVE  /\ Idle.pc = "idle"
           /\ Asking(chat) => chat.pc = "model"
           /\ AtTools(chat) => chat.pc = "tools"
<1>1. Idle.pc = "idle"
  BY DEF Idle
<1>2. ASSUME NEW a, NEW b, NEW d, chat = [pc |-> "model", client |-> a, i |-> b, contents |-> d]
      PROVE  chat.pc = "model"
  BY <1>2
<1>3. ASSUME NEW a, NEW b, NEW d, NEW e, NEW f, NEW g,
             chat = [pc |-> "tools", client |-> a, i |-> b, contents |-> d,
                     calls |-> e, answers |-> f, job |-> g]
      PROVE  chat.pc = "tools"
  BY <1>3
<1> QED BY <1>1, <1>2, <1>3 DEF Asking, AtTools

\* The calls of a reply, before any of them is answered.
LEMMA ReplyInOrder ==
    ASSUME NEW calls, IsSeq(calls), calls # <<>>
    PROVE  InOrder([k \in DOMAIN calls |-> calls[k].name], <<>>, Head(calls), Tail(calls))
<1>1. /\ Len(calls) \in Nat \ {0} /\ Len(Tail(calls)) = Len(calls) - 1
      /\ \A k \in 1 .. Len(calls) - 1 : Tail(calls)[k] = calls[k + 1]
      /\ Head(calls) = calls[1]
  BY TailSeq
<1>2. DOMAIN calls = 1 .. Len(calls)
  BY DEF IsSeq
<1> DEFINE names == [k \in DOMAIN calls |-> calls[k].name]
<1>3. DOMAIN names = 1 .. Len(calls) /\ \A k \in 1 .. Len(calls) : names[k] = calls[k].name
  BY <1>2
<1>4. DOMAIN names = 1 .. 0 + 1 + Len(Tail(calls))
  BY <1>1, <1>3
<1>5. names[0 + 1] = Head(calls).name
  BY <1>1, <1>3
<1>6. \A m \in 1 .. Len(Tail(calls)) : names[0 + 1 + m] = Tail(calls)[m].name
  BY <1>1, <1>3
<1> HIDE DEF names
<1>7. InOrder(names, <<>>, Head(calls), Tail(calls))
  BY <1>4, <1>5, <1>6, EmptyIsSeq DEF InOrder
<1> QED BY <1>7 DEF names

LEMMA CallModelLoop ==
    ASSUME LoopInv, NEW s \in Slots, CallModel(s)
    PROVE  LoopInv'
<1> DEFINE c == chats[s]
<1>1. Asking(c) /\ c.i < maxToolIterations
  BY LoopCases DEF LoopInv, CallModel
<1>2. CASE chats' = [chats EXCEPT ![s] = Idle]
  BY <1>2, LoopSlot
<1>3. ASSUME NEW calls \in Replies,
             chats' = [chats EXCEPT ![s] =
                 [pc |-> "tools", client |-> chats[s].client, i |-> chats[s].i,
                  contents |-> Append(chats[s].contents,
                      Turn("model", [k \in DOMAIN calls |-> calls[k].name], <<>>)),
                  calls |-> Tail(calls), answers |-> <<>>, job |-> executeTool(Head(calls))]]
      PROVE  LoopInv'
  <2> DEFINE names    == [k \in DOMAIN calls |-> calls[k].name]
             turn     == Turn("model", names, <<>>)
             contents == Append(c.contents, turn)
             new == [pc |-> "tools", client |-> c.client, i |-> c.i, contents |-> contents,
                     calls |-> Tail(calls), answers |-> <<>>, job |-> executeTool(Head(calls))]
  <2>1. IsSeq(calls) /\ calls # <<>>
    BY ChatAssumption DEF IsSeq
  <2>2. IsSeq(Tail(calls))
    BY <2>1, TailSeq
  <2>3. /\ c.client \in Clients /\ IsSeq(c.contents)
        /\ Conversation(c.contents, Len(c.contents), c.i)
    BY <1>1 DEF Asking
  <2>4. c.i \in 0 .. maxToolIterations - 1 /\ c.i \in Nat
    BY <1>1, ChatAssumption DEF Asking
  <2>5. InOrder(names, <<>>, executeTool(Head(calls)).call, Tail(calls))
    BY <2>1, ReplyInOrder, ExecuteCall
  <2>6. turn.role = "model" /\ turn.answers = <<>> /\ turn.calls = names
    BY DEF Turn
  <2>7. names = [m \in DOMAIN names |-> names[m]]
    OBVIOUS
  <2> HIDE DEF names, turn
  <2>8. /\ IsSeq(contents) /\ Len(c.contents) \in Nat
        /\ Len(contents) = Len(c.contents) + 1
        /\ \A k \in 1 .. Len(c.contents) : contents[k] = c.contents[k]
        /\ contents[Len(contents)] = turn
    BY <2>3, AppendSeq
  <2> HIDE DEF c, contents
  <2>9. Len(contents) - 1 = Len(c.contents)
    BY <2>8
  <2>10. Conversation(contents, Len(contents) - 1, c.i)
    BY <2>3, <2>4, <2>8, <2>9, ConversationKept
  <2>11. /\ new.client = c.client /\ new.i = c.i /\ new.contents = contents
         /\ new.calls = Tail(calls) /\ new.answers = <<>> /\ new.job = executeTool(Head(calls))
         /\ new = [pc |-> "tools", client |-> new.client, i |-> new.i, contents |-> new.contents,
                   calls |-> new.calls, answers |-> new.answers, job |-> new.job]
    OBVIOUS
  <2>12. chats' = [chats EXCEPT ![s] = new]
    BY <1>3 DEF c, contents, turn, names
  <2> HIDE DEF new
  <2>13. AtTools(new)
    <3> DEFINE last == new.contents[Len(new.contents)]
    <3>1. last = turn
      BY <2>8, <2>11
    <3>2. IsSeq(new.contents) /\ IsSeq(new.answers) /\ IsSeq(new.calls)
      BY <2>2, <2>8, <2>11, EmptyIsSeq
    <3>3. Conversation(new.contents, Len(new.contents) - 1, new.i)
      BY <2>10, <2>11
    <3>4. /\ last.role = "model" /\ last.answers = <<>>
          /\ last.calls = [m \in DOMAIN last.calls |-> last.calls[m]]
      BY <2>6, <2>7, <3>1
    <3>5. InOrder(last.calls, new.answers, new.job.call, new.calls)
      BY <2>5, <2>6, <2>11, <3>1
    <3> QED BY <2>3, <2>4, <2>11, <3>2, <3>3, <3>4, <3>5, Zenon DEF AtTools
  <2> QED BY <2>12, <2>13, LoopSlot
<1> QED BY <1>2, <1>3 DEF CallModel

\* When no call is left, the answers are the calls' own.
AllAnswered(names, given) ==
    /\ DOMAIN given = DOMAIN names
    /\ 1 \in DOMAIN names
    /\ \A m \in DOMAIN given : names[m] = given[m].name

\* Of the answers to a turn's calls, the one more that a tool gives.
LEMMA FinishInOrder ==
    ASSUME NEW names, NEW answers, NEW call, NEW calls, NEW part, NEW given,
           IsSeq(answers), IsSeq(calls), InOrder(names, answers, call, calls),
           part.name = call.name, given = Append(answers, part)
    PROVE  /\ calls # <<>> => InOrder(names, given, Head(calls), Tail(calls))
           /\ calls = <<>> => AllAnswered(names, given)
<1>1. /\ IsSeq(given) /\ Len(answers) \in Nat /\ Len(given) = Len(answers) + 1
      /\ \A k \in 1 .. Len(answers) : given[k] = answers[k]
      /\ given[Len(answers) + 1] = part
  BY AppendSeq
<1>2. DOMAIN given = 1 .. Len(given)
  BY <1>1 DEF IsSeq
<1>3. \A m \in 1 .. Len(given) : names[m] = given[m].name
  BY <1>1 DEF InOrder
<1>4. ASSUME calls # <<>>
      PROVE  InOrder(names, given, Head(calls), Tail(calls))
  <2>1. /\ Len(calls) \in Nat \ {0} /\ Len(Tail(calls)) = Len(calls) - 1
        /\ \A k \in 1 .. Len(calls) - 1 : Tail(calls)[k] = calls[k + 1]
        /\ Head(calls) = calls[1]
    BY <1>4, TailSeq
  <2>2. Len(answers) + 1 + Len(calls) = Len(given) + 1 + Len(Tail(calls))
    BY <1>1, <2>1
  <2>3. names[Len(given) + 1] = Head(calls).name
    BY <1>1, <2>1 DEF InOrder
  <2>4. ASSUME NEW m \in 1 .. Len(Tail(calls))
        PROVE  names[Len(given) + 1 + m] = Tail(calls)[m].name
    <3>1. m + 1 \in 1 .. Len(calls) /\ m \in 1 .. Len(calls) - 1
      BY <2>1
    <3>2. Len(given) + 1 + m = Len(answers) + 1 + (m + 1)
      BY <1>1, <3>1
    <3>3. names[Len(answers) + 1 + (m + 1)] = calls[m + 1].name
      BY <3>1 DEF InOrder
    <3> QED BY <2>1, <3>1, <3>2, <3>3
  <2>5. DOMAIN names = 1 .. Len(given) + 1 + Len(Tail(calls))
    BY <2>2 DEF InOrder
  <2> QED BY <1>3, <2>3, <2>4, <2>5 DEF InOrder
<1>5. ASSUME calls = <<>>
      PROVE  DOMAIN given = DOMAIN names /\ 1 \in DOMAIN names
  <2>1. Len(answers) + 1 + Len(calls) = Len(given)
    BY <1>1, <1>5, EmptyIsSeq
  <2> QED BY <1>1, <1>2, <2>1 DEF InOrder
<1> QED BY <1>2, <1>3, <1>4, <1>5 DEF AllAnswered

\* A question whose tools are running, and AfterTool where calls are left.
AtWork(client, i, contents, calls, answers, job) ==
    [pc |-> "tools", client |-> client, i |-> i, contents |-> contents,
     calls |-> calls, answers |-> answers, job |-> job]

Proceeds(chat, given, next) ==
    [chat EXCEPT !.answers = given, !.calls = Tail(@), !.job = next]

LEMMA NewAnswers ==
    ASSUME NEW client, NEW i, NEW contents, NEW calls, NEW answers, NEW job, NEW new, NEW r,
           r = AtWork(client, i, contents, calls, answers, job)
    PROVE  [r EXCEPT !.answers = new] = AtWork(client, i, contents, calls, new, job)
BY DEF AtWork

LEMMA NewCalls ==
    ASSUME NEW client, NEW i, NEW contents, NEW calls, NEW answers, NEW job, NEW new, NEW r,
           r = AtWork(client, i, contents, calls, answers, job)
    PROVE  [r EXCEPT !.calls = new] = AtWork(client, i, contents, new, answers, job)
BY DEF AtWork

LEMMA NewJob ==
    ASSUME NEW client, NEW i, NEW contents, NEW calls, NEW answers, NEW job, NEW new, NEW r,
           r = AtWork(client, i, contents, calls, answers, job)
    PROVE  [r EXCEPT !.job = new] = AtWork(client, i, contents, calls, answers, new)
BY DEF AtWork

LEMMA NextCall ==
    ASSUME NEW client, NEW i, NEW contents, NEW calls, NEW answers, NEW job,
           NEW given, NEW next, NEW r,
           r = AtWork(client, i, contents, calls, answers, job)
    PROVE  Proceeds(r, given, next) = AtWork(client, i, contents, Tail(calls), given, next)
<1> DEFINE r1 == [r EXCEPT !.answers = given]
           r2 == [r1 EXCEPT !.calls = Tail(r.calls)]
<1>1. r1 = AtWork(client, i, contents, calls, given, job)
  BY NewAnswers
<1>2. r.calls = calls
  BY DEF AtWork
<1>3. Proceeds(r, given, next) = [r2 EXCEPT !.job = next]
  BY DEF Proceeds
<1> HIDE DEF r1
<1>4. r2 = AtWork(client, i, contents, Tail(calls), given, job)
  <2> DEFINE rest == Tail(r.calls)
  <2>1. rest = Tail(calls)
    BY <1>2
  <2> HIDE DEF rest
  <2>2. [r1 EXCEPT !.calls = rest] = AtWork(client, i, contents, rest, given, job)
    BY <1>1, NewCalls
  <2> QED BY <2>1, <2>2 DEF rest
<1> HIDE DEF r2
<1>5. [r2 EXCEPT !.job = next] = AtWork(client, i, contents, Tail(calls), given, next)
  BY <1>4, NewJob
<1> QED BY <1>3, <1>5

LEMMA FinishToolLoop ==
    ASSUME LoopInv, NEW s \in Slots, FinishTool(s)
    PROVE  LoopInv'
<1> DEFINE c == chats[s]
<1>1. AtTools(c)
  BY LoopCases DEF LoopInv, FinishTool
<1>2. PICK client, i, contents, calls, answers, job :
          c = [pc |-> "tools", client |-> client, i |-> i, contents |-> contents,
               calls |-> calls, answers |-> answers, job |-> job]
  <2>1. c = [pc |-> "tools", client |-> c.client, i |-> c.i, contents |-> c.contents,
             calls |-> c.calls, answers |-> c.answers, job |-> c.job]
    BY <1>1 DEF AtTools
  <2> QED BY <2>1, Zenon
<1> DEFINE part  == buildFunctionResponsePart(job)
           given == Append(answers, part)
           n     == Len(contents) - 1
           last  == contents[Len(contents)]
<1>3. /\ client \in Clients /\ i \in 0 .. maxToolIterations - 1
      /\ IsSeq(contents) /\ IsSeq(answers) /\ IsSeq(calls)
      /\ Conversation(contents, n, i)
      /\ last.role = "model" /\ last.answers = <<>>
      /\ last.calls = [m \in DOMAIN last.calls |-> last.calls[m]]
      /\ InOrder(last.calls, answers, job.call, calls)
  BY <1>1, <1>2 DEF AtTools
<1>4. chats' = [chats EXCEPT ![s] = AfterTool(c, given)]
  <2>1. c.answers = answers /\ c.job = job
    BY <1>2
  <2>2. chats' = [chats EXCEPT ![s] =
                     AfterTool(c, Append(c.answers, buildFunctionResponsePart(c.job)))]
    BY DEF FinishTool, LoopInv
  <2> QED BY <2>1, <2>2, Zenon
<1>5. maxToolIterations \in Nat /\ i \in Nat /\ i + 1 \in 0 .. maxToolIterations
  BY <1>3, ChatAssumption
<1>6. part.name = job.call.name
  BY DEF buildFunctionResponsePart
<1> HIDE DEF c, part
<1>7. IsSeq(given)
  BY <1>3, AppendSeq
<1>8. /\ calls # <<>> => InOrder(last.calls, given, Head(calls), Tail(calls))
      /\ calls = <<>> => AllAnswered(last.calls, given)
  <2> DEFINE names == last.calls
             call  == job.call
  <2>1. IsSeq(answers) /\ IsSeq(calls) /\ InOrder(names, answers, call, calls)
    BY <1>3
  <2>2. part.name = call.name /\ given = Append(answers, part)
    BY <1>6
  <2> HIDE DEF names, call, given
  <2>3. /\ calls # <<>> => InOrder(names, given, Head(calls), Tail(calls))
        /\ calls = <<>> => AllAnswered(names, given)
    BY <2>1, <2>2, FinishInOrder, Zenon
  <2> QED BY <2>3 DEF names
<1> HIDE DEF given, last
<1>9. CASE calls # <<>>
  <2> DEFINE next == executeTool(Head(calls))
             new  == [pc |-> "tools", client |-> client, i |-> i, contents |-> contents,
                      calls |-> Tail(calls), answers |-> given, job |-> next]
  <2>1. c.calls = calls
    BY <1>2
  <2>2. Proceeds(c, given, next) = new
    <3> HIDE DEF next
    <3>1. c = AtWork(client, i, contents, calls, answers, job)
      BY <1>2 DEF AtWork
    <3>2. Proceeds(c, given, next) = AtWork(client, i, contents, Tail(calls), given, next)
      BY <3>1, NextCall
    <3> QED BY <3>2 DEF AtWork
  <2>3. AfterTool(c, given) = new
    BY <1>9, <2>1, <2>2 DEF AfterTool, Proceeds
  <2>4. /\ new.client = client /\ new.i = i /\ new.contents = contents
        /\ new.calls = Tail(calls) /\ new.answers = given /\ new.job = next
        /\ new = [pc |-> "tools", client |-> new.client, i |-> new.i, contents |-> new.contents,
                  calls |-> new.calls, answers |-> new.answers, job |-> new.job]
    OBVIOUS
  <2>5. IsSeq(Tail(calls))
    BY <1>3, <1>9, TailSeq
  <2>6. InOrder(last.calls, given, next.call, Tail(calls))
    BY <1>8, <1>9, ExecuteCall
  <2> HIDE DEF new, next
  <2>7. AtTools(new)
    BY <1>3, <1>7, <2>4, <2>5, <2>6 DEF AtTools, last
  <2> QED BY <1>4, <2>3, <2>7, LoopSlot
<1>10. CASE calls = <<>>
  <2> DEFINE turn == Turn("function", <<>>, given)
             all  == Append(contents, turn)
             new  == [pc |-> "model", client |-> client, i |-> i + 1, contents |-> all]
  <2>1. c.calls = calls /\ c.client = client /\ c.i = i /\ c.contents = contents
    BY <1>2
  <2>2. AfterTool(c, given) = new
    BY <1>10, <2>1 DEF AfterTool
  <2>3. turn.role = "function" /\ turn.calls = <<>> /\ turn.answers = given
    BY DEF Turn
  <2> HIDE DEF turn
  <2>4. /\ IsSeq(all) /\ Len(contents) \in Nat /\ Len(all) = Len(contents) + 1
        /\ \A k \in 1 .. Len(contents) : all[k] = contents[k]
        /\ all[Len(contents) + 1] = turn
    BY <1>3, AppendSeq
  <2>5. /\ new.client = client /\ new.i = i + 1 /\ new.contents = all
        /\ new = [pc |-> "model", client |-> new.client, i |-> new.i, contents |-> new.contents]
    OBVIOUS
  <2> HIDE DEF all, new
  <2>6. n \in Nat /\ n + 1 = Len(contents) /\ n + 2 = Len(all)
    <3>1. n - 2 * i \in 1 .. maxHistoryTurns + 1
      BY <1>3 DEF Conversation
    <3> QED BY <1>5, <2>4, <3>1, ChatAssumption
  <2> HIDE DEF n
  <2>7. Conversation(all, n, i)
    <3>1. \A k \in 1 .. n : all[k] = contents[k]
      BY <2>4, <2>6
    <3> QED BY <1>3, <1>5, <2>6, <3>1, ConversationKept
  <2>8. all[n + 1] = last /\ all[n + 2] = turn
    <3>1. n + 1 \in 1 .. Len(contents) /\ n + 2 = Len(contents) + 1
      BY <2>4, <2>6
    <3> QED BY <2>4, <2>6, <3>1 DEF last
  <2>9. last.calls = [m \in DOMAIN given |-> given[m].name] /\ last.calls # <<>>
    BY <1>3, <1>8, <1>10 DEF AllAnswered
  <2>10. Conversation(all, n + 2, i + 1)
    BY <1>3, <1>5, <2>3, <2>6, <2>7, <2>8, <2>9, ConversationRound
  <2>11. Asking(new)
    BY <1>3, <1>5, <2>4, <2>5, <2>6, <2>10 DEF Asking
  <2> QED BY <1>4, <2>2, <2>11, LoopSlot
<1> QED BY <1>9, <1>10

LEMMA LoopStep ==
    ASSUME LoopInv, ToolsInv, [Next]_chatVars
    PROVE  LoopInv'
<1>1. CASE UNCHANGED chats
  BY <1>1 DEF LoopInv
<1>2. ASSUME NEW s \in Slots, NEW c \in Clients, Ask(s, c)
      PROVE  LoopInv'
  <2>1. ASSUME NEW body \in Bodies,
               chats' = [chats EXCEPT ![s] =
                            [pc |-> "model", client |-> c, i |-> 0,
                             contents |-> buildInitialContents(Trimmed(body.history))]]
        PROVE  LoopInv'
    <3> DEFINE contents == buildInitialContents(Trimmed(body.history))
               new == [pc |-> "model", client |-> c, i |-> 0, contents |-> contents]
    <3>1. body.history \in Seq({"user", "assistant"})
      BY ChatAssumption
    <3>2. IsSeq(contents) /\ Conversation(contents, Len(contents), 0)
      BY <3>1, TrimmedShort, InitialConversation
    <3> HIDE DEF contents
    <3>3. /\ new.client = c /\ new.i = 0 /\ new.contents = contents
          /\ new = [pc |-> "model", client |-> new.client, i |-> new.i, contents |-> new.contents]
      OBVIOUS
    <3>4. chats' = [chats EXCEPT ![s] = new]
      BY <2>1 DEF contents
    <3> HIDE DEF new
    <3>5. Asking(new)
      BY <3>2, <3>3, ChatAssumption DEF Asking
    <3> QED BY <3>4, <3>5, LoopSlot
  <2> QED BY <1>1, <1>2, <2>1 DEF Ask
<1>3. ASSUME NEW s \in Slots, GiveUp(s)
      PROVE  LoopInv'
  BY <1>3, LoopSlot DEF GiveUp
<1>4. ASSUME NEW s \in Slots, ToolStep(s)
      PROVE  LoopInv'
  <2> DEFINE c == chats[s]
  <2>1. PICK job \in steps(c.job) : chats' = [chats EXCEPT ![s].job = job]
    BY <1>4 DEF ToolStep
  <2>2. AtTools(c)
    BY <1>4, LoopCases DEF LoopInv, ToolStep
  <2>3. job.call = c.job.call
    BY <1>4, <2>1, StepsCall DEF ToolStep, ToolsInv
  <2> DEFINE new == [pc |-> "tools", client |-> c.client, i |-> c.i, contents |-> c.contents,
                     calls |-> c.calls, answers |-> c.answers, job |-> job]
  <2>4. [c EXCEPT !.job = job] = new
    BY <2>2 DEF AtTools
  <2>5. chats' = [chats EXCEPT ![s] = new]
    BY <2>1, <2>4 DEF LoopInv
  <2>6. /\ new.client = c.client /\ new.i = c.i /\ new.contents = c.contents
        /\ new.calls = c.calls /\ new.answers = c.answers /\ new.job = job
        /\ new = [pc |-> "tools", client |-> new.client, i |-> new.i, contents |-> new.contents,
                  calls |-> new.calls, answers |-> new.answers, job |-> new.job]
    OBVIOUS
  <2> HIDE DEF new, c
  <2>7. AtTools(new)
    BY <2>2, <2>3, <2>6 DEF AtTools
  <2> QED BY <2>5, <2>7, LoopSlot
<1>5. Clock \/ UNCHANGED chatVars => UNCHANGED chats
  BY DEF Clock, chatVars
<1> QED BY <1>1, <1>2, <1>3, <1>4, <1>5, CallModelLoop, FinishToolLoop DEF Next, ChatStep

\* The invariant behind the results about the loop.
THEOREM LoopInvariant == Spec => [](LoopInv /\ ToolsInv)
<1>1. Init => LoopInv /\ ToolsInv
  BY DEF Init, LoopInv, ToolsInv, Idle
<1>2. LoopInv /\ ToolsInv /\ [Next]_chatVars => (LoopInv /\ ToolsInv)'
  BY LoopStep, ToolsStep
<1> QED BY <1>1, <1>2, PTL DEF Spec

\* Whatever a language model replies, however many functions it calls at once
\* and however many of them fail, what runChat sends next is a conversation in
\* which every call has its answer, for any bounds on history and iterations.
THEOREM TranscriptSafe == Spec => []TranscriptWellFormed
<1>1. LoopInv => TranscriptWellFormed
  <2> SUFFICES ASSUME LoopInv, NEW s \in Slots, chats[s].pc = "model"
               PROVE  Conversation(chats[s].contents, Len(chats[s].contents), chats[s].i)
    BY DEF TranscriptWellFormed
  <2>1. Asking(chats[s])
    BY LoopCases DEF LoopInv
  <2> QED BY <2>1 DEF Asking
<1> QED BY <1>1, LoopInvariant, PTL

-----------------------------------------------------------------------------
(***************************************************************************)
(* The end of a question.  What is left to do for it decreases with every  *)
(* step, and never below nothing, which can only happen so often.          *)
(***************************************************************************)
TodoLeft(job) == IF job.pc = "rank" THEN Len(job.todo) ELSE 0

\* How decreases are put together.
LEMMA LessIntro ==
    ASSUME NEW a1 \in Nat, NEW a2 \in Nat, NEW a3 \in Nat, NEW a4 \in Nat,
           NEW b1 \in Nat, NEW b2 \in Nat, NEW b3 \in Nat, NEW b4 \in Nat,
           \/ a1 < b1
           \/ a1 = b1 /\ a2 < b2
           \/ a1 = b1 /\ a2 = b2 /\ a3 < b3
           \/ a1 = b1 /\ a2 = b2 /\ a3 = b3 /\ a4 < b4
    PROVE  Less(<<a1, a2, a3, a4>>, <<b1, b2, b3, b4>>)
<1> DEFINE a == <<a1, a2, a3, a4>>
           b == <<b1, b2, b3, b4>>
<1>1. /\ a[1] = a1 /\ a[2] = a2 /\ a[3] = a3 /\ a[4] = a4
      /\ b[1] = b1 /\ b[2] = b2 /\ b[3] = b3 /\ b[4] = b4
  OBVIOUS
<1> HIDE DEF a, b
<1>0. \A k \in 1 .. 4 : a[k] >= 0
  <2>1. \A k \in 1 .. 4 : k \in {1, 2, 3, 4}
    OBVIOUS
  <2> QED BY <1>1, <2>1
<1>2. CASE a1 < b1
  <2>1. a[1] < b[1] /\ \A m \in 1 .. 4 : m < 1 => a[m] = b[m]
    BY <1>1, <1>2
  <2> QED BY <1>0, <2>1 DEF Less, a, b
<1>3. CASE a1 = b1 /\ a2 < b2
  <2>1. a[2] < b[2] /\ \A m \in 1 .. 4 : m < 2 => a[m] = b[m]
    <3>1. \A m \in 1 .. 4 : m < 2 => m = 1
      OBVIOUS
    <3> QED BY <1>1, <1>3, <3>1
  <2> QED BY <1>0, <2>1 DEF Less, a, b
<1>4. CASE a1 = b1 /\ a2 = b2 /\ a3 < b3
  <2>1. a[3] < b[3] /\ \A m \in 1 .. 4 : m < 3 => a[m] = b[m]
    <3>1. \A m \in 1 .. 4 : m < 3 => m = 1 \/ m = 2
      OBVIOUS
    <3> QED BY <1>1, <1>4, <3>1
  <2> QED BY <1>0, <2>1 DEF Less, a, b
<1>5. CASE a1 = b1 /\ a2 = b2 /\ a3 = b3 /\ a4 < b4
  <2>1. a[4] < b[4] /\ \A m \in 1 .. 4 : m < 4 => a[m] = b[m]
    <3>1. \A m \in 1 .. 4 : m < 4 => m = 1 \/ m = 2 \/ m = 3
      OBVIOUS
    <3> QED BY <1>1, <1>5, <3>1
  <2> QED BY <1>0, <2>1 DEF Less, a, b
<1> QED BY <1>2, <1>3, <1>4, <1>5

\* The stages of a tool, and what is left of it.
LEMMA StageCases ==
    ASSUME NEW j
    PROVE  /\ j.pc = "list" => Stage(j) = 3
           /\ j.pc = "sub" => Stage(j) = 2
           /\ j.pc \in {"query", "rank", "traps"} => Stage(j) = 1
           /\ j.pc = "done" => Stage(j) = 0
<1>1. CASE j.pc = "list"
  BY <1>1 DEF Stage
<1>2. CASE j.pc = "sub"
  BY <1>2 DEF Stage
<1>3. CASE j.pc \in {"query", "rank", "traps"}
  BY <1>3 DEF Stage
<1>4. CASE j.pc = "done"
  BY <1>4 DEF Stage
<1> QED BY <1>1, <1>2, <1>3, <1>4

LEMMA JobMeasure ==
    ASSUME NEW j, JobOK(j)
    PROVE  Stage(j) \in Nat /\ TodoLeft(j) \in Nat
<1>1. Stage(j) \in 0 .. 3
  BY StageCases DEF JobOK
<1>2. TodoLeft(j) \in Nat
  BY DEF JobOK, TodoLeft
<1> QED BY <1>1, <1>2

\* Where a tool goes from each stage.
LEMMA ToQueryStage ==
    ASSUME NEW call, NEW list, NEW dev, NEW sub
    PROVE  ToQuery(call, list, dev, sub).pc \in {"query", "done"}
BY DEF ToQuery, Failed

LEMMA ListedStage ==
    ASSUME NEW call, NEW f, NEW k \in Listed(call, f)
    PROVE  k.pc \in {"sub", "query", "rank", "done"}
<1>1. CASE call.name \in {"list_devices", "rank_devices"}
  BY <1>1 DEF Listed, Done
<1>2. CASE call.name \notin {"list_devices", "rank_devices"}
  <2>1. k \in ResolveQuery(call, f)
    BY <1>2 DEF Listed
  <2>2. PICK found : k = Failed(call) \/ k \in Resolved(call, f, found)
    BY <2>1 DEF ResolveQuery
  <2>3. CASE k = Failed(call)
    BY <2>3 DEF Failed
  <2>4. CASE k \in Resolved(call, f, found) /\ SubRequested(call.args)
    <3>1. PICK d : k = [pc |-> "sub", call |-> call, devices |-> f, dev |-> d]
      BY <2>4 DEF Resolved
    <3> QED BY <3>1
  <2>5. CASE k \in Resolved(call, f, found) /\ ~SubRequested(call.args)
    <3>1. PICK d, sub : k = ToQuery(call, f, d, sub)
      BY <2>5 DEF Resolved
    <3> QED BY <3>1, ToQueryStage
  <2> QED BY <2>2, <2>3, <2>4, <2>5
<1> QED BY <1>1, <1>2

\* A turn of rank_devices' loop is about one device less.
LEMMA RankShrinks ==
    ASSUME NEW j, JobOK(j), j.pc = "rank", j.todo # <<>>, NEW k \in RankDevice(j)
    PROVE  k.pc = "rank" /\ Len(k.todo) = Len(j.todo) - 1
<1>1. {"pc", "call", "todo", "results"} \subseteq DOMAIN j /\ j.todo \in Seq(FleetDevices)
  BY DEF JobOK
<1>2. Len(Tail(j.todo)) = Len(j.todo) - 1
  BY <1>1
<1> DEFINE next == PassOver(j)
<1>3. DOMAIN next = DOMAIN j /\ next.pc = "rank" /\ next.todo = Tail(j.todo)
  BY <1>1 DEF PassOver
<1>4. ASSUME NEW value
      PROVE  Rank(j, value).pc = "rank" /\ Rank(j, value).todo = Tail(j.todo)
  BY <1>1, <1>3 DEF Rank
<1> HIDE DEF next
<1>5. k = PassOver(j) \/ \E value : k = Rank(j, value)
  BY DEF RankDevice
<1> QED BY <1>2, <1>3, <1>4, <1>5 DEF next

\* Every answer a tool gets brings it to a later stage, or a device further.
LEMMA StepsShrink ==
    ASSUME NEW j, JobOK(j), j.pc # "done", NEW k \in steps(j)
    PROVE  Stage(k) < Stage(j) \/ (Stage(k) = Stage(j) /\ TodoLeft(k) < TodoLeft(j))
<1>1. \A call : Failed(call).pc = "done"
  BY DEF Failed
<1>2. \A call, r, data : Done(call, r, data).pc = "done"
  BY DEF Done
<1>3. CASE j.pc = "list"
  <2>1. k \in AfterList(j)
    BY <1>3 DEF steps
  <2>2. k.pc \in {"sub", "query", "rank", "done"}
    BY <1>1, <2>1, ListedStage DEF AfterList
  <2> QED BY <1>3, <2>2, StageCases
<1>4. CASE j.pc = "sub"
  <2>1. k \in AfterSub(j)
    BY <1>4 DEF steps
  <2>2. k.pc \in {"query", "done"}
    BY <1>1, <2>1, ToQueryStage DEF AfterSub
  <2> QED BY <1>4, <2>2, StageCases
<1>5. CASE j.pc = "query"
  <2>1. k \in AfterQuery(j)
    BY <1>5 DEF steps
  <2>2. k = Failed(j.call) \/ \E data : k = Done(j.call, "object", data)
    BY <2>1, Zenon DEF AfterQuery
  <2>3. k.pc = "done"
    BY <1>1, <1>2, <2>2
  <2> QED BY <1>5, <2>3, StageCases
<1>6. CASE j.pc = "traps"
  <2>1. k \in AfterTraps(j)
    BY <1>6 DEF steps
  <2>2. k.pc = "done"
    BY <1>1, <1>2, <2>1 DEF AfterTraps
  <2> QED BY <1>6, <2>2, StageCases
<1>7. CASE j.pc = "rank"
  <2>1. k \in AfterRank(j)
    BY <1>7 DEF steps
  <2>2. CASE j.todo = <<>>
    <3>1. k.pc = "done"
      BY <1>2, <2>1, <2>2 DEF AfterRank
    <3> QED BY <1>7, <3>1, StageCases
  <2>3. CASE j.todo # <<>>
    <3>1. k.pc = "rank" /\ Len(k.todo) = Len(j.todo) - 1
      BY <1>7, <2>1, <2>3, RankShrinks DEF AfterRank
    <3>2. Len(j.todo) \in Nat
      BY <1>7 DEF JobOK
    <3> QED BY <1>7, <3>1, <3>2, StageCases DEF TodoLeft
  <2> QED BY <2>2, <2>3
<1> QED BY <1>3, <1>4, <1>5, <1>6, <1>7 DEF JobOK

\* What is left of a question, part by part.
LEMMA LeftAsking ==
    ASSUME NEW chat, chat.pc = "model", chat.i \in 0 .. maxToolIterations
    PROVE  /\ Left(chat) = <<2 * (maxToolIterations - chat.i) + 1, 0, 0, 0>>
           /\ 2 * (maxToolIterations - chat.i) + 1 \in Nat
<1>1. maxToolIterations \in Nat
  BY ChatAssumption
<1> QED BY <1>1 DEF Left

LEMMA LeftAtTools ==
    ASSUME NEW chat, chat.pc = "tools", chat.i \in 0 .. maxToolIterations - 1,
           IsSeq(chat.calls), JobOK(chat.job)
    PROVE  /\ Left(chat) = <<2 * (maxToolIterations - chat.i), Len(chat.calls),
                             Stage(chat.job), TodoLeft(chat.job)>>
           /\ 2 * (maxToolIterations - chat.i) \in Nat /\ Len(chat.calls) \in Nat
           /\ Stage(chat.job) \in Nat /\ TodoLeft(chat.job) \in Nat
<1>1. maxToolIterations \in Nat
  BY ChatAssumption
<1>2. Len(chat.calls) \in Nat
  BY DEF IsSeq
<1> QED BY <1>1, <1>2, JobMeasure DEF Left, TodoLeft

\* Asking the model: the round that has begun counts for less.
LEMMA CallModelProgress ==
    ASSUME LoopInv, NEW s \in Slots, CallModel(s)
    PROVE  chats'[s] = Idle \/ Less(Left(chats'[s]), Left(chats[s]))
<1> DEFINE c == chats[s]
           top == 2 * (maxToolIterations - c.i)
<1>1. Asking(c) /\ c.pc = "model" /\ c.i < maxToolIterations
  BY LoopCases DEF LoopInv, CallModel
<1>2. c.i \in 0 .. maxToolIterations - 1 /\ c.i \in 0 .. maxToolIterations
  BY <1>1, ChatAssumption DEF Asking
<1>3. Left(c) = <<top + 1, 0, 0, 0>>
  BY <1>1, <1>2, LeftAsking
<1>4. CASE chats' = [chats EXCEPT ![s] = Idle]
  BY <1>4 DEF LoopInv
<1>5. ASSUME NEW calls \in Replies,
             chats' = [chats EXCEPT ![s] =
                 [pc |-> "tools", client |-> c.client, i |-> c.i,
                  contents |-> Append(c.contents,
                      Turn("model", [k \in DOMAIN calls |-> calls[k].name], <<>>)),
                  calls |-> Tail(calls), answers |-> <<>>, job |-> executeTool(Head(calls))]]
      PROVE  Less(Left(chats'[s]), Left(c))
  <2> DEFINE turn == Turn("model", [k \in DOMAIN calls |-> calls[k].name], <<>>)
             job  == executeTool(Head(calls))
             new  == [pc |-> "tools", client |-> c.client, i |-> c.i,
                      contents |-> Append(c.contents, turn),
                      calls |-> Tail(calls), answers |-> <<>>, job |-> job]
  <2>1. chats'[s] = new
    BY <1>5 DEF LoopInv
  <2>2. new.pc = "tools" /\ new.i = c.i /\ new.calls = Tail(calls) /\ new.job = job
    OBVIOUS
  <2>3. JobOK(job)
    BY ExecuteOK
  <2>4. IsSeq(Tail(calls))
    BY TailSeq, ChatAssumption DEF IsSeq
  <2> HIDE DEF new, job, c
  <2>5. /\ Left(new) = <<top, Len(new.calls), Stage(new.job), TodoLeft(new.job)>>
        /\ top \in Nat /\ Len(new.calls) \in Nat
        /\ Stage(new.job) \in Nat /\ TodoLeft(new.job) \in Nat
    BY <1>2, <2>2, <2>3, <2>4, LeftAtTools
  <2> HIDE DEF top
  <2>6. /\ top \in Nat /\ top + 1 \in Nat /\ 0 \in Nat /\ top < top + 1
        /\ Len(new.calls) \in Nat /\ Stage(new.job) \in Nat /\ TodoLeft(new.job) \in Nat
    BY <2>5
  <2>7. Less(<<top, Len(new.calls), Stage(new.job), TodoLeft(new.job)>>, <<top + 1, 0, 0, 0>>)
    BY <2>6, LessIntro, Zenon
  <2> QED BY <1>3, <2>1, <2>5, <2>7
<1> QED BY <1>4, <1>5 DEF CallModel

\* What is left while tools run, and the part of the invariant it rests on.
LEMMA ToolsLeft ==
    ASSUME LoopInv, ToolsInv, NEW s \in Slots, chats[s].pc = "tools"
    PROVE  LET c == chats[s]
           IN  /\ AtTools(c) /\ JobOK(c.job)
               /\ Left(c) = <<2 * (maxToolIterations - c.i), Len(c.calls), Stage(c.job), TodoLeft(c.job)>>
               /\ 2 * (maxToolIterations - c.i) \in Nat /\ Len(c.calls) \in Nat
               /\ Stage(c.job) \in Nat /\ TodoLeft(c.job) \in Nat
<1>1. AtTools(chats[s]) /\ JobOK(chats[s].job)
  BY LoopCases DEF LoopInv, ToolsInv
<1>2. chats[s].i \in 0 .. maxToolIterations - 1 /\ IsSeq(chats[s].calls)
  BY <1>1 DEF AtTools
<1> QED BY <1>1, <1>2, LeftAtTools

\* An answer for the running tool.
LEMMA ToolStepProgress ==
    ASSUME LoopInv, ToolsInv, NEW s \in Slots, ToolStep(s)
    PROVE  Less(Left(chats'[s]), Left(chats[s]))
<1> DEFINE c == chats[s]
           top == 2 * (maxToolIterations - c.i)
<1>1. c.pc = "tools" /\ c.job.pc # "done"
  BY DEF ToolStep
<1>2. /\ AtTools(c) /\ JobOK(c.job)
      /\ Left(c) = <<top, Len(c.calls), Stage(c.job), TodoLeft(c.job)>>
      /\ top \in Nat /\ Len(c.calls) \in Nat /\ Stage(c.job) \in Nat /\ TodoLeft(c.job) \in Nat
  BY <1>1, ToolsLeft
<1>3. PICK job \in steps(c.job) : chats' = [chats EXCEPT ![s].job = job]
  BY DEF ToolStep
<1> DEFINE new == [pc |-> "tools", client |-> c.client, i |-> c.i, contents |-> c.contents,
                   calls |-> c.calls, answers |-> c.answers, job |-> job]
<1>4. [c EXCEPT !.job = job] = new
  BY <1>2 DEF AtTools
<1>5. chats'[s] = new
  BY <1>3, <1>4 DEF LoopInv
<1>6. new.pc = "tools" /\ new.i = c.i /\ new.calls = c.calls /\ new.job = job
  OBVIOUS
<1>7. JobOK(job)
  BY <1>1, <1>2, <1>3, StepsOK
<1>8. Stage(job) < Stage(c.job) \/ (Stage(job) = Stage(c.job) /\ TodoLeft(job) < TodoLeft(c.job))
  BY <1>1, <1>2, <1>3, StepsShrink
<1>9. c.i \in 0 .. maxToolIterations - 1 /\ IsSeq(c.calls)
  BY <1>2 DEF AtTools
<1> HIDE DEF new, c
<1>10. /\ Left(new) = <<top, Len(c.calls), Stage(job), TodoLeft(job)>>
       /\ Stage(job) \in Nat /\ TodoLeft(job) \in Nat
  BY <1>6, <1>7, <1>9, LeftAtTools
<1> HIDE DEF top
<1>11. Less(<<top, Len(c.calls), Stage(job), TodoLeft(job)>>,
            <<top, Len(c.calls), Stage(c.job), TodoLeft(c.job)>>)
  BY <1>2, <1>8, <1>10, LessIntro, Zenon
<1> QED BY <1>2, <1>5, <1>10, <1>11 DEF c

\* The end of a tool: the next function begins, or the next round.
LEMMA FinishToolProgress ==
    ASSUME LoopInv, ToolsInv, NEW s \in Slots, FinishTool(s)
    PROVE  Less(Left(chats'[s]), Left(chats[s]))
<1> DEFINE c == chats[s]
           top == 2 * (maxToolIterations - c.i)
           given == Append(c.answers, buildFunctionResponsePart(c.job))
           new == AfterTool(c, given)
<1>1. c.pc = "tools" /\ chats'[s] = new
  BY DEF FinishTool, LoopInv
<1>2. /\ AtTools(c)
      /\ Left(c) = <<top, Len(c.calls), Stage(c.job), TodoLeft(c.job)>>
      /\ top \in Nat /\ Len(c.calls) \in Nat /\ Stage(c.job) \in Nat /\ TodoLeft(c.job) \in Nat
  BY <1>1, ToolsLeft
<1>3. /\ c = AtWork(c.client, c.i, c.contents, c.calls, c.answers, c.job)
      /\ c.i \in 0 .. maxToolIterations - 1 /\ IsSeq(c.calls)
  BY <1>2 DEF AtTools, AtWork
<1>4. maxToolIterations \in Nat
  BY ChatAssumption
<1> HIDE DEF c, given
<1>5. CASE c.calls # <<>>
  <2> DEFINE next == executeTool(Head(c.calls))
             work == AtWork(c.client, c.i, c.contents, Tail(c.calls), given, next)
  <2>1. JobOK(next)
    BY ExecuteOK
  <2>2. IsSeq(Tail(c.calls)) /\ Len(Tail(c.calls)) = Len(c.calls) - 1
    BY <1>3, <1>5, TailSeq
  <2>3. new = Proceeds(c, given, next)
    BY <1>5 DEF AfterTool, Proceeds
  <2> HIDE DEF next, new
  <2>4. Proceeds(c, given, next) = work
    BY <1>3, NextCall
  <2>5. work.pc = "tools" /\ work.i = c.i /\ work.calls = Tail(c.calls) /\ work.job = next
    BY DEF AtWork
  <2> HIDE DEF work
  <2>6. /\ Left(work) = <<top, Len(Tail(c.calls)), Stage(next), TodoLeft(next)>>
        /\ Stage(next) \in Nat /\ TodoLeft(next) \in Nat
    BY <1>3, <2>1, <2>2, <2>5, LeftAtTools
  <2> HIDE DEF top
  <2>7. Len(Tail(c.calls)) \in Nat /\ Len(Tail(c.calls)) < Len(c.calls)
    BY <1>2, <2>2
  <2>8. Less(<<top, Len(Tail(c.calls)), Stage(next), TodoLeft(next)>>,
             <<top, Len(c.calls), Stage(c.job), TodoLeft(c.job)>>)
    BY <1>2, <2>6, <2>7, LessIntro, Zenon
  <2> QED BY <1>1, <1>2, <2>3, <2>4, <2>6, <2>8 DEF c
<1>6. CASE c.calls = <<>>
  <2>1. new.pc = "model" /\ new.i = c.i + 1
    BY <1>6 DEF AfterTool
  <2> HIDE DEF new
  <2>2. new.i \in 0 .. maxToolIterations
    BY <1>3, <1>4, <2>1
  <2>3. Left(new) = <<2 * (maxToolIterations - new.i) + 1, 0, 0, 0>>
    BY <2>1, <2>2, LeftAsking
  <2> DEFINE less == 2 * (maxToolIterations - new.i) + 1
  <2>4. less \in Nat /\ less < top
    BY <1>3, <1>4, <2>1
  <2> HIDE DEF top, less
  <2>5. Less(<<less, 0, 0, 0>>, Left(c))
    <3>1. 0 \in Nat
      OBVIOUS
    <3>2. Less(<<less, 0, 0, 0>>, <<top, Len(c.calls), Stage(c.job), TodoLeft(c.job)>>)
      BY <1>2, <2>4, <3>1, LessIntro, Zenon
    <3> QED BY <1>2, <3>2
  <2> QED BY <1>1, <2>3, <2>5 DEF less, c
<1> QED BY <1>5, <1>6

\* A step of one question leaves the others alone.
LEMMA ProgressStep ==
    ASSUME LoopInv, ToolsInv, [Next]_chatVars, NEW s \in Slots, chats[s] # Idle
    PROVE  chats'[s] \in {chats[s], Idle} \/ Less(Left(chats'[s]), Left(chats[s]))
<1>1. ASSUME NEW r \in Slots, NEW chat, chats' = [chats EXCEPT ![r] = chat], r # s
      PROVE  chats'[s] = chats[s]
  BY <1>1 DEF LoopInv
<1>2. ASSUME NEW r \in Slots, NEW c \in Clients, Ask(r, c)
      PROVE  chats'[s] = chats[s]
  BY <1>1, <1>2 DEF Ask
<1>3. ASSUME NEW r \in Slots, ChatStep(r), r # s
      PROVE  chats'[s] = chats[s]
  <2>1. CASE CallModel(r) \/ GiveUp(r) \/ FinishTool(r)
    BY <1>3, <2>1 DEF CallModel, GiveUp, FinishTool, LoopInv
  <2>2. CASE ToolStep(r)
    BY <1>3, <2>2 DEF ToolStep, LoopInv
  <2> QED BY <1>3, <2>1, <2>2 DEF ChatStep
<1>4. CASE GiveUp(s)
  BY <1>4 DEF GiveUp, LoopInv
<1>5. Clock \/ UNCHANGED chatVars => chats'[s] = chats[s]
  BY DEF Clock, chatVars
<1> QED
  BY <1>2, <1>3, <1>4, <1>5, CallModelProgress, ToolStepProgress, FinishToolProgress
     DEF Next, ChatStep

\* Whatever a language model asks for, round after round, every step of
\* runChat and of the tools brings the question nearer to its end, for any
\* bounds and any number of functions, devices and questions at once.
THEOREM ProgressSafe == Spec => QuestionsProgress
<1> DEFINE Nearer == \A s \in Slots : chats[s] # Idle =>
               chats'[s] \in {chats[s], Idle} \/ Less(Left(chats'[s]), Left(chats[s]))
<1>1. LoopInv /\ ToolsInv /\ [Next]_chatVars => Nearer
  BY ProgressStep
<1>2. (Spec => [][Nearer]_chatVars) => (Spec => QuestionsProgress)
  BY DEF QuestionsProgress
<1> HIDE DEF Nearer
<1> QED BY <1>1, <1>2, LoopInvariant, PTL DEF Spec

-----------------------------------------------------------------------------
(***************************************************************************)
(* The cost.  CallsLeft(all, c) has a member for every call of the model   *)
(* the questions of c may still make.  A call takes one away when it is    *)
(* counted, a question that ends takes its own away, and a question that   *)
(* is let through adds no more than maxToolIterations.                     *)
(***************************************************************************)
Ahead(chat, k) == \/ chat.pc = "model" /\ k >= chat.i
                  \/ chat.pc = "tools" /\ k > chat.i

Iterations == 0 .. maxToolIterations - 1

CallsLeft(all, c) ==
    {p \in Slots \X Iterations : Ahead(all[p[1]], p[2]) /\ all[p[1]].client = c}

\* The calls made and the calls left are paid for by the questions let through.
Paid(calls, left, questions) ==
    /\ IsFiniteSet(left)
    /\ calls + Cardinality(left) <= maxToolIterations * Cardinality(questions)

CostInv ==
    /\ spent \in [Clients -> Nat]
    /\ \A c \in Clients : \A e \in admitted[c] : e.n < Cardinality(admitted[c])
    /\ \A c \in Clients : Paid(spent[c], CallsLeft(chats, c), admitted[c])

LEMMA PaidFewer ==
    ASSUME NEW calls \in Nat, NEW left, NEW questions, IsFiniteSet(questions),
           Paid(calls, left, questions), NEW new \in SUBSET left
    PROVE  Paid(calls, new, questions)
<1>1. /\ IsFiniteSet(new) /\ Cardinality(new) <= Cardinality(left)
      /\ Cardinality(new) \in Nat /\ Cardinality(left) \in Nat /\ Cardinality(questions) \in Nat
  BY FS_Subset, FS_CardinalityType DEF Paid
<1>2. maxToolIterations * Cardinality(questions) \in Nat
  BY <1>1, ChatAssumption
<1> QED BY <1>1, <1>2 DEF Paid

LEMMA PaidCall ==
    ASSUME NEW calls \in Nat, NEW left, NEW questions, IsFiniteSet(questions),
           Paid(calls, left, questions), NEW x \in left, NEW new \in SUBSET (left \ {x})
    PROVE  Paid(calls + 1, new, questions)
<1>1. /\ IsFiniteSet(left \ {x}) /\ Cardinality(left \ {x}) = Cardinality(left) - 1
      /\ Cardinality(left) \in Nat
  BY FS_RemoveElement, FS_CardinalityType DEF Paid
<1>2. IsFiniteSet(new) /\ Cardinality(new) <= Cardinality(left \ {x})
  BY <1>1, FS_Subset
<1>3. Cardinality(new) \in Nat /\ Cardinality(questions) \in Nat
  BY <1>2, FS_CardinalityType
<1>4. maxToolIterations * Cardinality(questions) \in Nat
  BY <1>3, ChatAssumption
<1> QED BY <1>1, <1>2, <1>3, <1>4 DEF Paid

LEMMA PaidQuestion ==
    ASSUME NEW calls \in Nat, NEW left, NEW questions, IsFiniteSet(questions),
           Paid(calls, left, questions), NEW e, e \notin questions, NEW s,
           NEW new \in SUBSET (left \cup ({s} \X Iterations))
    PROVE  Paid(calls, new, questions \cup {e})
<1> DEFINE more == {s} \X Iterations
           m    == maxToolIterations
           q    == Cardinality(questions)
<1>1. m \in Nat /\ q \in Nat /\ Cardinality(left) \in Nat
  BY ChatAssumption, FS_CardinalityType DEF Paid
<1>2. IsFiniteSet(more) /\ Cardinality(more) = m
  <2>1. IsFiniteSet(Iterations) /\ Cardinality(Iterations) = m
    BY ChatAssumption, FS_Interval DEF Iterations
  <2>2. IsFiniteSet({s}) /\ Cardinality({s}) = 1
    BY FS_Singleton
  <2>3. IsFiniteSet(more) /\ Cardinality(more) = Cardinality({s}) * Cardinality(Iterations)
    BY <2>1, <2>2, FS_Product
  <2> QED BY <1>1, <2>1, <2>2, <2>3
<1> HIDE DEF more
<1>3. IsFiniteSet(left \cup more) /\ Cardinality(left \cup more) <= Cardinality(left) + m
  <2>1. IsFiniteSet(left \cap more) /\ Cardinality(left \cap more) \in Nat
    BY FS_Intersection, FS_CardinalityType DEF Paid
  <2>2. /\ IsFiniteSet(left \cup more)
        /\ Cardinality(left \cup more) = Cardinality(left) + m - Cardinality(left \cap more)
    BY <1>2, FS_Union DEF Paid
  <2> QED BY <1>1, <2>1, <2>2
<1>4. new \in SUBSET (left \cup more)
  BY DEF more
<1>5. IsFiniteSet(new) /\ Cardinality(new) <= Cardinality(left \cup more)
  BY <1>3, <1>4, FS_Subset
<1>6. Cardinality(new) \in Nat /\ Cardinality(left \cup more) \in Nat
  BY <1>3, <1>5, FS_CardinalityType
<1>7. Cardinality(questions \cup {e}) = q + 1
  BY FS_AddElement
<1>8. m * (q + 1) = m * q + m /\ m * q \in Nat
  BY <1>1
<1>9. calls + Cardinality(left) <= m * q
  BY DEF Paid
<1>10. calls + Cardinality(new) <= m * q + m
  <2> HIDE DEF m, q
  <2> DEFINE total == m * q
  <2>1. total \in Nat /\ calls + Cardinality(left) <= total
    BY <1>8, <1>9
  <2> HIDE DEF total
  <2>2. calls + Cardinality(new) <= total + m
    BY <1>1, <1>3, <1>5, <1>6, <2>1
  <2> QED BY <2>2 DEF total
<1> QED BY <1>5, <1>7, <1>8, <1>10 DEF Paid

\* What is left after a step that gives one request a new state.
LEMMA LeftAfter ==
    ASSUME LoopInv, NEW s \in Slots, NEW new, chats' = [chats EXCEPT ![s] = new], NEW c,
           NEW r \in Slots, NEW k \in Iterations, <<r, k>> \in CallsLeft(chats', c)
    PROVE  \/ r = s /\ Ahead(new, k) /\ new.client = c
           \/ r # s /\ <<r, k>> \in CallsLeft(chats, c)
<1>1. chats'[r] = IF r = s THEN new ELSE chats[r]
  BY DEF LoopInv
<1>2. Ahead(chats'[r], k) /\ chats'[r].client = c
  BY DEF CallsLeft
<1>3. ASSUME r # s
      PROVE  <<r, k>> \in CallsLeft(chats, c)
  BY <1>1, <1>2, <1>3 DEF CallsLeft
<1> QED BY <1>1, <1>2, <1>3

LEMMA LeftIsPairs ==
    ASSUME NEW all, NEW c, NEW p \in CallsLeft(all, c)
    PROVE  \E r \in Slots, k \in Iterations : p = <<r, k>>
BY DEF CallsLeft

\* A request goes on, or ends: no call is added to those that are left.
LEMMA LeftShrinks ==
    ASSUME LoopInv, NEW s \in Slots, NEW new, chats' = [chats EXCEPT ![s] = new], NEW c,
           \A k \in Iterations : Ahead(new, k) => Ahead(chats[s], k) /\ new.client = chats[s].client
    PROVE  CallsLeft(chats', c) \in SUBSET CallsLeft(chats, c)
<1> SUFFICES ASSUME NEW r \in Slots, NEW k \in Iterations, <<r, k>> \in CallsLeft(chats', c)
             PROVE  <<r, k>> \in CallsLeft(chats, c)
  <2>1. CallsLeft(chats', c) \subseteq CallsLeft(chats, c)
    <3> SUFFICES ASSUME NEW p \in CallsLeft(chats', c)
                 PROVE  p \in CallsLeft(chats, c)
      OBVIOUS
    <3>1. PICK r \in Slots, k \in Iterations : p = <<r, k>>
      BY LeftIsPairs
    <3> QED BY <3>1
  <2> QED BY <2>1
<1>1. CASE r = s
  <2>1. Ahead(new, k) /\ new.client = c
    BY <1>1, LeftAfter
  <2>2. Ahead(chats[r], k) /\ chats[r].client = c
    BY <1>1, <2>1
  <2> QED BY <2>2 DEF CallsLeft
<1>2. CASE r # s
  BY <1>2, LeftAfter
<1> QED BY <1>1, <1>2

\* A question that starts adds its own calls, and only to its client's.
LEMMA LeftGrows ==
    ASSUME LoopInv, NEW s \in Slots, NEW new, chats' = [chats EXCEPT ![s] = new], NEW c
    PROVE  /\ CallsLeft(chats', c) \in SUBSET (CallsLeft(chats, c) \cup ({s} \X Iterations))
           /\ new.client # c => CallsLeft(chats', c) \in SUBSET CallsLeft(chats, c)
<1>1. ASSUME NEW r \in Slots, NEW k \in Iterations, <<r, k>> \in CallsLeft(chats', c)
      PROVE  /\ <<r, k>> \in CallsLeft(chats, c) \cup ({s} \X Iterations)
             /\ new.client # c => <<r, k>> \in CallsLeft(chats, c)
  BY <1>1, LeftAfter
<1>2. ASSUME NEW p \in CallsLeft(chats', c)
      PROVE  /\ p \in CallsLeft(chats, c) \cup ({s} \X Iterations)
             /\ new.client # c => p \in CallsLeft(chats, c)
  <2>1. PICK r \in Slots, k \in Iterations : p = <<r, k>>
    BY LeftIsPairs
  <2> QED BY <1>1, <2>1
<1> QED BY <1>2

\* The entry of a new question is new: the log counts its entries.
LEMMA EntryIsNew ==
    ASSUME LimiterInv, CostInv, NEW c \in Clients, allow(c)
    PROVE  /\ NewEntry(c) \notin admitted[c]
           /\ admitted'[c] = admitted[c] \cup {NewEntry(c)}
           /\ \A d \in Clients : d # c => admitted'[d] = admitted[d]
           /\ \A d \in Clients : \A e \in admitted'[d] : e.n < Cardinality(admitted'[d])
<1> DEFINE q == Cardinality(admitted[c])
<1>1. IsFiniteSet(admitted[c]) /\ q \in Nat
  BY FS_CardinalityType DEF LimiterInv
<1>2. NewEntry(c).n = q
  BY DEF NewEntry
<1>3. \A e \in admitted[c] : e.n \in Nat /\ e.n < q
  BY DEF CostInv, LimiterInv, LimiterTypeOK, Entry
<1>4. NewEntry(c) \notin admitted[c]
  BY <1>1, <1>2, <1>3
<1>5. /\ admitted'[c] = admitted[c] \cup {NewEntry(c)}
      /\ \A d \in Clients : d # c => admitted'[d] = admitted[d]
  BY DEF allow, LimiterInv, LimiterTypeOK
<1>6. Cardinality(admitted'[c]) = q + 1
  BY <1>1, <1>4, <1>5, FS_AddElement
<1>7. \A e \in admitted'[c] : e.n < Cardinality(admitted'[c])
  <2> HIDE DEF q
  <2> QED BY <1>1, <1>2, <1>3, <1>5, <1>6
<1> QED BY <1>4, <1>5, <1>7 DEF CostInv

LEMMA AskCost ==
    ASSUME LoopInv, LimiterInv, CostInv, NEW s \in Slots, NEW c \in Clients, Ask(s, c), allow(c)
    PROVE  CostInv'
<1>1. spent' = spent /\ spent \in [Clients -> Nat]
  BY DEF Ask, CostInv
<1>2. \A d \in Clients : IsFiniteSet(admitted[d]) /\ Paid(spent[d], CallsLeft(chats, d), admitted[d])
  BY DEF LimiterInv, CostInv
<1>3. ASSUME NEW d \in Clients
      PROVE  /\ CallsLeft(chats', d) \in SUBSET (CallsLeft(chats, d) \cup ({s} \X Iterations))
             /\ d # c => CallsLeft(chats', d) \in SUBSET CallsLeft(chats, d)
  <2>1. CASE chats' = chats
    BY <2>1
  <2>2. ASSUME NEW contents,
               chats' = [chats EXCEPT ![s] = [pc |-> "model", client |-> c, i |-> 0,
                                              contents |-> contents]]
        PROVE  /\ CallsLeft(chats', d) \in SUBSET (CallsLeft(chats, d) \cup ({s} \X Iterations))
               /\ d # c => CallsLeft(chats', d) \in SUBSET CallsLeft(chats, d)
    <3> DEFINE new == [pc |-> "model", client |-> c, i |-> 0, contents |-> contents]
    <3>1. new.client = c
      OBVIOUS
    <3> HIDE DEF new
    <3> QED BY <2>2, <3>1, LeftGrows DEF new
  <2> QED BY <2>1, <2>2 DEF Ask
<1>4. Paid(spent[c], CallsLeft(chats', c), admitted'[c])
  <2> DEFINE e == NewEntry(c)
  <2>1. admitted'[c] = admitted[c] \cup {e} /\ e \notin admitted[c]
    BY EntryIsNew
  <2>2. spent[c] \in Nat
    BY <1>1
  <2>3. CallsLeft(chats', c) \in SUBSET (CallsLeft(chats, c) \cup ({s} \X Iterations))
    BY <1>3
  <2> HIDE DEF e
  <2>4. Paid(spent[c], CallsLeft(chats', c), admitted[c] \cup {e})
    BY <1>2, <2>1, <2>2, <2>3, PaidQuestion
  <2> QED BY <2>1, <2>4
<1>5. ASSUME NEW d \in Clients, d # c
      PROVE  Paid(spent[d], CallsLeft(chats', d), admitted'[d])
  BY <1>1, <1>2, <1>3, <1>5, EntryIsNew, PaidFewer
<1> QED BY <1>1, <1>4, <1>5, EntryIsNew DEF CostInv

LEMMA CallModelCost ==
    ASSUME LoopInv, LimiterInv, CostInv, NEW s \in Slots, CallModel(s)
    PROVE  CostInv'
<1> DEFINE c == chats[s].client
           i == chats[s].i
<1>1. /\ chats[s].pc = "model" /\ c \in Clients /\ i \in Iterations
      /\ spent' = [spent EXCEPT ![c] = @ + 1] /\ admitted' = admitted
  BY LoopCases, ChatAssumption DEF CallModel, limiterVars, LoopInv, Asking, Iterations
<1>2. PICK new : /\ chats' = [chats EXCEPT ![s] = new]
                 /\ \A k \in Iterations : Ahead(new, k) => k > i /\ new.client = c
  <2>1. CASE chats' = [chats EXCEPT ![s] = Idle]
    BY <2>1, LoopCases DEF Ahead
  <2>2. ASSUME NEW contents, NEW calls, NEW answers, NEW job,
               chats' = [chats EXCEPT ![s] = AtWork(c, i, contents, calls, answers, job)]
        PROVE  \E new : /\ chats' = [chats EXCEPT ![s] = new]
                        /\ \A k \in Iterations : Ahead(new, k) => k > i /\ new.client = c
    <3>1. PICK new : new = AtWork(c, i, contents, calls, answers, job)
      OBVIOUS
    <3>2. new.pc = "tools" /\ new.client = c /\ new.i = i
      BY <3>1 DEF AtWork
    <3> HIDE DEF c, i
    <3> QED BY <2>2, <3>1, <3>2 DEF Ahead
  <2>3. CASE \E calls \in Replies :
              chats' = [chats EXCEPT ![s] =
                  AtWork(c, i, Append(chats[s].contents,
                       Turn("model", [k \in DOMAIN calls |-> calls[k].name], <<>>)),
                   Tail(calls), <<>>, executeTool(Head(calls)))]
    BY <2>2, <2>3
  <2> QED BY <2>1, <2>3 DEF CallModel, AtWork, LoopInv
<1>3. ASSUME NEW d \in Clients
      PROVE  CallsLeft(chats', d) \in SUBSET CallsLeft(chats, d)
  <2>1. \A k \in Iterations : Ahead(new, k) => Ahead(chats[s], k) /\ new.client = c
    BY <1>1, <1>2 DEF Ahead, Iterations
  <2> QED BY <1>2, <2>1, LeftShrinks
<1>4. <<s, i>> \in CallsLeft(chats, c)
  BY <1>1 DEF CallsLeft, Ahead, Iterations
<1>5. <<s, i>> \notin CallsLeft(chats', c)
  <2>1. ~ Ahead(new, i)
    BY <1>1, <1>2 DEF Iterations
  <2> QED BY <1>1, <1>2, <2>1, LeftAfter
<1> HIDE DEF c, i
<1>6. \A d \in Clients : IsFiniteSet(admitted[d]) /\ Paid(spent[d], CallsLeft(chats, d), admitted[d])
  BY DEF LimiterInv, CostInv
<1>7. spent \in [Clients -> Nat]
  BY DEF CostInv
<1>8. spent'[c] = spent[c] + 1 /\ \A d \in Clients : d # c => spent'[d] = spent[d]
  BY <1>1, <1>7
<1>9. Paid(spent'[c], CallsLeft(chats', c), admitted'[c])
  <2>1. CallsLeft(chats', c) \in SUBSET (CallsLeft(chats, c) \ {<<s, i>>})
    BY <1>1, <1>3, <1>5
  <2> QED BY <1>1, <1>4, <1>6, <1>7, <1>8, <2>1, PaidCall
<1>10. ASSUME NEW d \in Clients, d # c
       PROVE  Paid(spent'[d], CallsLeft(chats', d), admitted'[d])
  BY <1>1, <1>3, <1>6, <1>7, <1>8, <1>10, PaidFewer
<1>11. spent' \in [Clients -> Nat]
  BY <1>1, <1>7
<1> QED BY <1>1, <1>9, <1>10, <1>11 DEF CostInv

LEMMA CostStep ==
    ASSUME LoopInv, LimiterInv, CostInv, [Next]_chatVars
    PROVE  CostInv'
<1>1. ASSUME UNCHANGED <<spent, admitted, chats>>
      PROVE  CostInv'
  BY <1>1 DEF CostInv
<1>2. ASSUME NEW s \in Slots, NEW new, chats' = [chats EXCEPT ![s] = new],
             UNCHANGED <<spent, admitted>>,
             \A k \in Iterations :
                 Ahead(new, k) => Ahead(chats[s], k) /\ new.client = chats[s].client
      PROVE  CostInv'
  <2>1. \A d \in Clients : IsFiniteSet(admitted[d]) /\ Paid(spent[d], CallsLeft(chats, d), admitted[d])
    BY DEF LimiterInv, CostInv
  <2>2. spent \in [Clients -> Nat]
    BY DEF CostInv
  <2>3. ASSUME NEW d \in Clients
        PROVE  Paid(spent'[d], CallsLeft(chats', d), admitted'[d])
    <3>1. CallsLeft(chats', d) \in SUBSET CallsLeft(chats, d)
      BY <1>2, LeftShrinks
    <3> QED BY <1>2, <2>1, <2>2, <3>1, PaidFewer
  <2> QED BY <1>2, <2>2, <2>3 DEF CostInv
<1>3. ASSUME NEW s \in Slots, NEW c \in Clients, Ask(s, c)
      PROVE  CostInv'
  BY <1>1, <1>3, AskCost DEF Ask, refuse
<1>4. ASSUME NEW s \in Slots, GiveUp(s)
      PROVE  CostInv'
  <2>1. \A k \in Iterations : ~ Ahead(Idle, k)
    BY LoopCases DEF Ahead
  <2> QED BY <1>2, <1>4, <2>1 DEF GiveUp, limiterVars
<1>5. ASSUME NEW s \in Slots, chats[s].pc = "tools", NEW new,
             chats' = [chats EXCEPT ![s] = new], UNCHANGED <<spent, admitted>>,
             new.client = chats[s].client,
             \/ new.pc = "tools" /\ new.i = chats[s].i
             \/ new.pc = "model" /\ new.i = chats[s].i + 1
      PROVE  CostInv'
  <2>1. chats[s].i \in Nat
    <3>1. AtTools(chats[s])
      BY <1>5, LoopCases DEF LoopInv
    <3>2. chats[s].i \in 0 .. maxToolIterations - 1
      BY <3>1 DEF AtTools
    <3> QED BY <3>2, ChatAssumption
  <2>2. \A k \in Iterations : Ahead(new, k) => Ahead(chats[s], k)
    BY <1>5, <2>1, ChatAssumption DEF Ahead, Iterations
  <2> QED BY <1>2, <1>5, <2>2
<1>6. ASSUME NEW s \in Slots, ToolStep(s)
      PROVE  CostInv'
  <2>1. PICK job : chats' = [chats EXCEPT ![s].job = job]
    BY <1>6 DEF ToolStep
  <2>2. AtTools(chats[s])
    BY <1>6, LoopCases DEF LoopInv, ToolStep
  <2>3. PICK new : new = [chats[s] EXCEPT !.job = job]
    OBVIOUS
  <2>4. new.pc = "tools" /\ new.client = chats[s].client /\ new.i = chats[s].i
    BY <2>2, <2>3 DEF AtTools
  <2>5. chats' = [chats EXCEPT ![s] = new]
    <3>1. chats' = [chats EXCEPT ![s] = [chats[s] EXCEPT !.job = job]]
      BY <2>1
    <3> QED BY <2>3, <3>1, Zenon
  <2> QED BY <1>5, <1>6, <2>4, <2>5 DEF ToolStep, limiterVars
<1>7. ASSUME NEW s \in Slots, FinishTool(s)
      PROVE  CostInv'
  <2> DEFINE c     == chats[s]
             given == Append(c.answers, buildFunctionResponsePart(c.job))
  <2>1. AtTools(c)
    BY <1>7, LoopCases DEF LoopInv, FinishTool
  <2>2. chats' = [chats EXCEPT ![s] = AfterTool(c, given)]
    BY <1>7 DEF FinishTool, LoopInv
  <2> HIDE DEF given
  <2>3. PICK new : new = AfterTool(c, given)
    OBVIOUS
  <2>4. CASE c.calls # <<>>
    <3>1. new = Proceeds(c, given, executeTool(Head(c.calls)))
      BY <2>3, <2>4 DEF AfterTool, Proceeds
    <3>2. c = AtWork(c.client, c.i, c.contents, c.calls, c.answers, c.job)
      BY <2>1 DEF AtTools, AtWork
    <3>3. new = AtWork(c.client, c.i, c.contents, Tail(c.calls), given, executeTool(Head(c.calls)))
      BY <3>1, <3>2, NextCall
    <3>4. new.pc = "tools" /\ new.client = c.client /\ new.i = c.i
      BY <3>3 DEF AtWork
    <3> QED BY <1>5, <1>7, <2>2, <2>3, <3>4 DEF FinishTool, limiterVars
  <2>5. CASE c.calls = <<>>
    <3>1. new.pc = "model" /\ new.client = c.client /\ new.i = c.i + 1
      BY <2>3, <2>5 DEF AfterTool
    <3> QED BY <1>5, <1>7, <2>2, <2>3, <3>1 DEF FinishTool, limiterVars
  <2> QED BY <2>4, <2>5
<1>8. Clock \/ UNCHANGED chatVars => UNCHANGED <<spent, admitted, chats>>
  BY DEF Clock, Tick, chatVars, limiterVars
<1> QED BY <1>1, <1>3, <1>4, <1>6, <1>7, <1>8, CallModelCost DEF Next, ChatStep

LEMMA CostInitially ==
    ASSUME Init
    PROVE  CostInv
<1>1. ASSUME NEW c \in Clients
      PROVE  /\ spent[c] = 0 /\ admitted[c] = {} /\ CallsLeft(chats, c) = {}
  <2>1. \A r \in Slots, k \in Iterations : ~ Ahead(chats[r], k)
    BY LoopCases DEF Init, Ahead
  <2> QED BY <2>1 DEF Init, LimiterInit, CallsLeft
<1>2. maxToolIterations * 0 = 0
  BY ChatAssumption
<1>3. \A c \in Clients : Paid(spent[c], CallsLeft(chats, c), admitted[c])
  BY <1>1, <1>2, FS_EmptySet DEF Paid
<1>4. spent \in [Clients -> Nat]
  BY DEF Init
<1> QED BY <1>1, <1>3, <1>4 DEF CostInv

\* However many questions are worked on at once, runChat makes no more than
\* maxToolIterations calls of the model for each question that allow let
\* through, for any number of clients and goroutines and any bound.
THEOREM CostSafe == Spec => []CostBounded
<1>1. Init => CostInv
  BY CostInitially
<1>2. LoopInv /\ LimiterInv /\ CostInv /\ [Next]_chatVars => CostInv'
  BY CostStep
<1>3. CostInv /\ LimiterInv => CostBounded
  <2> SUFFICES ASSUME CostInv, LimiterInv, NEW c \in Clients
               PROVE  spent[c] <= maxToolIterations * Cardinality(admitted[c])
    BY DEF CostBounded
  <2>1. IsFiniteSet(CallsLeft(chats, c)) /\ Cardinality(CallsLeft(chats, c)) \in Nat
    BY FS_CardinalityType DEF CostInv, Paid
  <2>2. maxToolIterations * Cardinality(admitted[c]) \in Nat /\ spent[c] \in Nat
    BY ChatAssumption, FS_CardinalityType DEF LimiterInv, CostInv
  <2>3. spent[c] + Cardinality(CallsLeft(chats, c)) <= maxToolIterations * Cardinality(admitted[c])
    BY DEF CostInv, Paid
  <2> QED BY <2>1, <2>2, <2>3
<1> QED BY <1>1, <1>2, <1>3, LimiterInvariant, LoopInvariant, PTL DEF Spec

=============================================================================
