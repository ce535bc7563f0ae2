------------------------------ MODULE ChatApi -------------------------------
(***************************************************************************)
(* chat-api: a question is answered by a loop of calls to the language     *)
(* model and of the tools it asks for.  Every question is a goroutine; it  *)
(* shares nothing with the others but the rate limiter.  Calls to the      *)
(* model, to config-api and to InfluxDB are steps and may fail.            *)
(*                                                                         *)
(* Of a transcript the properties need who speaks, which functions a turn  *)
(* of the model calls, and what each of them is answered; text is left out. *)
(***************************************************************************)
EXTENDS RateLimiter, MetricTools

CONSTANTS
    Slots,              \* request goroutines
    Bodies,             \* bodies of POST /chat
    Replies,            \* the function calls a reply of the model may contain, if any
    maxToolIterations,  \* 8
    maxHistoryTurns     \* 20

VARIABLES
    chats,              \* slot -> the question it works on
    spent               \* client -> calls of the model so far (history variable)

chatVars == <<limiterVars, chats, spent>>

ASSUME ChatAssumption ==
    /\ maxToolIterations \in Nat \ {0}
    /\ maxHistoryTurns \in Nat
    /\ Bodies \subseteq [valid : BOOLEAN, question : BOOLEAN, history : Seq({"user", "assistant"})]
    /\ \A calls \in Replies : calls \in Seq(Range(calls)) /\ calls # <<>>

Idle == [pc |-> "idle"]

-----------------------------------------------------------------------------
\* A turn of the transcript: functions called and functions answered.
Turn(role, calls, answers) == [role |-> role, calls |-> calls, answers |-> answers]

\* handle's cut: the last maxHistoryTurns turns.
Trimmed(history) ==
    IF Len(history) > maxHistoryTurns
    THEN SubSeq(history, Len(history) - maxHistoryTurns + 1, Len(history))
    ELSE history

buildInitialContents(history) ==
    Append([k \in DOMAIN history |->
               Turn(IF history[k] = "user" THEN "user" ELSE "model", <<>>, <<>>)],
           Turn("user", <<>>, <<>>))

\* What goes back to the model for a tool that has ended: an error wraps the
\* (empty) result, an object is passed through, anything else is wrapped.
buildFunctionResponsePart(job) ==
    [name |-> job.call.name,
     key  |-> IF ~job.ok THEN "error" ELSE IF job.result = "object" THEN "" ELSE "result",
     text |-> job.result]

-----------------------------------------------------------------------------
\* handle: the rate limiter first, then the body, then the loop.
Ask(s, c) ==
    /\ chats[s] = Idle
    /\ \/ /\ allow(c)
          /\ \E body \in Bodies :
                 chats' = IF body.valid /\ body.question
                          THEN [chats EXCEPT ![s] =
                                   [pc |-> "model", client |-> c, i |-> 0,
                                    contents |-> buildInitialContents(Trimmed(body.history))]]
                          ELSE chats
       \/ refuse(c) /\ UNCHANGED chats
    /\ UNCHANGED spent

Bug_OneCallMore(s) ==
    /\ chats[s].pc = "model" /\ chats[s].i <= maxToolIterations
    /\ spent' = [spent EXCEPT ![chats[s].client] = @ + 1]
    /\ \/ chats' = [chats EXCEPT ![s] = Idle]
       \/ \E calls \in Replies :
              chats' = [chats EXCEPT ![s] =
                  [pc |-> "tools", client |-> @.client, i |-> @.i,
                   contents |-> Append(@.contents,
                       Turn("model", [k \in DOMAIN calls |-> calls[k].name], <<>>)),
                   calls |-> Tail(calls), answers |-> <<>>,
                   job |-> executeTool(Head(calls))]]
    /\ UNCHANGED limiterVars

\* runChat: one call of the model.  An error, or a reply without function
\* calls, ends the request.
CallModel(s) ==
    /\ chats[s].pc = "model" /\ chats[s].i < maxToolIterations
    /\ spent' = [spent EXCEPT ![chats[s].client] = @ + 1]
    /\ \/ chats' = [chats EXCEPT ![s] = Idle]
       \/ \E calls \in Replies :
              chats' = [chats EXCEPT ![s] =
                  [pc |-> "tools", client |-> @.client, i |-> @.i,
                   contents |-> Append(@.contents,
                       Turn("model", [k \in DOMAIN calls |-> calls[k].name], <<>>)),
                   calls |-> Tail(calls), answers |-> <<>>,
                   job |-> executeTool(Head(calls))]]
    /\ UNCHANGED limiterVars

Bug_NoWayOut(s) ==
    /\ chats[s].pc = "model" /\ chats[s].i = maxToolIterations
    /\ UNCHANGED chatVars

\* The loop's bound: the request ends with an error.
GiveUp(s) ==
    /\ chats[s].pc = "model" /\ chats[s].i = maxToolIterations
    /\ chats' = [chats EXCEPT ![s] = Idle]
    /\ UNCHANGED <<limiterVars, spent>>

\* The running tool gets an answer from config-api or InfluxDB.
ToolStep(s) ==
    /\ chats[s].pc = "tools" /\ chats[s].job.pc # "done"
    /\ \E job \in steps(chats[s].job) : chats' = [chats EXCEPT ![s].job = job]
    /\ UNCHANGED <<limiterVars, spent>>

Bug_SameCallAgain(chat, answers) ==
    IF chat.calls # <<>>
    THEN [chat EXCEPT !.answers = answers, !.job = executeTool(Head(chat.calls))]
    ELSE [pc |-> "model", client |-> chat.client, i |-> chat.i + 1,
          contents |-> Append(chat.contents, Turn("function", <<>>, answers))]

\* Where the request goes on with these answers to the calls made so far.
AfterTool(chat, answers) ==
    IF chat.calls # <<>>
    THEN [chat EXCEPT !.answers = answers, !.calls = Tail(@), !.job = executeTool(Head(chat.calls))]
    ELSE [pc |-> "model", client |-> chat.client, i |-> chat.i + 1,
          contents |-> Append(chat.contents, Turn("function", <<>>, answers))]

Bug_ErrorSkipped(s) ==
    /\ chats[s].pc = "tools" /\ chats[s].job.pc = "done"
    /\ LET chat == chats[s]
       IN  chats' = [chats EXCEPT ![s] = AfterTool(chat,
                        IF chat.job.ok THEN Append(chat.answers, buildFunctionResponsePart(chat.job))
                        ELSE chat.answers)]
    /\ UNCHANGED <<limiterVars, spent>>

\* A tool has ended: its answer is kept, and the next one starts, or all the
\* answers go to the model.
FinishTool(s) ==
    /\ chats[s].pc = "tools" /\ chats[s].job.pc = "done"
    /\ chats' = [chats EXCEPT ![s] =
           AfterTool(@, Append(@.answers, buildFunctionResponsePart(@.job)))]
    /\ UNCHANGED <<limiterVars, spent>>

\* The clock, seen by the rate limiter only.
Clock == Tick /\ UNCHANGED <<chats, spent>>

-----------------------------------------------------------------------------
Init ==
    /\ LimiterInit
    /\ chats = [s \in Slots |-> Idle]
    /\ spent = [c \in Clients |-> 0]

ChatStep(s) == CallModel(s) \/ GiveUp(s) \/ ToolStep(s) \/ FinishTool(s)

Next ==
    \/ \E s \in Slots, c \in Clients : Ask(s, c)
    \/ \E s \in Slots : ChatStep(s)
    \/ Clock

Spec == Init /\ [][Next]_chatVars

\* Every request over HTTP has a timeout (60, 15 and 10 seconds), so a
\* question goes on to its next step; nothing is assumed of new questions.
FairSpec == Spec /\ \A s \in Slots : WF_chatVars(ChatStep(s))

-----------------------------------------------------------------------------
\* Every question is answered, or refused with an error, whatever the model
\* replies: it may ask for tools for ever, and tools may fail.
EveryQuestionAnswered == \A s \in Slots : chats[s] # Idle ~> chats[s] = Idle

\* What is left to do for a question, the weightiest first: calls of the
\* model and rounds of tools, functions not begun, stages of the running
\* tool, devices it has still to ask about.
Stage(job) ==
    CASE job.pc = "list"                      -> 3
      [] job.pc = "sub"                       -> 2
      [] job.pc \in {"query", "rank", "traps"} -> 1
      [] OTHER                                -> 0

Left(chat) ==
    LET rounds == 2 * (maxToolIterations - chat.i)
    IN  IF chat.pc = "model" THEN <<rounds + 1, 0, 0, 0>>
        ELSE <<rounds, Len(chat.calls), Stage(chat.job),
               IF chat.job.pc = "rank" THEN Len(chat.job.todo) ELSE 0>>

Less(a, b) ==
    /\ \A k \in 1 .. 4 : a[k] >= 0
    /\ \E k \in 1 .. 4 : a[k] < b[k] /\ \A m \in 1 .. 4 : m < k => a[m] = b[m]

\* Every step of a question brings it nearer to its end, whatever the model
\* replies and whichever tools fail: no order of rounds, functions and
\* devices goes round in a circle, and nothing is counted below zero.
QuestionsProgress ==
    [][\A s \in Slots : chats[s] # Idle =>
           chats'[s] \in {chats[s], Idle} \/ Less(Left(chats'[s]), Left(chats[s]))
      ]_chatVars

\* What questions cost: however many are worked on at once, a client has
\* caused at most maxToolIterations calls of the model per question the
\* limiter let through.
CostBounded ==
    \A c \in Clients : spent[c] <= maxToolIterations * Cardinality(admitted[c])

\* The first n turns are a conversation with i rounds of tools: a bounded
\* history, then the question, then turns of the model that call functions
\* and turns that answer them in alternation, every call answered once, in
\* its place and by the function that was called.
Conversation(contents, n, i) ==
    LET question == n - 2 * i
    IN  /\ question \in 1 .. maxHistoryTurns + 1
        /\ contents[question].role = "user"
        /\ \A k \in 1 .. question : contents[k].calls = <<>> /\ contents[k].answers = <<>>
        /\ \A k \in 1 .. i :
               LET asked == contents[question + 2 * k - 1]
                   given == contents[question + 2 * k]
               IN  /\ asked.role = "model" /\ asked.calls # <<>> /\ asked.answers = <<>>
                   /\ given.role = "function" /\ given.calls = <<>>
                   /\ asked.calls = [m \in DOMAIN given.answers |-> given.answers[m].name]

\* What the model is sent is a conversation from its first turn to its last;
\* failed tools and several calls in one reply make no difference.
TranscriptWellFormed ==
    \A s \in Slots : chats[s].pc = "model" =>
        Conversation(chats[s].contents, Len(chats[s].contents), chats[s].i)

-----------------------------------------------------------------------------
Running == {chats[s].job : s \in {s \in Slots : chats[s].pc = "tools"}}

QueriesOf(job) ==
    IF job.pc = "query" THEN {job.q}
    ELSE IF job.pc = "rank" /\ job.todo # <<>> THEN RankQueries(job.call, Head(job.todo))
    ELSE {}

SafeQuery(q) ==
    /\ Known(q.table, q.column)
    /\ \E d \in FleetDevices : d.ip = q.host
    /\ q.hours > 0 /\ q.hours <= maxQueryHours
    /\ LET mc == metricWhitelist[q.table][q.column]
       IN  /\ mc.sub # "" => q.sub # <<>>
           /\ q.aggregation = "rate" => mc.kind = "counter"
           /\ mc.kind = "counter" => q.aggregation \in {"current", "history", "rate"}

\* resolveSubFilter's own query, which is over maxQueryHours.
SafeLookup(args, dev) ==
    Known(args.table, args.column) /\ Column(args).sub # "" /\ dev \in FleetDevices

\* What reaches InfluxDB, whatever the model asks for: a column of the
\* whitelist, a device of config-api's list, a bounded time range, one row
\* per poll (a table with several is narrowed to one of them), and an
\* aggregation that means something for the column.  The names of interfaces
\* and pools are asked for only of a listed device and of a table that has
\* them.
QueriesAreSafe ==
    \A job \in Running :
        /\ \A q \in QueriesOf(job) : SafeQuery(q)
        /\ job.pc = "sub" => SafeLookup(job.call.args, job.dev)

\* A reference means one device for as long as that device is listed.  When
\* a call has been about a device, then in any list that config-api returns
\* before or after and that has the device too, whoever was added, deleted or
\* renamed and in whatever order they come, the same reference leads to it, or
\* to nobody, or to a device whose whole address or name it is: a look-alike
\* never takes its place.
ReferenceKept ==
    \A job \in Running : job.pc = "query" =>
        LET ref == inputString(job.call.args, "device", <<>>)
        IN  \E d \in Range(job.devices) :
                /\ d.ip = job.q.host
                /\ \A list \in {f \in Fleets : d \in Range(f)} :
                       \A e \in resolveDevice(list, ref) : e.ip = d.ip \/ ref \in {e.ip, e.hostname}

\* A ranking is what was found, highest first.
RankingSorted ==
    \A job \in Running : (job.pc = "done" /\ job.ok /\ job.call.name = "rank_devices") =>
        /\ ToBag(job.data.ranking) = ToBag(job.data.found)
        /\ IsSorted(job.data.ranking, LAMBDA a, b : a.value >= b.value)

\* The total of a rate is what really went through the interface between the
\* first and the last sample, wherever the counter stood and wrapped.
RateTotalTrue ==
    \A job \in Running :
        (job.pc = "done" /\ job.ok /\ job.call.name = "query_metric" /\ job.data.q.aggregation = "rate") =>
            job.data.reading = <<>> \/
            job.data.rows.total_bytes = Last(job.data.reading) - Head(job.data.reading)

-----------------------------------------------------------------------------
\* influx.go passes an error's text on "so the tool_result the model sees is
\* actually informative", and gemini.go wraps "plain error text" so that "the
\* model still sees it".
ToolErrorsReachModel ==
    \A s \in Slots : chats[s].pc = "model" =>
        \A k \in DOMAIN chats[s].contents :
            \A n \in DOMAIN chats[s].contents[k].answers :
                chats[s].contents[k].answers[n].key = "error"
                    => chats[s].contents[k].answers[n].text # ""
=============================================================================
