----------------------------- MODULE MCChatApi ------------------------------
(***************************************************************************)
(* Small instances of ChatApi for TLC: devices, what they report, and what *)
(* the language model asks for.                                            *)
(***************************************************************************)
EXTENDS ChatApi

Dev(name, address) == [hostname |-> name, ip |-> <<address>>]

\* What config-api returns at different times: names that begin alike, a
\* name that is the beginning of another, and devices a sweep has found,
\* which have no name.
R1Only  == {<<Dev(<<"r1", "lab">>, "10.0.0.1")>>}
SomeFleets ==
    {<<Dev(<<"r1", "lab">>, "10.0.0.1"), Dev(<<"r2", "lab">>, "10.0.0.2"), Dev(<<>>, "10.0.0.3")>>,
     <<Dev(<<"r1", "dc">>, "10.0.0.3"), Dev(<<"r1">>, "10.0.0.2"), Dev(<<"r1", "lab">>, "10.0.0.1")>>,
     <<Dev(<<"r1", "dc">>, "10.0.0.3"), Dev(<<"r1", "lab">>, "10.0.0.1")>>}

SomeSubNames == {{}, {<<>>, <<"gi", "0">>, <<"gi", "1">>}, {<<"gi", "0">>, <<"gi", "0", "0">>}}

\* What was really counted, sample by sample: every series of up to three
\* samples, beginning anywhere and growing by anything below a wrap.
FewReadings == {<<2>>}
AllReadings ==
    {<<>>} \cup {<<a>> : a \in 0 .. Wrap - 1}
           \cup {<<a, a + b>> : a, b \in 0 .. Wrap - 1}
           \cup {<<a, a + b, a + b + c>> : a, b, c \in 0 .. Wrap - 1}

SomeTrapLogs == {<<>>, <<1, 30, 71>>}

-----------------------------------------------------------------------------
Asks(history) == [valid |-> TRUE, question |-> TRUE, history |-> history]

PlainBody  == {Asks(<<>>)}
SomeBodies == {Asks(<<>>), Asks(<<"assistant", "user", "assistant">>),
               [valid |-> FALSE, question |-> FALSE, history |-> <<>>],
               [valid |-> TRUE, question |-> FALSE, history |-> <<>>]}

-----------------------------------------------------------------------------
Call(name, args) == [name |-> name, args |-> args]

Metric(device, table, column, aggregation, hours) ==
    Call("query_metric", [device |-> device, table |-> table, column |-> column,
                          aggregation |-> aggregation, hours |-> hours])

With(call, key, value) == [call EXCEPT !.args = (key :> value) @@ @]

List  == Call("list_devices", <<>>)
Cpu   == Metric(<<"r1">>, "cpu", "cpu1min", "avg", 24)
Traps == Call("get_recent_traps", [hours |-> 24])

\* One function, several in one reply, and one that does not exist.
FewReplies == {<<List>>, <<Call("reboot", <<>>), Traps>>}
CpuReplies == {<<Cpu>>}

\* Every tool, with references that fit none, one or several devices, every
\* kind of column and aggregation, and arguments that are missing or wrong.
ManyCalls ==
    {List, Cpu, Traps, Call("get_recent_traps", <<>>), Call("reboot", <<>>)} \cup
    {Metric(ref, "cpu", "cpu5min", "current", 72)
        : ref \in {<<"10.0.0.3">>, <<"r2">>, <<"r1", "dc">>, <<"r9">>}} \cup
    {Metric(<<"10.0.0.1">>, "cpu", "cpu5sec", "history", hours) : hours \in {0, 73}} \cup
    {Metric(<<"10.0.0.1">>, "memory", "ciscoMemoryPoolUsed", a, 1)
        : a \in {"max", "rate", "count_above_threshold", "median"}} \cup
    {With(Metric(<<"10.0.0.1">>, "interface", c, a, 1), "sub_filter", <<"0">>)
        : c \in {"ifInOctets", "ifSpeed"}, a \in {"rate", "min"}} \cup
    {With(Cpu, "threshold", 80), Metric(<<"r1">>, "disk", "free", "avg", 1),
     With(With(Cpu, "aggregation", "count_above_threshold"), "threshold", 80),
     Metric(<<"10.0.0.1">>, "interface", "ifOperStatus", "current", 1),
     Call("query_metric", [table |-> "cpu", column |-> "cpu1min", aggregation |-> "avg", hours |-> 1])} \cup
    {Call("rank_devices", [table |-> t[1], column |-> t[2], hours |-> 24])
        : t \in {<<"cpu", "cpu1min">>, <<"memory", "ciscoMemoryPoolFree">>,
                 <<"interface", "ifInOctets">>, <<"cpu", "load">>}} \cup
    {Call("rank_devices", [table |-> "cpu", column |-> "cpu1min"])}

ManyReplies == {<<c>> : c \in ManyCalls}
=============================================================================
