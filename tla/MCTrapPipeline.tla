--------------------------- MODULE MCTrapPipeline ---------------------------
(***************************************************************************)
(* A small instance of TrapPipeline for TLC: two devices with communities  *)
(* of their own behind a router that rewrites the addresses of datagrams.  *)
(***************************************************************************)
EXTENDS TrapPipeline

On(v, s)    == [version |-> v, secret |-> s]
DefaultOnly == {{On("v2c", "public")}}
NoRoutes    == [ip \in IPs |-> {}]

-----------------------------------------------------------------------------
Var(name, value) == [name |-> name, value |-> value]

V1(sender, agent, community, generic, enterprise, specific, event, vars, interface) ==
    [version |-> "v1", source |-> "gw", agent |-> agent, community |-> community,
     generic |-> generic, enterprise |-> enterprise, specific |-> specific, vars |-> vars,
     sender |-> sender, event |-> event, interface |-> interface]

V2(sender, community, event, vars, interface) ==
    [version |-> "v2c", source |-> "gw", agent |-> "", community |-> community,
     generic |-> 0, enterprise |-> <<>>, specific |-> 0, vars |-> vars,
     sender |-> sender, event |-> event, interface |-> interface]

SomePackets ==
    {\* a v1 LinkDown with description and index
     V1("gw", "gw", "public", 2, <<>>, 0, "LinkDown",
        <<Var("ifIndex", "if1"), Var("ifDescr", "gi0")>>, "gi0"),
     \* a v1 trap of the vendor's, under a failover address nobody registered
     V1("lan", "failover", "private", 6, <<"ciscoConfigManMIB.2">>, 2, "ConfigChanged", <<>>, ""),
     \* v2c, with an index only
     V2("lan", "private", "LinkUp",
        <<Var("snmpTrapOID", <<"snmpTraps", 4>>), Var("ifDescr", ""), Var("ifIndex", "if2")>>, "if2"),
     \* v2c, anonymous and without an event
     V2("lan", "", "other", <<>>, "")}

-----------------------------------------------------------------------------
Dev(ip, name, community) ==
    [ip |-> ip, hostname |-> name, snmp_version |-> "v2c", community |-> community,
     v3 |-> Encrypt("k1", ""), status |-> "active", is_public_ip |-> FALSE,
     discovered_via |-> "manual"]

\* Left behind by an earlier run: both devices, or the gateway with a
\* community of another key or none, in front of the other.
SomeTables ==
    {{[id |-> 1, d |-> Dev("gw", "named", c)], [id |-> 2, d |-> Dev("lan", "named", Encrypt("k1", "private"))]}
        : c \in {Encrypt("k1", "public"), Encrypt("k2", "public"), Encrypt("k1", "")}}

\* A null name (the row can no longer be scanned), and a null community.
PatchSome == {[hostname |-> Null], [community |-> Null, status |-> "active"]}
=============================================================================
