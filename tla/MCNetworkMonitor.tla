-------------------------- MODULE MCNetworkMonitor --------------------------
(***************************************************************************)
(* Small instances of NetworkMonitor for TLC: what the devices on the      *)
(* network accept, their routing tables, and the bodies of requests.       *)
(***************************************************************************)
EXTENDS NetworkMonitor, TLC

\* Requests are interchangeable (used where no liveness is checked).
SlotSymmetry == Permutations(Slots)

-----------------------------------------------------------------------------
On(v, s) == [version |-> v, secret |-> s]

DefaultOnly   == {{On("v2c", "public")}}
DefaultOrDown == {{}, {On("v2c", "public")}}
DefaultOrOwn  == {{On("v2c", "public")}, {On("v2c", "private")}}
DefaultOrV3   == {{On("v2c", "public")}, {On("v3", "private")}}

-----------------------------------------------------------------------------
NoRoutes  == [ip \in IPs |-> {}]
FullMesh  == [ip \in IPs |-> IPs]

\* The gateway knows two neighbours, and behind one of them is a third.
RoutesTree ==
    [gw |-> {"lan", "lan2"}, lan |-> {"gw", "lan3"}, lan2 |-> {"gw"}, lan3 |-> {"lan"}]

-----------------------------------------------------------------------------
Body(ip, version, community, v3) ==
    [ip |-> ip, hostname |-> "", snmp_version |-> version, community |-> community, v3 |-> v3]

PostLan  == {Body("lan", "v2c", "public", "")}
PostGw   == {Body("gw", "v2c", "public", "")}
PostV3   == {Body("gw", "v3", "", "private")}
PostBoth == PostLan \cup {Body("gw", "v2c", "private", "")}

\* With credentials, without, and two that are refused.
PostMix  == PostV3 \cup {Body("gw", "", "", ""), Body("gw", "other", "public", ""),
                         Body("", "v2c", "public", "")}

PatchCreds   == {[snmp_version |-> "v2c", community |-> "private"]}
PatchNull    == {[hostname |-> Null]}
PatchCleared == {[snmp_version |-> ""]}

\* New credentials, an explicit status, a value the table refuses, and no
\* known field at all.
PatchMix == {[snmp_version |-> "v3", v3 |-> "private"], [status |-> "pending"],
             [status |-> "other"], <<>>}
=============================================================================
