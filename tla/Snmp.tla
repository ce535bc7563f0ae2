-------------------------------- MODULE Snmp --------------------------------
(***************************************************************************)
(* internal/snmp and internal/netutil, with the network they talk to.      *)
(* A device either accepts a login or it does not; a login is the SNMP     *)
(* version with the secret that version uses.  The SNMPv3 user, passphrases *)
(* and protocols act together, so they are one value, the v3 identity.     *)
(*                                                                         *)
(* This module also owns the two facts about the outside world that the    *)
(* other modules share: which logins each device accepts now, and whether  *)
(* the environment still disturbs the system (faults, crashes, requests).  *)
(***************************************************************************)
EXTENDS Crypto, Naturals, Sequences

CONSTANTS
    IPs,            \* addresses that occur on the network or in requests
    PublicIPs,      \* those netutil.IsPublic is true of
    Routes,         \* ip -> next hops in that device's routing table
    AcceptChoices,  \* sets of logins a device may be configured to accept
    Faults          \* the kinds of failure the environment may inject

VARIABLES
    accepts,        \* ip -> logins that device answers to at this moment
    calm            \* TRUE once the environment stops disturbing the system

netVars == <<accepts, calm>>

FaultKinds == {"crash", "db", "docker", "file", "gateway", "loss"}

Versions == {"v1", "v2c", "v3"}
Login    == [version : Versions, secret : Plain]

ASSUME SnmpAssumption ==
    /\ "" \notin IPs
    /\ PublicIPs \subseteq IPs
    /\ Routes \in [IPs -> SUBSET IPs]
    /\ AcceptChoices \subseteq SUBSET Login
    /\ Faults \subseteq FaultKinds
    /\ {"public", "private"} \subseteq Secrets

-----------------------------------------------------------------------------
\* The results an operation of this kind may have: with the fault enabled
\* it may fail, otherwise it succeeds.
Outcome(kind) == IF kind \in Faults /\ ~calm THEN BOOLEAN ELSE {TRUE}

IsPublic(ip) == ip \in PublicIPs

\* Plaintext credentials; version is a stored snmp_version or a request's.
Credentials(version, community, v3) ==
    [version |-> version, community |-> community, v3 |-> v3]

\* buildClient: which secret goes on the wire.
LoginOf(creds) ==
    [version |-> creds.version,
     secret  |-> IF creds.version = "v3" THEN creds.v3 ELSE creds.community]

\* buildClient refuses an unset or unknown version before anything is sent.
Answers(ip, creds) ==
    creds.version \in Versions /\ LoginOf(creds) \in accepts[ip]

\* snmp.Verify: one GET with one retry; every datagram may be lost.
Verify(ip, creds) == IF Answers(ip, creds) THEN Outcome("loss") ELSE {FALSE}

\* The well-known defaults, in the order ProbeDefaults tries them.
defaultCommunities ==
    << Credentials("v2c", "public", ""),
       Credentials("v2c", "private", ""),
       Credentials("v1", "public", "") >>

\* snmp.WalkRouteNextHops: distinct, non-zero next hops.  The walk fails
\* like a GET does, and returns nothing then.
WalkRouteNextHops(ip) == Routes[ip]

-----------------------------------------------------------------------------
NetInit ==
    /\ accepts \in [IPs -> AcceptChoices]
    /\ calm = FALSE

\* Somebody reconfigures, unplugs or repairs a device.
Reconfigure(ip) ==
    /\ ~calm
    /\ \E logins \in AcceptChoices :
           /\ logins # accepts[ip]
           /\ accepts' = [accepts EXCEPT ![ip] = logins]
    /\ UNCHANGED calm

Calm ==
    /\ ~calm
    /\ calm' = TRUE
    /\ UNCHANGED accepts

NetTypeOK ==
    /\ accepts \in [IPs -> SUBSET Login]
    /\ calm \in BOOLEAN
=============================================================================
