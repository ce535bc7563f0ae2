---------------------------- MODULE TrapPipeline ----------------------------
(***************************************************************************)
(* Traps: trap-receiver writes them to traps.db, config-api reads them and *)
(* says which registered device sent them.  Both processes open traps.db,  *)
(* and both bring a table of an older version up to date when they do, one *)
(* statement at a time and in any order.                                   *)
(*                                                                         *)
(* Datagrams get lost, duplicated and reordered, and come through address  *)
(* translation; any packet of Packets may arrive at any moment, any number *)
(* of times.  Each carries what really happened: the sender and the event. *)
(* OIDs are sequences of their parts, in the normal form TrapName gives    *)
(* them; a name that stands for several arcs is one part.                  *)
(***************************************************************************)
EXTENDS ConfigApi, FiniteSetsExt

CONSTANTS
    Packets,        \* traps devices send
    Tables,         \* devices tables an earlier run may have left behind
    MaxTraps,       \* rows of traps.db modelled
    ReadLimits      \* values of ?limit=

VARIABLES
    columns,        \* the columns of the table traps; {} when there is none
    traps,          \* its rows, in the order of their ids
    opening,        \* process -> the statement of OpenTrapsDB it is at
    reader          \* a GET /traps/readable in progress

trapVars == <<columns, traps, opening, reader>>

Processes  == {"receiver", "api"}
NewColumns == <<"community", "agent_address">>
Current    == {"base", "community", "agent_address"}

ASSUME TrapAssumption ==
    /\ MaxTraps \in Nat
    /\ ReadLimits \subseteq Nat
    /\ \A t \in Tables : t \subseteq Row

-----------------------------------------------------------------------------
(***************************************************************************)
(* OpenTrapsDB: CREATE TABLE IF NOT EXISTS, then an ALTER TABLE per column *)
(* that older tables lack.  An error ends the process, and docker starts   *)
(* it again.                                                               *)
(***************************************************************************)
CreateTable(p) ==
    /\ opening[p] = "create"
    /\ \E ok \in Outcome("db") :
           IF ok
           THEN /\ columns' = IF columns = {} THEN Current ELSE columns
                /\ opening' = [opening EXCEPT ![p] = "community"]
           ELSE UNCHANGED <<columns, opening>>
    /\ UNCHANGED <<traps, reader>>

AfterColumn(c) == IF c = "community" THEN "agent_address" ELSE "serving"

Bug_DuplicateEndsMigration(p, c) ==
    /\ opening[p] = c
    /\ \E ok \in Outcome("db") :
           /\ columns' = IF ok THEN columns \cup {c} ELSE columns
           /\ opening' = [opening EXCEPT ![p] =
                  IF ~ok THEN "create" ELSE IF c \in columns THEN "serving" ELSE AfterColumn(c)]
    /\ UNCHANGED <<traps, reader>>

Bug_DuplicateIsFatal(p, c) ==
    /\ opening[p] = c
    /\ \E ok \in Outcome("db") :
           /\ columns' = IF ok THEN columns \cup {c} ELSE columns
           /\ opening' = [opening EXCEPT ![p] =
                  IF ~ok \/ c \in columns THEN "create" ELSE AfterColumn(c)]
    /\ UNCHANGED <<traps, reader>>

\* ALTER TABLE; that the column is there already is an error to be ignored.
AddColumn(p, c) ==
    /\ opening[p] = c
    /\ \E ok \in Outcome("db") :
           /\ columns' = IF ok THEN columns \cup {c} ELSE columns
           /\ opening' = [opening EXCEPT ![p] = IF ok THEN AfterColumn(c) ELSE "create"]
    /\ UNCHANGED <<traps, reader>>

OpenTrapsDB(p) == CreateTable(p) \/ \E k \in DOMAIN NewColumns : AddColumn(p, NewColumns[k])

-----------------------------------------------------------------------------
\* SNMPv1's generic trap numbers under SNMPv2-MIB.
genericTrapOID(generic) == <<"snmpTraps", generic + 1>>

\* The event's OID: from the header of a v1 trap, otherwise from the varbind
\* snmpTrapOID.0, if there is one.
extractTrapOID(p) ==
    LET named == {k \in DOMAIN p.vars : p.vars[k].name = "snmpTrapOID"}
    IN  IF p.version = "v1"
        THEN IF p.generic \in 0 .. 5 THEN genericTrapOID(p.generic)
             ELSE Append(p.enterprise, p.specific)
        ELSE IF named # {} THEN p.vars[Min(named)].value ELSE <<>>

Bug_AgentOfAnyVersion(p) ==
    [oid |-> extractTrapOID(p), community |-> p.community, vars |-> p.vars,
     agent_address |-> p.source, from |-> p]

\* newTrapHandler's row.  from is what the row stands for.
TrapRow(p) ==
    [oid |-> extractTrapOID(p), community |-> p.community, vars |-> p.vars,
     agent_address |-> IF p.version = "v1" THEN p.agent ELSE "", from |-> p]

\* A trap arrives; a failed INSERT is logged and the trap is lost.
TrapArrives(p) ==
    /\ opening["receiver"] = "serving"
    /\ Len(traps) < MaxTraps
    /\ Current \subseteq columns
    /\ traps' = Append(traps, TrapRow(p))
    /\ UNCHANGED <<columns, opening, reader>>

ReceiverCrash ==
    /\ "crash" \in Faults /\ ~calm
    /\ opening' = [opening EXCEPT !["receiver"] = "create"]
    /\ UNCHANGED <<columns, traps, reader>>

-----------------------------------------------------------------------------
trapNames(oid) ==
    CASE Len(oid) = 2 /\ oid[1] = "snmpTraps" /\ oid[2] \in 1 .. 6 ->
             <<"ColdStart", "WarmStart", "LinkDown", "LinkUp", "AuthenticationFailure",
               "EgpNeighborLoss">>[oid[2]]
      [] Len(oid) = 3 /\ oid[1] = "ciscoConfigManMIB.2" /\ oid[2] = 0 /\ oid[3] \in 1 .. 3 ->
             <<"ConfigManEvent", "ConfigChanged", "ConfigCTIDRolledOver">>[oid[3]]
      [] OTHER -> "?"

\* snmp.TrapName, with "?" for an OID that is shown as it is.
TrapName(oid) == trapNames(oid)

\* The interface's description, else its index, the last one given.
extractInterface(vars) ==
    LET descr == {k \in DOMAIN vars : vars[k].name = "ifDescr" /\ vars[k].value # ""}
        index == {k \in DOMAIN vars : vars[k].name = "ifIndex"}
    IN  IF descr # {} THEN vars[Min(descr)].value
        ELSE IF index # {} THEN vars[Max(index)].value
        ELSE ""

\* TrapStore.List: the newest rows; a limit of 0 or less is 100.
Newest(limit) ==
    LET n == IF limit = 0 THEN 100 ELSE limit
    IN  [k \in 1 .. (IF Len(traps) < n THEN Len(traps) ELSE n) |-> traps[Len(traps) + 1 - k]]

\* The reader about to look for the sender of the first trap of todo.
\* settled: nothing has been able to interfere since the read began.
Resolving(todo, out, settled) ==
    [pc |-> IF todo = <<>> THEN "idle" ELSE "byIP", todo |-> todo, out |-> out,
     settled |-> settled]

NoReader == Resolving(<<>>, <<>>, FALSE)

ListTraps(limit) ==
    /\ opening["api"] = "serving"
    /\ reader.pc = "idle"
    /\ Current \subseteq columns
    /\ reader' = Resolving(Newest(limit), <<>>, calm /\ \A s \in Slots : handlers[s] = Idle)
    /\ UNCHANGED <<columns, traps, opening>>

\* A device is shown under its name; here its address, if it has a name.
ShownAs(d) == IF d.hostname = "" THEN "" ELSE d.ip

Entry(t, device) ==
    [name |-> TrapName(t.oid), device |-> device, interface |-> extractInterface(t.vars),
     trap |-> t]

Shows(device) ==
    reader' = Resolving(Tail(reader.todo), Append(reader.out, Entry(Head(reader.todo), device)),
                        reader.settled)

\* resolveDevice, first by the address the trap carries.
ResolveByIP ==
    /\ reader.pc = "byIP"
    /\ LET found == {r \in RowsWithIP(Head(reader.todo).agent_address) : Scannable(r.d)}
       IN  \/ \E r \in found : Shows(ShownAs(r.d))
           \/ /\ found = {} \/ FALSE \in Outcome("db")
              /\ IF Head(reader.todo).community = ""
                 THEN Shows("")
                 ELSE reader' = [reader EXCEPT !.pc = "byCommunity"]
    /\ UNCHANGED <<columns, traps, opening>>

Bug_StopsAtUnreadable(community) ==
    LET upTo(r) == {q \in devices : q.id <= r.id}
    IN  {r \in devices : /\ r.d.community = Encrypt(apiKey, community)
                         /\ \A q \in upTo(r) : Decrypts(apiKey, q.d.community)
                         /\ \A q \in upTo(r) : q # r => q.d.community # r.d.community}

\* The first row whose community, decrypted, is this one; a row without a
\* community or with one that does not decrypt is passed over.
MatchCommunity(community) ==
    LET same == {r \in devices : /\ Decrypts(apiKey, r.d.community)
                                 /\ Decrypt(apiKey, r.d.community) = community}
    IN  {r \in same : \A q \in same : r.id <= q.id}

\* resolveDevice, then by the community.  A listing that fails shows nothing.
ResolveByCommunity ==
    /\ reader.pc = "byCommunity"
    /\ LET found == MatchCommunity(Head(reader.todo).community)
       IN  \/ ~ListFails(devices) /\ \E r \in found : Shows(ShownAs(r.d))
           \/ /\ found = {} \/ ListFails(devices) \/ FALSE \in Outcome("db")
              /\ Shows("")
    /\ UNCHANGED <<columns, traps, opening>>

ReadStep == ResolveByIP \/ ResolveByCommunity

-----------------------------------------------------------------------------
(***************************************************************************)
(* What a packet says of what happened, by the documents devices follow;   *)
(* none of it is about what this code makes of the packet.                 *)
(***************************************************************************)
\* The generic traps 0 to 5 of SNMPv1 (RFC 1157).
GenericTraps == <<"ColdStart", "WarmStart", "LinkDown", "LinkUp", "AuthenticationFailure",
                  "EgpNeighborLoss">>

\* The OIDs that SNMPv2-MIB and CISCO-CONFIG-MAN-MIB give to events.
MibOID ==
    [ColdStart             |-> <<"snmpTraps", 1>>,
     WarmStart             |-> <<"snmpTraps", 2>>,
     LinkDown              |-> <<"snmpTraps", 3>>,
     LinkUp                |-> <<"snmpTraps", 4>>,
     AuthenticationFailure |-> <<"snmpTraps", 5>>,
     EgpNeighborLoss       |-> <<"snmpTraps", 6>>,
     ConfigManEvent        |-> <<"ciscoConfigManMIB.2", 0, 1>>,
     ConfigChanged         |-> <<"ciscoConfigManMIB.2", 0, 2>>,
     ConfigCTIDRolledOver  |-> <<"ciscoConfigManMIB.2", 0, 3>>]

\* A v1 header names a generic trap by its number and any other event by the
\* enterprise that defines it, which is not snmpTraps, and whose OID is given
\* without the 0 of the v2 form (RFC 3584); an OID that a MIB has given to an
\* event is in no v2 packet about another.
SaysEvent(p) ==
    IF p.version = "v1"
    THEN /\ p.generic \in Nat /\ p.specific \in Nat
         /\ p.enterprise \in Seq(STRING \cup Nat)
         /\ p.generic \in 0 .. 5 => p.event = GenericTraps[p.generic + 1]
         /\ p.enterprise \notin {<<"snmpTraps">>, <<"ciscoConfigManMIB.2", 0>>}
    ELSE \A k \in DOMAIN p.vars :
             LET oid == p.vars[k].value
             IN  p.vars[k].name = "snmpTrapOID" =>
                     /\ Len(oid) \in Nat /\ oid = [i \in 1 .. Len(oid) |-> oid[i]]
                     /\ \A n \in DOMAIN MibOID : oid = MibOID[n] => p.event = n

\* Varbinds are in an order.  An interface is named by its description, if
\* the packet has one, else by its index (IF-MIB).
SaysInterface(p) ==
    LET descr == {k \in DOMAIN p.vars : p.vars[k].name = "ifDescr" /\ p.vars[k].value # ""}
        index == {k \in DOMAIN p.vars : p.vars[k].name = "ifIndex"}
    IN  /\ Len(p.vars) \in Nat /\ DOMAIN p.vars = 1 .. Len(p.vars)
        /\ \A k \in IF descr # {} THEN descr ELSE index : p.vars[k].value = p.interface

ASSUME PacketAssumption == \A p \in Packets : SaysEvent(p) /\ SaysInterface(p)

\* The registry as resolveDevice expects it: a registered address that v1
\* packets carry is their sender's, and every device has a community of its
\* own.
OwnIdentities ==
    \A r \in devices, p \in Packets :
        \/ p.version = "v1" /\ r.d.ip = p.agent
        \/ /\ p.community # ""
           /\ Decrypts(apiKey, r.d.community) /\ Decrypt(apiKey, r.d.community) = p.community
        => r.d.ip = p.sender

-----------------------------------------------------------------------------
others == <<netVars, storeVars, apiVars>>

\* config-api handles requests once traps.db is open, and starts over when
\* it dies.
ApiWorks ==
    /\ opening["api"] = "serving"
    /\ ApiRequests
    /\ UNCHANGED <<netVars, trapVars>>

ApiDies ==
    /\ ApiCrash
    /\ opening' = [opening EXCEPT !["api"] = "create"]
    /\ reader' = NoReader
    /\ UNCHANGED <<netVars, columns, traps>>

\* A row from before the columns were added: NULLs, which List reads as ''.
OldRow(p) == [TrapRow(p) EXCEPT !.community = "", !.agent_address = ""]

Init ==
    /\ NetInit /\ ApiInit
    /\ devices \in Tables
    /\ lastId \in {n \in 0 .. MaxId : /\ \A r \in devices : r.id <= n
                                      /\ n = 0 \/ \E r \in devices : r.id = n}
    /\ settings = [interval |-> 60, dup |-> "0"]
    /\ columns \in {{}, {"base"}, {"base", "community"}, Current}
    /\ traps \in {<<>>} \cup (IF columns = {"base"} THEN {<<OldRow(p)>> : p \in Packets} ELSE {})
    /\ opening = [p \in Processes |-> "create"]
    /\ reader = NoReader

TrapStep ==
    \/ \E p \in Processes : OpenTrapsDB(p)
    \/ \E p \in Packets : TrapArrives(p)
    \/ \E limit \in ReadLimits : ListTraps(limit)
    \/ ReadStep
    \/ ReceiverCrash

Next ==
    \/ TrapStep /\ UNCHANGED others
    \/ ApiWorks \/ ApiDies
    \/ Calm /\ UNCHANGED <<storeVars, apiVars, trapVars>>

allVars == <<others, trapVars>>

Spec == Init /\ [][Next]_allVars

\* Opening a database goes on to its next statement (SQLite waits at most
\* five seconds for the other process), and docker restarts what has exited.
FairSpec ==
    Spec /\ \A p \in Processes : WF_allVars(OpenTrapsDB(p) /\ UNCHANGED others)

-----------------------------------------------------------------------------
\* Whatever version the table had, and however the two processes' statements
\* fall and fail, a process that has come up finds every column it uses.
MigrationComplete ==
    \A p \in Processes : opening[p] = "serving" => Current \subseteq columns

\* Both come up in the end: that the other one was faster, or that an
\* earlier attempt stopped half-way, keeps neither of them from it.
TrapsServe == <>[]calm => <>[](\A p \in Processes : opening[p] = "serving")

\* What is shown of a trap is true of it or left open, although addresses
\* are rewritten on the way and devices are added, edited and deleted while
\* it is looked up: the event by its name or as an OID, the sender, the
\* interface.  (Where the registry has OwnIdentities, as the handler expects;
\* the requests of an instance respect that.)
ReadableTrapsTrue ==
    \A k \in DOMAIN reader.out :
        LET e == reader.out[k]
        IN  /\ e.name \in {"?", e.trap.from.event}
            /\ e.device \in {"", e.trap.from.sender}
            /\ e.interface \in {"", e.trap.from.interface}

\* Nobody but row r can be meant by trap t: it alone has the address that t
\* carries, or no row has and it alone has t's community.
Owner(r, t) ==
    LET byAddress   == RowsWithIP(t.agent_address)
        byCommunity == {q \in devices : /\ t.community # ""
                                        /\ Decrypts(apiKey, q.d.community)
                                        /\ Decrypt(apiKey, q.d.community) = t.community}
    IN  byAddress = {r} \/ (byAddress = {} /\ byCommunity = {r})

\* A trap is attributed when it can be: the one device that can be meant is
\* shown, under its name if it has one, and rows of other devices, with
\* another key's or no community, do not get in the way.  (A row that cannot
\* be scanned does, for traps that carry no address.)
AttributionComplete ==
    (reader.settled /\ ~ListFails(devices)) =>
        \A k \in DOMAIN reader.out : \A r \in devices :
            Owner(r, reader.out[k].trap) => reader.out[k].device = ShownAs(r.d)
=============================================================================
