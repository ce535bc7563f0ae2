---------------------------- MODULE DeviceStore -----------------------------
(***************************************************************************)
(* internal/store: the SQLite database config.db that config-api and       *)
(* config-watcher share.  Each process has one connection and every        *)
(* statement is its own transaction, so one operator here is one atomic    *)
(* step of whoever issues it.                                              *)
(*                                                                         *)
(* devices is a table: a set of rows, an id with the device's columns.     *)
(* hostname stands for the columns no probe reads (hostname, group_name),  *)
(* v3 for the five v3_* columns, which are only ever used together.        *)
(***************************************************************************)
EXTENDS Snmp, FiniteSets

CONSTANT MaxId      \* largest id SQLite's AUTOINCREMENT hands out (2^63-1)

VARIABLES
    devices,        \* the devices table
    lastId,         \* sqlite_sequence: the largest id ever assigned
    settings        \* the settings table

storeVars == <<devices, lastId, settings>>

ASSUME StoreAssumption == MaxId \in Nat

Null == "NULL"      \* SQL NULL

Ids      == 1 .. MaxId
Statuses == {"pending", "active", "failed"}
Sources  == {"gateway", "manual", "routing_table_sweep"}
Text     == {"", "named"}

\* store.Device without its id: what Create inserts.  "other" is any value
\* the CHECK constraints refuse.
Device ==
    [ip             : IPs,
     hostname       : Text \cup {Null},
     snmp_version   : Versions \cup {"", "other", Null},
     community      : Cipher,
     v3             : Cipher,
     status         : Statuses \cup {"other", Null},
     is_public_ip   : BOOLEAN,
     discovered_via : Sources]

Row == [id : Ids, d : Device]

\* The map of columns Update takes: a record with some of these fields.
IsUpdates(u) ==
    /\ "hostname"     \in DOMAIN u => u.hostname \in Text \cup {Null}
    /\ "snmp_version" \in DOMAIN u => u.snmp_version \in Versions \cup {"", "other", Null}
    /\ "community"    \in DOMAIN u => u.community \in Cipher
    /\ "v3"           \in DOMAIN u => u.v3 \in Cipher
    /\ "status"       \in DOMAIN u => u.status \in Statuses \cup {"other", Null}

allowedPollingIntervals == {30, 60, 120, 300, 600}

Settings == [interval : allowedPollingIntervals, dup : {"0", "1"}]

-----------------------------------------------------------------------------
\* The CHECK constraints.  NULL passes a CHECK.
CheckOK(d) ==
    /\ d.snmp_version \in Versions \cup {"", Null}
    /\ d.status \in Statuses \cup {Null}

\* scanDevice: database/sql cannot scan NULL into a Go string.
Scannable(d) == d.hostname # Null /\ d.snmp_version # Null /\ d.status # Null

RowsWithIP(ip) == {r \in devices : r.d.ip = ip}
RowsWithId(id) == {r \in devices : r.id = id}

RowsWithStatus(status) == {r \in devices : r.d.status = status}

\* List and ListByStatus give up on the first row they cannot scan.
ListFails(rows) == \E r \in rows : ~Scannable(r.d)

Bug_NextIdOverLiveRows ==
    IF devices = {} THEN 1
    ELSE 1 + (CHOOSE i \in Ids : /\ \E r \in devices : r.id = i
                                 /\ \A r \in devices : r.id <= i)

\* AUTOINCREMENT: one above every id ever assigned, deleted rows included.
NextId == lastId + 1

Bug_NoUniqueIP(d) == CheckOK(d) /\ NextId \in Ids

\* INSERT succeeds unless a constraint fails or the ids have run out.
CanInsert(d) ==
    /\ CheckOK(d)
    /\ RowsWithIP(d.ip) = {}
    /\ NextId \in Ids

\* DeviceStore.Create, when it succeeds.
Insert(d) ==
    /\ devices' = devices \cup {[id |-> NextId, d |-> d]}
    /\ lastId' = NextId
    /\ UNCHANGED settings

\* UPDATE devices SET <columns of u>.
SetColumns(d, u) ==
    [ip             |-> d.ip,
     hostname       |-> IF "hostname" \in DOMAIN u THEN u.hostname ELSE d.hostname,
     snmp_version   |-> IF "snmp_version" \in DOMAIN u THEN u.snmp_version ELSE d.snmp_version,
     community      |-> IF "community" \in DOMAIN u THEN u.community ELSE d.community,
     v3             |-> IF "v3" \in DOMAIN u THEN u.v3 ELSE d.v3,
     status         |-> IF "status" \in DOMAIN u THEN u.status ELSE d.status,
     is_public_ip   |-> d.is_public_ip,
     discovered_via |-> d.discovered_via]

\* The statement is refused as a whole when a CHECK fails on the matched row.
CanUpdate(id, u) == \A r \in RowsWithId(id) : CheckOK(SetColumns(r.d, u))

\* DeviceStore.Update, when it succeeds.  An id that is gone matches no row,
\* which the caller gets as ErrNotFound.
Update(id, u) ==
    /\ devices' = {IF r.id = id THEN [r EXCEPT !.d = SetColumns(r.d, u)] ELSE r
                     : r \in devices}
    /\ UNCHANGED <<lastId, settings>>

\* DeviceStore.Delete.
Remove(id) ==
    /\ devices' = {r \in devices : r.id # id}
    /\ UNCHANGED <<lastId, settings>>

\* SettingsStore.Set on one of the two keys.
SetSetting(key, value) ==
    /\ settings' = [settings EXCEPT ![key] = value]
    /\ UNCHANGED <<devices, lastId>>

\* Both processes turn a row's columns into credentials the same way, and
\* give up when one of the secrets does not decrypt.
CanDecrypt(k, d) == Decrypts(k, d.community) /\ Decrypts(k, d.v3)

decryptCredentials(k, d) ==
    Credentials(d.snmp_version, Decrypt(k, d.community), Decrypt(k, d.v3))

-----------------------------------------------------------------------------
\* The schema's INSERT OR IGNORE defaults on an empty database.
StoreInit ==
    /\ devices = {}
    /\ lastId = 0
    /\ settings = [interval |-> 60, dup |-> "0"]

StoreTypeOK ==
    /\ devices \subseteq Row
    /\ lastId \in 0 .. MaxId
    /\ settings \in Settings
=============================================================================
