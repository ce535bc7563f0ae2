----------------------------- MODULE TrapProofs -----------------------------
(***************************************************************************)
(* However trap-receiver and config-api interleave, fail and restart while *)
(* they open traps.db, neither goes on to use a column that is not there;  *)
(* a reader that nothing disturbs attributes every trap it can; and what a *)
(* reader shows, disturbed or not, is true of the trap.                    *)
(***************************************************************************)
EXTENDS TrapPipeline, ConfigApiProofs, SequenceTheorems, WellFoundedInduction

\* What a process at a statement of OpenTrapsDB may rely on: the columns of
\* the statements it has behind it, whoever added them.
Migrated(stage, cols) ==
    /\ stage # "create" => "base" \in cols
    /\ stage \in {"agent_address", "serving"} => "community" \in cols
    /\ stage = "serving" => "agent_address" \in cols

\* The inductive invariant behind MigrationComplete.
MigrationInv ==
    /\ opening \in [Processes -> {"create", "community", "agent_address", "serving"}]
    /\ columns = {} \/ "base" \in columns
    /\ \A p \in Processes : Migrated(opening[p], columns)

\* Columns are only ever added, so what a process has reached stays true
\* when the other one takes a step.
LEMMA MigratedMonotone ==
    ASSUME NEW stage, NEW cols, NEW more, cols \subseteq more, Migrated(stage, cols)
    PROVE  Migrated(stage, more)
  BY DEF Migrated

\* CREATE TABLE IF NOT EXISTS establishes the first column and loses none.
LEMMA CreateStep ==
    ASSUME MigrationInv, NEW p \in Processes, CreateTable(p)
    PROVE  MigrationInv'
<1>1. CASE UNCHANGED <<columns, opening>>
  BY <1>1 DEF MigrationInv, Migrated
<1>2. CASE /\ columns' = IF columns = {} THEN Current ELSE columns
           /\ opening' = [opening EXCEPT ![p] = "community"]
  <2>1. columns \subseteq columns' /\ "base" \in columns'
    BY <1>2 DEF MigrationInv, Current
  <2>2. opening' \in [Processes -> {"create", "community", "agent_address", "serving"}]
    BY <1>2 DEF MigrationInv
  <2>3. ASSUME NEW q \in Processes
        PROVE  Migrated(opening'[q], columns')
    <3>1. CASE q = p
      BY <3>1, <2>1, <1>2 DEF MigrationInv, Migrated
    <3>2. CASE q # p
      BY <3>2, <2>1, <1>2, MigratedMonotone DEF MigrationInv
    <3> QED BY <3>1, <3>2
  <2> QED BY <2>1, <2>2, <2>3 DEF MigrationInv
<1> QED BY <1>1, <1>2 DEF CreateTable

\* ALTER TABLE, whether the column was there already or not, and whether the
\* statement succeeds or sends the process back to the start.
LEMMA AddStep ==
    ASSUME MigrationInv, NEW p \in Processes, NEW c \in {"community", "agent_address"},
           AddColumn(p, c)
    PROVE  MigrationInv'
<1>1. PICK ok \in Outcome("db") :
          /\ columns' = IF ok THEN columns \cup {c} ELSE columns
          /\ opening' = [opening EXCEPT ![p] = IF ok THEN AfterColumn(c) ELSE "create"]
  BY DEF AddColumn
<1>2. opening[p] = c /\ Migrated(c, columns)
  BY DEF AddColumn, MigrationInv
<1>3. columns \subseteq columns' /\ (columns' = {} \/ "base" \in columns')
  BY <1>1, <1>2 DEF MigrationInv, Migrated
<1>4. opening' \in [Processes -> {"create", "community", "agent_address", "serving"}]
  BY <1>1 DEF MigrationInv, AfterColumn
<1>5. ASSUME NEW q \in Processes
      PROVE  Migrated(opening'[q], columns')
  <2>1. CASE q # p
    BY <2>1, <1>1, <1>3, MigratedMonotone DEF MigrationInv
  <2>2. CASE q = p
    BY <2>2, <1>1, <1>2 DEF MigrationInv, Migrated, AfterColumn
  <2> QED BY <2>1, <2>2
<1> QED BY <1>3, <1>4, <1>5 DEF MigrationInv

\* A process that dies starts from the first statement.
LEMMA RestartStep ==
    ASSUME MigrationInv, NEW p \in Processes, UNCHANGED columns,
           opening' = [opening EXCEPT ![p] = "create"]
    PROVE  MigrationInv'
  BY DEF MigrationInv, Migrated

LEMMA MigrationStep ==
    ASSUME MigrationInv, [Next]_allVars
    PROVE  MigrationInv'
<1> USE DEF Processes
<1>1. ASSUME NEW p \in Processes, OpenTrapsDB(p)
      PROVE  MigrationInv'
  BY <1>1, CreateStep, AddStep DEF OpenTrapsDB, NewColumns
<1>2. CASE ReceiverCrash
  BY <1>2, RestartStep DEF ReceiverCrash
<1>3. CASE ApiDies
  BY <1>3, RestartStep DEF ApiDies
<1>4. CASE UNCHANGED <<columns, opening>>
  BY <1>4 DEF MigrationInv, Migrated
<1>5. ASSUME NEW p \in Packets, TrapArrives(p)
      PROVE  UNCHANGED <<columns, opening>>
  BY <1>5 DEF TrapArrives
<1>6. ASSUME NEW limit \in ReadLimits, ListTraps(limit)
      PROVE  UNCHANGED <<columns, opening>>
  BY <1>6 DEF ListTraps
<1>7. ReadStep => UNCHANGED <<columns, opening>>
  BY DEF ReadStep, ResolveByIP, ResolveByCommunity
<1>8. UNCHANGED allVars \/ ApiWorks \/ UNCHANGED trapVars => UNCHANGED <<columns, opening>>
  BY DEF allVars, ApiWorks, trapVars
<1> QED BY <1>1, <1>2, <1>3, <1>4, <1>5, <1>6, <1>7, <1>8 DEF Next, TrapStep

\* A process that serves finds every column, whatever table it was given and
\* however the two migrations (store.OpenTrapsDB) interleave and fail.
THEOREM MigrationSafe == Spec => []MigrationComplete
<1>1. Init => MigrationInv
  BY DEF Init, MigrationInv, Migrated, Current, Processes
<1>2. MigrationInv => MigrationComplete
  BY DEF MigrationInv, Migrated, MigrationComplete, Current
<1> QED BY <1>1, <1>2, MigrationStep, PTL DEF Spec

-----------------------------------------------------------------------------
(***************************************************************************)
(* Attribution.  While a read is settled nothing changes the devices, so   *)
(* what was found for the traps already shown stays the answer; and the    *)
(* reader only asks for the community after no device had the address.     *)
(***************************************************************************)
Undisturbed == calm /\ \A s \in Slots : handlers[s] = Idle

Attributed(e) ==
    \A r \in devices : Owner(r, e.trap) => e.device = ShownAs(r.d)

IsSeq(s) == s \in Seq({s[k] : k \in DOMAIN s})

Anonymous(t) == t.community = ""

ReaderOK ==
    /\ \A k \in DOMAIN reader.out : Attributed(reader.out[k])
    /\ reader.pc = "byCommunity" =>
           /\ ~Anonymous(Head(reader.todo))
           /\ RowsWithIP(Head(reader.todo).agent_address) = {}

ReaderInv ==
    /\ reader = [pc |-> reader.pc, todo |-> reader.todo, out |-> reader.out,
                 settled |-> reader.settled]
    /\ IsSeq(reader.out)
    /\ reader.settled => Undisturbed
    /\ (reader.settled /\ ~ListFails(devices)) => ReaderOK

\* Sequences of anything: what Append returns.
LEMMA AppendIsSeq ==
    ASSUME NEW s, IsSeq(s), NEW x
    PROVE  /\ IsSeq(Append(s, x))
           /\ DOMAIN Append(s, x) = DOMAIN s \cup {Len(s) + 1}
           /\ \A k \in DOMAIN s : Append(s, x)[k] = s[k]
           /\ Append(s, x)[Len(s) + 1] = x
<1> DEFINE S == {s[k] : k \in DOMAIN s} \cup {x}
           t == Append(s, x)
<1>1. s \in Seq(S) /\ x \in S
  BY DEF IsSeq
<1> HIDE DEF S
<1>2. /\ t \in Seq(S)
      /\ Len(s) \in Nat /\ Len(t) = Len(s) + 1
      /\ DOMAIN s = 1 .. Len(s) /\ DOMAIN t = 1 .. Len(s) + 1
      /\ \A k \in 1 .. Len(s) : t[k] = s[k]
      /\ t[Len(s) + 1] = x
  BY <1>1
<1> HIDE DEF t
<1>3. IsSeq(t)
  BY <1>2 DEF IsSeq
<1> QED BY <1>2, <1>3 DEF t

\* The fields of a reader.
LEMMA ResolvingFields ==
    ASSUME NEW todo, NEW out, NEW settled, NEW r, r = Resolving(todo, out, settled)
    PROVE  /\ r = [pc |-> r.pc, todo |-> r.todo, out |-> r.out, settled |-> r.settled]
           /\ r.pc \in {"idle", "byIP"} /\ r.todo = todo /\ r.out = out
           /\ r.settled = settled
BY DEF Resolving

LEMMA NoReaderFields ==
    ASSUME NEW r, r = NoReader
    PROVE  /\ r = [pc |-> r.pc, todo |-> r.todo, out |-> r.out, settled |-> r.settled]
           /\ r.out = <<>> /\ ~r.settled
BY DEF NoReader, Resolving

\* Showing a trap keeps the invariant if the trap is attributed.
LEMMA ShowsStep ==
    ASSUME ReaderInv, NEW device, Shows(device), UNCHANGED others,
           (reader.settled /\ ~ListFails(devices)) => Attributed(Entry(Head(reader.todo), device))
    PROVE  ReaderInv'
<1> DEFINE e   == Entry(Head(reader.todo), device)
           out == Append(reader.out, e)
<1>1. reader' = Resolving(Tail(reader.todo), out, reader.settled)
  BY DEF Shows
<1>2. /\ reader'.out = out /\ reader'.settled = reader.settled /\ reader'.pc # "byCommunity"
      /\ reader' = [pc |-> reader'.pc, todo |-> reader'.todo, out |-> reader'.out,
                    settled |-> reader'.settled]
  <2> HIDE DEF out
  <2> QED BY <1>1, ResolvingFields
<1>3. /\ IsSeq(out) /\ DOMAIN out = DOMAIN reader.out \cup {Len(reader.out) + 1}
      /\ \A k \in DOMAIN reader.out : out[k] = reader.out[k]
      /\ out[Len(reader.out) + 1] = e
  BY AppendIsSeq DEF ReaderInv
<1>4. UNCHANGED <<devices, apiKey, calm, handlers>>
  BY DEF others, netVars, storeVars, apiVars
<1> HIDE DEF e, out
<1>5. ASSUME reader.settled, ~ListFails(devices)
      PROVE  \A k \in DOMAIN out : Attributed(out[k])
  <2>1. \A k \in DOMAIN reader.out : Attributed(out[k])
    BY <1>3, <1>5 DEF ReaderInv, ReaderOK
  <2>2. Attributed(out[Len(reader.out) + 1])
    BY <1>3, <1>5 DEF e
  <2> QED BY <1>3, <2>1, <2>2
<1>6. ASSUME NEW x, Attributed(x)
      PROVE  Attributed(x)'
  BY <1>4, <1>6 DEF Attributed, Owner, RowsWithIP
<1>7. Undisturbed => Undisturbed'
  BY <1>4 DEF Undisturbed
<1>8. ListFails(devices) => ListFails(devices)'
  BY <1>4 DEF ListFails
<1> QED BY <1>2, <1>3, <1>5, <1>6, <1>7, <1>8 DEF ReaderInv, ReaderOK

LEMMA EntryAttributed ==
    ASSUME NEW t, NEW device, \A q \in devices : Owner(q, t) => device = ShownAs(q.d)
    PROVE  Attributed(Entry(t, device))
<1>1. Entry(t, device).trap = t /\ Entry(t, device).device = device
  BY DEF Entry
<1> QED BY <1>1 DEF Attributed

\* resolveDevice by address: whoever is found has the address, and if nobody
\* is found then nobody has it.
LEMMA ByIPStep ==
    ASSUME ReaderInv, ResolveByIP, UNCHANGED others
    PROVE  ReaderInv'
<1> DEFINE t      == Head(reader.todo)
           having == RowsWithIP(t.agent_address)
           found  == {r \in having : Scannable(r.d)}
           failed == found = {} \/ FALSE \in Outcome("db")
<1>1. ASSUME NEW r \in found, Shows(ShownAs(r.d))
      PROVE  ReaderInv'
  <2>1. ASSUME NEW q \in devices, Owner(q, t)
        PROVE  ShownAs(r.d) = ShownAs(q.d)
    <3>1. having = {q}
      BY <2>1 DEF Owner
    <3>2. r = q
      BY <3>1
    <3> QED BY <3>2
  <2> DEFINE shown == ShownAs(r.d)
  <2>2. Shows(shown)
    BY <1>1
  <2>3. Attributed(Entry(t, shown))
    BY <2>1, EntryAttributed
  <2> HIDE DEF shown
  <2> QED BY <2>2, <2>3, ShowsStep
<1>2. ASSUME reader.settled, ~ListFails(devices), failed
      PROVE  having = {}
  <2>1. calm
    BY <1>2 DEF ReaderInv, Undisturbed
  <2>2. FALSE \notin Outcome("db")
    BY <2>1 DEF Outcome
  <2>3. \A r \in having : Scannable(r.d)
    BY <1>2 DEF RowsWithIP, ListFails
  <2> QED BY <1>2, <2>2, <2>3
<1>3. ASSUME failed, t.community = "", Shows("")
      PROVE  ReaderInv'
  <2>1. ASSUME reader.settled, ~ListFails(devices)
        PROVE  Attributed(Entry(t, ""))
    <3>1. having = {}
      BY <1>2, <1>3, <2>1
    <3>2. \A q \in devices : ~Owner(q, t)
      BY <1>3, <3>1 DEF Owner
    <3> QED BY <3>2, EntryAttributed
  <2> QED BY <1>3, <2>1, ShowsStep
<1>4. ASSUME failed, t.community # "", reader' = [reader EXCEPT !.pc = "byCommunity"]
      PROVE  ReaderInv'
  <2>1. /\ reader'.todo = reader.todo /\ reader'.out = reader.out
        /\ reader'.settled = reader.settled
        /\ reader' = [pc |-> reader'.pc, todo |-> reader'.todo, out |-> reader'.out,
                      settled |-> reader'.settled]
    BY <1>4 DEF ReaderInv
  <2>2. UNCHANGED <<devices, apiKey, calm, handlers>>
    BY DEF others, netVars, storeVars, apiVars
  <2>3. ASSUME NEW x, Attributed(x)
        PROVE  Attributed(x)'
    BY <2>2, <2>3 DEF Attributed, Owner, RowsWithIP
  <2>4. Undisturbed => Undisturbed'
    BY <2>2 DEF Undisturbed
  <2>5. ListFails(devices) => ListFails(devices)'
    BY <2>2 DEF ListFails
  <2>6. having = {} => RowsWithIP(Head(reader.todo).agent_address)' = {}
    BY <2>1, <2>2 DEF RowsWithIP
  <2>7. ~Anonymous(t)
    BY <1>4 DEF Anonymous
  <2> HIDE DEF having, failed
  <2>8. (reader.settled /\ ~ListFails(devices)) => ReaderOK'
    BY <1>2, <1>4, <2>1, <2>3, <2>6, <2>7 DEF ReaderInv, ReaderOK, Anonymous
  <2> QED BY <2>1, <2>4, <2>5, <2>8 DEF ReaderInv
<1> QED BY <1>1, <1>3, <1>4 DEF ResolveByIP

\* resolveDevice by community: rows that cannot be decrypted are passed over.
LEMMA ByCommunityStep ==
    ASSUME ReaderInv, StoreTypeOK, ResolveByCommunity, UNCHANGED others
    PROVE  ReaderInv'
<1> DEFINE t     == Head(reader.todo)
           same  == {q \in devices : /\ Decrypts(apiKey, q.d.community)
                                     /\ Decrypt(apiKey, q.d.community) = t.community}
           found == MatchCommunity(t.community)
<1>1. found = {r \in same : \A q \in same : r.id <= q.id}
  BY DEF MatchCommunity
<1>2. ASSUME reader.settled, ~ListFails(devices), NEW q \in devices, Owner(q, t)
      PROVE  same = {q}
  <2>1. RowsWithIP(t.agent_address) = {} /\ ~Anonymous(t)
    BY <1>2 DEF ReaderInv, ReaderOK, ResolveByCommunity
  <2> QED BY <1>2, <2>1 DEF Owner, Anonymous
<1>3. ASSUME NEW r \in found, Shows(ShownAs(r.d))
      PROVE  ReaderInv'
  <2> DEFINE shown == ShownAs(r.d)
  <2>1. ASSUME reader.settled, ~ListFails(devices)
        PROVE  Attributed(Entry(t, shown))
    <3>1. ASSUME NEW q \in devices, Owner(q, t)
          PROVE  shown = ShownAs(q.d)
      <4>1. same = {q}
        BY <1>2, <2>1, <3>1
      <4>2. r = q
        BY <1>1, <4>1
      <4> QED BY <4>2
    <3> QED BY <3>1, EntryAttributed
  <2>2. Shows(shown)
    BY <1>3
  <2> HIDE DEF shown
  <2> QED BY <2>1, <2>2, ShowsStep
<1>4. ASSUME found = {} \/ ListFails(devices) \/ FALSE \in Outcome("db"), Shows("")
      PROVE  ReaderInv'
  <2>1. ASSUME reader.settled, ~ListFails(devices)
        PROVE  Attributed(Entry(t, ""))
    <3>1. calm
      BY <2>1 DEF ReaderInv, Undisturbed
    <3>2. found = {}
      BY <1>4, <2>1, <3>1 DEF Outcome
    <3>3. ASSUME NEW q \in devices, Owner(q, t)
          PROVE  FALSE
      <4>1. same = {q}
        BY <1>2, <2>1, <3>3
      <4>2. q.id \in Nat
        BY StoreAssumption DEF StoreTypeOK, Row, Ids
      <4>3. q \in found
        <5> HIDE DEF same
        <5> QED BY <1>1, <4>1, <4>2
      <4> QED BY <3>2, <4>3
    <3> QED BY <3>3, EntryAttributed
  <2> QED BY <1>4, <2>1, ShowsStep
<1> QED BY <1>3, <1>4 DEF ResolveByCommunity

\* A step that leaves the reader alone, and the devices too while the read is
\* settled.
LEMMA ReaderAlone ==
    ASSUME ReaderInv, UNCHANGED reader,
           reader.settled => UNCHANGED <<devices, apiKey, calm, handlers>>
    PROVE  ReaderInv'
<1>1. CASE reader.settled
  <2>1. UNCHANGED <<devices, apiKey, calm, handlers>>
    BY <1>1
  <2>2. ASSUME NEW x, Attributed(x)
        PROVE  Attributed(x)'
    BY <2>1, <2>2 DEF Attributed, Owner, RowsWithIP
  <2>3. Undisturbed => Undisturbed'
    BY <2>1 DEF Undisturbed
  <2>4. ListFails(devices) => ListFails(devices)'
    BY <2>1 DEF ListFails
  <2>5. ASSUME NEW ip, RowsWithIP(ip) = {}
        PROVE  RowsWithIP(ip)' = {}
    BY <2>1, <2>5 DEF RowsWithIP
  <2>6. ReaderOK => ReaderOK'
    BY <2>2, <2>5 DEF ReaderOK
  <2> QED BY <2>3, <2>4, <2>6 DEF ReaderInv
<1>2. CASE ~reader.settled
  BY <1>2 DEF ReaderInv
<1> QED BY <1>1, <1>2

\* Nothing is left for config-api to do, and nobody asks it to.
LEMMA NothingInFlight ==
    ASSUME Undisturbed
    PROVE  ~ApiRequests /\ ~Calm /\ ~ReceiverCrash
<1>1. \A s \in Slots : handlers[s].pc = "idle"
  BY DEF Undisturbed, Idle
<1>2. calm
  BY DEF Undisturbed
<1>3. ~ApiRequests
  BY <1>1, <1>2 DEF ApiRequests, PostProbe, PatchWrite, HandlerStep, PostInsert, PatchGet,
                    PatchProbe, PatchStatus, DeleteDevice, SetPollingInterval,
                    SetCredentialDuplication
<1> QED BY <1>2, <1>3 DEF Calm, ReceiverCrash

LEMMA ReaderStep ==
    ASSUME ReaderInv, StoreTypeOK, [Next]_allVars
    PROVE  ReaderInv'
<1>1. ASSUME UNCHANGED others, UNCHANGED reader
      PROVE  ReaderInv'
  BY <1>1, ReaderAlone DEF others, netVars, storeVars, apiVars
<1>2. ASSUME NEW todo, NEW settled, reader' = Resolving(todo, <<>>, settled),
             settled => Undisturbed, UNCHANGED others
      PROVE  ReaderInv'
  <2>1. /\ reader'.out = <<>> /\ reader'.settled = settled /\ reader'.pc # "byCommunity"
        /\ reader' = [pc |-> reader'.pc, todo |-> reader'.todo, out |-> reader'.out,
                      settled |-> reader'.settled]
    BY <1>2, ResolvingFields
  <2>2. IsSeq(<<>>)
    BY DEF IsSeq
  <2>3. Undisturbed => Undisturbed'
    BY <1>2 DEF Undisturbed, others, netVars, storeVars, apiVars
  <2>4. reader'.settled => Undisturbed'
    BY <1>2, <2>1, <2>3, Zenon
  <2>5. ReaderOK'
    BY <2>1 DEF ReaderOK
  <2> QED BY <2>1, <2>2, <2>4, <2>5 DEF ReaderInv
<1>3. ASSUME TrapStep, UNCHANGED others
      PROVE  ReaderInv'
  <2>1. ASSUME NEW p \in Processes, OpenTrapsDB(p)
        PROVE  UNCHANGED reader
    BY <2>1 DEF OpenTrapsDB, CreateTable, AddColumn
  <2>2. ASSUME NEW p \in Packets, TrapArrives(p)
        PROVE  UNCHANGED reader
    BY <2>2 DEF TrapArrives
  <2>3. ASSUME NEW limit \in ReadLimits, ListTraps(limit)
        PROVE  ReaderInv'
    BY <1>2, <1>3, <2>3 DEF ListTraps, Undisturbed
  <2>4. ReceiverCrash => UNCHANGED reader
    BY DEF ReceiverCrash
  <2> QED BY <1>1, <1>3, <2>1, <2>2, <2>3, <2>4, ByIPStep, ByCommunityStep DEF TrapStep, ReadStep
<1>4. CASE ApiWorks
  BY <1>4, ReaderAlone, NothingInFlight DEF ApiWorks, trapVars, ReaderInv
<1>5. CASE ApiDies
  <2>1. reader' = NoReader
    BY <1>5 DEF ApiDies
  <2>2. /\ reader'.out = <<>> /\ ~reader'.settled
        /\ reader' = [pc |-> reader'.pc, todo |-> reader'.todo, out |-> reader'.out,
                      settled |-> reader'.settled]
    BY <2>1, NoReaderFields
  <2>3. IsSeq(<<>>)
    BY DEF IsSeq
  <2> QED BY <2>2, <2>3 DEF ReaderInv
<1>6. CASE Calm /\ UNCHANGED <<storeVars, apiVars, trapVars>>
  BY <1>6, ReaderAlone, NothingInFlight DEF trapVars, ReaderInv
<1>7. CASE UNCHANGED allVars
  BY <1>1, <1>7 DEF allVars, trapVars
<1> QED BY <1>3, <1>4, <1>5, <1>6, <1>7 DEF Next

\* The tables keep their types whatever config-api does.
LEMMA TablesStep ==
    ASSUME StoreTypeOK, ApiTypeOK, [Next]_allVars
    PROVE  StoreTypeOK' /\ ApiTypeOK'
<1>1. CASE UNCHANGED <<storeVars, apiVars>>
  BY <1>1 DEF StoreTypeOK, ApiTypeOK, storeVars, apiVars
<1>2. CASE ApiRequests \/ ApiCrash
  BY <1>2, ApiStepType DEF ApiNext
<1> QED BY <1>1, <1>2 DEF Next, ApiWorks, ApiDies, others, allVars

\* At the start there is no reader and the tables have their types.
LEMMA InitReader == Init => StoreTypeOK /\ ApiTypeOK /\ ReaderInv
<1> SUFFICES ASSUME Init
             PROVE  StoreTypeOK /\ ApiTypeOK /\ ReaderInv
  OBVIOUS
<1>1. StoreTypeOK
  BY TrapAssumption DEF Init, StoreTypeOK, Settings, allowedPollingIntervals
<1>2. ApiTypeOK
  BY IdleType DEF Init, ApiInit, ApiTypeOK
<1>3. reader = NoReader
  BY DEF Init
<1>4. /\ reader.out = <<>> /\ ~reader.settled
      /\ reader = [pc |-> reader.pc, todo |-> reader.todo, out |-> reader.out,
                   settled |-> reader.settled]
  BY <1>3, NoReaderFields
<1>5. IsSeq(<<>>)
  BY DEF IsSeq
<1> QED BY <1>1, <1>2, <1>4, <1>5 DEF ReaderInv

\* Whatever devices are registered, with whatever names, keys and communities,
\* and whatever traps arrive, resolveDevice shows every trap of an undisturbed
\* read under the one device that can be meant.
THEOREM AttributionSafe == Spec => []AttributionComplete
<1> DEFINE Inv == StoreTypeOK /\ ApiTypeOK /\ ReaderInv
<1>1. Init => Inv
  BY InitReader
<1>2. Inv /\ [Next]_allVars => Inv'
  BY ReaderStep, TablesStep
<1>3. Inv => AttributionComplete
  BY DEF ReaderInv, ReaderOK, Attributed, AttributionComplete
<1> QED BY <1>1, <1>2, <1>3, PTL DEF Spec

-----------------------------------------------------------------------------
(***************************************************************************)
(* Truth.  A stored row says no more than its packet said, every lookup is *)
(* in a registry where identities are a device's own, and what has been    *)
(* shown does not change any more.                                         *)
(***************************************************************************)
\* The row of a packet is what the handler stores, or what is left of it in
\* a table from before the columns were added.
StoredTraps == {TrapRow(p) : p \in Packets} \cup {OldRow(p) : p \in Packets}

TrueEntry(e) ==
    /\ e.name \in {"?", e.trap.from.event}
    /\ e.device \in {"", e.trap.from.sender}
    /\ e.interface \in {"", e.trap.from.interface}

TruthInv ==
    /\ traps \in Seq(StoredTraps)
    /\ reader.todo \in Seq(StoredTraps)
    /\ reader.pc \in {"byIP", "byCommunity"} => reader.todo # <<>>
    /\ reader.pc = "byCommunity" => ~Anonymous(Head(reader.todo))
    /\ \A k \in DOMAIN reader.out : TrueEntry(reader.out[k])

\* Min and Max of FiniteSetsExt find a member of a set of positions.
LEMMA MinMember ==
    ASSUME NEW T \in SUBSET Nat, T # {}
    PROVE  Min(T) \in T /\ \A y \in T : Min(T) <= y
<1> DEFINE R == OpToRel(<, Nat)
<1>1. IsWellFoundedOn(R, Nat)
  BY NatLessThanWellFounded
<1>2. PICK x \in T : \A y \in T : ~(<<y, x>> \in R)
  <2> HIDE DEF R
  <2> QED BY <1>1, WFMin
<1>3. ASSUME NEW y \in T PROVE x <= y
  <2>1. ~(<<y, x>> \in R)
    BY <1>2
  <2>2. ~(y < x)
    BY <2>1 DEF OpToRel
  <2> QED BY <2>2
<1> QED BY <1>3 DEF Min

LEMMA MaxMember ==
    ASSUME NEW n \in Nat, NEW T \in SUBSET (1 .. n), T # {}
    PROVE  Max(T) \in T
<1> DEFINE U == {n - k : k \in T}
           m == Min(U)
<1>1. U \in SUBSET Nat /\ U # {}
  <2>1. \A k \in T : k \in 1 .. n
    OBVIOUS
  <2>2. \A k \in T : n - k \in Nat
    BY <2>1
  <2> QED BY <2>2
<1>2. m \in U /\ \A u \in U : m <= u
  <2> HIDE DEF U
  <2> QED BY <1>1, MinMember
<1>3. PICK x \in T : m = n - x
  BY <1>2
<1>4. ASSUME NEW k \in T
      PROVE  x >= k
  <2>1. n - x <= n - k
    <3> HIDE DEF m
    <3> QED BY <1>2, <1>3
  <2>2. x \in Nat /\ k \in Nat
    OBVIOUS
  <2> HIDE DEF m
  <2> QED BY <2>1, <2>2
<1> QED BY <1>4 DEF Max

\* What enterprise an OID of two or three parts was made from.
LEMMA OneArc ==
    ASSUME NEW S, NEW s \in Seq(S), NEW x \in S, NEW a \in S,
           Len(Append(s, x)) = 2, Append(s, x)[1] = a
    PROVE  s = <<a>>
<1>1. Len(s) = 1 /\ s[1] = a
  <2> DEFINE o == Append(s, x)
             n == Len(s)
             m == Len(o)
  <2>1. n \in Nat /\ m = n + 1 /\ \A k \in 1 .. n : o[k] = s[k]
    BY AppendProperties
  <2>2. m = 2
    OBVIOUS
  <2> HIDE DEF n, m
  <2>3. n = 1
    BY <2>1, <2>2
  <2> QED BY <2>1, <2>3 DEF n
<1>2. <<a>> \in Seq(S) /\ Len(<<a>>) = 1 /\ <<a>>[1] = a
  OBVIOUS
<1>3. \A i \in 1 .. Len(s) : s[i] = <<a>>[i]
  BY <1>1, <1>2
<1> QED BY <1>1, <1>2, <1>3, SeqEqual

LEMMA TwoArcs ==
    ASSUME NEW S, NEW s \in Seq(S), NEW x \in S, NEW a \in S, NEW b \in S,
           Len(Append(s, x)) = 3, Append(s, x)[1] = a, Append(s, x)[2] = b
    PROVE  s = <<a, b>>
<1>1. Len(s) = 2 /\ s[1] = a /\ s[2] = b
  <2> DEFINE o == Append(s, x)
             n == Len(s)
             m == Len(o)
  <2>1. n \in Nat /\ m = n + 1 /\ \A k \in 1 .. n : o[k] = s[k]
    BY AppendProperties
  <2>2. m = 3
    OBVIOUS
  <2> HIDE DEF n, m
  <2>3. n = 2
    BY <2>1, <2>2
  <2> QED BY <2>1, <2>3 DEF n
<1>2. /\ <<a, b>> \in Seq(S) /\ Len(<<a, b>>) = 2
      /\ <<a, b>>[1] = a /\ <<a, b>>[2] = b
  OBVIOUS
<1>3. \A i \in 1 .. Len(s) : s[i] = <<a, b>>[i]
  BY <1>1, <1>2
<1> QED BY <1>1, <1>2, <1>3, SeqEqual

\* A v1 header's OID: the generic trap's, or one the table does not know.
LEMMA HeaderNamed ==
    ASSUME NEW p \in Packets, p.version = "v1"
    PROVE  TrapName(extractTrapOID(p)) \in {"?", p.event}
<1>1. /\ p.generic \in Nat /\ p.specific \in Nat
      /\ p.enterprise \in Seq(STRING \cup Nat)
      /\ p.generic \in 0 .. 5 => p.event = GenericTraps[p.generic + 1]
      /\ p.enterprise \notin {<<"snmpTraps">>, <<"ciscoConfigManMIB.2", 0>>}
  BY PacketAssumption DEF SaysEvent
<1>2. CASE p.generic \in 0 .. 5
  <2>1. extractTrapOID(p) = <<"snmpTraps", p.generic + 1>>
    BY <1>2 DEF extractTrapOID, genericTrapOID
  <2>2. TrapName(<<"snmpTraps", p.generic + 1>>) = GenericTraps[p.generic + 1]
    BY <1>2 DEF TrapName, trapNames, GenericTraps
  <2> QED BY <1>1, <1>2, <2>1, <2>2
<1>3. CASE p.generic \notin 0 .. 5
  <2> DEFINE s == p.enterprise
             o == Append(s, p.specific)
             S == STRING \cup Nat \cup {"snmpTraps", "ciscoConfigManMIB.2"}
  <2>1. extractTrapOID(p) = o
    BY <1>3 DEF extractTrapOID
  <2>2. "snmpTraps" \in S /\ "ciscoConfigManMIB.2" \in S /\ 0 \in S
    OBVIOUS
  <2>3. s \in Seq(S) /\ p.specific \in S
    <3>1. STRING \cup Nat \subseteq S
      OBVIOUS
    <3> HIDE DEF S
    <3> QED BY <1>1, <3>1, SeqMonotonic
  <2> HIDE DEF S
  <2>4. (Len(o) = 2 /\ o[1] = "snmpTraps") => s = <<"snmpTraps">>
    BY <2>2, <2>3, OneArc
  <2>5. (Len(o) = 3 /\ o[1] = "ciscoConfigManMIB.2" /\ o[2] = 0)
            => s = <<"ciscoConfigManMIB.2", 0>>
    BY <2>2, <2>3, TwoArcs
  <2> HIDE DEF o
  <2>6. TrapName(o) = "?"
    BY <1>1, <2>4, <2>5 DEF TrapName, trapNames
  <2> QED BY <2>1, <2>6
<1> QED BY <1>2, <1>3

\* An OID that the table has a name for is the one the MIB gives to the event
\* of that name.
LEMMA NamedByMib ==
    ASSUME NEW oid, Len(oid) \in Nat, oid = [i \in 1 .. Len(oid) |-> oid[i]], TrapName(oid) # "?"
    PROVE  \E n \in DOMAIN MibOID : oid = MibOID[n] /\ TrapName(oid) = n
<1>1. CASE Len(oid) = 2 /\ oid[1] = "snmpTraps" /\ oid[2] \in 1 .. 6
  <2>1. PICK k \in 1 .. 6 : oid[2] = k
    BY <1>1
  <2>2. oid = <<"snmpTraps", k>>
    BY <1>1, <2>1
  <2>3. TrapName(oid) = <<"ColdStart", "WarmStart", "LinkDown", "LinkUp", "AuthenticationFailure",
                          "EgpNeighborLoss">>[k]
    BY <1>1, <2>1 DEF TrapName, trapNames
  <2>4. k \in {1, 2, 3, 4, 5, 6}
    OBVIOUS
  <2> QED BY <2>2, <2>3, <2>4 DEF MibOID
<1>2. CASE Len(oid) = 3 /\ oid[1] = "ciscoConfigManMIB.2" /\ oid[2] = 0 /\ oid[3] \in 1 .. 3
  <2>1. PICK k \in 1 .. 3 : oid[3] = k
    BY <1>2
  <2>2. oid = <<"ciscoConfigManMIB.2", 0, k>>
    BY <1>2, <2>1
  <2>3. TrapName(oid) = <<"ConfigManEvent", "ConfigChanged", "ConfigCTIDRolledOver">>[k]
    BY <1>2, <2>1 DEF TrapName, trapNames
  <2>4. k \in {1, 2, 3}
    OBVIOUS
  <2> QED BY <2>2, <2>3, <2>4 DEF MibOID
<1> QED BY <1>1, <1>2 DEF TrapName, trapNames

\* The event is shown by its name or not at all.
LEMMA EventShown ==
    ASSUME NEW p \in Packets
    PROVE  TrapName(extractTrapOID(p)) \in {"?", p.event}
<1> DEFINE named == {k \in DOMAIN p.vars : p.vars[k].name = "snmpTrapOID"}
<1>1. CASE p.version = "v1"
  BY <1>1, HeaderNamed
<1>2. CASE p.version # "v1" /\ named # {}
  <2>1. named \in SUBSET Nat
    <3>1. DOMAIN p.vars = 1 .. Len(p.vars) /\ Len(p.vars) \in Nat
      BY PacketAssumption DEF SaysInterface
    <3> QED BY <3>1
  <2>2. Min(named) \in named
    <3> HIDE DEF named
    <3> QED BY <1>2, <2>1, MinMember
  <2> DEFINE oid == p.vars[Min(named)].value
  <2>3. /\ Len(oid) \in Nat /\ oid = [i \in 1 .. Len(oid) |-> oid[i]]
        /\ \A n \in DOMAIN MibOID : oid = MibOID[n] => p.event = n
    BY <1>2, <2>2, PacketAssumption DEF SaysEvent
  <2>4. extractTrapOID(p) = oid
    BY <1>2 DEF extractTrapOID
  <2> HIDE DEF oid
  <2>5. TrapName(oid) # "?" => TrapName(oid) = p.event
    BY <2>3, NamedByMib
  <2> QED BY <2>4, <2>5
<1>3. CASE p.version # "v1" /\ named = {}
  <2>1. extractTrapOID(p) = <<>>
    BY <1>3 DEF extractTrapOID
  <2>2. TrapName(<<>>) = "?"
    BY DEF TrapName, trapNames
  <2> QED BY <2>1, <2>2
<1> QED BY <1>1, <1>2, <1>3

\* So is the interface: the first description, or the last index.
LEMMA InterfaceShown ==
    ASSUME NEW p \in Packets
    PROVE  extractInterface(p.vars) \in {"", p.interface}
<1> DEFINE n     == Len(p.vars)
           descr == {k \in DOMAIN p.vars : p.vars[k].name = "ifDescr" /\ p.vars[k].value # ""}
           index == {k \in DOMAIN p.vars : p.vars[k].name = "ifIndex"}
<1>1. /\ n \in Nat /\ descr \in SUBSET (1 .. n) /\ index \in SUBSET (1 .. n)
      /\ \A k \in IF descr # {} THEN descr ELSE index : p.vars[k].value = p.interface
  BY PacketAssumption DEF SaysInterface
<1>2. extractInterface(p.vars) = IF descr # {} THEN p.vars[Min(descr)].value
                                 ELSE IF index # {} THEN p.vars[Max(index)].value ELSE ""
  BY DEF extractInterface
<1> HIDE DEF n, descr, index
<1>3. CASE descr # {}
  <2>1. descr \in SUBSET Nat
    BY <1>1
  <2>2. Min(descr) \in descr
    BY <1>3, <2>1, MinMember
  <2> QED BY <1>1, <1>2, <1>3, <2>2
<1>4. CASE descr = {} /\ index # {}
  <2>1. Max(index) \in index
    BY <1>1, <1>4, MaxMember
  <2> QED BY <1>1, <1>2, <1>4, <2>1
<1>5. CASE descr = {} /\ index = {}
  BY <1>2, <1>5
<1> QED BY <1>3, <1>4, <1>5

\* What a stored row has kept of its packet.
LEMMA StoredFields ==
    ASSUME NEW t \in StoredTraps
    PROVE  /\ t.from \in Packets
           /\ t.oid = extractTrapOID(t.from) /\ t.vars = t.from.vars
           /\ t.community \in {"", t.from.community}
           /\ \/ t.agent_address = ""
              \/ t.from.version = "v1" /\ t.agent_address = t.from.agent
<1>1. ASSUME NEW p \in Packets, t = TrapRow(p)
      PROVE  /\ t.from = p /\ t.oid = extractTrapOID(p) /\ t.vars = p.vars
             /\ t.community = p.community
             /\ t.agent_address = IF p.version = "v1" THEN p.agent ELSE ""
  BY <1>1 DEF TrapRow
<1>2. ASSUME NEW p \in Packets, t = OldRow(p)
      PROVE  /\ t.from = p /\ t.oid = extractTrapOID(p) /\ t.vars = p.vars
             /\ t.community = "" /\ t.agent_address = ""
  BY <1>2 DEF OldRow, TrapRow
<1>3. PICK p \in Packets : t = TrapRow(p) \/ t = OldRow(p)
  BY DEF StoredTraps
<1> QED BY <1>1, <1>2, <1>3

\* An entry with the right device, or with none, is true.
LEMMA EntryTrue ==
    ASSUME NEW t \in StoredTraps, NEW device, device \in {"", t.from.sender}
    PROVE  TrueEntry(Entry(t, device))
<1> DEFINE e == Entry(t, device)
<1>1. /\ e.name = TrapName(t.oid) /\ e.device = device /\ e.trap = t
      /\ e.interface = extractInterface(t.vars)
  BY DEF Entry
<1>2. e.name \in {"?", t.from.event} /\ e.interface \in {"", t.from.interface}
  BY <1>1, StoredFields, EventShown, InterfaceShown
<1> HIDE DEF e
<1>3. TrueEntry(e)
  BY <1>1, <1>2 DEF TrueEntry
<1> QED BY <1>3 DEF e

LEMMA AppendTrue ==
    ASSUME NEW s, IsSeq(s), \A k \in DOMAIN s : TrueEntry(s[k]), NEW e, TrueEntry(e)
    PROVE  \A k \in DOMAIN Append(s, e) : TrueEntry(Append(s, e)[k])
<1>1. /\ DOMAIN Append(s, e) = DOMAIN s \cup {Len(s) + 1}
      /\ \A k \in DOMAIN s : Append(s, e)[k] = s[k]
      /\ Append(s, e)[Len(s) + 1] = e
  BY AppendIsSeq
<1> QED BY <1>1

\* A reader that has traps to resolve has a stored row in hand.
LEMMA InHand ==
    ASSUME TruthInv, reader.todo # <<>>
    PROVE  Head(reader.todo) \in StoredTraps /\ Tail(reader.todo) \in Seq(StoredTraps)
<1>1. ASSUME NEW S, NEW s \in Seq(S), s # <<>>
      PROVE  Head(s) \in S /\ Tail(s) \in Seq(S)
  BY <1>1
<1>2. reader.todo \in Seq(StoredTraps)
  BY DEF TruthInv
<1> QED BY <1>1, <1>2

\* Showing a trap under the right device, or under none.
LEMMA ShowsTruth ==
    ASSUME ReaderInv, TruthInv, reader.todo # <<>>, UNCHANGED traps,
           NEW device, device \in {"", Head(reader.todo).from.sender}, Shows(device)
    PROVE  TruthInv'
<1> DEFINE e    == Entry(Head(reader.todo), device)
           out  == Append(reader.out, e)
           rest == Tail(reader.todo)
<1>1. Head(reader.todo) \in StoredTraps /\ rest \in Seq(StoredTraps)
  BY InHand
<1>2. TrueEntry(e)
  BY <1>1, EntryTrue
<1>3. reader' = Resolving(rest, out, reader.settled)
  BY DEF Shows
<1>4. \A k \in DOMAIN out : TrueEntry(out[k])
  <2> HIDE DEF e
  <2>1. IsSeq(reader.out) /\ \A k \in DOMAIN reader.out : TrueEntry(reader.out[k])
    BY DEF ReaderInv, TruthInv
  <2> QED BY <1>2, <2>1, AppendTrue
<1> HIDE DEF e, out, rest
<1>5. /\ reader'.todo = rest /\ reader'.out = out
      /\ reader'.pc = IF rest = <<>> THEN "idle" ELSE "byIP"
  BY <1>3 DEF Resolving
<1> QED BY <1>1, <1>4, <1>5 DEF TruthInv

\* resolveDevice by address: only v1 rows have one, and it is the sender's.
LEMMA ByIPTruth ==
    ASSUME ReaderInv, TruthInv, StoreTypeOK, OwnIdentities, ResolveByIP
    PROVE  TruthInv'
<1> DEFINE t     == Head(reader.todo)
           found == {r \in RowsWithIP(t.agent_address) : Scannable(r.d)}
<1>1. reader.todo # <<>> /\ t \in StoredTraps /\ UNCHANGED traps
  <2>1. reader.todo # <<>> /\ UNCHANGED traps
    BY DEF ResolveByIP, TruthInv
  <2> QED BY <2>1, InHand
<1>2. ASSUME NEW r \in found, Shows(ShownAs(r.d))
      PROVE  TruthInv'
  <2>1. r \in devices /\ r.d.ip = t.agent_address
    BY DEF RowsWithIP
  <2>2. r.d.ip \in IPs
    BY <2>1 DEF StoreTypeOK, Row, Device
  <2>3. t.from \in Packets /\ t.from.version = "v1" /\ r.d.ip = t.from.agent
    BY <1>1, <2>1, <2>2, StoredFields, SnmpAssumption
  <2>4. r.d.ip = t.from.sender
    BY <2>1, <2>3 DEF OwnIdentities
  <2> DEFINE shown == ShownAs(r.d)
  <2>5. shown \in {"", t.from.sender}
    BY <2>4 DEF ShownAs
  <2>6. Shows(shown)
    BY <1>2
  <2> HIDE DEF shown
  <2> QED BY <1>1, <2>5, <2>6, ShowsTruth
<1>3. CASE Shows("")
  BY <1>1, <1>3, ShowsTruth
<1>4. ASSUME t.community # "", reader' = [reader EXCEPT !.pc = "byCommunity"]
      PROVE  TruthInv'
  <2>1. reader'.todo = reader.todo /\ reader'.out = reader.out
    BY <1>4 DEF ReaderInv
  <2>2. ~Anonymous(Head(reader.todo))
    BY <1>4 DEF Anonymous
  <2> QED BY <1>1, <2>1, <2>2 DEF TruthInv, Anonymous
<1> QED BY <1>2, <1>3, <1>4 DEF ResolveByIP

\* resolveDevice by community: a row that decrypts to a packet's community
\* is its sender's.
LEMMA ByCommunityTruth ==
    ASSUME ReaderInv, TruthInv, OwnIdentities, ResolveByCommunity
    PROVE  TruthInv'
<1> DEFINE t     == Head(reader.todo)
           found == MatchCommunity(t.community)
<1>1. /\ reader.todo # <<>> /\ t \in StoredTraps /\ UNCHANGED traps
      /\ ~Anonymous(t)
  <2>1. reader.todo # <<>> /\ UNCHANGED traps /\ ~Anonymous(t)
    BY DEF ResolveByCommunity, TruthInv
  <2> QED BY <2>1, InHand
<1>2. t.from \in Packets /\ t.community = t.from.community /\ t.community # ""
  BY <1>1, StoredFields DEF Anonymous
<1>3. ASSUME NEW r \in found, Shows(ShownAs(r.d))
      PROVE  TruthInv'
  <2>1. /\ r \in devices /\ Decrypts(apiKey, r.d.community)
        /\ Decrypt(apiKey, r.d.community) = t.community
    BY DEF MatchCommunity
  <2>2. r.d.ip = t.from.sender
    BY <1>2, <2>1 DEF OwnIdentities
  <2> DEFINE shown == ShownAs(r.d)
  <2>3. shown \in {"", t.from.sender}
    BY <2>2 DEF ShownAs
  <2>4. Shows(shown)
    BY <1>3
  <2> HIDE DEF shown
  <2> QED BY <1>1, <2>3, <2>4, ShowsTruth
<1>4. CASE Shows("")
  BY <1>1, <1>4, ShowsTruth
<1> QED BY <1>3, <1>4 DEF ResolveByCommunity

\* The rows of a page are stored rows.
LEMMA NewestStored ==
    ASSUME traps \in Seq(StoredTraps), NEW limit \in ReadLimits
    PROVE  Newest(limit) \in Seq(StoredTraps)
<1> DEFINE n == IF limit = 0 THEN 100 ELSE limit
           m == IF Len(traps) < n THEN Len(traps) ELSE n
<1>1. Len(traps) \in Nat /\ m \in Nat /\ m <= Len(traps)
  BY TrapAssumption
<1>2. \A k \in 1 .. Len(traps) : traps[k] \in StoredTraps
  OBVIOUS
<1>3. Newest(limit) = [k \in 1 .. m |-> traps[Len(traps) + 1 - k]]
  BY DEF Newest
<1> HIDE DEF n, m
<1>4. ASSUME NEW k \in 1 .. m
      PROVE  traps[Len(traps) + 1 - k] \in StoredTraps
  <2>1. Len(traps) + 1 - k \in 1 .. Len(traps)
    BY <1>1
  <2> QED BY <1>2, <2>1
<1> QED BY <1>1, <1>3, <1>4

\* Everything else either leaves reader and table alone, adds a packet's row
\* or begins a new page.
LEMMA TruthStep ==
    ASSUME ReaderInv, TruthInv, StoreTypeOK, OwnIdentities, [Next]_allVars
    PROVE  TruthInv'
<1>1. CASE UNCHANGED <<reader, traps>>
  BY <1>1 DEF TruthInv
<1>2. ASSUME NEW p \in Packets, TrapArrives(p)
      PROVE  TruthInv'
  <2>1. TrapRow(p) \in StoredTraps
    BY DEF StoredTraps
  <2>2. traps' \in Seq(StoredTraps)
    <3>1. traps \in Seq(StoredTraps) /\ traps' = Append(traps, TrapRow(p))
      BY <1>2 DEF TrapArrives, TruthInv
    <3> QED BY <2>1, <3>1
  <2> QED BY <1>2, <2>2 DEF TrapArrives, TruthInv
<1>3. ASSUME NEW limit \in ReadLimits, ListTraps(limit)
      PROVE  TruthInv'
  <2> DEFINE page    == Newest(limit)
             settled == calm /\ \A s \in Slots : handlers[s] = Idle
  <2>1. page \in Seq(StoredTraps)
    BY NewestStored DEF TruthInv
  <2>2. reader' = Resolving(page, <<>>, settled) /\ UNCHANGED traps
    BY <1>3 DEF ListTraps
  <2> HIDE DEF page, settled
  <2>3. /\ reader'.todo = page /\ reader'.out = <<>>
        /\ reader'.pc = IF page = <<>> THEN "idle" ELSE "byIP"
    BY <2>2 DEF Resolving
  <2> QED BY <2>1, <2>2, <2>3 DEF TruthInv
<1>4. CASE ApiDies
  <2>1. reader'.todo = <<>> /\ reader'.out = <<>> /\ reader'.pc = "idle" /\ UNCHANGED traps
    BY <1>4 DEF ApiDies, NoReader, Resolving
  <2> QED BY <2>1 DEF TruthInv
<1>5. ASSUME NEW p \in Processes, OpenTrapsDB(p)
      PROVE  UNCHANGED <<reader, traps>>
  BY <1>5 DEF OpenTrapsDB, CreateTable, AddColumn
<1>6. ReceiverCrash => UNCHANGED <<reader, traps>>
  BY DEF ReceiverCrash
<1>7. ApiWorks \/ UNCHANGED trapVars \/ UNCHANGED allVars => UNCHANGED <<reader, traps>>
  BY DEF ApiWorks, trapVars, allVars
<1> QED BY <1>1, <1>2, <1>3, <1>4, <1>5, <1>6, <1>7, ByIPTruth, ByCommunityTruth
        DEF Next, TrapStep, ReadStep

\* What GET /traps/readable shows of a trap is true of it or left open,
\* whatever packets arrive in whatever versions, over any migration and with
\* devices edited, deleted and re-keyed during a read, as long as no device
\* is registered with an address or a community that another one's traps
\* carry.
THEOREM ReadableTruth == Spec /\ []OwnIdentities => []ReadableTrapsTrue
<1> DEFINE Inv == StoreTypeOK /\ ApiTypeOK /\ ReaderInv /\ TruthInv
<1>1. Init => Inv
  <2> SUFFICES ASSUME Init
               PROVE  Inv
    OBVIOUS
  <2>1. StoreTypeOK /\ ApiTypeOK /\ ReaderInv
    BY InitReader
  <2>2. traps = <<>> \/ \E p \in Packets : traps = <<OldRow(p)>>
    BY DEF Init
  <2>3. traps \in Seq(StoredTraps)
    <3>1. ASSUME NEW p \in Packets
          PROVE  <<OldRow(p)>> \in Seq(StoredTraps)
      <4>1. OldRow(p) \in StoredTraps
        BY DEF StoredTraps
      <4> QED BY <4>1
    <3>2. <<>> \in Seq(StoredTraps)
      BY EmptySeq
    <3> QED BY <2>2, <3>1, <3>2, Zenon
  <2>4. reader.todo = <<>> /\ reader.out = <<>> /\ reader.pc = "idle"
    BY DEF Init, NoReader, Resolving
  <2> QED BY <2>1, <2>3, <2>4 DEF TruthInv
<1>2. Inv /\ OwnIdentities /\ [Next]_allVars => Inv'
  BY ReaderStep, TablesStep, TruthStep
<1>3. Inv => ReadableTrapsTrue
  BY DEF TruthInv, TrueEntry, ReadableTrapsTrue
<1> QED BY <1>1, <1>2, <1>3, PTL DEF Spec
=============================================================================
