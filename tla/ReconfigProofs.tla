--------------------------- MODULE ReconfigProofs ---------------------------
(***************************************************************************)
(* Reconfiguration, with any number of drivers, failed and overlapping     *)
(* ones included: no acknowledged version gets out of reach, no replica is *)
(* installed without data, and reads stay consistent.                      *)
(*                                                                         *)
(* First for schedules that keep the puts of a chunk apart from its        *)
(* reconfigurations, with few faults; then for chunks that are put once,   *)
(* whatever fails.                                                         *)
(***************************************************************************)
EXTENDS Reconfig, DataConsistencyProofs

RcState == [pc : {"idle", "start", "fetch", "write", "verify", "commit"},
            c : Chunks \union {"-"}, ver : Version, old : SUBSET Storage, new : SUBSET Storage,
            src : Storage \union {"-"}, todo : SUBSET Storage, data : Data]

\* Node n can serve version v of chunk c when it runs.
AtLeast(n, c, v) == \E u \in Held(n, c) : u >= v

\* A put of chunk c that was given version v has ended; or is being cleaned up.
Over(c, v) ==
    \E id \in Ids : put[id].pc \in {"ok", "failed"} /\ put[id].c = c /\ put[id].ver = v
Tried(c, v) ==
    \E id \in Ids : put[id].pc \in {"cleanup", "ok", "failed"} /\ put[id].c = c /\ put[id].ver = v

\* An entry of a table, or of one that the log gives, comes from a put, and is
\* reconfigured only when the put is over.  If the put was acknowledged, its version is
\* on one of the nodes the entry names.
EntrySound(c, e) ==
    /\ Tried(c, e.version)
    /\ e.state = "TRANSITIONING" => Over(c, e.version)
    /\ e.state = "STABLE" => e.old = {}
    /\ Acked(c, e.version) => \E n \in e.reps \union e.old : AtLeast(n, c, e.version)

TableSound(t) == \A c \in Chunks : t[c].state # "ABSENT" => EntrySound(c, t[c])

\* What a driver relies on until its reconfig() returns.  The put whose version it read
\* is over, and the data it copies is of that version.  Unless the chunk was deleted, the
\* version is still the table's.  If the put was acknowledged, a member of the old set
\* has it, and so have the replicas verified so far.
DriverSound(r) ==
    /\ r \in RcState
    /\ r.pc # "idle" =>
          /\ r.c \in Chunks /\ r.new # {} /\ r.src \in Storage /\ Over(r.c, r.ver)
          /\ Present(r.c) => table[r.c].version = r.ver
          /\ Acked(r.c, r.ver) => \E n \in r.old : AtLeast(n, r.c, r.ver)
    /\ r.pc = "write" => r.ver \in Ids /\ IsPut(r.data, r.c, r.ver)
    /\ r.pc = "verify" => \A n \in r.new \ r.todo : AtLeast(n, r.c, r.ver)
    /\ r.pc = "commit" => \A n \in r.new : AtLeast(n, r.c, r.ver)

DriversSound == rc \in [Drivers -> RcState] /\ \A d \in Drivers : DriverSound(rc[d])

\* No node has a later version of a chunk than the one a driver of it read.
NoneLater ==
    \A d \in Drivers : rc[d].pc # "idle" =>
        \A n \in Storage : \A u \in Held(n, rc[d].c) : u <= rc[d].ver

\* The put whose version is in the table is over.
PresentOver == \A c \in Chunks : Present(c) => Over(c, table[c].version)

\* What the steps of the drivers preserve by themselves.
DriveInv == DataInv /\ DriversSound /\ NoneLater /\ PresentOver /\ TableSound(table)

\* The version in the table was acknowledged.
PresentAcked == \A c \in Chunks : Present(c) => Acked(c, table[c].version)

\* A chunk that was put is in the table: nothing deletes it.
AckedPresent == \A id \in Ids : put[id].pc = "ok" => Present(put[id].c)

\* A put does not overlap a transition, not even one left behind.
PutsStable ==
    \A id \in Ids : put[id].pc \in {"write", "meta"} => table[put[id].c].state # "TRANSITIONING"

\* What DataConsistencyProofs establishes without reconfiguration.
BaseInv == DataInv /\ SerialInv /\ RepairsWhole /\ WrittenHeld

ReconfigInv ==
    /\ BaseInv /\ Apart /\ DriversSound /\ AckedPresent
    /\ PresentAcked /\ TableSound(table) /\ PutsStable

(***************************************************************************)
(* What a step of a driver leaves alone.                                   *)
(***************************************************************************)
\* The sets reconfig() arrives at are not empty.
LEMMA TargetsNotEmpty ==
    ASSUME NEW c, NEW new \in Targets(c)
    PROVE  new # {}
<1> DEFINE Goal == \E rf \in 1 .. Cardinality(Storage) : \E incl, excl :
                      new \in TargetSets(table[c].reps, rf, incl, excl, alive)
<1>0. Goal
  <2> DEFINE Rfs == 1 .. Cardinality(Storage)
             In == {TargetSets(table[c].reps, rf, incl, NoNode, alive) :
                      rf \in Rfs, incl \in alive \union {NoNode}}
             Out == {TargetSets(table[c].reps, rf, NoNode, excl, alive) :
                      rf \in Rfs, excl \in Storage}
  <2>1. PICK S \in In \union Out : new \in S
    <3>1. Targets(c) = UNION (In \union Out)
      BY DEF Targets
    <3> HIDE DEF In, Out
    <3> QED BY <3>1
  <2>2. ASSUME S \in In PROVE Goal
    BY <2>1, <2>2
  <2>3. ASSUME S \in Out PROVE Goal
    BY <2>1, <2>3
  <2> HIDE DEF Goal, In, Out
  <2> QED BY <2>1, <2>2, <2>3
<1>1. PICK rf \in 1 .. Cardinality(Storage) : Cardinality(new) = rf
  BY <1>0 DEF TargetSets
<1>2. Cardinality(Storage) \in Nat
  BY ChunkTableAssumption, FS_CardinalityType
<1>3. Cardinality(new) >= 1
  BY <1>1, <1>2
<1>4. Cardinality({}) = 0
  BY FS_EmptySet
<1> QED BY <1>3, <1>4

\* The entry of one chunk in the table, before and after.
EntryKept(c) ==
    table'[c].version = table[c].version /\ (table'[c].state = "ABSENT" <=> table[c].state = "ABSENT")

\* Steps after which everything but the replica sets and states in the tables, the
\* stores, the drivers and the count of failed metadata writes is as it was,
\* no version is taken away and every version that is new is one of a put.
DriverQuiet ==
    /\ UNCHANGED <<put, get, rep, obsVars, up, alive, assigned>>
    /\ UNCHANGED <<gets, deletes, crashes, restarts, losses>>
    /\ unavailable' \in {unavailable, unavailable + 1}
    /\ Listed(table') /\ Listed(logged') /\ Listed(replayed') /\ tail' \in SUBSET Ids
    /\ \A c \in Chunks : EntryKept(c)
    /\ store' \in [Storage -> [Chunks -> [Ids -> Data]]]
    /\ \A n \in Storage, c \in Chunks, v \in Ids :
          store'[n][c][v] = store[n][c][v] \/ IsPut(store'[n][c][v], c, v)

\* Table u is t but for the state and the replica sets of chunk c, if t has it.
Becomes(t, u, c, state, reps, old) ==
    /\ Listed(u)
    /\ \A b \in Chunks : b # c => u[b] = t[b]
    /\ t[c].state = "ABSENT" => u = t
    /\ t[c].state # "ABSENT" =>
          u[c].state = state /\ u[c].reps = reps /\ u[c].old = old /\ u[c].version = t[c].version

\* What replacing an entry by one of the same version does.
LEMMA Replaced ==
    \A t, c, e : Listed(t) /\ c \in Chunks /\ t[c].state # "ABSENT" /\ e \in ChunkEntry
                 /\ e.version = t[c].version =>
        Becomes(t, [t EXCEPT ![c] = e], c, e.state, e.reps, e.old)
<1> SUFFICES ASSUME NEW t, Listed(t), NEW c \in Chunks, t[c].state # "ABSENT", NEW e \in ChunkEntry,
                    e.version = t[c].version
             PROVE  Becomes(t, [t EXCEPT ![c] = e], c, e.state, e.reps, e.old)
  OBVIOUS
<1>1. PICK u : u = [t EXCEPT ![c] = e]
  OBVIOUS
<1>2. u[c] = e /\ u \in [Chunks -> ChunkEntry] /\ \A b \in Chunks : b # c => u[b] = t[b]
  BY <1>1 DEF Listed
<1>3. \A b \in Chunks : u[b].version <= started
  BY <1>2 DEF Listed
<1>4. Becomes(t, u, c, e.state, e.reps, e.old)
  BY <1>2, <1>3 DEF Becomes, Listed
<1> QED BY <1>1, <1>4

\* RECONFIGURE_START in a table: a chunk that was deleted stays so.
LEMMA StartedBecomes ==
    \A t, c, old, new :
        Listed(t) /\ c \in Chunks /\ old \in SUBSET Storage /\ new \in SUBSET Storage =>
            Becomes(t, StartedReconfig(t, c, old, new), c, "TRANSITIONING", new, old)
<1> SUFFICES ASSUME NEW t, Listed(t), NEW c \in Chunks, NEW old \in SUBSET Storage,
                    NEW new \in SUBSET Storage
             PROVE  Becomes(t, StartedReconfig(t, c, old, new), c, "TRANSITIONING", new, old)
  OBVIOUS
<1>1. CASE t[c].state = "ABSENT"
  <2>1. StartedReconfig(t, c, old, new) = t
    BY <1>1 DEF StartedReconfig
  <2> QED BY <1>1, <2>1 DEF Becomes
<1>2. CASE t[c].state # "ABSENT"
  <2> DEFINE e == [t[c] EXCEPT !.state = "TRANSITIONING", !.old = old, !.reps = new]
  <2>1. StartedReconfig(t, c, old, new) = [t EXCEPT ![c] = e]
    BY <1>2 DEF StartedReconfig
  <2>2. t[c] \in ChunkEntry
    BY DEF Listed
  <2>3. e \in ChunkEntry /\ e.version = t[c].version /\ e.state = "TRANSITIONING"
        /\ e.old = old /\ e.reps = new
    BY <2>2 DEF ChunkEntry
  <2> HIDE DEF e
  <2>4. Becomes(t, [t EXCEPT ![c] = e], c, e.state, e.reps, e.old)
    BY <1>2, <2>3, Replaced
  <2> QED BY <2>1, <2>3, <2>4
<1> QED BY <1>1, <1>2

\* RECONFIGURE_COMMIT in a table: a chunk that was deleted stays so.
LEMMA CommittedBecomes ==
    \A t, c, new :
        Listed(t) /\ c \in Chunks /\ new \in SUBSET Storage =>
            Becomes(t, CommittedReconfig(t, c, new), c, "STABLE", new, {})
<1> SUFFICES ASSUME NEW t, Listed(t), NEW c \in Chunks, NEW new \in SUBSET Storage
             PROVE  Becomes(t, CommittedReconfig(t, c, new), c, "STABLE", new, {})
  OBVIOUS
<1>1. CASE t[c].state = "ABSENT"
  <2>1. CommittedReconfig(t, c, new) = t
    BY <1>1 DEF CommittedReconfig
  <2> QED BY <1>1, <2>1 DEF Becomes
<1>2. CASE t[c].state # "ABSENT"
  <2> DEFINE e == [t[c] EXCEPT !.state = "STABLE", !.old = {}, !.reps = new]
  <2>1. CommittedReconfig(t, c, new) = [t EXCEPT ![c] = e]
    BY <1>2 DEF CommittedReconfig
  <2>2. t[c] \in ChunkEntry
    BY DEF Listed
  <2>3. e \in ChunkEntry /\ e.version = t[c].version /\ e.state = "STABLE"
        /\ e.old = {} /\ e.reps = new
    BY <2>2 DEF ChunkEntry
  <2> HIDE DEF e
  <2>4. Becomes(t, [t EXCEPT ![c] = e], c, e.state, e.reps, e.old)
    BY <1>2, <2>3, Replaced
  <2> QED BY <2>1, <2>3, <2>4
<1> QED BY <1>1, <1>2

\* A table that becomes another keeps its versions.
LEMMA BecomesKept ==
    ASSUME NEW c, NEW state, state # "ABSENT", NEW reps, NEW old,
           Becomes(table, table', c, state, reps, old)
    PROVE  \A b \in Chunks : EntryKept(b)
<1>1. ASSUME NEW b \in Chunks PROVE EntryKept(b)
  <2>1. CASE table'[b] = table[b]
    BY <2>1 DEF EntryKept
  <2>2. CASE table'[b] # table[b]
    BY <2>2 DEF EntryKept, Becomes
  <2> QED BY <2>1, <2>2
<1> QED BY <1>1

\* RECONFIGURE_START commits.
LEMMA StartApplied ==
    ASSUME DataInv, DriversSound, NEW d \in Drivers, ReconfigStart(d)
    PROVE  /\ rc[d].c \in Chunks /\ DriverQuiet /\ store' = store
           /\ Becomes(table, table', rc[d].c, "TRANSITIONING", rc[d].new, rc[d].old)
           /\ Becomes(logged, logged', rc[d].c, "TRANSITIONING", rc[d].new, rc[d].old)
           /\ replayed' = logged' /\ tail' = {}
<1>0. /\ Listed(table) /\ Listed(logged) /\ store \in [Storage -> [Chunks -> [Ids -> Data]]]
  BY TypeParts, TablesListed DEF DataInv
<1>1. PICK c \in Chunks, old \in SUBSET Storage, new \in SUBSET Storage :
        c = rc[d].c /\ old = rc[d].old /\ new = rc[d].new
  BY DEF ReconfigStart, DriversSound, DriverSound, RcState
<1>2. /\ UNCHANGED <<put, get, rep, obsVars, up, alive, assigned, store>>
      /\ UNCHANGED <<gets, deletes, crashes, restarts, losses, unavailable>>
  BY DEF ReconfigStart, nodeVars, cntVars
<1>3. /\ table' = StartedReconfig(table, c, old, new)
      /\ logged' = StartedReconfig(logged, c, old, new)
      /\ replayed' = logged' /\ tail' = {}
  BY <1>1 DEF ReconfigStart, ApplyReconfigStart, CommitAll
<1>4. /\ Becomes(table, table', c, "TRANSITIONING", new, old)
      /\ Becomes(logged, logged', c, "TRANSITIONING", new, old)
  BY <1>0, <1>3, StartedBecomes
<1>5. Listed(table') /\ Listed(logged') /\ \A b \in Chunks : EntryKept(b)
  BY <1>4, BecomesKept DEF Becomes
<1>6. DriverQuiet
  BY <1>0, <1>2, <1>3, <1>5 DEF DriverQuiet
<1> QED BY <1>1, <1>2, <1>3, <1>4, <1>6

\* RECONFIGURE_COMMIT commits.
LEMMA CommitApplied ==
    ASSUME DataInv, DriversSound, NEW d \in Drivers, ReconfigCommit(d)
    PROVE  /\ rc[d].c \in Chunks /\ DriverQuiet /\ store' = store
           /\ Becomes(table, table', rc[d].c, "STABLE", rc[d].new, {})
           /\ Becomes(logged, logged', rc[d].c, "STABLE", rc[d].new, {})
           /\ replayed' = logged' /\ tail' = {}
<1>0. /\ Listed(table) /\ Listed(logged) /\ store \in [Storage -> [Chunks -> [Ids -> Data]]]
  BY TypeParts, TablesListed DEF DataInv
<1>1. PICK c \in Chunks, new \in SUBSET Storage : c = rc[d].c /\ new = rc[d].new
  BY DEF ReconfigCommit, DriversSound, DriverSound, RcState
<1>2. /\ UNCHANGED <<put, get, rep, obsVars, up, alive, assigned, store>>
      /\ UNCHANGED <<gets, deletes, crashes, restarts, losses, unavailable>>
  BY DEF ReconfigCommit, nodeVars, cntVars
<1>3. /\ table' = CommittedReconfig(table, c, new)
      /\ logged' = CommittedReconfig(logged, c, new)
      /\ replayed' = logged' /\ tail' = {}
  BY <1>1 DEF ReconfigCommit, ApplyReconfigCommit, CommitAll
<1>4. /\ Becomes(table, table', c, "STABLE", new, {})
      /\ Becomes(logged, logged', c, "STABLE", new, {})
  BY <1>0, <1>3, CommittedBecomes
<1>5. Listed(table') /\ Listed(logged') /\ \A b \in Chunks : EntryKept(b)
  BY <1>4, BecomesKept DEF Becomes
<1>6. DriverQuiet
  BY <1>0, <1>2, <1>3, <1>5 DEF DriverQuiet
<1> QED BY <1>1, <1>2, <1>3, <1>4, <1>6

\* One of them is refused: it is in the log.
LEMMA RefusedApplied ==
    ASSUME DataInv, DriversSound, NEW d \in Drivers, ReconfigUnavailable(d)
    PROVE  /\ rc[d].c \in Chunks /\ DriverQuiet /\ store' = store
           /\ UNCHANGED <<table, replayed, tail>>
           /\ \/ /\ rc[d].pc = "start"
                 /\ Becomes(logged, logged', rc[d].c, "TRANSITIONING", rc[d].new, rc[d].old)
              \/ /\ rc[d].pc = "commit"
                 /\ Becomes(logged, logged', rc[d].c, "STABLE", rc[d].new, {})
<1>0. /\ Listed(table) /\ Listed(logged) /\ Listed(replayed) /\ tail \in SUBSET Ids
      /\ store \in [Storage -> [Chunks -> [Ids -> Data]]]
  BY TypeParts, TablesListed DEF DataInv
<1>1. PICK c \in Chunks, old \in SUBSET Storage, new \in SUBSET Storage :
        c = rc[d].c /\ old = rc[d].old /\ new = rc[d].new
  BY DEF ReconfigUnavailable, DriversSound, DriverSound, RcState
<1>2. /\ UNCHANGED <<put, get, rep, obsVars, up, alive, assigned, store>>
      /\ UNCHANGED <<gets, deletes, crashes, restarts, losses>> /\ unavailable' = unavailable + 1
  BY DEF ReconfigUnavailable, nodeVars
<1>3. /\ logged' = IF rc[d].pc = "start" THEN StartedReconfig(logged, c, old, new)
                   ELSE CommittedReconfig(logged, c, new)
      /\ rc[d].pc \in {"start", "commit"}
      /\ table' = table /\ replayed' = replayed /\ tail' = tail
  BY <1>1 DEF ReconfigUnavailable, LogOnly
<1>4. \/ rc[d].pc = "start" /\ Becomes(logged, logged', c, "TRANSITIONING", new, old)
      \/ rc[d].pc = "commit" /\ Becomes(logged, logged', c, "STABLE", new, {})
  BY <1>0, <1>3, StartedBecomes, CommittedBecomes
<1>5. Listed(logged')
  BY <1>4 DEF Becomes
<1>6. DriverQuiet
  BY <1>0, <1>2, <1>3, <1>5 DEF DriverQuiet, EntryKept
<1> QED BY <1>1, <1>2, <1>3, <1>4, <1>6

\* A WriteChunk of a driver, noticed or not, stores a put under its version.
LEMMA CopyApplied ==
    ASSUME DataInv, DriversSound, NEW d \in Drivers, rc[d].pc = "write", NEW n \in Storage,
           StoreWrite(n, rc[d].c, rc[d].ver, rc[d].data),
           UNCHANGED <<tableVars, up, assigned, put, get, rep, obsVars, cntVars>>
    PROVE  DriverQuiet
<1>0. TypeOK /\ Listed(table) /\ Listed(logged) /\ Listed(replayed) /\ tail \in SUBSET Ids
  BY TablesListed DEF DataInv
<1>1. PICK c \in Chunks, v \in Ids, x \in Ids : c = rc[d].c /\ v = rc[d].ver /\ x = rc[d].data
  BY DEF DriversSound, DriverSound, IsPut
<1>2. IsPut(x, c, v) /\ x \in Data
  BY <1>1, Numbers DEF DriversSound, DriverSound
<1>3. StoreWrite(n, c, v, x)
  BY <1>1
<1>4. /\ store' \in [Storage -> [Chunks -> [Ids -> Data]]]
      /\ \A m \in Storage, b \in Chunks, u \in Ids :
           store'[m][b][u] = IF m = n /\ b = c /\ u = v THEN x ELSE store[m][b][u]
  BY <1>0, <1>2, <1>3, WriteStored
<1>5. \A m \in Storage, b \in Chunks, u \in Ids :
        store'[m][b][u] = store[m][b][u] \/ IsPut(store'[m][b][u], b, u)
  BY <1>2, <1>4
<1>6. table' = table /\ logged' = logged /\ replayed' = replayed /\ tail' = tail /\ alive' = alive
  BY DEF tableVars
<1>7. \A c1 \in Chunks : EntryKept(c1)
  BY <1>6 DEF EntryKept
<1> QED BY <1>0, <1>4, <1>5, <1>6, <1>7 DEF DriverQuiet, cntVars

\* No step of a driver does more than that.
LEMMA DriverStepQuiet ==
    ASSUME DataInv, DriversSound, NEW d \in Drivers,
           \/ ReconfigStep(d)
           \/ \E c \in Chunks, new \in SUBSET Storage, src \in Storage : ReconfigBegin(d, c, new, src)
    PROVE  DriverQuiet
<1>0. /\ Listed(table) /\ Listed(logged) /\ Listed(replayed) /\ tail \in SUBSET Ids
      /\ store \in [Storage -> [Chunks -> [Ids -> Data]]]
  BY TypeParts, TablesListed DEF DataInv
<1>1. ASSUME UNCHANGED <<tableVars, store, up, assigned, put, get, rep, obsVars, cntVars>>
      PROVE  DriverQuiet
  <2>1. table' = table /\ logged' = logged /\ replayed' = replayed /\ tail' = tail /\ alive' = alive
    BY <1>1 DEF tableVars
  <2> QED BY <1>0, <1>1, <2>1 DEF DriverQuiet, EntryKept, cntVars
<1>2. ASSUME UNCHANGED vars PROVE DriverQuiet
  BY <1>1, <1>2 DEF vars, nodeVars
<1>3. ASSUME ReconfigFetch(d) \/ ReconfigFailed(d) PROVE DriverQuiet
  BY <1>2, <1>3 DEF ReconfigFetch, ReconfigFailed
<1>4. ASSUME NEW n \in Storage, ReconfigVerify(d, n) PROVE DriverQuiet
  BY <1>2, <1>4 DEF ReconfigVerify
<1>5. ASSUME NEW c, NEW new, NEW src, ReconfigBegin(d, c, new, src) PROVE DriverQuiet
  BY <1>2, <1>5 DEF ReconfigBegin
<1>6. ASSUME NEW n \in Storage, ReconfigWrite(d, n) PROVE DriverQuiet
  BY <1>6, CopyApplied DEF ReconfigWrite
<1>7. ASSUME ReconfigLost(d) PROVE DriverQuiet
  <2>1. UNCHANGED <<tableVars, up, assigned, put, get, rep, obsVars, cntVars>>
    BY <1>7 DEF ReconfigLost
  <2>2. CASE UNCHANGED store
    BY <1>1, <2>1, <2>2
  <2>3. CASE /\ rc[d].pc = "write"
             /\ \E n \in rc[d].todo \intersect up : StoreWrite(n, rc[d].c, rc[d].ver, rc[d].data)
    <3>1. PICK n \in up : StoreWrite(n, rc[d].c, rc[d].ver, rc[d].data)
      BY <2>3
    <3>2. n \in Storage
      BY TypeParts DEF DataInv
    <3> QED BY <2>1, <2>3, <3>1, <3>2, CopyApplied
  <2> QED BY <1>7, <2>2, <2>3 DEF ReconfigLost
<1>8. ASSUME ReconfigStart(d) \/ ReconfigCommit(d) \/ ReconfigUnavailable(d) PROVE DriverQuiet
  BY <1>8, StartApplied, CommitApplied, RefusedApplied
<1> QED BY <1>3, <1>4, <1>5, <1>6, <1>7, <1>8 DEF ReconfigStep

\* No version of chunk c is taken away.
Grows(c) == \A n \in Storage, v \in Ids : Holds(n, c, v) => Holds(n, c, v)'

\* What is held stays held.
LEMMA DriverHolds ==
    ASSUME DriverQuiet
    PROVE  \A c \in Chunks : Grows(c)
<1> SUFFICES ASSUME NEW n \in Storage, NEW c \in Chunks, NEW v \in Ids, store[n][c][v] # NoData
             PROVE  store'[n][c][v] # NoData
  BY DEF Grows, Holds, Held
<1>1. store'[n][c][v] = store[n][c][v] \/ store'[n][c][v] \in Ids
  BY DEF DriverQuiet, IsPut
<1> QED BY <1>1, Numbers

\* Such a step keeps what holds of the puts, the gets, the repairs and the stores.
LEMMA QuietData ==
    ASSUME DataInv, DriverQuiet
    PROVE  DataInv'
<1>0. /\ put' = put /\ get' = get /\ rep' = rep /\ up' = up /\ alive' = alive
      /\ assigned' = assigned /\ started' = started /\ stale' = stale /\ passed' = passed
      /\ seen' = seen
      /\ Listed(table') /\ Listed(logged') /\ Listed(replayed') /\ tail' \in SUBSET Ids
      /\ store' \in [Storage -> [Chunks -> [Ids -> Data]]]
  BY DEF DriverQuiet, obsVars
<1>1. DataInv /\ TypeOK /\ put \in [Ids -> PutState]
  BY TypeParts DEF DataInv
<1>2. TypeOK'
  <2>1. TableTypeOK'
    BY <1>0, <1>1, TypeParts DEF TableTypeOK, Listed, Ids
  <2>2. /\ TableTypeOK' /\ store' \in [Storage -> [Chunks -> [Ids -> Data]]]
        /\ up' \in SUBSET Storage /\ assigned' \in [Storage -> SUBSET Chunks]
        /\ put' \in [Ids -> PutState] /\ get' \in [Readers -> GetState]
        /\ rep' \in [Storage -> RepState] /\ started' \in Data /\ stale' \in SUBSET Ids
        /\ passed' \in SUBSET Ids /\ seen' \subseteq SeenState
    BY <1>0, <1>1, <2>1, TypeParts
  <2> QED BY <2>2 DEF TypeOK, PutState, GetState, RepState, SeenState
<1>3. PutsNumbered'
  BY <1>0, <1>1 DEF DataInv, PutsNumbered, Listed
<1>4. StoredArePuts'
  <2> SUFFICES ASSUME NEW n \in Storage, NEW c \in Chunks, NEW v \in Ids, store'[n][c][v] # NoData
               PROVE  IsPut(store[n][c][v], c, v)'
    BY DEF StoredArePuts
  <2>1. IsPut(store'[n][c][v], c, v)
    BY <1>1 DEF DriverQuiet, DataInv, StoredArePuts
  <2> QED BY <1>0, <2>1 DEF IsPut
<1>5. RepairsArePuts'
  BY <1>0, <1>1 DEF DataInv, RepairsArePuts, IsPut
<1>6. GetsNamed'
  BY <1>0, <1>1 DEF DataInv, GetsNamed
<1> QED BY <1>2, <1>3, <1>4, <1>5, <1>6 DEF DataInv

\* With few faults it keeps what makes the puts serial, too.
LEMMA QuietBase ==
    ASSUME BaseInv, DriverQuiet
    PROVE  BaseInv'
<1>0. /\ put' = put /\ get' = get /\ rep' = rep /\ up' = up
      /\ started' = started /\ stale' = stale /\ passed' = passed
      /\ seen' = seen /\ gets' = gets /\ deletes' = deletes /\ crashes' = crashes
      /\ restarts' = restarts /\ losses' = losses
      /\ unavailable' \in {unavailable, unavailable + 1}
      /\ \A c \in Chunks : table'[c].version = table[c].version
  BY DEF DriverQuiet, obsVars, EntryKept
<1>1. DataInv /\ SerialInv /\ put \in [Ids -> PutState]
  BY TypeParts DEF BaseInv, DataInv
<1>7. CountersBounded'
  BY <1>0, <1>1 DEF SerialInv, CountersBounded
<1>8. \A id \in Ids : put[id].pc # "none" => put[id].c \in Chunks
  BY <1>1 DEF DataInv, PutsNumbered
<1>9. SerialPuts' /\ VersionsUnique' /\ PriorsAcked'
  BY <1>0, <1>1 DEF SerialInv, PutsInv, SerialPuts, VersionsUnique, PriorsAcked
<1>10. VersionsOrdered'
  BY <1>0, <1>1, <1>8 DEF SerialInv, PutsInv, VersionsOrdered
<1>11. StalesBelow'
  <2>1. stale \in SUBSET Ids
    BY <1>1, TypeParts DEF DataInv
  <2> QED BY <1>0, <1>1, <1>8, <2>1 DEF SerialInv, PutsInv, StalesBelow
<1>12. GetsAbove'
  BY <1>0, <1>1 DEF SerialInv, GetsAbove
<1>13. FaultsCounted'
  BY <1>0, <1>1 DEF SerialInv, FaultsCounted, Gone
<1>14. NoStaleRead'
  BY <1>0, <1>1 DEF SerialInv, NoStaleRead
<1>15. RepairsWhole'
  BY <1>0 DEF BaseInv, RepairsWhole
<1>16. WrittenHeld'
  <2> SUFFICES ASSUME NEW id \in Ids, put[id].pc \in {"write", "meta"}
               PROVE  /\ put[id].oks \subseteq put[id].reps
                      /\ \A n \in put[id].oks : Holds(n, put[id].c, put[id].ver)'
                      /\ put[id].pc = "meta" => StorageMajority(id)'
    BY <1>0 DEF WrittenHeld
  <2>1. PICK c \in Chunks, v \in Ids : c = put[id].c /\ v = put[id].ver
    BY <1>1 DEF DataInv, PutsNumbered
  <2>2. put[id].oks \in SUBSET Storage
    BY <1>1 DEF PutState
  <2>3. \A n \in put[id].oks : Holds(n, c, v)'
    BY <2>1, <2>2, DriverHolds DEF BaseInv, WrittenHeld, Grows
  <2>4. \A n \in put[id].oks : Holds(n, put[id].c, put[id].ver)'
    BY <1>0, <2>1, <2>3
  <2>5. put[id].pc = "meta" => StorageMajority(id)'
    BY <1>0 DEF StorageMajority, BaseInv, WrittenHeld
  <2> QED BY <2>4, <2>5 DEF BaseInv, WrittenHeld
<1>17. DataInv'
  BY <1>1, QuietData
<1>18. SerialInv'
  BY <1>7, <1>9, <1>10, <1>11, <1>12, <1>13, <1>14 DEF SerialInv, PutsInv
<1> QED BY <1>15, <1>16, <1>17, <1>18 DEF BaseInv

(***************************************************************************)
(* Drivers.                                                                *)
(***************************************************************************)
\* A node serves at least version v when its latest version is that recent.
LEMMA LatestAtLeast ==
    ASSUME NEW n \in Storage, NEW c \in Chunks, NEW v \in Nat
    PROVE  /\ Held(n, c) # {} /\ LatestVersion(n, c) >= v => AtLeast(n, c, v)
           /\ AtLeast(n, c, v) => Held(n, c) # {} /\ LatestVersion(n, c) >= v
<1>1. LatestVersion(n, c) \in Nat /\ \A u \in Held(n, c) : u \in Nat
  BY Latest, Numbers
<1>2. ASSUME Held(n, c) # {}, LatestVersion(n, c) >= v PROVE AtLeast(n, c, v)
  BY <1>2, Latest DEF AtLeast
<1>3. ASSUME AtLeast(n, c, v) PROVE Held(n, c) # {} /\ LatestVersion(n, c) >= v
  <2>1. PICK u \in Held(n, c) : u >= v
    BY <1>3 DEF AtLeast
  <2>2. Held(n, c) # {} /\ u <= LatestVersion(n, c)
    BY <2>1, Latest
  <2> QED BY <1>1, <2>1, <2>2
<1> QED BY <1>2, <1>3

\* If no version is taken away, what a node can serve it can serve afterwards.
LEMMA AtLeastGrows ==
    ASSUME NEW n \in Storage, NEW c \in Chunks, Grows(c), NEW v, AtLeast(n, c, v)
    PROVE  AtLeast(n, c, v)'
<1>1. PICK u \in Held(n, c) : u >= v
  BY DEF AtLeast
<1>2. u \in Ids /\ Holds(n, c, u)
  BY <1>1 DEF Held, Holds
<1>3. u \in Held(n, c)'
  BY <1>2 DEF Grows, Holds
<1> QED BY <1>1, <1>3 DEF AtLeast

\* The entry of a chunk is of the version it was, or gone.
EntryNotNew(c) == Present(c)' => Present(c) /\ table'[c].version = table[c].version

\* No put of that version is acknowledged by this step.
AckNotNew(c, v) == Acked(c, v)' => Acked(c, v)

\* An entry stays sound as long as its put stays what it is and nothing is taken away
\* from an acknowledged one.
LEMMA EntryStays ==
    ASSUME NEW c \in Chunks, NEW e \in ChunkEntry, EntrySound(c, e),
           \A w : Tried(c, w) => Tried(c, w)', \A w : Over(c, w) => Over(c, w)',
           Acked(c, e.version)' => Acked(c, e.version) /\ Grows(c)
    PROVE  EntrySound(c, e)'
<1>1. ASSUME Acked(c, e.version)' PROVE \E n \in e.reps \union e.old : AtLeast(n, c, e.version)'
  <2>1. PICK n \in e.reps \union e.old : AtLeast(n, c, e.version)
    BY <1>1 DEF EntrySound
  <2>2. n \in Storage
    BY DEF ChunkEntry
  <2> QED BY <1>1, <2>1, <2>2, AtLeastGrows
<1> QED BY <1>1 DEF EntrySound

\* What a driver relies on survives every step that forgets no put, takes no version of
\* the driver's chunk away nor gives it a new one.
LEMMA SoundKept ==
    ASSUME NEW r, DriverSound(r),
           \A x, c, v : IsPut(x, c, v) => IsPut(x, c, v)',
           \A c, v : Over(c, v) => Over(c, v)',
           r.pc # "idle" => Grows(r.c) /\ EntryNotNew(r.c) /\ AckNotNew(r.c, r.ver)
    PROVE  DriverSound(r)'
<1>0. r \in RcState
  BY DEF DriverSound
<1>1. CASE r.pc = "idle"
  BY <1>0, <1>1 DEF DriverSound
<1>2. CASE r.pc # "idle"
  <2>1. /\ r.c \in Chunks /\ r.new # {} /\ r.src \in Storage /\ Over(r.c, r.ver)'
        /\ Grows(r.c) /\ EntryNotNew(r.c) /\ AckNotNew(r.c, r.ver)
        /\ r.old \in SUBSET Storage /\ r.new \in SUBSET Storage
    BY <1>0, <1>2 DEF DriverSound, RcState
  <2>2. \A n \in Storage : AtLeast(n, r.c, r.ver) => AtLeast(n, r.c, r.ver)'
    BY <2>1, AtLeastGrows
  <2>3. r.pc = "write" => r.ver \in Ids /\ IsPut(r.data, r.c, r.ver)'
    BY DEF DriverSound
  <2>4. Present(r.c)' => table'[r.c].version = r.ver
    BY <1>2, <2>1 DEF EntryNotNew, DriverSound
  <2>5. Acked(r.c, r.ver)' => \E n \in r.old : AtLeast(n, r.c, r.ver)'
    BY <1>2, <2>1, <2>2 DEF AckNotNew, DriverSound
  <2>6. r.pc = "verify" => \A n \in r.new \ r.todo : AtLeast(n, r.c, r.ver)'
    BY <2>1, <2>2 DEF DriverSound
  <2>7. r.pc = "commit" => \A n \in r.new : AtLeast(n, r.c, r.ver)'
    BY <2>1, <2>2 DEF DriverSound
  <2> QED BY <1>0, <1>2, <2>1, <2>3, <2>4, <2>5, <2>6, <2>7 DEF DriverSound
<1> QED BY <1>1, <1>2

\* The record of a driver that is not inside reconfig().
LEMMA NoDriver == DriverSound(NoRc) /\ DriverSound(NoRc)' /\ NoRc.pc = "idle"
<1>1. NoRc \in RcState /\ NoRc.pc = "idle"
  BY Numbers DEF NoRc, RcState
<1> QED BY <1>1 DEF DriverSound

\* With the puts kept apart, none of the chunk of a driver is in progress.
LEMMA ApartNoneLater == ReconfigInv => NoneLater
<1> SUFFICES ASSUME ReconfigInv, NEW d \in Drivers, rc[d].pc # "idle", NEW n \in Storage,
                    NEW u \in Held(n, rc[d].c)
             PROVE  u <= rc[d].ver
  BY DEF NoneLater
<1>0. /\ DataInv /\ Apart /\ SerialPuts /\ VersionsOrdered
      /\ DriverSound(rc[d]) /\ Present(rc[d].c)
  <2>1. DataInv /\ Apart /\ SerialPuts /\ VersionsOrdered /\ DriverSound(rc[d]) /\ AckedPresent
    BY DEF ReconfigInv, BaseInv, SerialInv, PutsInv, DriversSound
  <2>2. PICK id \in Ids : put[id].pc \in {"ok", "failed"} /\ put[id].c = rc[d].c
    BY <2>1 DEF DriverSound, Over
  <2>3. put[id].pc = "ok"
    BY <2>1, <2>2 DEF SerialPuts
  <2> QED BY <2>1, <2>2, <2>3 DEF AckedPresent
<1>1. PICK c \in Chunks : c = rc[d].c
  BY <1>0 DEF DriverSound
<1>2. u \in Ids /\ IsPut(store[n][c][u], c, u)
  BY <1>0, <1>1 DEF Held, DataInv, StoredArePuts
<1>3. PICK id \in Ids : put[id].pc # "none" /\ put[id].c = c /\ put[id].ver = u
  BY <1>2 DEF IsPut
<1>4. put[id].pc = "ok"
  <2>1. put[id].pc \in {"write", "meta", "ok"}
    BY <1>0, <1>3 DEF SerialPuts
  <2>2. ASSUME put[id].pc \in {"write", "meta"} PROVE FALSE
    BY <1>0, <1>1, <1>3, <2>2 DEF Apart, Active
  <2> QED BY <2>1, <2>2
<1>5. u <= table[c].version
  BY <1>0, <1>3, <1>4 DEF VersionsOrdered
<1>6. table[c].version = rc[d].ver
  BY <1>0, <1>1 DEF DriverSound
<1> QED BY <1>1, <1>5, <1>6

\* A step of driver d that leaves it with a record it may rely on.
LEMMA DriverReplaced ==
    ASSUME DriversSound, DriverQuiet, NEW d \in Drivers, NEW r, DriverSound(r),
           rc' = [rc EXCEPT ![d] = r]
    PROVE  DriversSound'
<1>1. \A c \in Chunks : Grows(c) /\ EntryNotNew(c)
  BY DriverHolds DEF DriverQuiet, EntryKept, EntryNotNew, Present
<1>2. /\ \A x, c, v : IsPut(x, c, v) => IsPut(x, c, v)'
      /\ \A c, v : (Over(c, v) => Over(c, v)') /\ AckNotNew(c, v)
  BY DEF DriverQuiet, IsPut, Over, Acked, AckNotNew
<1>3. ASSUME NEW s, DriverSound(s) PROVE DriverSound(s)'
  <2>1. s.pc # "idle" => Grows(s.c) /\ EntryNotNew(s.c) /\ AckNotNew(s.c, s.ver)
    BY <1>1, <1>2, <1>3 DEF DriverSound
  <2> QED BY <1>1, <1>2, <1>3, <2>1, SoundKept
<1>4. rc \in [Drivers -> RcState] /\ r \in RcState
  BY DEF DriversSound, DriverSound
<1>5. rc' \in [Drivers -> RcState] /\ \A e \in Drivers : rc'[e] = IF e = d THEN r ELSE rc[e]
  BY <1>4
<1>6. ASSUME NEW e \in Drivers PROVE DriverSound(rc[e])'
  <2>1. PICK s : s = rc'[e]
    OBVIOUS
  <2>2. DriverSound(s)
    BY <1>5, <2>1 DEF DriversSound
  <2>3. DriverSound(s)'
    BY <1>3, <2>2
  <2> QED BY <2>1, <2>3
<1> QED BY <1>5, <1>6 DEF DriversSound

\* Where the driver goes with copies still to be made, it relies on what it did.
LEMMA CopyOrVerifySound ==
    ASSUME NEW r, DriverSound(r), r.pc # "idle", NEW todo \in SUBSET Storage
    PROVE  DriverSound(CopyOrVerify(r, todo))
<1>0. r \in RcState
  BY DEF DriverSound
<1>1. /\ r.c \in Chunks /\ r.new # {} /\ r.src \in Storage /\ Over(r.c, r.ver)
      /\ Present(r.c) => table[r.c].version = r.ver
      /\ Acked(r.c, r.ver) => \E n \in r.old : AtLeast(n, r.c, r.ver)
  BY DEF DriverSound
<1>2. ASSUME NEW s, NEW p \in {"fetch", "verify"}, NEW t \in SUBSET Storage,
             p = "verify" => t = r.new,
             s = [r EXCEPT !.pc = p, !.todo = t, !.data = 0]
      PROVE  DriverSound(s)
  <2>1. 0 \in Data
    BY Numbers
  <2>2. s \in RcState
    BY <1>0, <1>2, <2>1 DEF RcState
  <2>3. /\ s.pc = p /\ s.c = r.c /\ s.ver = r.ver /\ s.old = r.old /\ s.new = r.new
        /\ s.src = r.src /\ s.todo = t
    BY <1>0, <1>2 DEF RcState
  <2>4. p # "idle" /\ p # "write" /\ p # "commit"
    OBVIOUS
  <2>5. s.pc = "verify" => s.new \ s.todo = {}
    BY <1>2, <2>3
  <2> QED BY <1>1, <2>2, <2>3, <2>4, <2>5 DEF DriverSound
<1>3. CASE todo # {}
  <2>1. CopyOrVerify(r, todo) = [r EXCEPT !.pc = "fetch", !.todo = todo, !.data = 0]
    BY <1>3 DEF CopyOrVerify
  <2> QED BY <1>2, <2>1
<1>4. CASE todo = {}
  <2>1. CopyOrVerify(r, todo) = [r EXCEPT !.pc = "verify", !.todo = r.new, !.data = 0]
    BY <1>4 DEF CopyOrVerify
  <2>2. r.new \in SUBSET Storage
    BY <1>0 DEF RcState
  <2> QED BY <1>2, <2>1, <2>2
<1> QED BY <1>3, <1>4

\* A reconfiguration begins: some replica has the version, for the chunk is STABLE.
LEMMA BeginSound ==
    ASSUME DriveInv, NEW d \in Drivers, NEW c \in Chunks, NEW new \in SUBSET Storage,
           NEW src \in Storage, ReconfigBegin(d, c, new, src)
    PROVE  \E r : DriverSound(r) /\ rc' = [rc EXCEPT ![d] = r]
<1> DEFINE r == [NoRc EXCEPT !.pc = "start", !.c = c, !.ver = table[c].version,
                             !.old = table[c].reps, !.new = new, !.src = src]
<1>1. rc' = [rc EXCEPT ![d] = r]
  BY DEF ReconfigBegin
<1>2. /\ r.pc = "start" /\ r.c = c /\ r.ver = table[c].version /\ r.old = table[c].reps
      /\ r.new = new /\ r.src = src
  BY DEF NoRc
<1>3. table[c].version \in Version /\ table[c].reps \in SUBSET Storage
  BY TypeParts DEF DriveInv, DataInv, TableTypeOK, ChunkEntry
<1>4. r \in RcState
  <2>1. NoRc \in RcState
    BY NoDriver DEF DriverSound
  <2> QED BY <1>3, <2>1 DEF RcState
<1> HIDE DEF r
<1>5. Present(c) /\ new # {}
  BY TargetsNotEmpty DEF ReconfigBegin, Present
<1>6. /\ Over(c, table[c].version)
      /\ Acked(c, table[c].version) => \E n \in table[c].reps : AtLeast(n, c, table[c].version)
  BY <1>5 DEF DriveInv, PresentOver, TableSound, EntrySound, Present, ReconfigBegin
<1>7. DriverSound(r)
  BY <1>2, <1>4, <1>5, <1>6 DEF DriverSound
<1> QED BY <1>1, <1>7

\* FetchChunk brings the version the driver read: the data of a put of it.
LEMMA FetchSound ==
    ASSUME DriveInv, NEW d \in Drivers, ReconfigFetch(d)
    PROVE  \E r : DriverSound(r) /\ rc' = [rc EXCEPT ![d] = r]
<1>1. PICK r : r = rc[d] /\ DriverSound(r) /\ r.pc = "fetch"
  BY DEF DriveInv, DriversSound, ReconfigFetch
<1>2. r \in RcState /\ r.c \in Chunks /\ r.src \in Storage /\ r.ver \in Nat
  BY <1>1, Numbers DEF DriverSound, RcState
<1> DEFINE u == LatestVersion(r.src, r.c)
           x == store[r.src][r.c][u]
           s == [r EXCEPT !.pc = "write", !.data = x]
<1>3. rc' = [rc EXCEPT ![d] = s]
  BY <1>1 DEF ReconfigFetch
<1>4. u \in Held(r.src, r.c) /\ u >= r.ver
  BY <1>1, <1>2, Latest DEF ReconfigFetch, Serves
<1>5. u \in Ids /\ IsPut(x, r.c, u)
  BY <1>2, <1>4 DEF Held, DriveInv, DataInv, StoredArePuts
<1>6. u = r.ver
  <2>1. u <= r.ver
    BY <1>1, <1>2, <1>4 DEF DriveInv, NoneLater
  <2>2. u \in Nat
    BY <1>5, Numbers
  <2> QED BY <1>2, <1>4, <2>1, <2>2
<1>7. x \in Data
  BY <1>5, Numbers DEF IsPut
<1> HIDE DEF u, x
<1>8. s \in RcState
  BY <1>2, <1>7 DEF RcState
<1>9. /\ s.pc = "write" /\ s.c = r.c /\ s.ver = r.ver /\ s.old = r.old /\ s.new = r.new
      /\ s.src = r.src /\ s.data = x
  BY <1>2 DEF RcState
<1> HIDE DEF s
<1>10. /\ r.c \in Chunks /\ r.new # {} /\ r.src \in Storage /\ Over(r.c, r.ver)
       /\ Present(r.c) => table[r.c].version = r.ver
       /\ Acked(r.c, r.ver) => \E n \in r.old : AtLeast(n, r.c, r.ver)
  BY <1>1 DEF DriverSound
<1>11. DriverSound(s)
  BY <1>5, <1>6, <1>8, <1>9, <1>10 DEF DriverSound
<1> QED BY <1>3, <1>11

\* A replica that passed the verification can serve the version.
LEMMA VerifySound ==
    ASSUME DriversSound, NEW d \in Drivers, NEW n \in Storage, ReconfigVerify(d, n)
    PROVE  \E r : DriverSound(r) /\ rc' = [rc EXCEPT ![d] = r]
<1>1. PICK r : r = rc[d] /\ DriverSound(r) /\ r.pc = "verify"
  BY DEF DriversSound, ReconfigVerify
<1>2. r \in RcState /\ r.c \in Chunks /\ r.ver \in Nat /\ rc \in [Drivers -> RcState]
  BY <1>1, Numbers DEF DriverSound, RcState, DriversSound
<1>3. PICK p \in {"verify", "commit"} : p = IF r.todo = {n} THEN "commit" ELSE "verify"
  OBVIOUS
<1> DEFINE s == [r EXCEPT !.todo = r.todo \ {n}, !.pc = p]
<1>4. rc' = [rc EXCEPT ![d] = s]
  <2>1. rc' = [rc EXCEPT ![d] = [rc[d] EXCEPT !.todo = rc[d].todo \ {n},
                                              !.pc = IF rc[d].todo = {n} THEN "commit" ELSE "verify"]]
    BY <1>2 DEF ReconfigVerify
  <2> QED BY <1>1, <1>3, <2>1
<1>6. s \in RcState
  BY <1>2 DEF RcState
<1>7. /\ s.pc = p /\ s.c = r.c /\ s.ver = r.ver /\ s.old = r.old /\ s.new = r.new
      /\ s.src = r.src /\ s.todo = r.todo \ {n}
  BY <1>2 DEF RcState
<1> HIDE DEF s
<1>8. /\ r.c \in Chunks /\ r.new # {} /\ r.src \in Storage /\ Over(r.c, r.ver)
      /\ Present(r.c) => table[r.c].version = r.ver
      /\ Acked(r.c, r.ver) => \E m \in r.old : AtLeast(m, r.c, r.ver)
      /\ \A m \in r.new \ r.todo : AtLeast(m, r.c, r.ver)
  BY <1>1 DEF DriverSound
<1>9. AtLeast(n, r.c, r.ver)
  BY <1>1, <1>2, LatestAtLeast DEF ReconfigVerify, Serves
<1>10. \A m \in r.new \ (r.todo \ {n}) : AtLeast(m, r.c, r.ver)
  BY <1>8, <1>9
<1>11. p = "commit" => r.todo \ {n} = {}
  BY <1>3
<1>12. DriverSound(s)
  BY <1>3, <1>6, <1>7, <1>8, <1>10, <1>11 DEF DriverSound
<1> QED BY <1>4, <1>12

\* Every step of a driver keeps what the drivers rely on.
LEMMA DriversNext ==
    ASSUME DriveInv, NEW d \in Drivers,
           \/ ReconfigStep(d)
           \/ \E c \in Chunks, new \in SUBSET Storage, src \in Storage : ReconfigBegin(d, c, new, src)
    PROVE  DriversSound'
<1>0. DataInv /\ DriversSound
  BY DEF DriveInv
<1>1. DriverQuiet
  BY <1>0, DriverStepQuiet
<1>2. ASSUME \E r : DriverSound(r) /\ rc' = [rc EXCEPT ![d] = r] PROVE DriversSound'
  BY <1>0, <1>1, <1>2, DriverReplaced
<1>3. ASSUME NEW c \in Chunks, NEW new \in SUBSET Storage, NEW src \in Storage,
             ReconfigBegin(d, c, new, src)
      PROVE  DriversSound'
  BY <1>2, <1>3, BeginSound
<1>4. PICK r : r = rc[d] /\ DriverSound(r)
  BY <1>0 DEF DriversSound
<1>5. r \in RcState /\ rc \in [Drivers -> RcState]
  BY <1>0, <1>4 DEF DriverSound, DriversSound
<1>6. CASE ReconfigStart(d)
  <2>1. rc' = [rc EXCEPT ![d] = CopyOrVerify(r, r.new \ r.old)] /\ r.pc = "start"
    BY <1>4, <1>5, <1>6 DEF ReconfigStart
  <2>2. r.new \ r.old \in SUBSET Storage
    BY <1>5 DEF RcState
  <2> QED BY <1>2, <1>4, <2>1, <2>2, CopyOrVerifySound
<1>7. ASSUME NEW n \in Storage, ReconfigWrite(d, n) PROVE DriversSound'
  <2>1. rc' = [rc EXCEPT ![d] = CopyOrVerify(r, r.todo \ {n})] /\ r.pc = "write"
    BY <1>4, <1>5, <1>7 DEF ReconfigWrite
  <2>2. r.todo \ {n} \in SUBSET Storage
    BY <1>5 DEF RcState
  <2> QED BY <1>2, <1>4, <2>1, <2>2, CopyOrVerifySound
<1>8. CASE ReconfigFetch(d)
  BY <1>2, <1>8, FetchSound
<1>9. ASSUME NEW n \in Storage, ReconfigVerify(d, n) PROVE DriversSound'
  BY <1>0, <1>2, <1>9, VerifySound
<1>10. CASE ReconfigCommit(d) \/ ReconfigFailed(d) \/ ReconfigLost(d) \/ ReconfigUnavailable(d)
  <2>1. rc' = [rc EXCEPT ![d] = NoRc]
    BY <1>10 DEF ReconfigCommit, ReconfigFailed, ReconfigLost, ReconfigUnavailable
  <2> QED BY <1>2, <2>1, NoDriver
<1> QED BY <1>3, <1>6, <1>7, <1>8, <1>9, <1>10 DEF ReconfigStep

(***************************************************************************)
(* The table.                                                              *)
(***************************************************************************)
\* RECONFIGURE_START keeps the old set in the entry.
LEMMA StartSound ==
    ASSUME DriversSound, NEW d \in Drivers, rc[d].pc = "start"
    PROVE  \A t, u : /\ TableSound(t)
                     /\ Becomes(t, u, rc[d].c, "TRANSITIONING", rc[d].new, rc[d].old)
                     /\ t[rc[d].c].state # "ABSENT" => t[rc[d].c].version = rc[d].ver
                     => TableSound(u)
<1> SUFFICES ASSUME NEW t, NEW u, TableSound(t),
                    Becomes(t, u, rc[d].c, "TRANSITIONING", rc[d].new, rc[d].old),
                    t[rc[d].c].state # "ABSENT" => t[rc[d].c].version = rc[d].ver,
                    NEW b \in Chunks, u[b].state # "ABSENT"
             PROVE  EntrySound(b, u[b])
  BY DEF TableSound
<1>1. PICK c \in Chunks : c = rc[d].c
  BY DEF DriversSound, DriverSound
<1>2. CASE u[b] = t[b]
  BY <1>2 DEF TableSound
<1>3. CASE u[b] # t[b]
  <2>1. b = c /\ t[c].state # "ABSENT"
    BY <1>1, <1>3 DEF Becomes
  <2>2. /\ u[c].state = "TRANSITIONING" /\ u[c].reps = rc[d].new /\ u[c].old = rc[d].old
        /\ u[c].version = rc[d].ver /\ Tried(c, u[c].version)
    BY <1>1, <2>1 DEF Becomes, TableSound, EntrySound
  <2>3. /\ Over(c, rc[d].ver)
        /\ Acked(c, rc[d].ver) => \E n \in rc[d].old : AtLeast(n, c, rc[d].ver)
    BY <1>1 DEF DriversSound, DriverSound
  <2> QED BY <2>1, <2>2, <2>3 DEF EntrySound
<1> QED BY <1>2, <1>3

\* RECONFIGURE_COMMIT installs replicas that all have the version.
LEMMA CommitSound ==
    ASSUME DriversSound, NEW d \in Drivers, rc[d].pc = "commit"
    PROVE  \A t, u : /\ TableSound(t)
                     /\ Becomes(t, u, rc[d].c, "STABLE", rc[d].new, {})
                     /\ t[rc[d].c].state # "ABSENT" => t[rc[d].c].version = rc[d].ver
                     => /\ TableSound(u)
                        /\ u[rc[d].c].state # "ABSENT" =>
                             \A n \in u[rc[d].c].reps :
                               n \in Storage /\ AtLeast(n, rc[d].c, u[rc[d].c].version)
<1> SUFFICES ASSUME NEW t, NEW u, TableSound(t),
                    Becomes(t, u, rc[d].c, "STABLE", rc[d].new, {}),
                    t[rc[d].c].state # "ABSENT" => t[rc[d].c].version = rc[d].ver
             PROVE  /\ TableSound(u)
                    /\ u[rc[d].c].state # "ABSENT" =>
                         \A n \in u[rc[d].c].reps :
                           n \in Storage /\ AtLeast(n, rc[d].c, u[rc[d].c].version)
  OBVIOUS
<1>1. PICK c \in Chunks : c = rc[d].c
  BY DEF DriversSound, DriverSound
<1>2. ASSUME t[c].state # "ABSENT"
      PROVE  /\ \A n \in u[c].reps : n \in Storage /\ AtLeast(n, c, u[c].version)
             /\ EntrySound(c, u[c])
  <2>1. /\ u[c].state = "STABLE" /\ u[c].reps = rc[d].new /\ u[c].old = {}
        /\ u[c].version = rc[d].ver /\ Tried(c, u[c].version)
    BY <1>1, <1>2 DEF Becomes, TableSound, EntrySound
  <2>2. rc[d].new # {} /\ rc[d].new \in SUBSET Storage /\ \A n \in rc[d].new : AtLeast(n, c, rc[d].ver)
    BY <1>1 DEF DriversSound, DriverSound, RcState
  <2> QED BY <2>1, <2>2 DEF EntrySound
<1>3. ASSUME NEW b \in Chunks, u[b].state # "ABSENT" PROVE EntrySound(b, u[b])
  <2>1. CASE u[b] = t[b]
    BY <1>3, <2>1 DEF TableSound
  <2>2. CASE u[b] # t[b]
    <3>1. b = c /\ t[c].state # "ABSENT"
      BY <1>1, <2>2 DEF Becomes
    <3> QED BY <1>2, <3>1
  <2> QED BY <2>1, <2>2
<1>4. u[c].state # "ABSENT" => t[c].state # "ABSENT"
  BY <1>1 DEF Becomes
<1> QED BY <1>1, <1>2, <1>3, <1>4 DEF TableSound

\* A step of a driver leaves a sound entry so.
LEMMA QuietEntries ==
    ASSUME DriverQuiet, NEW c \in Chunks, NEW e \in ChunkEntry, EntrySound(c, e)
    PROVE  EntrySound(c, e)'
<1>1. \A w : (Tried(c, w) => Tried(c, w)') /\ (Over(c, w) => Over(c, w)') /\ (Acked(c, w)' => Acked(c, w))
  BY DEF DriverQuiet, Tried, Over, Acked
<1>2. Grows(c)
  BY DriverHolds
<1> QED BY <1>1, <1>2, EntryStays

\* When every sound entry stays so, so does a table of them.
LEMMA SoundStays ==
    ASSUME \A c \in Chunks, e \in ChunkEntry : EntrySound(c, e) => EntrySound(c, e)'
    PROVE  \A t : t \in [Chunks -> ChunkEntry] /\ TableSound(t) => TableSound(t)'
<1> SUFFICES ASSUME NEW t, t \in [Chunks -> ChunkEntry], TableSound(t),
                    NEW c \in Chunks, t[c].state # "ABSENT"
             PROVE  EntrySound(c, t[c])'
  BY DEF TableSound
<1>1. PICK e \in ChunkEntry : e = t[c]
  OBVIOUS
<1>2. EntrySound(c, e)'
  BY <1>1 DEF TableSound
<1> QED BY <1>1, <1>2

\* Steps of a driver that are not of its two metadata writes leave the tables alone.
LEMMA DriverTablesSame ==
    ASSUME NEW d \in Drivers,
           \/ ReconfigFetch(d) \/ ReconfigFailed(d) \/ ReconfigLost(d)
           \/ \E n \in Storage : ReconfigWrite(d, n) \/ ReconfigVerify(d, n)
           \/ \E c \in Chunks, new \in SUBSET Storage, src \in Storage : ReconfigBegin(d, c, new, src)
    PROVE  UNCHANGED <<table, logged, replayed, tail>>
<1>1. ASSUME UNCHANGED tableVars PROVE UNCHANGED <<table, logged, replayed, tail>>
  BY <1>1 DEF tableVars
<1>2. ASSUME UNCHANGED vars PROVE UNCHANGED <<table, logged, replayed, tail>>
  BY <1>1, <1>2 DEF vars
<1>3. CASE ReconfigFetch(d) \/ ReconfigFailed(d)
  BY <1>2, <1>3 DEF ReconfigFetch, ReconfigFailed
<1>4. CASE ReconfigLost(d)
  BY <1>1, <1>4 DEF ReconfigLost
<1>5. ASSUME NEW n \in Storage, ReconfigWrite(d, n) PROVE UNCHANGED <<table, logged, replayed, tail>>
  BY <1>1, <1>5 DEF ReconfigWrite
<1>6. ASSUME NEW n \in Storage, ReconfigVerify(d, n) PROVE UNCHANGED <<table, logged, replayed, tail>>
  BY <1>2, <1>6 DEF ReconfigVerify
<1>7. ASSUME NEW c, NEW new, NEW src, ReconfigBegin(d, c, new, src)
      PROVE  UNCHANGED <<table, logged, replayed, tail>>
  BY <1>2, <1>7 DEF ReconfigBegin
<1> QED BY <1>3, <1>4, <1>5, <1>6, <1>7

\* What a driver may do to the table.
LEMMA DriverTableNext ==
    ASSUME DriveInv, NEW d \in Drivers,
           \/ ReconfigStep(d)
           \/ \E c \in Chunks, new \in SUBSET Storage, src \in Storage : ReconfigBegin(d, c, new, src)
    PROVE  /\ TableSound(table)'
           /\ \A c \in Chunks : table[c].state = "TRANSITIONING" /\ table'[c].state = "STABLE" =>
                \A n \in table'[c].reps : n \in Storage /\ AtLeast(n, c, table'[c].version)
<1>0. DataInv /\ DriversSound /\ TableSound(table)
  BY DEF DriveInv
<1>1. DriverQuiet /\ Listed(table')
  BY <1>0, DriverStepQuiet DEF DriverQuiet
<1>2. ASSUME TableSound(table') PROVE TableSound(table)'
  <2>1. PICK t \in [Chunks -> ChunkEntry] : t = table' /\ TableSound(t)
    BY <1>1, <1>2 DEF Listed
  <2>2. TableSound(t)'
    BY <1>1, <2>1, QuietEntries, SoundStays
  <2> QED BY <2>1, <2>2 DEF TableSound
<1>3. ASSUME rc[d].pc # "idle" PROVE table[rc[d].c].state # "ABSENT" => table[rc[d].c].version = rc[d].ver
  BY <1>0, <1>3 DEF DriversSound, DriverSound, Present
<1>4. CASE table' = table
  BY <1>0, <1>2, <1>4
<1>5. CASE ReconfigStart(d)
  <2>1. rc[d].pc = "start" /\ Becomes(table, table', rc[d].c, "TRANSITIONING", rc[d].new, rc[d].old)
    BY <1>0, <1>5, StartApplied DEF ReconfigStart
  <2>2. TableSound(table')
    BY <1>0, <1>3, <2>1, StartSound
  <2>3. \A c \in Chunks : table[c].state = "TRANSITIONING" => table'[c].state # "STABLE"
    BY <2>1 DEF Becomes
  <2> QED BY <1>2, <2>2, <2>3
<1>6. CASE ReconfigCommit(d)
  <2>1. rc[d].pc = "commit" /\ Becomes(table, table', rc[d].c, "STABLE", rc[d].new, {})
    BY <1>0, <1>6, CommitApplied DEF ReconfigCommit
  <2>2. /\ TableSound(table')
        /\ table'[rc[d].c].state # "ABSENT" =>
             \A n \in table'[rc[d].c].reps :
               n \in Storage /\ AtLeast(n, rc[d].c, table'[rc[d].c].version)
    BY <1>0, <1>3, <2>1, CommitSound
  <2>3. \A c \in Chunks : table[c].state = "TRANSITIONING" /\ table'[c].state = "STABLE" => c = rc[d].c
    BY <2>1 DEF Becomes
  <2> QED BY <1>2, <2>2, <2>3
<1>7. CASE ReconfigUnavailable(d)
  BY <1>0, <1>4, <1>7, RefusedApplied
<1> QED BY <1>4, <1>5, <1>6, <1>7, DriverTablesSame DEF ReconfigStep

\* Together: what the steps of a driver preserve.
LEMMA DriveNext ==
    ASSUME DriveInv, NEW d \in Drivers,
           \/ ReconfigStep(d)
           \/ \E c \in Chunks, new \in SUBSET Storage, src \in Storage : ReconfigBegin(d, c, new, src)
    PROVE  /\ DriverQuiet
           /\ DataInv' /\ DriversSound' /\ PresentOver' /\ TableSound(table)'
           /\ \A c \in Chunks : table[c].state = "TRANSITIONING" /\ table'[c].state = "STABLE" =>
                \A n \in table'[c].reps :
                   Held(n, c) # {} /\ LatestVersion(n, c) >= table'[c].version
<1>0. DataInv /\ DriversSound /\ PresentOver
  BY DEF DriveInv
<1>1. DriverQuiet
  BY <1>0, DriverStepQuiet
<1>2. DataInv'
  BY <1>0, <1>1, QuietData
<1>3. DriversSound' /\ TableSound(table)'
  BY DriversNext, DriverTableNext
<1>4. PresentOver'
  <2> SUFFICES ASSUME NEW c \in Chunks, Present(c)' PROVE Over(c, table[c].version)'
    BY DEF PresentOver
  <2>1. put' = put /\ table'[c].version = table[c].version /\ Present(c)
    BY <1>1 DEF DriverQuiet, EntryKept, Present
  <2>2. Over(c, table[c].version)
    BY <1>0, <2>1 DEF PresentOver
  <2> QED BY <2>1, <2>2 DEF Over
<1>5. ASSUME NEW c \in Chunks, table[c].state = "TRANSITIONING", table'[c].state = "STABLE",
             NEW n \in table'[c].reps
      PROVE  Held(n, c) # {} /\ LatestVersion(n, c) >= table'[c].version
  <2>1. n \in Storage /\ AtLeast(n, c, table'[c].version)
    BY <1>5, DriverTableNext
  <2>2. PICK v \in Nat : v = table'[c].version
    <3>1. table'[c] \in ChunkEntry
      BY <1>1 DEF DriverQuiet, Listed
    <3> QED BY <3>1, Numbers DEF ChunkEntry
  <2> QED BY <2>1, <2>2, LatestAtLeast
<1> QED BY <1>1, <1>2, <1>3, <1>4, <1>5

(***************************************************************************)
(* The other steps.                                                        *)
(***************************************************************************)
\* What becomes of a put that has ended, or is being cleaned up.
LEMMA EndedStays ==
    ASSUME TypeOK, PutsNumbered, [Next]_vars
    PROVE  \A id \in Ids : /\ put[id].pc = "ok" => put'[id] = put[id]
                           /\ put[id].pc = "failed" => put'[id].pc = "failed"
                           /\ put[id].pc = "cleanup" => put'[id].pc \in {"cleanup", "failed"}
<1>0. put \in [Ids -> PutState]
  BY TypeParts
<1> DEFINE Stays(id) == /\ put[id].pc = "ok" => put'[id] = put[id]
                        /\ put[id].pc = "failed" => put'[id].pc = "failed"
                        /\ put[id].pc = "cleanup" => put'[id].pc \in {"cleanup", "failed"}
           Goal == \A id \in Ids : Stays(id)
<1>1. ASSUME NEW id \in Ids, put'[id] = put[id] PROVE Stays(id)
  BY <1>1
<1>2. ASSUME NEW id \in Ids, PutProgress(id) PROVE Goal
  <2>1. PutMoves(id)
    BY <1>2, ProgressMoves
  <2>2. ASSUME put[id].pc = "cleanup" PROVE put'[id].pc \in {"cleanup", "failed"}
    <3>1. PutFailed(id) \/ \E n \in Storage : PutCleanup(id, n)
      BY <1>2, <2>2 DEF PutProgress, PutWrite, PutWriteLost, PutDecide, PutCommit, PutUnavailable
    <3>2. CASE PutFailed(id)
      BY <1>0, <3>2 DEF PutFailed
    <3>3. ASSUME NEW n \in Storage, PutCleanup(id, n) PROVE put'[id].pc = "cleanup"
      BY <1>0, <3>3 DEF PutCleanup
    <3> QED BY <3>1, <3>2, <3>3
  <2>3. Stays(id)
    BY <2>1, <2>2 DEF PutMoves
  <2> HIDE DEF Stays
  <2> QED BY <1>1, <2>1, <2>3 DEF PutMoves
<1>3. ASSUME NEW c \in Chunks, NEW reps \in SUBSET Storage, PutStart(c, reps) PROVE Goal
  <2>1. PICK new \in Ids : put[new].pc = "none" /\ \A j \in Ids : j # new => put'[j] = put[j]
    BY <1>3, PutStarts
  <2>2. Stays(new)
    BY <2>1
  <2> HIDE DEF Stays
  <2> QED BY <1>1, <2>1, <2>2
<1>4. ASSUME LeaderRestart PROVE Goal
  <2>1. put' = [j \in Ids |-> IF j \in Active
                              THEN [put[j] EXCEPT !.pc = "failed", !.todo = {}, !.oks = {}]
                              ELSE put[j]]
    BY <1>4 DEF LeaderRestart
  <2>2. \A q \in PutState : [q EXCEPT !.pc = "failed", !.todo = {}, !.oks = {}].pc = "failed"
    BY DEF PutState
  <2> QED BY <1>0, <2>1, <2>2 DEF Active
<1>5. ASSUME put' = put PROVE Goal
  <2> HIDE DEF Stays
  <2> QED BY <1>1, <1>5
<1>6. ASSUME UNCHANGED vars PROVE Goal
  BY <1>5, <1>6 DEF vars
<1> HIDE DEF Stays, Goal
<1>7. ASSUME PutStep PROVE Goal
  BY <1>2, <1>3, <1>7 DEF PutStep, PutProgress
<1>8. Goal
  BY <1>4, <1>5, <1>6, <1>7, PutsSame DEF Next
<1> QED BY <1>8 DEF Goal, Stays

\* No step forgets that a put was acknowledged, ended or was cleaned up.
LEMMA AckedStays ==
    ASSUME TypeOK, PutsNumbered, [Next]_vars
    PROVE  \A c, v : /\ Acked(c, v) => Acked(c, v)'
                     /\ Over(c, v) => Over(c, v)'
                     /\ Tried(c, v) => Tried(c, v)'
<1>1. \A id \in Ids : /\ put[id].pc = "ok" => put'[id].pc = "ok"
                      /\ put[id].pc = "failed" => put'[id].pc = "failed"
                      /\ put[id].pc = "cleanup" => put'[id].pc \in {"cleanup", "failed"}
                      /\ put[id].pc # "none" => put'[id].c = put[id].c /\ put'[id].ver = put[id].ver
  BY EndedStays, PutsKept
<1> QED BY <1>1 DEF Acked, Over, Tried

\* The steps that change the tables or the log.
LEMMA TablesChange ==
    ASSUME [Next]_vars
    PROVE  \/ UNCHANGED <<table, logged, replayed, tail>>
           \/ \E id \in Ids : PutCommit(id) \/ PutUnavailable(id)
           \/ \E c \in Chunks : DeleteChunk(c) \/ DeleteUnavailable(c)
           \/ \E n \in Storage : Heartbeat(n)
           \/ LeaderRestart
<1> DEFINE Same == UNCHANGED <<table, logged, replayed, tail>>
<1>1. ASSUME UNCHANGED tableVars PROVE Same
  BY <1>1 DEF tableVars
<1>2. ASSUME PutStep PROVE Same \/ \E id \in Ids : PutCommit(id) \/ PutUnavailable(id)
  BY <1>1, <1>2, TableSame DEF PutStep, PutProgress
<1>3. ASSUME NEW n \in Storage, Evict(n) PROVE Same
  BY <1>3 DEF Evict, EvictStaleNode
<1>4. ASSUME GetStep PROVE Same
  BY <1>1, <1>4, TableSame
<1>5. ASSUME NEW n \in Storage, HeartbeatRefused(n) \/ RepairStep(n) \/ NodeCrash(n) \/ NodeRestart(n)
      PROVE  Same
  BY <1>1, <1>5, TableSame
<1>6. CASE UNCHANGED vars
  BY <1>1, <1>6 DEF vars
<1> QED BY <1>2, <1>3, <1>4, <1>5, <1>6 DEF Next

\* With few faults only the commit of a put changes the table.
LEMMA FewTableChanges ==
    ASSUME FewFaults, CountersBounded, SerialPuts, [Next]_vars
    PROVE  table' = table \/ \E id \in Ids : PutCommit(id)
<1>1. CASE UNCHANGED vars
  BY <1>1 DEF vars, tableVars
<1>2. ASSUME NEW c \in Chunks, NEW reps \in SUBSET Storage, PutStart(c, reps) PROVE table' = table
  BY <1>2, TableSame DEF tableVars
<1>3. ASSUME NEW id \in Ids, NEW n \in Storage, PutWrite(id, n) \/ PutWriteLost(id, n)
      PROVE  table' = table
  BY <1>3 DEF PutWrite, PutWriteLost, tableVars
<1>4. ASSUME NEW id \in Ids, PutDecide(id) PROVE table' = table
  BY <1>4 DEF PutDecide, tableVars
<1>5. CASE Next
  BY <1>2, <1>3, <1>4, <1>5, FewSteps, QuietSame
<1> QED BY <1>1, <1>5

\* The entry of a chunk after the commit of a put, and the other entries.
LEMMA CommitEntry ==
    ASSUME DataInv, NEW id \in Ids, PutCommit(id), NEW c \in Chunks
    PROVE  /\ put[id].c = c => /\ table'[c].version = put[id].ver /\ table'[c].reps = put[id].reps
                               /\ table'[c].old = {} /\ table'[c].state = "STABLE"
           /\ put[id].c # c => table'[c] = table[c]
<1>0. table \in [Chunks -> ChunkEntry]
  BY TypeParts DEF DataInv, TableTypeOK
<1>1. PICK e : e = [version |-> put[id].ver, state |-> "STABLE", reps |-> put[id].reps, old |-> {}]
  OBVIOUS
<1>2. table' = [table EXCEPT ![put[id].c] = e]
  BY <1>1 DEF PutCommit, ApplyPutChunk, PutApplied
<1>3. table'[c] = IF put[id].c = c THEN e ELSE table[c]
  BY <1>0, <1>2
<1> QED BY <1>1, <1>3

\* With few faults the version in the table is one that was acknowledged.
LEMMA PresentAckedNext ==
    ASSUME FewFaults, DataInv, SerialInv, PresentAcked, [Next]_vars
    PROVE  PresentAcked'
<1>0. TypeOK /\ PutsNumbered /\ table \in [Chunks -> ChunkEntry]
  BY TypeParts DEF DataInv, TableTypeOK
<1>1. \A c, v : Acked(c, v) => Acked(c, v)'
  BY <1>0, AckedStays
<1>2. ASSUME NEW c \in Chunks, Present(c)', table'[c] = table[c] PROVE Acked(c, table[c].version)'
  <2>1. PICK v : v = table[c].version
    OBVIOUS
  <2>2. Acked(c, v)
    BY <1>2, <2>1 DEF PresentAcked, Present
  <2>3. Acked(c, v)'
    BY <1>1, <2>2
  <2> QED BY <1>2, <2>1, <2>3 DEF Acked
<1>3. CASE table' = table
  BY <1>2, <1>3 DEF PresentAcked
<1>4. ASSUME NEW id \in Ids, PutCommit(id) PROVE PresentAcked'
  <2>1. PutMoves(id) /\ put'[id].pc = "ok"
    BY <1>0, <1>4, PutCommitMoves
  <2>2. ASSUME NEW c \in Chunks, Present(c)' PROVE Acked(c, table[c].version)'
    <3>1. CASE put[id].c # c
      BY <1>2, <1>4, <2>2, <3>1, CommitEntry
    <3>2. CASE put[id].c = c
      <4>1. put'[id].pc = "ok" /\ put'[id].c = c /\ put'[id].ver = table'[c].version
        BY <1>4, <2>1, <3>2, CommitEntry DEF PutMoves
      <4> QED BY <4>1 DEF Acked
    <3> QED BY <3>1, <3>2
  <2> QED BY <2>2 DEF PresentAcked
<1> QED BY <1>3, <1>4, FewTableChanges DEF SerialInv, PutsInv

\* What the other steps may do to the table, with the puts kept apart.
LEMMA OtherTableNext ==
    ASSUME FewFaults, ReconfigInv, [Next]_vars
    PROVE  /\ \A c \in Chunks : Grows(c)
           /\ TableSound(table)' /\ PutsStable'
           /\ \A c \in Chunks : table[c].state = "TRANSITIONING" => table'[c] = table[c]
           /\ \A c \in Chunks : table'[c] # table[c] => \E id \in Active : put[id].c = c
<1>0. /\ DataInv /\ SerialInv /\ TypeOK /\ PutsNumbered /\ CountersBounded /\ SerialPuts
      /\ RepairsWhole /\ WrittenHeld /\ TableSound(table) /\ PutsStable
      /\ put \in [Ids -> PutState] /\ table \in [Chunks -> ChunkEntry]
  BY TypeParts DEF ReconfigInv, BaseInv, DataInv, SerialInv, PutsInv, TableTypeOK
<1>1. \A c \in Chunks : Grows(c)
  BY <1>0, HeldGrows DEF Grows
<1> DEFINE Goal == /\ TableSound(table)' /\ PutsStable'
                   /\ \A c \in Chunks : table[c].state = "TRANSITIONING" => table'[c] = table[c]
                   /\ \A c \in Chunks : table'[c] # table[c] => \E id \in Active : put[id].c = c
<1>2. ASSUME NEW c \in Chunks, table'[c] = table[c], table'[c].state # "ABSENT"
      PROVE  EntrySound(c, table[c])'
  <2>1. PICK e \in ChunkEntry : e = table[c]
    BY <1>0
  <2>2. EntrySound(c, e) /\ Acked(c, e.version)
    BY <1>0, <1>2, <2>1 DEF TableSound, ReconfigInv, PresentAcked, Present
  <2>3. EntrySound(c, e)'
    BY <1>0, <1>1, <2>2, AckedStays, EntryStays
  <2> QED BY <1>2, <2>1, <2>3
<1>13. ASSUME table' = table PROVE TableSound(table)'
  BY <1>2, <1>13 DEF TableSound
<1>3. ASSUME table' = table, put' = put PROVE Goal
  <2>1. PutsStable'
    BY <1>0, <1>3 DEF PutsStable
  <2> QED BY <1>3, <1>13, <2>1
<1>4. ASSUME NEW c \in Chunks, NEW reps \in SUBSET Storage, PutStart(c, reps) PROVE Goal
  <2>1. table' = table /\ table[c].state # "TRANSITIONING"
    BY <1>4 DEF PutStart, tableVars
  <2>2. /\ started + 1 \in Ids /\ put'[started + 1].c = c
        /\ \A j \in Ids : j # started + 1 => put'[j] = put[j]
    <3>1. put'[started + 1] = [pc |-> "write", c |-> c, ver |-> table[c].version + 1, reps |-> reps,
                               todo |-> reps, oks |-> {}, prior |-> Ended(c)]
      BY <1>0, <1>4, PutStarts
    <3> QED BY <1>0, <1>4, <3>1, PutStarts
  <2>3. PutsStable'
    BY <1>0, <2>1, <2>2 DEF PutsStable
  <2> QED BY <1>13, <2>1, <2>3
<1>5. ASSUME NEW id \in Ids, NEW n \in Storage, PutWrite(id, n) \/ PutWriteLost(id, n) PROVE Goal
  <2>1. table' = table /\ put[id].pc = "write"
    BY <1>5 DEF PutWrite, PutWriteLost, tableVars
  <2>2. PutMoves(id)
    BY <1>0, <1>5, PutWriteMoves, PutWriteLostMoves
  <2>3. PutsStable'
    BY <1>0, <2>1, <2>2 DEF PutsStable, PutMoves
  <2> QED BY <1>13, <2>1, <2>3
<1>6. ASSUME NEW id \in Ids, PutDecide(id) PROVE Goal
  <2>1. table' = table /\ put[id].pc = "write"
    BY <1>6 DEF PutDecide, tableVars
  <2>2. PutMoves(id)
    BY <1>0, <1>6, PutDecideMoves
  <2>3. PutsStable'
    BY <1>0, <2>1, <2>2 DEF PutsStable, PutMoves
  <2> QED BY <1>13, <2>1, <2>3
<1>7. ASSUME NEW id \in Ids, PutCommit(id) PROVE Goal
  <2>1. PICK c \in Chunks, v \in Ids, reps \in SUBSET Storage :
          c = put[id].c /\ v = put[id].ver /\ reps = put[id].reps
    BY <1>0, <1>7 DEF PutCommit, PutsNumbered, PutState
  <2>2. /\ table'[c] = [version |-> v, state |-> "STABLE", reps |-> reps, old |-> {}]
        /\ \A b \in Chunks : b # c => table'[b] = table[b]
    BY <1>0, <1>7, <2>1 DEF PutCommit, ApplyPutChunk, PutApplied
  <2>3. /\ table'[c].version = v /\ table'[c].reps = reps /\ table'[c].old = {}
        /\ table'[c].state = "STABLE"
    BY <2>2
  <2>4. /\ put[id].oks \subseteq reps /\ \A n \in put[id].oks : Holds(n, c, v)
        /\ StorageMajority(id) /\ put[id].pc = "meta"
    BY <1>0, <1>7, <2>1 DEF PutCommit, WrittenHeld
  <2>5. PICK n \in put[id].oks : TRUE
    <3>1. Cardinality(reps) \in Nat /\ Cardinality(put[id].oks) \in Nat
      BY <2>4, NodeSets
    <3>2. Cardinality(put[id].oks) >= Cardinality(reps) \div 2 + 1
      BY <2>1, <2>4 DEF StorageMajority
    <3>3. Cardinality(put[id].oks) # 0
      BY <3>1, <3>2
    <3> QED BY <3>3, FS_EmptySet
  <2>6. n \in reps /\ n \in Storage /\ AtLeast(n, c, v)
    <3>1. Holds(n, c, v) /\ v >= v
      BY <2>4, Numbers
    <3> QED BY <2>4, <3>1 DEF Holds, AtLeast
  <2>7. EntrySound(c, table[c])'
    <3>1. PutMoves(id) /\ put'[id].pc = "ok" /\ put'[id].c = c /\ put'[id].ver = v
      BY <1>0, <1>7, <2>1, PutCommitMoves DEF PutMoves
    <3>2. Tried(c, table[c].version)'
      BY <2>3, <3>1 DEF Tried
    <3>3. AtLeast(n, c, v)'
      BY <1>1, <2>6, AtLeastGrows
    <3>4. \E m \in table'[c].reps \union table'[c].old : AtLeast(m, c, table[c].version)'
      BY <2>3, <2>6, <3>3 DEF AtLeast
    <3> QED BY <2>3, <3>2, <3>4 DEF EntrySound
  <2>8. ASSUME NEW b \in Chunks, table'[b].state # "ABSENT" PROVE EntrySound(b, table[b])'
    <3>1. CASE b = c
      BY <2>7, <3>1
    <3>2. CASE b # c
      BY <1>2, <2>2, <2>8, <3>2
    <3> QED BY <3>1, <3>2
  <2>9. TableSound(table)'
    BY <2>8 DEF TableSound
  <2>10. PutMoves(id) /\ put'[id].pc = "ok"
    BY <1>0, <1>7, PutCommitMoves
  <2>11. PutsStable'
    <3>1. \A j \in Ids : put'[j].pc \notin {"write", "meta"}
      BY <1>0, <2>4, <2>10 DEF PutMoves, SerialPuts
    <3> QED BY <3>1 DEF PutsStable
  <2>12. table[c].state # "TRANSITIONING" /\ id \in Active
    BY <1>0, <2>1, <2>4 DEF PutsStable, Active
  <2> QED BY <2>1, <2>2, <2>9, <2>11, <2>12
<1>8. ASSUME Quiet PROVE Goal
  BY <1>3, <1>8, QuietSame
<1>9. ASSUME UNCHANGED vars PROVE Goal
  BY <1>3, <1>9 DEF vars, tableVars
<1> HIDE DEF Goal
<1>10. ASSUME Next PROVE Goal
  BY <1>0, <1>4, <1>5, <1>6, <1>7, <1>8, <1>10, FewSteps
<1>11. Goal
  BY <1>9, <1>10
<1> QED BY <1>1, <1>11 DEF Goal

(***************************************************************************)
(* The invariant and what follows from it.                                 *)
(***************************************************************************)
\* The drivers at the beginning and after a crash of the leader.
LEMMA DriversGone ==
    ASSUME rc' = [d \in Drivers |-> NoRc] PROVE DriversSound'
<1>1. NoRc \in RcState /\ NoRc.pc = "idle"
  BY NoDriver DEF DriverSound
<1>2. \A d \in Drivers : rc'[d] = NoRc
  OBVIOUS
<1>3. ASSUME NEW d \in Drivers PROVE DriverSound(rc[d])'
  <2>1. DriverSound(NoRc)'
    BY NoDriver
  <2> QED BY <1>2, <2>1
<1> QED BY <1>1, <1>3 DEF DriversSound

\* The same without a step.
LEMMA DriversStart == RInit => DriversSound
<1>1. NoRc \in RcState /\ DriverSound(NoRc)
  BY NoDriver DEF DriverSound
<1> QED BY <1>1 DEF RInit, DriversSound

\* With few faults a chunk that was put stays in the table.
LEMMA AckedPresentNext ==
    ASSUME FewFaults, DataInv, SerialInv, AckedPresent, [Next]_vars
    PROVE  AckedPresent'
<1>0. /\ TypeOK /\ PutsNumbered /\ CountersBounded /\ SerialPuts /\ table \in [Chunks -> ChunkEntry]
      /\ \A id \in Ids : put[id].pc # "none" => put[id].c \in Chunks
  BY TypeParts DEF DataInv, SerialInv, PutsInv, TableTypeOK, PutsNumbered
<1>1. ASSUME table' = table, \A id \in Ids : put'[id].pc = "ok" => put'[id] = put[id]
      PROVE  AckedPresent'
  BY <1>1 DEF AckedPresent, Present
<1>2. ASSUME NEW c \in Chunks, NEW reps \in SUBSET Storage, PutStart(c, reps) PROVE AckedPresent'
  <2>1. PICK new \in Ids : new = started + 1
    BY <1>0, <1>2, PutStarts
  <2>2. put'[new] = [pc |-> "write", c |-> c, ver |-> table[c].version + 1, reps |-> reps,
                     todo |-> reps, oks |-> {}, prior |-> Ended(c)]
        /\ \A j \in Ids : j # new => put'[j] = put[j]
    BY <1>0, <1>2, <2>1, PutStarts
  <2>3. put'[new].pc = "write"
    BY <2>2
  <2>4. table' = table
    BY <1>2, TableSame DEF tableVars
  <2> QED BY <1>1, <2>2, <2>3, <2>4
<1>3. ASSUME NEW id \in Ids, NEW n \in Storage, PutWrite(id, n) \/ PutWriteLost(id, n)
      PROVE  AckedPresent'
  <2>1. PutMoves(id) /\ put'[id].pc = "write"
    BY <1>0, <1>3, PutWriteMoves, PutWriteLostMoves
  <2>2. table' = table
    BY <1>3 DEF PutWrite, PutWriteLost, tableVars
  <2> QED BY <1>1, <2>1, <2>2 DEF PutMoves
<1>4. ASSUME NEW id \in Ids, PutDecide(id) PROVE AckedPresent'
  <2>1. PutMoves(id) /\ put'[id].pc # "ok"
    BY <1>0, <1>4, PutDecideMoves
  <2>2. table' = table
    BY <1>4 DEF PutDecide, tableVars
  <2> QED BY <1>1, <2>1, <2>2 DEF PutMoves
<1>5. ASSUME NEW id \in Ids, PutCommit(id) PROVE AckedPresent'
  <2>1. PutMoves(id) /\ put[id].pc = "meta"
    BY <1>0, <1>5, PutCommitMoves
  <2>2. ASSUME NEW j \in Ids, put'[j].pc = "ok" PROVE Present(put[j].c)'
    <3>1. PICK c \in Chunks : c = put'[j].c /\ c = put[j].c
      BY <1>0, <2>1, <2>2 DEF PutMoves
    <3>2. put[id].c = c \/ (j # id /\ put[j].pc = "ok" /\ Present(c))
      BY <2>1, <2>2, <3>1 DEF PutMoves, AckedPresent
    <3>3. Present(c)'
      BY <1>5, <3>2, CommitEntry DEF Present
    <3> QED BY <3>1, <3>3 DEF Present
  <2> QED BY <2>2 DEF AckedPresent
<1>6. ASSUME Quiet PROVE AckedPresent'
  BY <1>1, <1>6, QuietSame
<1>7. CASE UNCHANGED vars
  BY <1>1, <1>7 DEF vars, tableVars
<1>8. CASE Next
  BY <1>0, <1>2, <1>3, <1>4, <1>5, <1>6, <1>8, FewSteps
<1> QED BY <1>7, <1>8

\* RECONFIGURE_START does not meet a put of its chunk.
LEMMA DriverPutsStable ==
    ASSUME ReconfigInv, NEW d \in Drivers,
           \/ ReconfigStep(d)
           \/ \E c \in Chunks, new \in SUBSET Storage, src \in Storage : ReconfigBegin(d, c, new, src)
    PROVE  PutsStable'
<1>0. /\ DataInv /\ DriversSound /\ Apart /\ PutsStable
      /\ \A id \in Ids : put[id].pc # "none" => put[id].c \in Chunks
  BY DEF ReconfigInv, BaseInv, DataInv, PutsNumbered
<1>1. put' = put
  BY <1>0, DriverStepQuiet DEF DriverQuiet
<1>2. CASE table' = table
  BY <1>0, <1>1, <1>2 DEF PutsStable
<1>3. CASE ReconfigStart(d) \/ ReconfigCommit(d)
  <2> SUFFICES ASSUME NEW id \in Ids, put[id].pc \in {"write", "meta"}
               PROVE  table'[put[id].c].state # "TRANSITIONING"
    BY <1>1 DEF PutsStable
  <2>1. PICK c \in Chunks, b \in Chunks : c = put[id].c /\ b = rc[d].c
    BY <1>0, <1>3, StartApplied, CommitApplied
  <2>2. c # b
    BY <1>0, <2>1 DEF Apart, Active
  <2>3. table'[c] = table[c]
    BY <1>0, <1>3, <2>1, <2>2, StartApplied, CommitApplied DEF Becomes
  <2> QED BY <1>0, <2>1, <2>3 DEF PutsStable
<1>4. CASE ReconfigUnavailable(d)
  BY <1>0, <1>2, <1>4, RefusedApplied
<1> QED BY <1>2, <1>3, <1>4, DriverTablesSame DEF ReconfigStep

\* A step of the data plane leaves the drivers with what they rely on.
LEMMA OtherNext ==
    ASSUME FewFaults, NothingToCollect, ReconfigInv, [Next]_vars,
           rc' = rc \/ rc' = [d \in Drivers |-> NoRc]
    PROVE  /\ BaseInv' /\ DriversSound' /\ AckedPresent'
           /\ PresentAcked' /\ TableSound(table)' /\ PutsStable'
<1>0. /\ DataInv /\ SerialInv /\ RepairsWhole /\ WrittenHeld /\ Apart /\ DriversSound
      /\ AckedPresent /\ PresentAcked /\ TypeOK /\ PutsNumbered
  BY DEF ReconfigInv, BaseInv, DataInv
<1>1. BaseInv'
  BY <1>0, DataNext, SerialNext, RepairsWholeNext, WrittenNext DEF BaseInv
<1>2. /\ \A c \in Chunks : Grows(c)
      /\ TableSound(table)' /\ PutsStable'
      /\ \A c \in Chunks : table'[c] # table[c] => \E id \in Active : put[id].c = c
  BY OtherTableNext
<1>3. (\A x, c, v : IsPut(x, c, v) => IsPut(x, c, v)') /\ (\A c, v : Over(c, v) => Over(c, v)')
  BY <1>0, IsPutKept, AckedStays
<1>9. \A c, v : Over(c, v) => Acked(c, v)
  BY <1>0 DEF SerialInv, PutsInv, SerialPuts, Over, Acked
<1>4. ASSUME NEW d \in Drivers, rc[d].pc # "idle"
      PROVE  rc[d].c \in Chunks /\ table'[rc[d].c] = table[rc[d].c]
  <2>1. PICK c \in Chunks : c = rc[d].c
    BY <1>0, <1>4 DEF DriversSound, DriverSound
  <2>2. table'[c] = table[c]
    BY <1>0, <1>2, <2>1 DEF Apart
  <2> QED BY <2>1, <2>2
<1>5. ASSUME NEW d \in Drivers, NEW r, r = rc[d] PROVE DriverSound(r)'
  <2>1. DriverSound(r)
    BY <1>0, <1>5 DEF DriversSound
  <2>2. r.pc # "idle" => Grows(r.c) /\ EntryNotNew(r.c) /\ AckNotNew(r.c, r.ver)
    BY <1>2, <1>4, <1>5, <1>9, <2>1 DEF EntryNotNew, Present, AckNotNew, DriverSound
  <2> QED BY <1>3, <2>1, <2>2, SoundKept
<1>6. ASSUME rc' = rc PROVE DriversSound'
  <2>1. ASSUME NEW d \in Drivers PROVE DriverSound(rc[d])'
    <3>1. PICK r : r = rc[d]
      OBVIOUS
    <3>2. DriverSound(r)'
      BY <1>5, <3>1
    <3> QED BY <1>6, <3>1, <3>2
  <2> QED BY <1>0, <1>6, <2>1 DEF DriversSound
<1>7. ASSUME rc' = [d \in Drivers |-> NoRc] PROVE DriversSound'
  BY <1>7, DriversGone
<1>8. PresentAcked' /\ AckedPresent'
  BY <1>0, PresentAckedNext, AckedPresentNext
<1> QED BY <1>1, <1>2, <1>6, <1>7, <1>8

\* A put that was acknowledged is over.
LEMMA AckedOver == PresentAcked => PresentOver
  BY DEF PresentAcked, PresentOver, Acked, Over

\* Every step keeps the invariant.
LEMMA ReconfigNext ==
    ASSUME FewFaults, NothingToCollect, ReconfigInv, [RNext /\ Apart']_rvars
    PROVE  ReconfigInv'
<1>1. CASE UNCHANGED rvars
  <2>1. [Next]_vars /\ rc' = rc /\ put' = put
    BY <1>1 DEF rvars, vars
  <2>2. Apart'
    BY <2>1 DEF ReconfigInv, Apart, Active
  <2> QED BY <2>1, <2>2, OtherNext DEF ReconfigInv
<1>2. CASE RNext /\ Apart'
  <2>1. CASE OtherStep
    BY <1>2, <2>1, OtherNext DEF OtherStep, ReconfigInv
  <2>2. ASSUME NEW d \in Drivers,
               \/ ReconfigStep(d)
               \/ \E c \in Chunks, new \in SUBSET Storage, src \in Storage :
                     ReconfigBegin(d, c, new, src)
        PROVE  ReconfigInv'
    <3>1. DriveInv /\ BaseInv
      BY ApartNoneLater, AckedOver DEF ReconfigInv, BaseInv, DriveInv
    <3>2. DriverQuiet /\ DriversSound' /\ TableSound(table)'
      BY <2>2, <3>1, DriveNext
    <3>6. PresentAcked'
      <4> SUFFICES ASSUME NEW c \in Chunks, Present(c)' PROVE Acked(c, table[c].version)'
        BY DEF PresentAcked
      <4>1. put' = put /\ table'[c].version = table[c].version /\ Present(c)
        BY <3>2 DEF DriverQuiet, EntryKept, Present
      <4>2. Acked(c, table[c].version)
        BY <4>1 DEF ReconfigInv, PresentAcked
      <4> QED BY <4>1, <4>2 DEF Acked
    <3>3. BaseInv'
      BY <3>1, <3>2, QuietBase
    <3>4. AckedPresent'
      BY <3>2 DEF ReconfigInv, DriverQuiet, AckedPresent, EntryKept, Present, BaseInv, DataInv, PutsNumbered
    <3>5. PutsStable'
      BY <1>2, <2>2, DriverPutsStable
    <3> QED BY <1>2, <3>2, <3>3, <3>4, <3>5, <3>6 DEF ReconfigInv
  <2> QED BY <1>2, <2>1, <2>2 DEF RNext
<1> QED BY <1>1, <1>2

\* The invariant holds at the beginning.
LEMMA ReconfigInit == RInit => ReconfigInv
<1> SUFFICES ASSUME RInit PROVE ReconfigInv
  OBVIOUS
<1>1. /\ \A n \in Storage : rep[n].pc = "idle"
      /\ \A id \in Ids : put[id].pc = "none"
      /\ \A c \in Chunks : ~Present(c)
  BY DEF RInit, Init, TableInit, NoRep, NoPut, NoChunk, Present
<1>2. BaseInv
  BY <1>1, DataInit, SerialInit DEF RInit, BaseInv, RepairsWhole, WrittenHeld
<1>3. Apart /\ PresentAcked /\ AckedPresent /\ TableSound(table) /\ PutsStable
  BY <1>1 DEF Apart, Active, PresentAcked, AckedPresent, TableSound, Present, PutsStable
<1>4. DriversSound
  BY DriversStart
<1> QED BY <1>2, <1>3, <1>4 DEF ReconfigInv

\* The invariant, for any number of drivers, nodes and reconfigurations.
THEOREM ReconfigInvariant ==
    ASSUME FewFaults, NothingToCollect PROVE ApartSpec => []ReconfigInv
<1>1. ReconfigInv /\ [RNext /\ Apart']_rvars => ReconfigInv'
  BY ReconfigNext
<1> QED BY <1>1, ReconfigInit, PTL DEF ApartSpec

\* What the invariants say of the nodes the table names.
LEMMA SoundReadable ==
    ASSUME DataInv, TableSound(table), NEW c \in Chunks, Present(c), Acked(c, table[c].version)
    PROVE  \E n \in table[c].reps \union table[c].old :
             Held(n, c) # {} /\ LatestVersion(n, c) >= table[c].version
<1>1. PICK n \in table[c].reps \union table[c].old : AtLeast(n, c, table[c].version)
  BY DEF TableSound, EntrySound, Present
<1>2. n \in Storage /\ table[c].version \in Nat
  BY TypeParts, Numbers DEF DataInv, TableTypeOK, ChunkEntry
<1> QED BY <1>1, <1>2, LatestAtLeast

\* Reconfiguration never leaves an acknowledged put out of a reader's reach: at every
\* point of every reconfiguration GetChunkInfo names a node that has the version.
THEOREM ReadableThroughReconfig ==
    ASSUME FewFaults, NothingToCollect PROVE ApartSpec => []ReadableThroughout
<1>1. ReconfigInv => ReadableThroughout
  BY SoundReadable DEF ReconfigInv, BaseInv, PresentAcked, ReadableThroughout
<1> QED BY <1>1, ReconfigInvariant, PTL

\* RECONFIGURE_COMMIT never installs a replica without data, whichever driver
\* sends it and whatever became of the others.
THEOREM CommitsInstallData ==
    ASSUME FewFaults, NothingToCollect PROVE ApartSpec => CommitInstallsData
<1>1. ASSUME ReconfigInv, [RNext /\ Apart']_rvars, NEW c \in Chunks,
             table[c].state = "TRANSITIONING", table'[c].state = "STABLE",
             NEW n \in table'[c].reps
      PROVE  LatestVersion(n, c) >= table'[c].version
  <2>1. table'[c] # table[c]
    BY <1>1
  <2>2. ~[Next]_vars
    BY <1>1, <2>1, OtherTableNext
  <2>3. PICK d \in Drivers :
          \/ ReconfigStep(d)
          \/ \E b \in Chunks, new \in SUBSET Storage, src \in Storage : ReconfigBegin(d, b, new, src)
    BY <1>1, <2>2 DEF RNext, OtherStep, rvars
  <2>4. DriveInv
    BY <1>1, ApartNoneLater, AckedOver DEF ReconfigInv, BaseInv, DriveInv
  <2> QED BY <1>1, <2>3, <2>4, DriveNext
<1>2. ReconfigInv /\ [RNext /\ Apart']_rvars =>
        [\A c \in Chunks : table[c].state = "TRANSITIONING" /\ table'[c].state = "STABLE" =>
           \A n \in table'[c].reps : LatestVersion(n, c) >= table'[c].version]_rvars
  BY <1>1
<1> QED BY <1>2, ReconfigInvariant, PTL DEF ApartSpec, CommitInstallsData

\* Reads stay consistent across reconfigurations: a get never returns a put that had
\* ended before one began which was acknowledged before the get began.
THEOREM ReconfigReadsNotStale ==
    ASSUME FewFaults, NothingToCollect PROVE ApartSpec => []NoStaleRead
<1>1. ReconfigInv => NoStaleRead
  BY DEF ReconfigInv, BaseInv, SerialInv
<1> QED BY <1>1, ReconfigInvariant, PTL

\* A driver writes whatever the source served under the version it read at the
\* beginning; what is stored under a version is still a put of that version.
THEOREM ReconfigStoresHoldPuts ==
    ASSUME FewFaults, NothingToCollect PROVE ApartSpec => []StoreIntegrity
<1>1. ReconfigInv => StoreIntegrity
  BY DEF ReconfigInv, BaseInv, DataInv, StoredArePuts, StoreIntegrity, Held, IsPut
<1> QED BY <1>1, ReconfigInvariant, PTL

\* A WriteChunk that is lost, a retry by the next put and the copies a driver makes never
\* leave two stores with different data under one version of a chunk.
THEOREM ReconfigVersionNamesData ==
    ASSUME FewFaults, NothingToCollect PROVE ApartSpec => []SameVersionSameData
<1>1. ReconfigInv => SameVersionSameData
  BY VersionNamesData DEF ReconfigInv, BaseInv
<1> QED BY <1>1, ReconfigInvariant, PTL

(***************************************************************************)
(* Chunks that are put once, whatever fails.                               *)
(***************************************************************************)
\* Schedules in which every chunk is put once, successfully or not.
Once ==
    \A i, j \in Ids : put[i].pc # "none" /\ put[j].pc # "none" /\ put[i].c = put[j].c => i = j

OnceSpec == RInit /\ [][RNext /\ Once']_rvars

\* A put has what it counted as written, and something before it goes on.
PutsWritten ==
    \A id \in Ids : put[id].pc \in {"write", "meta"} =>
        /\ put[id].todo \subseteq put[id].reps /\ put[id].oks \subseteq put[id].reps
        /\ \A n \in put[id].oks : Holds(n, put[id].c, put[id].ver)
        /\ put[id].pc = "meta" => put[id].oks # {}

\* A put above the committed index was refused, and neither the table nor a replay of
\* the log up to that index has its chunk: the leader's cleanup hurts no chunk of these.
TailUnapplied ==
    \A id \in tail : /\ put[id].pc \in {"cleanup", "failed"}
                     /\ table[put[id].c].state = "ABSENT" /\ replayed[put[id].c].state = "ABSENT"

\* Where a table s has a chunk in transition and a later one t has it STABLE again, the
\* replicas that t names have the version.
Installed(s, t) ==
    \A c \in Chunks : s[c].state = "TRANSITIONING" /\ t[c].state = "STABLE" =>
        \A n \in t[c].reps : n \in Storage /\ AtLeast(n, c, t[c].version)

\* What holds of the table t, of the one that the whole log l gives and of the one
\* that its committed part r gives, which takes over when the leader restarts.
TablesSound(t, l, r) ==
    /\ TableSound(t) /\ TableSound(l) /\ TableSound(r)
    /\ Installed(t, l) /\ Installed(t, r) /\ Installed(r, l)

\* Without a delete an acknowledged put stays in all three.
AckedListed ==
    deletes = 0 => \A id \in Ids : put[id].pc = "ok" =>
        /\ table[put[id].c].state # "ABSENT"
        /\ logged[put[id].c].state # "ABSENT"
        /\ replayed[put[id].c].state # "ABSENT"

OnceInv ==
    /\ DataInv /\ CountersBounded /\ RepairsWhole /\ Once /\ PutsWritten
    /\ DriversSound /\ PresentOver /\ TablesSound(table, logged, replayed)
    /\ TailUnapplied /\ AckedListed

\* The parts of it that the lemmas below use most.
LEMMA OnceParts ==
    ASSUME OnceInv
    PROVE  /\ DataInv /\ CountersBounded /\ RepairsWhole /\ Once /\ PutsWritten
           /\ DriversSound /\ PresentOver /\ TailUnapplied /\ AckedListed
           /\ TableSound(table) /\ TableSound(logged) /\ TableSound(replayed)
           /\ Installed(table, logged) /\ Installed(table, replayed) /\ Installed(replayed, logged)
           /\ TypeOK /\ PutsNumbered /\ put \in [Ids -> PutState]
           /\ table \in [Chunks -> ChunkEntry] /\ logged \in [Chunks -> ChunkEntry]
           /\ replayed \in [Chunks -> ChunkEntry] /\ tail \in SUBSET Ids
  BY TypeParts, TablesListed DEF OnceInv, TablesSound, DataInv, Listed

\* There is no other put of the chunk of a driver.
LEMMA OnceNoneLater == OnceInv => NoneLater
<1> SUFFICES ASSUME OnceInv, NEW d \in Drivers, rc[d].pc # "idle", NEW n \in Storage,
                    NEW u \in Held(n, rc[d].c)
             PROVE  u <= rc[d].ver
  BY DEF NoneLater
<1>0. DataInv /\ Once /\ DriverSound(rc[d])
  BY OnceParts DEF DriversSound
<1>1. PICK c \in Chunks : c = rc[d].c
  BY <1>0 DEF DriverSound
<1>2. u \in Ids /\ IsPut(store[n][c][u], c, u)
  BY <1>0, <1>1 DEF Held, DataInv, StoredArePuts
<1>3. PICK id \in Ids : put[id].pc # "none" /\ put[id].c = c /\ put[id].ver = u
  BY <1>2 DEF IsPut
<1>4. PICK j \in Ids : put[j].pc \in {"ok", "failed"} /\ put[j].c = c /\ put[j].ver = rc[d].ver
  BY <1>0, <1>1 DEF DriverSound, Over
<1>5. u = rc[d].ver
  BY <1>0, <1>3, <1>4 DEF Once
<1> QED BY <1>2, <1>5, Numbers

\* The cleanup of a failed put, the leader's cleanup after a restart and the repair
\* loops take away no version of a chunk whose put is not being cleaned up.
LEMMA OnceGrows ==
    ASSUME DataInv, CountersBounded, RepairsWhole, Once, TailUnapplied, [Next]_vars,
           NEW id \in Ids, NEW c \in Chunks, put[id].c = c, put[id].pc \notin {"none", "cleanup"},
           id \notin tail \/ restarts' = restarts
    PROVE  Grows(c)
<1>0. /\ TypeOK /\ store \in [Storage -> [Chunks -> [Ids -> Data]]] /\ put \in [Ids -> PutState]
      /\ tail \in SUBSET Ids
  BY TypeParts, TablesListed DEF DataInv
<1>1. ASSUME store' = store PROVE Grows(c)
  BY <1>1 DEF Grows, Holds, Held
<1>2. ASSUME NEW m \in Storage, NEW b \in Chunks, NEW u \in Ids, NEW d \in Ids, StoreWrite(m, b, u, d)
      PROVE  Grows(c)
  <2>1. d \in Data /\ d # NoData
    BY Numbers
  <2>2. \A n \in Storage, v \in Ids :
          store'[n][c][v] = IF n = m /\ c = b /\ v = u THEN d ELSE store[n][c][v]
    BY <1>0, <1>2, <2>1, WriteStored
  <2> QED BY <2>1, <2>2 DEF Grows, Holds, Held
<1>3. ASSUME NEW m \in Storage, NEW cs, c \notin cs, StoreRemove(m, cs) PROVE Grows(c)
  <2>1. \A n \in Storage, v \in Ids : store'[n][c][v] = store[n][c][v]
    BY <1>0, <1>3, RemoveStored
  <2> QED BY <2>1 DEF Grows, Holds, Held
<1>4. ASSUME NEW j \in Ids, NEW n \in Storage, PutWrite(j, n) \/ PutWriteLost(j, n) PROVE Grows(c)
  <2>1. put[j].c \in Chunks /\ put[j].ver \in Ids
    BY <1>4 DEF PutWrite, PutWriteLost, DataInv, PutsNumbered
  <2>2. store' = store \/ StoreWrite(n, put[j].c, put[j].ver, j)
    BY <1>4 DEF PutWrite, PutWriteLost
  <2> QED BY <1>1, <1>2, <2>1, <2>2
<1>5. ASSUME NEW j \in Ids, NEW n \in Storage, PutCleanup(j, n) PROVE Grows(c)
  <2>1. put[j].pc = "cleanup" /\ (store' = store \/ StoreRemove(n, {put[j].c}))
    BY <1>5 DEF PutCleanup
  <2>2. put[j].c # c
    BY <2>1 DEF Once
  <2> QED BY <1>1, <1>3, <2>1, <2>2
<1>6. ASSUME NEW n \in Storage, RepairStore(n) PROVE Grows(c)
  <2>1. rep[n].c \in Chunks /\ rep[n].ver \in Ids /\ rep[n].data \in Ids
    BY <1>6 DEF RepairStore, DataInv, RepairsArePuts, IsPut
  <2>2. StoreWrite(n, rep[n].c, rep[n].ver, rep[n].data)
    BY <1>6 DEF RepairStore
  <2> QED BY <1>2, <2>1, <2>2
<1>7. ASSUME NEW n \in Storage, RepairCollect(n) PROVE Grows(c)
  <2>1. StoreRemove(n, Chunks \ rep[n].set) /\ c \notin Chunks \ rep[n].set
    BY <1>7 DEF RepairCollect, RepairsWhole
  <2> QED BY <1>3, <2>1
<1>8. ASSUME LeaderRestart PROVE Grows(c)
  <2>1. id \notin tail
    <3>1. restarts' = restarts + 1
      BY <1>8 DEF LeaderRestart
    <3>2. restarts \in Nat
      BY DEF CountersBounded
    <3>3. restarts' # restarts
      BY <3>1, <3>2
    <3> QED BY <3>3
  <2>2. ~ \E j \in tail : put[j].c = c
    BY <1>0, <2>1 DEF Once, TailUnapplied
  <2>3. store' = [n \in Storage |-> [b \in Chunks |->
                    IF n \in up /\ \E j \in tail : put[j].c = b /\ n \in put[j].reps
                    THEN [v \in Ids |-> NoData] ELSE store[n][b]]]
    BY <1>8 DEF LeaderRestart
  <2>4. \A n \in Storage : store'[n][c] = store[n][c]
    BY <2>2, <2>3
  <2> QED BY <2>4 DEF Grows, Holds, Held
<1>9. ASSUME UNCHANGED vars PROVE Grows(c)
  BY <1>1, <1>9 DEF vars, nodeVars
<1>10. ASSUME NEW n \in Storage, RepairStep(n) PROVE Grows(c)
  BY <1>1, <1>6, <1>7, <1>10, StoreSame DEF RepairStep
<1>11. ASSUME PutStep PROVE Grows(c)
  BY <1>1, <1>4, <1>5, <1>11, StoreSame DEF PutStep
<1>12. ASSUME GetStep \/ \E b \in Chunks : DeleteChunk(b) \/ DeleteUnavailable(b) PROVE Grows(c)
  BY <1>1, <1>12, StoreSame
<1>13. ASSUME NEW n \in Storage,
              Heartbeat(n) \/ HeartbeatRefused(n) \/ NodeCrash(n) \/ NodeRestart(n) \/ Evict(n)
       PROVE  Grows(c)
  BY <1>1, <1>13, StoreSame
<1> QED BY <1>8, <1>9, <1>10, <1>11, <1>12, <1>13 DEF Next

\* A majority is not empty.
LEMMA MajoritySome ==
    ASSUME TypeOK, NEW id \in Ids, StorageMajority(id)
    PROVE  put[id].oks # {}
<1>1. put[id].reps \in SUBSET Storage /\ put[id].oks \in SUBSET Storage
  BY TypeParts DEF PutState
<1>2. Cardinality(put[id].reps) \in Nat /\ Cardinality(put[id].oks) \in Nat
  BY <1>1, NodeSets
<1>3. Cardinality(put[id].oks) # 0
  BY <1>2 DEF StorageMajority
<1> QED BY <1>3, FS_EmptySet

\* What a put counted as written stays there until the put ends.
LEMMA PutsWrittenNext ==
    ASSUME DataInv, CountersBounded, RepairsWhole, Once, TailUnapplied, PutsWritten, [Next]_vars
    PROVE  PutsWritten'
<1>0. TypeOK /\ PutsNumbered /\ put \in [Ids -> PutState]
  BY TypeParts DEF DataInv
<1>1. \A id \in Ids : put[id].pc \in {"write", "meta"} =>
        /\ put[id].c \in Chunks /\ put[id].ver \in Ids /\ put[id].oks \in SUBSET Storage
        /\ put[id].todo \subseteq put[id].reps /\ put[id].oks \subseteq put[id].reps
        /\ \A n \in put[id].oks : Holds(n, put[id].c, put[id].ver)
        /\ put[id].pc = "meta" => put[id].oks # {}
  BY <1>0 DEF PutsWritten, PutsNumbered, PutState
<1>2. ASSUME NEW id \in Ids, put[id].pc \in {"write", "meta"}, put'[id].pc \in {"write", "meta"},
             NEW n \in put[id].oks, put'[id].c = put[id].c, put'[id].ver = put[id].ver
      PROVE  Holds(n, put[id].c, put[id].ver)'
  <2>1. PICK c \in Chunks, v \in Ids : c = put[id].c /\ v = put[id].ver
    BY <1>1, <1>2
  <2>2. n \in Storage /\ Holds(n, c, v)
    BY <1>1, <1>2, <2>1
  <2>4. id \notin tail
    BY <1>2 DEF TailUnapplied
  <2>3. Holds(n, c, v)'
    BY <1>2, <2>1, <2>2, <2>4, OnceGrows DEF Grows
  <2> QED BY <1>2, <2>1, <2>3 DEF Holds, Held
<1> DEFINE Sound(id) ==
        put'[id].pc \in {"write", "meta"} =>
            /\ put'[id].todo \subseteq put'[id].reps /\ put'[id].oks \subseteq put'[id].reps
            /\ \A n \in put'[id].oks : Holds(n, put[id].c, put[id].ver)'
            /\ put'[id].pc = "meta" => put'[id].oks # {}
<1>3. ASSUME NEW id \in Ids, put'[id] = put[id] PROVE Sound(id)
  BY <1>1, <1>2, <1>3
<1>4. ASSUME put' = put PROVE \A id \in Ids : Sound(id)
  <2> HIDE DEF Sound
  <2> QED BY <1>3, <1>4
<1>5. ASSUME NEW id \in Ids, PutMoves(id), Sound(id) PROVE \A j \in Ids : Sound(j)
  <2> HIDE DEF Sound
  <2> QED BY <1>3, <1>5 DEF PutMoves
<1>6. ASSUME NEW id \in Ids, NEW n \in Storage, PutWrite(id, n) PROVE \A j \in Ids : Sound(j)
  <2>1. /\ PutMoves(id) /\ put[id].pc = "write" /\ put'[id].pc = "write" /\ n \in put[id].todo
        /\ put'[id].todo = put[id].todo \ {n}
        /\ put'[id].oks = IF n \in up THEN put[id].oks \union {n} ELSE put[id].oks
    BY <1>0, <1>6, PutWriteMoves
  <2>2. put'[id].c = put[id].c /\ put'[id].ver = put[id].ver /\ put'[id].reps = put[id].reps
    BY <2>1 DEF PutMoves
  <2>3. put'[id].todo \subseteq put'[id].reps /\ put'[id].oks \subseteq put'[id].reps
    BY <1>1, <2>1, <2>2
  <2>4. n \in up => Holds(n, put[id].c, put[id].ver)'
    <3> SUFFICES ASSUME n \in up PROVE Holds(n, put[id].c, put[id].ver)'
      OBVIOUS
    <3>1. put[id].c \in Chunks /\ put[id].ver \in Ids /\ id \in Data /\ id # NoData
      BY <1>1, <2>1, Numbers
    <3>2. StoreWrite(n, put[id].c, put[id].ver, id)
      BY <1>6 DEF PutWrite
    <3>3. store'[n][put[id].c][put[id].ver] = id
      BY <1>0, <3>1, <3>2, WriteStored
    <3> QED BY <2>2, <3>1, <3>3 DEF Holds, Held
  <2>5. \A m \in put'[id].oks : Holds(m, put[id].c, put[id].ver)'
    BY <1>2, <2>1, <2>2, <2>4
  <2>6. Sound(id)
    BY <2>1, <2>3, <2>5
  <2> HIDE DEF Sound
  <2> QED BY <1>5, <2>1, <2>6
<1>7. ASSUME NEW id \in Ids, NEW n \in Storage, PutWriteLost(id, n) PROVE \A j \in Ids : Sound(j)
  <2>1. /\ PutMoves(id) /\ put[id].pc = "write" /\ put'[id].pc = "write"
        /\ put'[id].todo = put[id].todo \ {n} /\ put'[id].oks = put[id].oks
    BY <1>0, <1>7, PutWriteLostMoves
  <2>2. put'[id].c = put[id].c /\ put'[id].ver = put[id].ver /\ put'[id].reps = put[id].reps
    BY <2>1 DEF PutMoves
  <2>3. Sound(id)
    BY <1>1, <1>2, <2>1, <2>2
  <2> HIDE DEF Sound
  <2> QED BY <1>5, <2>1, <2>3
<1>8. ASSUME NEW id \in Ids, PutDecide(id) PROVE \A j \in Ids : Sound(j)
  <2>1. /\ PutMoves(id) /\ put[id].pc = "write"
        /\ put'[id].pc = IF StorageMajority(id) THEN "meta" ELSE "cleanup"
        /\ put'[id].todo = put[id].todo /\ put'[id].oks = put[id].oks
    BY <1>0, <1>8, PutDecideMoves
  <2>2. put'[id].c = put[id].c /\ put'[id].ver = put[id].ver /\ put'[id].reps = put[id].reps
    BY <2>1 DEF PutMoves
  <2>3. put'[id].pc = "meta" => put'[id].oks # {}
    BY <1>0, <2>1, MajoritySome
  <2>4. Sound(id)
    BY <1>1, <1>2, <2>1, <2>2, <2>3
  <2> HIDE DEF Sound
  <2> QED BY <1>5, <2>1, <2>4
<1>9. ASSUME NEW id \in Ids, PutMoves(id), put'[id].pc \notin {"write", "meta"}
      PROVE  \A j \in Ids : Sound(j)
  <2>1. Sound(id)
    BY <1>9
  <2> HIDE DEF Sound
  <2> QED BY <1>5, <1>9, <2>1
<1>10. ASSUME NEW c \in Chunks, NEW reps \in SUBSET Storage, PutStart(c, reps)
       PROVE  \A j \in Ids : Sound(j)
  <2>0. PICK new \in Ids : new = started + 1
    BY <1>0, <1>10, PutStarts
  <2>1. /\ put'[new] = [pc |-> "write", c |-> c, ver |-> table[c].version + 1, reps |-> reps,
                        todo |-> reps, oks |-> {}, prior |-> Ended(c)]
        /\ \A j \in Ids : j # new => put'[j] = put[j]
    BY <1>0, <1>10, <2>0, PutStarts
  <2>2. put'[new].pc = "write" /\ put'[new].oks = {} /\ put'[new].todo = put'[new].reps
    BY <2>1
  <2>3. Sound(new)
    BY <2>2
  <2> HIDE DEF Sound
  <2> QED BY <1>3, <2>1, <2>3
<1>11. ASSUME LeaderRestart PROVE \A j \in Ids : Sound(j)
  <2>1. put' = [j \in Ids |-> IF j \in Active
                              THEN [put[j] EXCEPT !.pc = "failed", !.todo = {}, !.oks = {}]
                              ELSE put[j]]
    BY <1>11 DEF LeaderRestart
  <2>2. \A j \in Ids : put'[j].pc \notin {"write", "meta"}
    BY <1>0, <2>1 DEF Active, PutState
  <2> QED BY <2>2
<1>12. ASSUME NEW id \in Ids, PutCommit(id) \/ PutUnavailable(id) \/ PutFailed(id)
       PROVE  \A j \in Ids : Sound(j)
  <2>1. PutMoves(id)
    BY <1>0, <1>12, PutCommitMoves, PutEndMoves
  <2>2. put'[id].pc \notin {"write", "meta"}
    BY <1>0, <1>12 DEF PutCommit, PutUnavailable, PutFailed, PutState
  <2> HIDE DEF Sound
  <2> QED BY <1>9, <2>1, <2>2
<1>13. ASSUME NEW id \in Ids, NEW n \in Storage, PutCleanup(id, n) PROVE \A j \in Ids : Sound(j)
  <2>1. PutMoves(id)
    BY <1>0, <1>13, PutCleanupMoves
  <2>2. put'[id].pc \notin {"write", "meta"}
    BY <1>0, <1>13 DEF PutCleanup, PutState
  <2> HIDE DEF Sound
  <2> QED BY <1>9, <2>1, <2>2
<1> HIDE DEF Sound
<1>14. ASSUME PutStep PROVE \A j \in Ids : Sound(j)
  BY <1>6, <1>7, <1>8, <1>10, <1>12, <1>13, <1>14 DEF PutStep
<1>15. ASSUME UNCHANGED vars PROVE \A j \in Ids : Sound(j)
  BY <1>4, <1>15 DEF vars
<1>16. \A j \in Ids : Sound(j)
  BY <1>4, <1>11, <1>14, <1>15, PutsSame DEF Next
<1> QED BY <1>16 DEF Sound, PutsWritten

\* Only the commit of its metadata write acknowledges a put.
LEMMA CommitAcks ==
    ASSUME TypeOK, PutsNumbered, [Next]_vars, NEW j \in Ids, put'[j].pc = "ok"
    PROVE  put[j].pc = "ok" \/ PutCommit(j)
<1>0. put \in [Ids -> PutState]
  BY TypeParts
<1>1. CASE put'[j] = put[j]
  BY <1>1
<1>2. ASSUME NEW id \in Ids, PutProgress(id) PROVE put[j].pc = "ok" \/ PutCommit(j)
  <2>1. PutMoves(id)
    BY <1>2, ProgressMoves
  <2>2. CASE j # id
    BY <1>1, <2>1, <2>2 DEF PutMoves
  <2>3. CASE j = id /\ ~PutCommit(id)
    <3>1. \/ PutDecide(id) \/ PutUnavailable(id) \/ PutFailed(id)
          \/ \E n \in Storage : PutWrite(id, n) \/ PutWriteLost(id, n) \/ PutCleanup(id, n)
      BY <1>2, <2>3 DEF PutProgress
    <3>2. CASE PutDecide(id)
      BY <2>3, <3>2, PutDecideMoves
    <3>3. CASE PutUnavailable(id)
      <4>1. put' = [put EXCEPT ![id].pc = "cleanup"] /\ put[id].pc = "meta"
        BY <3>3 DEF PutUnavailable
      <4> QED BY <2>3, <4>1, PutPcMoves
    <3>6. CASE PutFailed(id)
      <4>1. put' = [put EXCEPT ![id].pc = "failed"] /\ put[id].pc = "cleanup"
        BY <3>6 DEF PutFailed
      <4> QED BY <2>3, <4>1, PutPcMoves
    <3>4. ASSUME NEW n \in Storage, PutWrite(id, n) \/ PutWriteLost(id, n) PROVE put'[id].pc = "write"
      BY <3>4, PutWriteMoves, PutWriteLostMoves
    <3>5. ASSUME NEW n \in Storage, PutCleanup(id, n) PROVE put'[id].pc = "cleanup"
      BY <1>0, <3>5 DEF PutCleanup
    <3> QED BY <2>3, <3>1, <3>2, <3>3, <3>4, <3>5, <3>6
  <2> QED BY <2>2, <2>3
<1>3. ASSUME NEW c \in Chunks, NEW reps \in SUBSET Storage, PutStart(c, reps) PROVE put[j].pc = "ok"
  <2>1. PICK new \in Ids : /\ put'[new].pc = "write"
                           /\ \A i \in Ids : i # new => put'[i] = put[i]
    <3>1. started + 1 \in Ids
      BY <1>3, PutStarts
    <3>2. put'[started + 1] = [pc |-> "write", c |-> c, ver |-> table[c].version + 1, reps |-> reps,
                               todo |-> reps, oks |-> {}, prior |-> Ended(c)]
      BY <1>3, PutStarts
    <3>3. put'[started + 1].pc = "write"
      BY <3>2
    <3> QED BY <1>3, <3>1, <3>3, PutStarts
  <2> QED BY <2>1
<1>4. ASSUME LeaderRestart PROVE put[j].pc = "ok"
  <2>1. put' = [i \in Ids |-> IF i \in Active
                              THEN [put[i] EXCEPT !.pc = "failed", !.todo = {}, !.oks = {}]
                              ELSE put[i]]
    BY <1>4 DEF LeaderRestart
  <2>2. \A q \in PutState : [q EXCEPT !.pc = "failed", !.todo = {}, !.oks = {}].pc = "failed"
    BY DEF PutState
  <2> QED BY <1>0, <2>1, <2>2
<1>5. ASSUME UNCHANGED vars PROVE put[j].pc = "ok"
  BY <1>5 DEF vars
<1>6. ASSUME PutStep PROVE put[j].pc = "ok" \/ PutCommit(j)
  BY <1>2, <1>3, <1>6 DEF PutStep, PutProgress
<1> QED BY <1>4, <1>5, <1>6, PutsSame DEF Next

\* A chunk whose put is over loses no version, unless the leader starts again and
\* neither table knew the chunk.
LEMMA OverGrows ==
    ASSUME OnceInv, [Next]_vars, NEW c \in Chunks, NEW w, Over(c, w),
           \/ restarts' = restarts
           \/ table[c].state # "ABSENT"
           \/ replayed[c].state # "ABSENT"
    PROVE  Grows(c)
<1>0. DataInv /\ CountersBounded /\ RepairsWhole /\ Once /\ TailUnapplied
  BY OnceParts
<1>1. PICK id \in Ids : put[id].pc \in {"ok", "failed"} /\ put[id].c = c
  BY DEF Over
<1>2. id \notin tail \/ restarts' = restarts
  BY <1>0, <1>1 DEF TailUnapplied
<1> QED BY <1>0, <1>1, <1>2, OnceGrows

\* Every step leaves a sound entry so.
LEMMA OnceEntries ==
    ASSUME OnceInv, [Next]_vars, Once', NEW c \in Chunks, NEW e \in ChunkEntry, EntrySound(c, e)
    PROVE  EntrySound(c, e)'
<1>0. /\ DataInv /\ CountersBounded /\ RepairsWhole /\ Once /\ TailUnapplied
      /\ TypeOK /\ PutsNumbered
  BY OnceParts
<1>1. PICK id \in Ids : /\ put[id].pc \in {"cleanup", "ok", "failed"}
                        /\ put[id].c = c /\ put[id].ver = e.version
  BY DEF EntrySound, Tried
<1>2. ASSUME Acked(c, e.version)' PROVE Acked(c, e.version) /\ Grows(c)
  <2>1. PICK j \in Ids : put'[j].pc = "ok" /\ put'[j].c = c
    BY <1>2 DEF Acked
  <2>2. put'[id].pc # "none" /\ put'[id].c = c
    BY <1>0, <1>1, PutsKept
  <2>3. j = id
    BY <2>1, <2>2 DEF Once
  <2>4. put[id].pc = "ok"
    BY <1>0, <1>1, <2>1, <2>3, EndedStays
  <2>5. id \notin tail
    BY <2>4, <1>0 DEF TailUnapplied
  <2>6. Grows(c)
    BY <1>0, <1>1, <2>4, <2>5, OnceGrows
  <2> QED BY <1>1, <2>4, <2>6 DEF Acked
<1> QED BY <1>0, <1>2, AckedStays, EntryStays

\* What an entry that is put in place of another does to what holds of the tables; only
\* chunk c is looked at.
LEMMA EntryPut ==
    ASSUME NEW c \in Chunks, NEW e \in ChunkEntry
    PROVE  \A t : t \in [Chunks -> ChunkEntry] =>
             /\ [t EXCEPT ![c] = e] \in [Chunks -> ChunkEntry]
             /\ [t EXCEPT ![c] = e][c] = e
             /\ \A b \in Chunks : b # c => [t EXCEPT ![c] = e][b] = t[b]
  OBVIOUS

\* A table in which only the entry of c is new is sound if that entry is.
LEMMA SoundPut ==
    ASSUME NEW c \in Chunks
    PROVE  \A t, u : /\ TableSound(t)' /\ \A b \in Chunks : b # c => u[b] = t[b]
                     /\ u[c].state # "ABSENT" => EntrySound(c, u[c])'
                     => TableSound(u)'
<1> SUFFICES ASSUME NEW t, NEW u, TableSound(t)', \A b \in Chunks : b # c => u[b] = t[b],
                    u[c].state # "ABSENT" => EntrySound(c, u[c])',
                    NEW b \in Chunks, u[b].state # "ABSENT"
             PROVE  EntrySound(b, u[b])'
  BY DEF TableSound
<1>1. CASE b = c
  BY <1>1
<1>2. CASE b # c
  <2>1. PICK x : x = t[b] /\ x = u[b]
    BY <1>2
  <2>2. EntrySound(b, x)'
    BY <2>1 DEF TableSound
  <2> QED BY <2>1, <2>2
<1> QED BY <1>1, <1>2

\* Of two tables that are new for chunk c, that chunk need only be looked at.
LEMMA InstalledPut ==
    ASSUME NEW c \in Chunks
    PROVE  \A s, t, u, w :
             /\ Installed(s, t)' /\ \A b \in Chunks : b # c => u[b] = s[b] /\ w[b] = t[b]
             /\ u[c].state = "TRANSITIONING" /\ w[c].state = "STABLE" =>
                  \A n \in w[c].reps : n \in Storage /\ AtLeast(n, c, w[c].version)'
             => Installed(u, w)'
<1> SUFFICES ASSUME NEW s, NEW t, NEW u, NEW w, Installed(s, t)',
                    \A b \in Chunks : b # c => u[b] = s[b] /\ w[b] = t[b],
                    u[c].state = "TRANSITIONING" /\ w[c].state = "STABLE" =>
                      \A n \in w[c].reps : n \in Storage /\ AtLeast(n, c, w[c].version)',
                    NEW b \in Chunks, u[b].state = "TRANSITIONING", w[b].state = "STABLE",
                    NEW n \in w[b].reps
             PROVE  n \in Storage /\ AtLeast(n, b, w[b].version)'
  BY DEF Installed
<1>1. CASE b = c
  BY <1>1
<1>2. CASE b # c
  <2>1. PICK x : x = t[b] /\ x = w[b]
    BY <1>2
  <2>2. s[b].state = "TRANSITIONING" /\ x.state = "STABLE" /\ n \in x.reps
    BY <1>2, <2>1
  <2>3. n \in Storage /\ AtLeast(n, b, x.version)'
    BY <2>1, <2>2 DEF Installed
  <2> QED BY <2>1, <2>3
<1> QED BY <1>1, <1>2

\* If the chunks in transition lose no version, what is installed stays so.
LEMMA InstalledStays ==
    \A s, t : /\ Installed(s, t)
              /\ \A c \in Chunks : s[c].state = "TRANSITIONING" => Grows(c)
              => Installed(s, t)'
<1> SUFFICES ASSUME NEW s, NEW t, Installed(s, t),
                    \A c \in Chunks : s[c].state = "TRANSITIONING" => Grows(c),
                    NEW c \in Chunks, s[c].state = "TRANSITIONING", t[c].state = "STABLE",
                    NEW n \in t[c].reps
             PROVE  n \in Storage /\ AtLeast(n, c, t[c].version)'
  BY DEF Installed
<1>1. PICK v : v = t[c].version
  OBVIOUS
<1>2. n \in Storage /\ AtLeast(n, c, v)
  BY <1>1 DEF Installed
<1>3. AtLeast(n, c, v)'
  BY <1>2, AtLeastGrows
<1> QED BY <1>1, <1>2, <1>3

\* The tables that a step leaves, looked at after it.
LEMMA TablesThen ==
    ASSUME NEW t, NEW l, NEW r, table' = t, logged' = l, replayed' = r, TablesSound(t, l, r)'
    PROVE  TablesSound(table, logged, replayed)'
<1>1. /\ TableSound(t)' /\ TableSound(l)' /\ TableSound(r)'
      /\ Installed(t, l)' /\ Installed(t, r)' /\ Installed(r, l)'
  BY DEF TablesSound
<1>2. TableSound(table)' /\ TableSound(logged)' /\ TableSound(replayed)'
  BY <1>1 DEF TableSound
<1>3. Installed(table, logged)' /\ Installed(table, replayed)' /\ Installed(replayed, logged)'
  BY <1>1 DEF Installed
<1> QED BY <1>2, <1>3 DEF TablesSound

\* Such a schedule's steps and the three tables: the chunk of a put whose metadata
\* write is under way is in none of them.
LEMMA OnceUnlisted ==
    ASSUME OnceInv, NEW id \in Ids, put[id].pc \in {"write", "meta"}
    PROVE  /\ put[id].c \in Chunks
           /\ table[put[id].c].state = "ABSENT" /\ logged[put[id].c].state = "ABSENT"
           /\ replayed[put[id].c].state = "ABSENT"
<1>1. PICK c \in Chunks : c = put[id].c
  BY OnceParts DEF PutsNumbered
<1>2. \A w : ~Tried(c, w)
  BY <1>1, OnceParts DEF Tried, Once
<1>3. \A t : TableSound(t) => t[c].state = "ABSENT"
  BY <1>2 DEF TableSound, EntrySound
<1> QED BY <1>1, <1>3, OnceParts

\* What every step of the data plane leaves of the tables as they are before it.
LEMMA OnceTablesStay ==
    ASSUME OnceInv, [Next]_vars, Once'
    PROVE  \A t, l, r : t = table /\ l = logged /\ r = replayed =>
             /\ TablesSound(t, l, r)'
             /\ restarts' = restarts => TablesSound(t, l, l)'
             /\ TablesSound(r, l, r)'
<1> SUFFICES ASSUME NEW t, NEW l, NEW r, t = table, l = logged, r = replayed
             PROVE  /\ TablesSound(t, l, r)'
                    /\ restarts' = restarts => TablesSound(t, l, l)'
                    /\ TablesSound(r, l, r)'
  OBVIOUS
<1>1. /\ t \in [Chunks -> ChunkEntry] /\ l \in [Chunks -> ChunkEntry] /\ r \in [Chunks -> ChunkEntry]
      /\ TableSound(t) /\ TableSound(l) /\ TableSound(r)
      /\ Installed(t, l) /\ Installed(t, r) /\ Installed(r, l)
  BY OnceParts
<1>2. \A c \in Chunks, e \in ChunkEntry : EntrySound(c, e) => EntrySound(c, e)'
  BY OnceEntries
<1>3. TableSound(t)' /\ TableSound(l)' /\ TableSound(r)'
  BY <1>1, <1>2, SoundStays
<1>4. ASSUME NEW c \in Chunks, t[c].state = "TRANSITIONING" PROVE Grows(c)
  <2>1. PICK w : Over(c, w)
    BY <1>1, <1>4 DEF TableSound, EntrySound
  <2> QED BY <1>4, <2>1, OverGrows
<1>5. ASSUME NEW c \in Chunks, r[c].state = "TRANSITIONING" PROVE Grows(c)
  <2>1. PICK w : Over(c, w)
    BY <1>1, <1>5 DEF TableSound, EntrySound
  <2> QED BY <1>5, <2>1, OverGrows
<1>6. Installed(t, l)' /\ Installed(t, r)' /\ Installed(r, l)'
  BY <1>1, <1>4, <1>5, InstalledStays
<1>7. Installed(r, r)' /\ Installed(l, l)'
  BY DEF Installed
<1> QED BY <1>3, <1>6, <1>7 DEF TablesSound

\* The tables after a put commits, ...
LEMMA OnceCommit ==
    ASSUME OnceInv, [Next]_vars, Once', NEW id \in Ids, PutCommit(id)
    PROVE  /\ TablesSound(table, logged, replayed)' /\ tail' = {}
           /\ table'[put[id].c].state # "ABSENT" /\ logged'[put[id].c].state # "ABSENT"
           /\ replayed' = logged'
           /\ \A b \in Chunks : b # put[id].c => table'[b] = table[b] /\ logged'[b] = logged[b]
<1>0. OnceInv /\ TypeOK /\ put \in [Ids -> PutState] /\ PutsNumbered
  BY OnceParts
<1>1. /\ PutMoves(id) /\ put[id].pc = "meta" /\ put'[id].pc = "ok"
  BY <1>0, PutCommitMoves
<1>2. PICK c \in Chunks, v \in Ids, reps \in SUBSET Storage :
        c = put[id].c /\ v = put[id].ver /\ reps = put[id].reps
  BY <1>0, <1>1 DEF PutsNumbered, PutState
<1>3. PICK e : e = [version |-> v, state |-> "STABLE", reps |-> reps, old |-> {}]
  OBVIOUS
<1>4. e \in ChunkEntry /\ e.version = v /\ e.state = "STABLE" /\ e.reps = reps /\ e.old = {}
  BY <1>3, Numbers DEF ChunkEntry
<1>5. PICK t \in [Chunks -> ChunkEntry], l \in [Chunks -> ChunkEntry], r \in [Chunks -> ChunkEntry] :
        t = table /\ l = logged /\ r = replayed
  BY OnceParts
<1>6. PICK u, w : u = [t EXCEPT ![c] = e] /\ w = [l EXCEPT ![c] = e]
  OBVIOUS
<1>7. table' = u /\ logged' = w /\ replayed' = w /\ tail' = {}
  BY <1>2, <1>3, <1>5, <1>6 DEF PutCommit, ApplyPutChunk, PutApplied, CommitAll
<1>8. u[c] = e /\ w[c] = e /\ \A b \in Chunks : b # c => u[b] = t[b] /\ w[b] = l[b]
  BY <1>4, <1>5, <1>6, EntryPut
<1>9. PICK n \in put[id].oks : n \in reps /\ n \in Storage /\ Holds(n, c, v)
  BY <1>1, <1>2, OnceParts DEF PutsWritten
<1>10. Holds(n, c, v)'
  <2>1. id \notin tail
    BY <1>1, OnceParts DEF TailUnapplied
  <2>2. Grows(c)
    BY <1>1, <1>2, <2>1, OnceParts, OnceGrows
  <2> QED BY <1>9, <2>2 DEF Grows
<1>11. EntrySound(c, e)'
  <2>1. put'[id].pc = "ok" /\ put'[id].c = c /\ put'[id].ver = v
    BY <1>1, <1>2 DEF PutMoves
  <2>2. Tried(c, v)'
    BY <2>1 DEF Tried
  <2>3. v >= v
    BY Numbers
  <2>4. AtLeast(n, c, v)'
    BY <1>10, <2>3 DEF AtLeast, Holds
  <2> QED BY <1>4, <1>9, <2>2, <2>4 DEF EntrySound
<1>12. TableSound(t)' /\ TableSound(l)' /\ Installed(t, l)'
  BY <1>0, <1>5, OnceTablesStay DEF TablesSound
<1>13. TableSound(u)' /\ TableSound(w)'
  BY <1>8, <1>11, <1>12, SoundPut
<1>14. Installed(u, w)' /\ Installed(w, w)'
  <2>1. Installed(u, w)'
    BY <1>4, <1>8, <1>12, InstalledPut
  <2> QED BY <2>1 DEF Installed
<1>15. TablesSound(table, logged, replayed)'
  <2>1. TablesSound(u, w, w)'
    BY <1>13, <1>14 DEF TablesSound
  <2> QED BY <1>7, <2>1, TablesThen
<1> QED BY <1>2, <1>4, <1>5, <1>7, <1>8, <1>15

\* ... after its metadata write is refused, ...
LEMMA OnceRefused ==
    ASSUME OnceInv, [Next]_vars, Once', NEW id \in Ids, PutUnavailable(id)
    PROVE  /\ TablesSound(table, logged, replayed)' /\ tail' = tail \union {id}
           /\ put'[id].pc = "cleanup" /\ put'[id].c = put[id].c
           /\ table' = table /\ replayed' = replayed
           /\ table[put[id].c].state = "ABSENT" /\ replayed[put[id].c].state = "ABSENT"
           /\ \A b \in Chunks : b # put[id].c => logged'[b] = logged[b]
           /\ logged'[put[id].c].state # "ABSENT"
<1>0. OnceInv /\ TypeOK /\ put \in [Ids -> PutState] /\ PutsNumbered
  BY OnceParts
<1>1. /\ PutMoves(id) /\ put[id].pc = "meta" /\ put'[id].pc = "cleanup"
  <2>1. put' = [put EXCEPT ![id].pc = "cleanup"] /\ put[id].pc = "meta"
    BY DEF PutUnavailable
  <2> QED BY <1>0, <2>1, PutPcMoves
<1>2. PICK c \in Chunks, v \in Ids, reps \in SUBSET Storage :
        c = put[id].c /\ v = put[id].ver /\ reps = put[id].reps
  BY <1>0, <1>1 DEF PutsNumbered, PutState
<1>3. PICK e : e = [version |-> v, state |-> "STABLE", reps |-> reps, old |-> {}]
  OBVIOUS
<1>4. e \in ChunkEntry /\ e.version = v /\ e.state = "STABLE" /\ e.reps = reps /\ e.old = {}
  BY <1>3, Numbers DEF ChunkEntry
<1>5. PICK t \in [Chunks -> ChunkEntry], l \in [Chunks -> ChunkEntry], r \in [Chunks -> ChunkEntry] :
        t = table /\ l = logged /\ r = replayed
  BY OnceParts
<1>6. PICK w : w = [l EXCEPT ![c] = e]
  OBVIOUS
<1>7. table' = t /\ logged' = w /\ replayed' = r /\ tail' = tail \union {id}
  BY <1>2, <1>3, <1>5, <1>6 DEF PutUnavailable, LogOnly, PutApplied
<1>8. w[c] = e /\ \A b \in Chunks : b # c => w[b] = l[b]
  BY <1>4, <1>5, <1>6, EntryPut
<1>9. t[c].state = "ABSENT" /\ r[c].state = "ABSENT"
  BY <1>1, <1>2, <1>5, OnceUnlisted
<1>10. EntrySound(c, e)'
  <2>1. put'[id].pc = "cleanup" /\ put'[id].c = c /\ put'[id].ver = v
    BY <1>1, <1>2 DEF PutMoves
  <2>2. Tried(c, v)'
    BY <2>1 DEF Tried
  <2>3. ~Acked(c, v)'
    BY <2>1 DEF Acked, Once
  <2> QED BY <1>4, <2>2, <2>3 DEF EntrySound
<1>11. /\ TableSound(t)' /\ TableSound(l)' /\ TableSound(r)'
       /\ Installed(t, l)' /\ Installed(t, r)' /\ Installed(r, l)'
  BY <1>0, <1>5, OnceTablesStay DEF TablesSound
<1>12. TableSound(w)'
  BY <1>8, <1>10, <1>11, SoundPut
<1>13. Installed(t, w)' /\ Installed(r, w)'
  BY <1>8, <1>9, <1>11, InstalledPut
<1>14. TablesSound(table, logged, replayed)'
  <2>1. TablesSound(t, w, r)'
    BY <1>11, <1>12, <1>13 DEF TablesSound
  <2> QED BY <1>7, <2>1, TablesThen
<1> QED BY <1>1, <1>2, <1>4, <1>5, <1>7, <1>8, <1>9, <1>14 DEF PutMoves

\* ... and after a delete.
LEMMA OnceDelete ==
    ASSUME OnceInv, [Next]_vars, Once', NEW c \in Chunks, DeleteChunk(c) \/ DeleteUnavailable(c)
    PROVE  /\ TablesSound(table, logged, replayed)' /\ deletes' # 0 /\ put' = put
           /\ \A b \in Chunks : table'[b] = table[b] \/ table'[b].state = "ABSENT"
           /\ \/ tail' = {}
              \/ table' = table /\ replayed' = replayed /\ tail' = tail
<1>0. OnceInv
  OBVIOUS
<1>1. deletes' # 0 /\ put' = put
  <2>1. deletes' = deletes + 1 /\ put' = put
    BY DEF DeleteChunk, DeleteUnavailable
  <2>2. deletes \in Nat
    BY OnceParts DEF CountersBounded
  <2>3. deletes + 1 # 0
    BY <2>2
  <2> QED BY <2>1, <2>3
<1>2. NoChunk \in ChunkEntry /\ NoChunk.state = "ABSENT"
  BY Numbers DEF NoChunk, ChunkEntry
<1>3. PICK t \in [Chunks -> ChunkEntry], l \in [Chunks -> ChunkEntry], r \in [Chunks -> ChunkEntry] :
        t = table /\ l = logged /\ r = replayed
  BY OnceParts
<1>4. PICK u, w : u = [t EXCEPT ![c] = NoChunk] /\ w = [l EXCEPT ![c] = NoChunk]
  OBVIOUS
<1>5. u[c] = NoChunk /\ w[c] = NoChunk /\ \A b \in Chunks : b # c => u[b] = t[b] /\ w[b] = l[b]
  BY <1>2, <1>3, <1>4, EntryPut
<1>6. /\ TableSound(t)' /\ TableSound(l)' /\ TableSound(r)'
      /\ Installed(t, l)' /\ Installed(t, r)' /\ Installed(r, l)'
  BY <1>0, <1>3, OnceTablesStay DEF TablesSound
<1>7. TableSound(u)' /\ TableSound(w)'
  BY <1>2, <1>5, <1>6, SoundPut
<1>8. Installed(u, w)' /\ Installed(t, w)' /\ Installed(r, w)'
  BY <1>2, <1>5, <1>6, InstalledPut
<1>9. CASE DeleteChunk(c)
  <2>1. table' = u /\ logged' = w /\ replayed' = w /\ tail' = {}
    BY <1>3, <1>4, <1>9 DEF DeleteChunk, ApplyDeleteChunk, DeleteApplied, CommitAll
  <2>2. Installed(w, w)'
    BY DEF Installed
  <2>3. TablesSound(u, w, w)'
    BY <1>7, <1>8, <2>2 DEF TablesSound
  <2>4. TablesSound(table, logged, replayed)'
    BY <2>1, <2>3, TablesThen
  <2> QED BY <1>1, <1>2, <1>3, <1>5, <2>1, <2>4
<1>10. CASE DeleteUnavailable(c)
  <2>1. table' = t /\ logged' = w /\ replayed' = r /\ tail' = tail
    BY <1>3, <1>4, <1>10 DEF DeleteUnavailable, LogOnly, DeleteApplied
  <2>2. TablesSound(t, w, r)'
    BY <1>6, <1>7, <1>8 DEF TablesSound
  <2>3. TablesSound(table, logged, replayed)'
    BY <2>1, <2>2, TablesThen
  <2> QED BY <1>1, <1>3, <2>1, <2>3
<1> QED BY <1>9, <1>10

\* What a step of the data plane leaves of the tables, the log and the puts.
LEMMA OnceTablesNext ==
    ASSUME OnceInv, [Next]_vars, Once'
    PROVE  TablesSound(table, logged, replayed)' /\ TailUnapplied' /\ AckedListed' /\ PresentOver'
<1> DEFINE Goal == /\ TablesSound(table, logged, replayed)' /\ TailUnapplied'
                   /\ AckedListed' /\ PresentOver'
<1>0. /\ OnceInv /\ TypeOK /\ PutsNumbered /\ put \in [Ids -> PutState] /\ tail \in SUBSET Ids
      /\ TailUnapplied /\ AckedListed /\ PresentOver /\ CountersBounded
  BY OnceParts
<1>1. PICK t, l, r : t = table /\ l = logged /\ r = replayed
  OBVIOUS
<1>2. /\ TablesSound(t, l, r)' /\ TablesSound(r, l, r)'
      /\ restarts' = restarts => TablesSound(t, l, l)'
  BY <1>0, <1>1, OnceTablesStay
<1>3. \A id \in Ids : put[id].pc # "none" => put'[id].pc # "none" /\ put'[id].c = put[id].c
  BY <1>0, PutsKept
<1>4. \A id \in Ids : put[id].pc \in {"cleanup", "failed"} => put'[id].pc \in {"cleanup", "failed"}
  BY <1>0, EndedStays
<1>5. \A c, v : Over(c, v) => Over(c, v)'
  BY <1>0, AckedStays
<1>6. \A j \in Ids : put'[j].pc = "ok" => put[j].pc = "ok" \/ PutCommit(j)
  BY <1>0, CommitAcks
<1>7. deletes' = 0 => deletes = 0
  BY <1>0, CountersNext DEF CountersBounded
<1>8. ASSUME \A c \in Chunks : table'[c] = table[c] \/ table'[c].state = "ABSENT" PROVE PresentOver'
  <2> SUFFICES ASSUME NEW c \in Chunks, Present(c)' PROVE Over(c, table[c].version)'
    BY DEF PresentOver
  <2>1. table'[c] = table[c] /\ Present(c)
    BY <1>8 DEF Present
  <2>2. PICK v : v = table[c].version /\ Over(c, v)
    BY <1>0, <2>1 DEF PresentOver
  <2>3. Over(c, v)'
    BY <1>5, <2>2
  <2> QED BY <2>1, <2>2, <2>3 DEF Over
<1>9. ASSUME table' = table, replayed' = replayed, tail' = tail PROVE TailUnapplied'
  <2> SUFFICES ASSUME NEW id \in tail
               PROVE  /\ put'[id].pc \in {"cleanup", "failed"}
                      /\ table[put'[id].c].state = "ABSENT" /\ replayed[put'[id].c].state = "ABSENT"
    BY <1>9 DEF TailUnapplied
  <2>1. id \in Ids /\ put[id].pc \in {"cleanup", "failed"}
    BY <1>0 DEF TailUnapplied
  <2> QED BY <1>0, <1>3, <1>4, <2>1 DEF TailUnapplied
<1>10. ASSUME tail' = {} PROVE TailUnapplied'
  BY <1>10 DEF TailUnapplied
<1>11. ASSUME NEW id \in Ids, PutCommit(id) PROVE Goal
  <2>1. /\ TablesSound(table, logged, replayed)' /\ tail' = {}
        /\ table'[put[id].c].state # "ABSENT" /\ logged'[put[id].c].state # "ABSENT"
        /\ replayed' = logged'
        /\ \A b \in Chunks : b # put[id].c => table'[b] = table[b] /\ logged'[b] = logged[b]
    BY <1>11, OnceCommit
  <2>2. PutMoves(id) /\ put'[id].pc = "ok"
    BY <1>0, <1>11, PutCommitMoves
  <2>3. AckedListed'
    <3> SUFFICES ASSUME deletes' = 0, NEW j \in Ids, put'[j].pc = "ok"
                 PROVE  /\ table'[put'[j].c].state # "ABSENT" /\ logged'[put'[j].c].state # "ABSENT"
                        /\ replayed'[put'[j].c].state # "ABSENT"
      BY DEF AckedListed
    <3>1. CASE j = id
      BY <2>1, <2>2, <3>1 DEF PutMoves
    <3>2. CASE j # id
      <4>1. put'[j] = put[j] /\ put[j].c \in Chunks
        BY <1>0, <2>2, <3>2 DEF PutMoves, PutsNumbered
      <4>2. table[put[j].c].state # "ABSENT" /\ logged[put[j].c].state # "ABSENT"
        BY <1>0, <1>7, <4>1 DEF AckedListed
      <4> QED BY <2>1, <4>1, <4>2
    <3> QED BY <3>1, <3>2
  <2>4. PresentOver'
    <3> SUFFICES ASSUME NEW c \in Chunks, Present(c)' PROVE Over(c, table[c].version)'
      BY DEF PresentOver
    <3>1. CASE c = put[id].c
      <4>1. Tried(c, table[c].version)'
        BY <2>1 DEF TablesSound, TableSound, EntrySound, Present
      <4>2. PICK j \in Ids : /\ put'[j].pc \in {"cleanup", "ok", "failed"}
                             /\ put'[j].c = c /\ put'[j].ver = table'[c].version
        BY <4>1 DEF Tried
      <4>3. j = id
        BY <2>2, <3>1, <4>2 DEF PutMoves, Once
      <4> QED BY <2>2, <4>2, <4>3 DEF Over
    <3>2. CASE c # put[id].c
      <4>1. PICK v : v = table[c].version /\ v = table'[c].version /\ Over(c, v)
        BY <1>0, <2>1, <3>2 DEF PresentOver, Present
      <4>2. Over(c, v)'
        BY <1>5, <4>1
      <4> QED BY <4>1, <4>2 DEF Over
    <3> QED BY <3>1, <3>2
  <2> QED BY <1>10, <2>1, <2>3, <2>4
<1>12. ASSUME NEW id \in Ids, PutUnavailable(id) PROVE Goal
  <2>1. /\ TablesSound(table, logged, replayed)' /\ tail' = tail \union {id}
        /\ put'[id].pc = "cleanup" /\ put'[id].c = put[id].c
        /\ table' = table /\ replayed' = replayed
        /\ table[put[id].c].state = "ABSENT" /\ replayed[put[id].c].state = "ABSENT"
        /\ \A b \in Chunks : b # put[id].c => logged'[b] = logged[b]
        /\ logged'[put[id].c].state # "ABSENT"
    BY <1>12, OnceRefused
  <2>2. PutMoves(id)
    BY <1>0, <1>12, PutEndMoves
  <2>3. AckedListed'
    <3> SUFFICES ASSUME deletes' = 0, NEW j \in Ids, put'[j].pc = "ok"
                 PROVE  /\ table'[put'[j].c].state # "ABSENT" /\ logged'[put'[j].c].state # "ABSENT"
                        /\ replayed'[put'[j].c].state # "ABSENT"
      BY DEF AckedListed
    <3>1. put'[j] = put[j] /\ put[j].c \in Chunks
      BY <1>0, <2>1, <2>2 DEF PutMoves, PutsNumbered
    <3>2. /\ table[put[j].c].state # "ABSENT" /\ logged[put[j].c].state # "ABSENT"
          /\ replayed[put[j].c].state # "ABSENT"
      BY <1>0, <1>7, <3>1 DEF AckedListed
    <3> QED BY <2>1, <3>1, <3>2
  <2>4. TailUnapplied'
    <3> SUFFICES ASSUME NEW j \in tail \union {id}
                 PROVE  /\ put'[j].pc \in {"cleanup", "failed"}
                        /\ table[put'[j].c].state = "ABSENT" /\ replayed[put'[j].c].state = "ABSENT"
      BY <2>1 DEF TailUnapplied
    <3>1. CASE j = id
      BY <2>1, <3>1
    <3>2. CASE j \in tail
      <4>1. j \in Ids /\ put[j].pc \in {"cleanup", "failed"}
        BY <1>0, <3>2 DEF TailUnapplied
      <4> QED BY <1>0, <1>3, <1>4, <3>2, <4>1 DEF TailUnapplied
    <3> QED BY <3>1, <3>2
  <2>5. PresentOver'
    BY <1>8, <2>1
  <2> QED BY <2>1, <2>3, <2>4, <2>5
<1>13. ASSUME NEW c \in Chunks, DeleteChunk(c) \/ DeleteUnavailable(c) PROVE Goal
  <2>1. /\ TablesSound(table, logged, replayed)' /\ deletes' # 0 /\ put' = put
        /\ \A b \in Chunks : table'[b] = table[b] \/ table'[b].state = "ABSENT"
        /\ \/ tail' = {}
           \/ table' = table /\ replayed' = replayed /\ tail' = tail
    BY <1>13, OnceDelete
  <2> QED BY <1>8, <1>9, <1>10, <2>1 DEF AckedListed
<1>14. ASSUME \A j \in Ids : put'[j].pc = "ok" => put[j].pc = "ok"
       PROVE  \A u, w, x :
                /\ u \in {table, replayed} /\ w = logged /\ x \in {logged, replayed}
                /\ table' = u /\ logged' = w /\ replayed' = x
                => AckedListed'
  <2> SUFFICES ASSUME NEW u, NEW w, NEW x, u \in {table, replayed}, w = logged,
                      x \in {logged, replayed}, table' = u, logged' = w, replayed' = x,
                      deletes' = 0, NEW j \in Ids, put'[j].pc = "ok"
               PROVE  /\ u[put'[j].c].state # "ABSENT" /\ w[put'[j].c].state # "ABSENT"
                      /\ x[put'[j].c].state # "ABSENT"
    BY DEF AckedListed
  <2>1. put[j].pc = "ok" /\ put'[j].c = put[j].c
    BY <1>3, <1>14
  <2>2. /\ table[put[j].c].state # "ABSENT" /\ logged[put[j].c].state # "ABSENT"
        /\ replayed[put[j].c].state # "ABSENT"
    BY <1>0, <1>7, <2>1 DEF AckedListed
  <2> QED BY <2>1, <2>2
<1>15. ASSUME NEW n \in Storage, Heartbeat(n) PROVE Goal
  <2>1. /\ table' = table /\ logged' = logged /\ replayed' = logged /\ tail' = {}
        /\ put' = put /\ restarts' = restarts
    BY <1>15 DEF Heartbeat, ApplyHeartbeat, CommitAll, cntVars
  <2>2. TablesSound(table, logged, replayed)'
    BY <1>1, <1>2, <2>1, TablesThen
  <2>3. AckedListed'
    BY <1>14, <2>1
  <2> QED BY <1>8, <1>10, <2>1, <2>2, <2>3
<1>16. ASSUME LeaderRestart PROVE Goal
  <2>1. table' = replayed /\ logged' = logged /\ replayed' = replayed /\ tail' = tail
    BY <1>16 DEF LeaderRestart, ReplayTable
  <2>2. TablesSound(table, logged, replayed)'
    BY <1>1, <1>2, <2>1, TablesThen
  <2>3. put' = [i \in Ids |-> IF i \in Active
                              THEN [put[i] EXCEPT !.pc = "failed", !.todo = {}, !.oks = {}]
                              ELSE put[i]]
    BY <1>16 DEF LeaderRestart
  <2>4. \A q \in PutState : [q EXCEPT !.pc = "failed", !.todo = {}, !.oks = {}].pc = "failed"
    BY DEF PutState
  <2>5. \A i \in Ids : put'[i].pc \notin {"write", "meta", "cleanup"}
    BY <1>0, <2>3, <2>4 DEF Active
  <2>6. \A j \in Ids : put'[j].pc = "ok" => put[j].pc = "ok"
    BY <1>0, <2>3, <2>4
  <2>7. AckedListed'
    BY <1>14, <2>1, <2>6
  <2>8. TailUnapplied'
    <3> SUFFICES ASSUME NEW id \in tail
                 PROVE  /\ put'[id].pc \in {"cleanup", "failed"}
                        /\ replayed[put'[id].c].state = "ABSENT"
      BY <2>1 DEF TailUnapplied
    <3>1. id \in Ids /\ put[id].pc \in {"cleanup", "failed"}
      BY <1>0 DEF TailUnapplied
    <3> QED BY <1>0, <1>3, <1>4, <3>1 DEF TailUnapplied
  <2>9. PresentOver'
    <3> SUFFICES ASSUME NEW c \in Chunks, Present(c)' PROVE Over(c, table[c].version)'
      BY DEF PresentOver
    <3>1. Tried(c, table[c].version)'
      BY <2>2 DEF TablesSound, TableSound, EntrySound, Present
    <3> QED BY <2>5, <3>1 DEF Tried, Over
  <2> QED BY <2>2, <2>7, <2>8, <2>9
<1>17. ASSUME UNCHANGED <<table, logged, replayed, tail>>, \A j \in Ids : ~PutCommit(j) PROVE Goal
  <2>1. TablesSound(table, logged, replayed)'
    BY <1>1, <1>2, <1>17, TablesThen
  <2>2. AckedListed'
    BY <1>6, <1>14, <1>17
  <2> QED BY <1>8, <1>9, <1>17, <2>1, <2>2
<1> HIDE DEF Goal
<1>18. Goal
  BY <1>11, <1>12, <1>13, <1>15, <1>16, <1>17, TablesChange
<1> QED BY <1>18 DEF Goal

\* The same of the steps of the drivers.
LEMMA OnceDriverNext ==
    ASSUME OnceInv, NEW d \in Drivers,
           \/ ReconfigStep(d)
           \/ \E c \in Chunks, new \in SUBSET Storage, src \in Storage : ReconfigBegin(d, c, new, src)
    PROVE  TablesSound(table, logged, replayed)' /\ TailUnapplied' /\ AckedListed'
<1>0. /\ OnceInv /\ DataInv /\ DriversSound /\ TailUnapplied /\ AckedListed /\ PutsNumbered
      /\ put \in [Ids -> PutState] /\ tail \in SUBSET Ids
  BY OnceParts
<1>1. DriverQuiet
  BY <1>0, DriverStepQuiet
<1>2. \A c \in Chunks : Grows(c)
  BY <1>1, DriverHolds
<1>3. \A c \in Chunks, e \in ChunkEntry : EntrySound(c, e) => EntrySound(c, e)'
  BY <1>1, QuietEntries
<1>4. PICK t \in [Chunks -> ChunkEntry], l \in [Chunks -> ChunkEntry], r \in [Chunks -> ChunkEntry] :
        t = table /\ l = logged /\ r = replayed
  BY OnceParts
<1>5. PICK u \in [Chunks -> ChunkEntry], w \in [Chunks -> ChunkEntry], x \in [Chunks -> ChunkEntry] :
        u = table' /\ w = logged' /\ x = replayed'
  BY <1>1 DEF DriverQuiet, Listed
<1>6. /\ TableSound(t) /\ TableSound(l) /\ TableSound(r)
      /\ Installed(t, l) /\ Installed(t, r) /\ Installed(r, l)
  BY <1>4, OnceParts
<1>7. put' = put /\ deletes' = deletes
  BY <1>1 DEF DriverQuiet
<1>8. ASSUME TablesSound(u, w, x) PROVE TablesSound(table, logged, replayed)'
  <2>1. TableSound(u)' /\ TableSound(w)' /\ TableSound(x)'
    BY <1>3, <1>8, SoundStays DEF TablesSound
  <2>2. Installed(u, w)' /\ Installed(u, x)' /\ Installed(x, w)'
    BY <1>2, <1>8, InstalledStays DEF TablesSound
  <2>3. TablesSound(u, w, x)'
    BY <2>1, <2>2 DEF TablesSound
  <2> QED BY <1>5, <2>3, TablesThen
<1> DEFINE Kept(s, v) == \A c \in Chunks : s[c].state # "ABSENT" => v[c].state # "ABSENT"
           Goal == /\ TablesSound(u, w, x) /\ Kept(t, u) /\ Kept(l, w) /\ (x = w \/ Kept(r, x))
                   /\ tail' = {} \/ (table' = table /\ replayed' = replayed /\ tail' = tail)
<1>9. ASSUME NEW s, TableSound(s), rc[d].pc # "idle"
      PROVE  s[rc[d].c].state # "ABSENT" => s[rc[d].c].version = rc[d].ver
  <2> SUFFICES ASSUME s[rc[d].c].state # "ABSENT" PROVE s[rc[d].c].version = rc[d].ver
    OBVIOUS
  <2>1. PICK c \in Chunks : c = rc[d].c /\ Over(c, rc[d].ver)
    BY <1>0, <1>9 DEF DriversSound, DriverSound
  <2>2. PICK i \in Ids : put[i].pc # "none" /\ put[i].c = c /\ put[i].ver = rc[d].ver
    BY <2>1 DEF Over
  <2>3. PICK j \in Ids : put[j].pc # "none" /\ put[j].c = c /\ put[j].ver = s[c].version
    BY <1>9, <2>1 DEF TableSound, EntrySound, Tried
  <2>4. i = j
    BY <2>2, <2>3, OnceParts DEF Once
  <2> QED BY <2>1, <2>2, <2>3, <2>4
<1>10. ASSUME NEW p, NEW c \in Chunks, Installed(p, l), \A b \in Chunks : b # c => w[b] = l[b],
              w[c].state = "STABLE" =>
                \A n \in w[c].reps : n \in Storage /\ AtLeast(n, c, w[c].version)
       PROVE  Installed(p, w)
  <2> SUFFICES ASSUME NEW b \in Chunks, p[b].state = "TRANSITIONING", w[b].state = "STABLE"
               PROVE  \A n \in w[b].reps : n \in Storage /\ AtLeast(n, b, w[b].version)
    BY DEF Installed
  <2>1. CASE b = c
    BY <1>10, <2>1
  <2>2. CASE b # c
    <3>1. l[b] = w[b]
      BY <1>10, <2>2
    <3> QED BY <1>10, <3>1 DEF Installed
  <2> QED BY <2>1, <2>2
<1>11. ASSUME NEW s, NEW v, NEW c, NEW state, state # "ABSENT", NEW reps, NEW old,
              Becomes(s, v, c, state, reps, old)
       PROVE  Kept(s, v)
  BY <1>11 DEF Becomes
<1>12. Installed(w, w)
  BY DEF Installed
<1>13. ASSUME UNCHANGED <<table, logged, replayed, tail>> PROVE Goal
  <2>1. u = t /\ w = l /\ x = r
    BY <1>4, <1>5, <1>13
  <2> QED BY <1>6, <1>13, <2>1 DEF TablesSound
<1>14. ASSUME ReconfigStart(d) PROVE Goal
  <2>1. PICK c \in Chunks, new \in SUBSET Storage, old \in SUBSET Storage :
          c = rc[d].c /\ new = rc[d].new /\ old = rc[d].old
    BY <1>0, <1>14, StartApplied DEF DriversSound, RcState
  <2>2. /\ Becomes(t, u, c, "TRANSITIONING", new, old) /\ Becomes(l, w, c, "TRANSITIONING", new, old)
        /\ x = w /\ tail' = {} /\ rc[d].pc = "start"
    BY <1>0, <1>4, <1>5, <1>14, <2>1, StartApplied DEF ReconfigStart
  <2>3. TableSound(u) /\ TableSound(w)
    <3>1. /\ t[c].state # "ABSENT" => t[c].version = rc[d].ver
          /\ l[c].state # "ABSENT" => l[c].version = rc[d].ver
      BY <1>6, <1>9, <2>1, <2>2
    <3> QED BY <1>0, <1>6, <2>1, <2>2, <3>1, StartSound
  <2>4. Installed(u, w)
    <3> SUFFICES ASSUME NEW b \in Chunks, u[b].state = "TRANSITIONING", w[b].state = "STABLE"
                 PROVE  \A n \in w[b].reps : n \in Storage /\ AtLeast(n, b, w[b].version)
      BY DEF Installed
    <3>1. b # c
      BY <2>2 DEF Becomes
    <3>2. t[b] = u[b] /\ l[b] = w[b]
      BY <2>2, <3>1 DEF Becomes
    <3> QED BY <1>6, <3>2 DEF Installed
  <2>5. Kept(t, u) /\ Kept(l, w)
    BY <1>11, <2>2
  <2> QED BY <1>12, <2>2, <2>3, <2>4, <2>5 DEF TablesSound
<1>15. ASSUME ReconfigCommit(d) PROVE Goal
  <2>1. PICK c \in Chunks, new \in SUBSET Storage : c = rc[d].c /\ new = rc[d].new
    BY <1>0, <1>15, CommitApplied DEF DriversSound, RcState
  <2>2. /\ Becomes(t, u, c, "STABLE", new, {}) /\ Becomes(l, w, c, "STABLE", new, {})
        /\ x = w /\ tail' = {} /\ rc[d].pc = "commit"
    BY <1>0, <1>4, <1>5, <1>15, <2>1, CommitApplied DEF ReconfigCommit
  <2>3. TableSound(u) /\ TableSound(w)
    <3>1. /\ t[c].state # "ABSENT" => t[c].version = rc[d].ver
          /\ l[c].state # "ABSENT" => l[c].version = rc[d].ver
      BY <1>6, <1>9, <2>1, <2>2
    <3> QED BY <1>0, <1>6, <2>1, <2>2, <3>1, CommitSound
  <2>4. Installed(u, w)
    <3> SUFFICES ASSUME NEW b \in Chunks, u[b].state = "TRANSITIONING", w[b].state = "STABLE"
                 PROVE  \A n \in w[b].reps : n \in Storage /\ AtLeast(n, b, w[b].version)
      BY DEF Installed
    <3>1. b # c
      BY <2>2 DEF Becomes
    <3>2. t[b] = u[b] /\ l[b] = w[b]
      BY <2>2, <3>1 DEF Becomes
    <3> QED BY <1>6, <3>2 DEF Installed
  <2>5. Kept(t, u) /\ Kept(l, w)
    BY <1>11, <2>2
  <2> QED BY <1>12, <2>2, <2>3, <2>4, <2>5 DEF TablesSound
<1>16. ASSUME ReconfigUnavailable(d) PROVE Goal
  <2>1. PICK c \in Chunks, new \in SUBSET Storage, old \in SUBSET Storage :
          c = rc[d].c /\ new = rc[d].new /\ old = rc[d].old
    BY <1>0, <1>16, RefusedApplied DEF DriversSound, RcState
  <2>2. u = t /\ x = r /\ table' = table /\ replayed' = replayed /\ tail' = tail
    BY <1>0, <1>4, <1>5, <1>16, RefusedApplied
  <2>3. \/ rc[d].pc = "start" /\ Becomes(l, w, c, "TRANSITIONING", new, old)
        \/ rc[d].pc = "commit" /\ Becomes(l, w, c, "STABLE", new, {})
    BY <1>0, <1>4, <1>5, <1>16, <2>1, RefusedApplied
  <2>4. l[c].state # "ABSENT" => l[c].version = rc[d].ver
    BY <1>6, <1>9, <2>1, <2>3
  <2>5. /\ TableSound(w) /\ \A b \in Chunks : b # c => w[b] = l[b]
        /\ w[c].state = "STABLE" => \A n \in w[c].reps : n \in Storage /\ AtLeast(n, c, w[c].version)
        /\ Kept(l, w)
    <3>1. CASE rc[d].pc = "start" /\ Becomes(l, w, c, "TRANSITIONING", new, old)
      <4>1. TableSound(w)
        BY <1>0, <1>6, <2>1, <2>4, <3>1, StartSound
      <4>2. w[c].state # "STABLE" /\ \A b \in Chunks : b # c => w[b] = l[b]
        BY <3>1, <2>3 DEF Becomes
      <4> QED BY <1>11, <3>1, <4>1, <4>2
    <3>2. CASE rc[d].pc = "commit" /\ Becomes(l, w, c, "STABLE", new, {})
      <4>1. /\ TableSound(w)
            /\ w[c].state # "ABSENT" => \A n \in w[c].reps : n \in Storage /\ AtLeast(n, c, w[c].version)
        BY <1>0, <1>6, <2>1, <2>4, <3>2, CommitSound
      <4>2. \A b \in Chunks : b # c => w[b] = l[b]
        BY <3>2 DEF Becomes
      <4> QED BY <1>11, <3>2, <4>1, <4>2
    <3> QED BY <2>3, <3>1, <3>2
  <2>6. Installed(t, w) /\ Installed(r, w)
    <3>1. Installed(t, l) /\ Installed(r, l)
      BY <1>6
    <3>2. \A b \in Chunks : b # c => w[b] = l[b]
      BY <2>5
    <3>3. w[c].state = "STABLE" => \A n \in w[c].reps : n \in Storage /\ AtLeast(n, c, w[c].version)
      BY <2>5
    <3> QED BY <1>10, <3>1, <3>2, <3>3
  <2>7. TablesSound(u, w, x)
    BY <1>6, <2>2, <2>5, <2>6 DEF TablesSound
  <2> QED BY <2>2, <2>5, <2>7
<1> HIDE DEF Goal
<1>17. Goal
  BY <1>13, <1>14, <1>15, <1>16, DriverTablesSame DEF ReconfigStep
<1>18. TablesSound(table, logged, replayed)'
  BY <1>8, <1>17 DEF Goal
<1>19. TailUnapplied'
  <2>1. tail' = {} \/ (table' = table /\ replayed' = replayed /\ tail' = tail)
    BY <1>17 DEF Goal
  <2>2. CASE tail' = {}
    BY <2>2 DEF TailUnapplied
  <2>3. CASE table' = table /\ replayed' = replayed /\ tail' = tail
    BY <1>0, <1>7, <2>3 DEF TailUnapplied
  <2> QED BY <2>1, <2>2, <2>3
<1>20. AckedListed'
  <2>1. Kept(t, u) /\ Kept(l, w) /\ (x = w \/ Kept(r, x))
    BY <1>17 DEF Goal
  <2> SUFFICES ASSUME deletes = 0, NEW id \in Ids, put[id].pc = "ok"
               PROVE  /\ u[put[id].c].state # "ABSENT" /\ w[put[id].c].state # "ABSENT"
                      /\ x[put[id].c].state # "ABSENT"
    BY <1>5, <1>7 DEF AckedListed
  <2>2. put[id].c \in Chunks
    BY <1>0 DEF PutsNumbered
  <2>3. /\ t[put[id].c].state # "ABSENT" /\ l[put[id].c].state # "ABSENT"
        /\ r[put[id].c].state # "ABSENT"
    BY <1>0, <1>4 DEF AckedListed
  <2> QED BY <2>1, <2>2, <2>3
<1> QED BY <1>18, <1>19, <1>20

\* What a step of the data plane may do to the entry of a chunk whose put is over, as long
\* as the leader goes on.
LEMMA OnceEntry ==
    ASSUME OnceInv, [Next]_vars, Once', ~LeaderRestart, NEW c \in Chunks, NEW v, Over(c, v)
    PROVE  table'[c] = table[c] \/ table'[c].state = "ABSENT"
<1>0. DataInv /\ Once /\ OnceInv
  BY OnceParts
<1>1. PICK j \in Ids : put[j].pc \in {"ok", "failed"} /\ put[j].c = c
  BY DEF Over
<1>2. CASE UNCHANGED <<table, logged, replayed, tail>>
  BY <1>2
<1>3. ASSUME NEW id \in Ids, PutCommit(id) PROVE table'[c] = table[c]
  <2>1. put[id].c # c
    BY <1>0, <1>1, <1>3 DEF PutCommit, Once
  <2> QED BY <1>0, <1>3, <2>1, CommitEntry
<1>4. ASSUME NEW id \in Ids, PutUnavailable(id) PROVE table' = table
  BY <1>4 DEF PutUnavailable, LogOnly
<1>5. ASSUME NEW b \in Chunks, DeleteChunk(b) \/ DeleteUnavailable(b)
      PROVE  table'[c] = table[c] \/ table'[c].state = "ABSENT"
  BY <1>0, <1>5, OnceDelete
<1>6. ASSUME NEW n \in Storage, Heartbeat(n) PROVE table' = table
  BY <1>6 DEF Heartbeat, ApplyHeartbeat
<1> QED BY <1>2, <1>3, <1>4, <1>5, <1>6, TablesChange

\* A step of the data plane leaves the drivers with what they rely on.
LEMMA OnceOther ==
    ASSUME NothingToCollect, OnceInv, [Next]_vars, Once',
           \/ rc' = rc /\ restarts' = restarts
           \/ rc' = [d \in Drivers |-> NoRc]
    PROVE  OnceInv'
<1>0. /\ DataInv /\ CountersBounded /\ RepairsWhole /\ Once /\ TailUnapplied /\ PutsWritten
      /\ DriversSound /\ TypeOK /\ PutsNumbered /\ OnceInv
  BY OnceParts
<1>1. DataInv' /\ CountersBounded' /\ RepairsWhole' /\ PutsWritten'
  BY <1>0, DataNext, CountersNext, RepairsWholeNext, PutsWrittenNext
<1>2. /\ TablesSound(table, logged, replayed)' /\ TailUnapplied' /\ AckedListed' /\ PresentOver'
  BY <1>0, OnceTablesNext
<1>3. (\A x, c, v : IsPut(x, c, v) => IsPut(x, c, v)') /\ (\A c, v : Over(c, v) => Over(c, v)')
  BY <1>0, IsPutKept, AckedStays
<1>4. ASSUME NEW c \in Chunks, NEW v, Over(c, v) PROVE AckNotNew(c, v)
  <2> SUFFICES ASSUME Acked(c, v)' PROVE Acked(c, v)
    BY DEF AckNotNew
  <2>1. PICK j \in Ids : put'[j].pc = "ok" /\ put'[j].c = c /\ put'[j].ver = v
    BY DEF Acked
  <2>2. PICK i \in Ids : put[i].pc \in {"ok", "failed"} /\ put[i].c = c
    BY <1>4 DEF Over
  <2>3. put'[i].pc # "none" /\ put'[i].c = c
    BY <1>0, <2>2, PutsKept
  <2>4. i = j
    BY <2>1, <2>3 DEF Once
  <2>5. ~PutCommit(j)
    BY <2>2, <2>4 DEF PutCommit
  <2>6. put[j].pc = "ok"
    BY <1>0, <2>1, <2>5, CommitAcks
  <2>7. put'[j] = put[j]
    BY <1>0, <2>6, EndedStays
  <2> QED BY <2>1, <2>6, <2>7 DEF Acked
<1>5. ASSUME restarts' = restarts PROVE ~LeaderRestart
  <2>1. restarts + 1 # restarts
    BY <1>0 DEF CountersBounded
  <2> QED BY <1>5, <2>1 DEF LeaderRestart
<1>6. ASSUME restarts' = restarts, NEW r, DriverSound(r) PROVE DriverSound(r)'
  <2>1. ASSUME r.pc # "idle" PROVE Grows(r.c) /\ EntryNotNew(r.c) /\ AckNotNew(r.c, r.ver)
    <3>1. PICK c \in Chunks, v \in Version : c = r.c /\ v = r.ver /\ Over(c, v)
      BY <1>6, <2>1 DEF DriverSound, RcState
    <3>2. Grows(c)
      BY <1>0, <1>6, <3>1, OverGrows
    <3>3. EntryNotNew(c)
      BY <1>0, <1>6, <1>5, <3>1, OnceEntry DEF EntryNotNew, Present
    <3>4. AckNotNew(c, v)
      BY <1>4, <3>1
    <3> QED BY <3>1, <3>2, <3>3, <3>4
  <2> QED BY <1>3, <1>6, <2>1, SoundKept
<1>7. ASSUME rc' = rc, restarts' = restarts PROVE DriversSound'
  <2>1. ASSUME NEW d \in Drivers PROVE DriverSound(rc[d])'
    <3>1. PICK r : r = rc[d] /\ DriverSound(r)
      BY <1>0 DEF DriversSound
    <3>2. DriverSound(r)'
      BY <1>6, <1>7, <3>1
    <3> QED BY <1>7, <3>1, <3>2
  <2> QED BY <1>0, <1>7, <2>1 DEF DriversSound
<1>8. DriversSound'
  BY <1>7, DriversGone
<1> QED BY <1>1, <1>2, <1>8 DEF OnceInv

\* A step of a driver keeps the invariant.
LEMMA OnceDrivers ==
    ASSUME OnceInv, Once', NEW d \in Drivers,
           \/ ReconfigStep(d)
           \/ \E c \in Chunks, new \in SUBSET Storage, src \in Storage : ReconfigBegin(d, c, new, src)
    PROVE  OnceInv'
<1>0. OnceInv /\ DriveInv /\ DataInv /\ CountersBounded /\ RepairsWhole /\ PutsWritten
  BY OnceParts, OnceNoneLater DEF DriveInv
<1>1. DriverQuiet /\ DataInv' /\ DriversSound' /\ PresentOver'
  BY <1>0, DriveNext
<1>2. RepairsWhole'
  BY <1>0, <1>1 DEF DriverQuiet, RepairsWhole
<1>3. CountersBounded'
  BY <1>0, <1>1 DEF DriverQuiet, CountersBounded
<1>4. PutsWritten'
  <2>0. put' = put /\ put \in [Ids -> PutState] /\ PutsNumbered
    BY <1>0, <1>1, TypeParts DEF DriverQuiet, DataInv
  <2> SUFFICES ASSUME NEW id \in Ids, put[id].pc \in {"write", "meta"}, NEW n \in put[id].oks
               PROVE  Holds(n, put[id].c, put[id].ver)'
    BY <1>0, <2>0 DEF PutsWritten
  <2>1. PICK c \in Chunks, v \in Ids : c = put[id].c /\ v = put[id].ver
    BY <2>0 DEF PutsNumbered
  <2>2. n \in Storage /\ Holds(n, c, v)
    BY <1>0, <2>0, <2>1 DEF PutsWritten, PutState
  <2>3. Holds(n, c, v)'
    BY <1>1, <2>2, DriverHolds DEF Grows
  <2> QED BY <2>0, <2>1, <2>3
<1>5. TablesSound(table, logged, replayed)' /\ TailUnapplied' /\ AckedListed'
  BY <1>0, OnceDriverNext
<1> QED BY <1>1, <1>2, <1>3, <1>4, <1>5 DEF OnceInv

\* Every step keeps the invariant.
LEMMA OnceNext ==
    ASSUME NothingToCollect, OnceInv, [RNext /\ Once']_rvars
    PROVE  OnceInv'
<1>1. CASE UNCHANGED rvars
  <2>1. [Next]_vars /\ rc' = rc /\ restarts' = restarts /\ put' = put
    BY <1>1 DEF rvars, vars, cntVars
  <2>2. Once'
    BY <2>1 DEF OnceInv, Once
  <2> QED BY <2>1, <2>2, OnceOther
<1>2. CASE RNext /\ Once'
  <2>1. CASE OtherStep
    BY <1>2, <2>1, OnceOther DEF OtherStep
  <2> QED BY <1>2, <2>1, OnceDrivers DEF RNext
<1> QED BY <1>1, <1>2

\* The invariant, with any number of crashes, restarts of the leader, lost RPCs,
\* refused metadata writes, deletes and overlapping reconfigurations.
THEOREM OnceInvariant == ASSUME NothingToCollect PROVE OnceSpec => []OnceInv
<1>1. RInit => OnceInv
  <2> SUFFICES ASSUME RInit PROVE OnceInv
    OBVIOUS
  <2>1. /\ \A n \in Storage : rep[n].pc = "idle"
        /\ \A id \in Ids : put[id].pc = "none"
        /\ \A c \in Chunks : table[c].state = "ABSENT" /\ logged[c].state = "ABSENT"
                             /\ replayed[c].state = "ABSENT"
        /\ tail = {}
    BY DEF RInit, Init, TableInit, NoRep, NoPut, NoChunk
  <2>2. DataInv /\ DriversSound /\ CountersBounded
    BY DataInit, SerialInit, DriversStart DEF RInit, SerialInv, PutsInv
  <2>3. TablesSound(table, logged, replayed) /\ PresentOver /\ TailUnapplied
    BY <2>1 DEF TablesSound, TableSound, Installed, PresentOver, Present, TailUnapplied
  <2>4. RepairsWhole /\ Once /\ PutsWritten /\ AckedListed
    BY <2>1 DEF RepairsWhole, Once, PutsWritten, AckedListed
  <2> QED BY <2>2, <2>3, <2>4 DEF OnceInv
<1>2. OnceInv /\ [RNext /\ Once']_rvars => OnceInv'
  BY OnceNext
<1> QED BY <1>1, <1>2, PTL DEF OnceSpec

\* A chunk that was put once stays in the table and within a reader's reach once the put is
\* acknowledged, until it is deleted: whatever fails while whichever reconfigurations of it
\* run, and whatever a restarted leader replays.
THEOREM ReadableOnce == ASSUME NothingToCollect PROVE OnceSpec => []AckedReadable
<1>1. OnceInv => AckedReadable
  BY OnceParts, SoundReadable DEF AckedReadable, AckedListed, Present
<1> QED BY <1>1, OnceInvariant, PTL

\* Neither RECONFIGURE_COMMIT nor the replay of one installs a replica without the data of
\* such a chunk.
THEOREM OnceCommitsInstallData == ASSUME NothingToCollect PROVE OnceSpec => CommitInstallsData
<1>1. ASSUME OnceInv, [RNext /\ Once']_rvars, NEW c \in Chunks,
             table[c].state = "TRANSITIONING", table'[c].state = "STABLE",
             NEW n \in table'[c].reps
      PROVE  LatestVersion(n, c) >= table'[c].version
  <2>0. OnceInv /\ table \in [Chunks -> ChunkEntry] /\ replayed \in [Chunks -> ChunkEntry]
    BY <1>1, OnceParts
  <2>1. CASE OtherStep /\ Once'
    <3>1. Next /\ [Next]_vars
      BY <2>1 DEF OtherStep
    <3>2. PICK v : Over(c, v)
      BY <1>1, <2>0, OnceParts DEF PresentOver, Present
    <3>3. LeaderRestart
      BY <1>1, <2>0, <2>1, <3>1, <3>2, OnceEntry
    <3>4. table' = replayed
      BY <3>3 DEF LeaderRestart, ReplayTable
    <3>5. PICK w \in Nat : w = replayed[c].version
      BY <2>0, Numbers DEF ChunkEntry
    <3>6. n \in Storage /\ AtLeast(n, c, w)
      BY <1>1, <2>0, <3>4, <3>5, OnceParts DEF Installed
    <3> QED BY <3>4, <3>5, <3>6, LatestAtLeast
  <2>2. ASSUME NEW d \in Drivers,
               \/ ReconfigStep(d)
               \/ \E b \in Chunks, new \in SUBSET Storage, src \in Storage : ReconfigBegin(d, b, new, src)
        PROVE  LatestVersion(n, c) >= table'[c].version
    <3>1. DriveInv
      BY <2>0, OnceParts, OnceNoneLater DEF DriveInv
    <3> QED BY <1>1, <2>2, <3>1, DriveNext
  <2>3. ~UNCHANGED rvars
    BY <1>1 DEF rvars, vars, tableVars
  <2> QED BY <1>1, <2>1, <2>2, <2>3 DEF RNext
<1>2. OnceInv /\ [RNext /\ Once']_rvars =>
        [\A c \in Chunks : table[c].state = "TRANSITIONING" /\ table'[c].state = "STABLE" =>
           \A n \in table'[c].reps : LatestVersion(n, c) >= table'[c].version]_rvars
  BY <1>1
<1> QED BY <1>2, OnceInvariant, PTL DEF OnceSpec, CommitInstallsData

\* With a single put every schedule is such a one: the module's specification,
\* without any restriction on the schedules.
THEOREM OnePutReadable ==
    ASSUME NothingToCollect, MaxPuts <= 1
    PROVE  RSpec => []AckedReadable /\ CommitInstallsData
<1>1. \A i, j \in Ids : i = j
  BY ChunkTableAssumption DEF Ids
<1>2. Once'
  BY <1>1 DEF Once
<1>3. [RNext]_rvars => [RNext /\ Once']_rvars
  BY <1>2
<1>4. RSpec => OnceSpec
  BY <1>3, PTL DEF RSpec, OnceSpec
<1> QED BY <1>4, ReadableOnce, OnceCommitsInstallData, PTL
=============================================================================
