----------------------------- MODULE ChunkTable -----------------------------
(***************************************************************************)
(* The tables of MetaCoordinator (meta_coordinator.cpp) on the leader, and *)
(* what applying a committed log entry does to them.  A replica set is a   *)
(* set of storage nodes: its order only decides who is asked first.        *)
(* replication_factor and size_bytes follow from the replica set and the   *)
(* payload and are left out.                                               *)
(*                                                                         *)
(* The entries of the log are kept by what they do: the table that         *)
(* replaying all of them would give, and the one that replaying those up   *)
(* to the committed index gives.  Committing an entry moves the committed  *)
(* index past all entries below it (MetaWal::commit), those of writes that *)
(* returned UNAVAILABLE included: these are never applied to the table,    *)
(* but a restart replays them.                                             *)
(***************************************************************************)
EXTENDS Integers, FiniteSets

CONSTANTS
    Chunks,
    Storage,    \* the storage nodes
    MaxPuts     \* bound: puts that are ever started, hence versions

ASSUME ChunkTableAssumption ==
    /\ MaxPuts \in Nat
    /\ IsFiniteSet(Storage)

VARIABLES
    table,      \* chunk_table_
    logged,     \* chunk_table_ as replaying the whole log would make it
    replayed,   \* chunk_table_ as MetaWal::replay() makes it: the committed part
    tail,       \* the puts whose PUT_CHUNK entry lies above the committed index
    alive       \* the nodes of node_table_ with alive = true

tableVars == <<table, logged, replayed, tail, alive>>

Version == 0 .. MaxPuts

\* A chunk that is not in the table; next_version() reads it as version 0.
NoChunk == [version |-> 0, state |-> "ABSENT", reps |-> {}, old |-> {}]

ChunkEntry == [version : Version, state : {"ABSENT", "STABLE", "TRANSITIONING"},
               reps : SUBSET Storage, old : SUBSET Storage]

TableTypeOK ==
    /\ table \in [Chunks -> ChunkEntry]
    /\ logged \in [Chunks -> ChunkEntry]
    /\ replayed \in [Chunks -> ChunkEntry]
    /\ tail \in SUBSET (1 .. MaxPuts)
    /\ alive \in SUBSET Storage

TableInit ==
    /\ table = [c \in Chunks |-> NoChunk]
    /\ logged = table
    /\ replayed = table
    /\ tail = {}
    /\ alive = Storage

-----------------------------------------------------------------------------
Present(c) == table[c].state # "ABSENT"

\* Seeded bugs: an overwrite keeps the version; the version moves twice.
NextVersion_Kept(c) == IF Present(c) THEN table[c].version ELSE 1
NextVersion_Twice(c) == table[c].version + 2

\* next_version(): one above the table's version; nothing is reserved.
NextVersion(c) == table[c].version + 1

\* What the entries of the log do to a table t.
PutApplied(t, c, version, reps) ==
    [t EXCEPT ![c] = [version |-> version, state |-> "STABLE", reps |-> reps, old |-> {}]]

DeleteApplied(t, c) == [t EXCEPT ![c] = NoChunk]

\* Seeded bug: old_replica_set is not kept.
StartedReconfig_DropsOld(t, c, old, new) ==
    IF t[c].state # "ABSENT"
    THEN [t EXCEPT ![c] = [@ EXCEPT !.state = "TRANSITIONING", !.reps = new]]
    ELSE t

StartedReconfig(t, c, old, new) ==
    IF t[c].state # "ABSENT"
    THEN [t EXCEPT ![c] = [@ EXCEPT !.state = "TRANSITIONING", !.old = old, !.reps = new]]
    ELSE t

CommittedReconfig(t, c, new) ==
    IF t[c].state # "ABSENT"
    THEN [t EXCEPT ![c] = [@ EXCEPT !.state = "STABLE", !.old = {}, !.reps = new]]
    ELSE t

\* The last entry of the log commits, and with it every entry below.
CommitAll(l) ==
    /\ logged' = l
    /\ replayed' = l
    /\ tail' = {}

\* An entry is appended and does not commit; puts are the puts among them.
LogOnly(l, puts) ==
    /\ logged' = l
    /\ tail' = tail \union puts
    /\ UNCHANGED <<table, replayed>>

ApplyPutChunk(c, version, reps) ==
    /\ table' = PutApplied(table, c, version, reps)
    /\ CommitAll(PutApplied(logged, c, version, reps))

ApplyDeleteChunk(c) ==
    /\ table' = DeleteApplied(table, c)
    /\ CommitAll(DeleteApplied(logged, c))

ApplyReconfigStart(c, old, new) ==
    /\ table' = StartedReconfig(table, c, old, new)
    /\ CommitAll(StartedReconfig(logged, c, old, new))

ApplyReconfigCommit(c, new) ==
    /\ table' = CommittedReconfig(table, c, new)
    /\ CommitAll(CommittedReconfig(logged, c, new))

ApplyHeartbeat(n) ==
    /\ alive' = alive \union {n}
    /\ CommitAll(logged)
    /\ UNCHANGED table

\* evict_stale_nodes() for one node that was not heard of for too long.
EvictStaleNode(n) == alive' = alive \ {n} /\ UNCHANGED <<table, logged, replayed, tail>>

\* Seeded bug: the committed index is not persisted.
ReplayTable_Forgets == table' = [c \in Chunks |-> NoChunk] /\ UNCHANGED <<logged, replayed, tail>>

\* The chunk table after the leader has started again.
ReplayTable == table' = replayed /\ UNCHANGED <<logged, replayed, tail>>

\* The chunks NodeHeartbeat() names to node n: replica_set only, the
\* old_replica_set of a chunk in transition does not count.
AssignedTo(n) == {c \in Chunks : n \in table[c].reps}
=============================================================================
