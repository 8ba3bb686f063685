------------------------------ MODULE MetaWal ------------------------------
(***************************************************************************)
(* The write-ahead log every metadata server keeps in RocksDB              *)
(* (meta_wal.cpp).  A node's log is a map from index to entry plus two     *)
(* counters, last_index_ and committed_.  The counters live in memory, are *)
(* written to RocksDB with an unsynced Put and are read back by open().    *)
(*                                                                         *)
(* The two crash levels are told apart by two copies of the counters:      *)
(*   disk    what RocksDB has been given: survives a crash of the process; *)
(*   synced  what the last synced Put flushed: survives a loss of power.   *)
(* The log entries themselves are always written with a synced Put.        *)
(*                                                                         *)
(* append() runs without a lock, so each of its steps is an operator of    *)
(* its own: load and store of ++last_index_, the Put of the entry, and     *)
(* persist_last_index().                                                   *)
(***************************************************************************)
EXTENDS Integers

CONSTANTS
    Nodes,      \* the metadata servers
    MaxWrites   \* bound: how many entries are ever written

ASSUME MaxWritesAssumption == MaxWrites \in Nat

\* An entry is the identity of the write that produced it; a missing RocksDB
\* key reads as NoEntry.
Ids     == 1 .. MaxWrites
Index   == 1 .. MaxWrites
NoEntry == 0
Entries == 0 .. MaxWrites
Counter == 0 .. MaxWrites

VARIABLES
    log,        \* log[n][i]: the entry under wal_key(i), or NoEntry
    last,       \* last[n]: last_index_
    committed,  \* committed[n]: committed_
    disk,       \* disk[n]: the counters as RocksDB holds them
    synced      \* synced[n]: the counters as of the last synced Put

walVars == <<log, last, committed, disk, synced>>

Saved == [last : Counter, committed : Counter]

WalTypeOK ==
    /\ log \in [Nodes -> [Index -> Entries]]
    /\ last \in [Nodes -> Counter]
    /\ committed \in [Nodes -> Counter]
    /\ disk \in [Nodes -> Saved]
    /\ synced \in [Nodes -> Saved]

WalInit ==
    /\ log = [n \in Nodes |-> [i \in Index |-> NoEntry]]
    /\ last = [n \in Nodes |-> 0]
    /\ committed = [n \in Nodes |-> 0]
    /\ disk = [n \in Nodes |-> [last |-> 0, committed |-> 0]]
    /\ synced = [n \in Nodes |-> [last |-> 0, committed |-> 0]]

-----------------------------------------------------------------------------
\* A lookup that also answers for an index outside the bounded range.
ReadEntry(n, i) == IF i \in Index THEN log[n][i] ELSE NoEntry

(* append(): the load of ++last_index_ is last[n] + 1, kept by the caller   *)
(* in a register r until the store.                                         *)
AppendStore(n, r) ==
    /\ last' = [last EXCEPT ![n] = r]
    /\ UNCHANGED <<log, committed, disk, synced>>

AppendPut(n, r, e) ==
    /\ log' = [log EXCEPT ![n] = [@ EXCEPT ![r] = e]]
    /\ synced' = [synced EXCEPT ![n] = disk[n]]
    /\ UNCHANGED <<last, committed, disk>>

AppendPersist(n) ==
    /\ disk' = [disk EXCEPT ![n] = [last |-> last[n], committed |-> @.committed]]
    /\ UNCHANGED <<log, last, committed, synced>>

(* commit(): the synced Put of cmt_key (a key nobody reads) flushes the     *)
(* counters written before it, then the high-water mark moves.              *)
CommitMark(n) ==
    /\ synced' = [synced EXCEPT ![n] = disk[n]]
    /\ UNCHANGED <<log, last, committed, disk>>

CommitRaise(n, i) ==
    /\ committed' = [committed EXCEPT ![n] = i]
    /\ disk' = [disk EXCEPT ![n] = [last |-> @.last, committed |-> i]]
    /\ UNCHANGED <<log, last, synced>>

\* Seeded bug: committed_ takes the index even when it is lower.
Commit_NoMax(n, i) ==
    /\ committed' = [committed EXCEPT ![n] = i]
    /\ disk' = [disk EXCEPT ![n] = [last |-> @.last, committed |-> i]]
    /\ synced' = [synced EXCEPT ![n] = disk[n]]
    /\ UNCHANGED <<log, last>>

Commit(n, i) ==
    /\ synced' = [synced EXCEPT ![n] = disk[n]]
    /\ IF i > committed[n]
       THEN /\ committed' = [committed EXCEPT ![n] = i]
            /\ disk' = [disk EXCEPT ![n] = [last |-> @.last, committed |-> i]]
       ELSE UNCHANGED <<committed, disk>>
    /\ UNCHANGED <<log, last>>

\* Seeded bug: committed_ is initialised from the last_index key.
Reopen_CommitsLast(n, d) ==
    /\ last' = [last EXCEPT ![n] = d.last]
    /\ committed' = [committed EXCEPT ![n] = d.last]
    /\ disk' = [disk EXCEPT ![n] = [last |-> d.last, committed |-> d.last]]
    /\ synced' = [synced EXCEPT ![n] = [last |-> d.last, committed |-> d.last]]
    /\ UNCHANGED log

\* Seeded bug: the entries above the committed index are dropped.
Reopen_Truncates(n, d) ==
    /\ last' = [last EXCEPT ![n] = d.committed]
    /\ committed' = [committed EXCEPT ![n] = d.committed]
    /\ disk' = [disk EXCEPT ![n] = [last |-> d.committed, committed |-> d.committed]]
    /\ synced' = [synced EXCEPT ![n] = [last |-> d.committed, committed |-> d.committed]]
    /\ UNCHANGED log

(* Impl::open() after a crash that kept the counters d.  RocksDB flushes    *)
(* what it recovered, so both copies restart from d.                        *)
Reopen(n, d) ==
    /\ last' = [last EXCEPT ![n] = d.last]
    /\ committed' = [committed EXCEPT ![n] = d.committed]
    /\ disk' = [disk EXCEPT ![n] = d]
    /\ synced' = [synced EXCEPT ![n] = d]
    /\ UNCHANGED log

\* Seeded bug: the loop stops before the committed index.
Replayed_Exclusive(n, upTo, v) ==
    LET present == {i \in Index : i < upTo /\ log[n][i] # NoEntry}
    IN \/ present = {} /\ v = NoEntry
       \/ \E i \in present : (\A j \in present : j <= i) /\ v = log[n][i]

(* replay(): every entry from 1 to committed_ is applied in index order,    *)
(* missing ones are skipped.  v is the entry applied last.                  *)
Replayed(n, upTo, v) ==
    LET present == {i \in Index : i <= upTo /\ log[n][i] # NoEntry}
    IN \/ present = {} /\ v = NoEntry
       \/ \E i \in present : (\A j \in present : j <= i) /\ v = log[n][i]
=============================================================================
