# NimbusVault: TLA+ specifications, model checking and proofs

NimbusVault is a replicated chunk store. A small group of metadata servers (one
fixed leader, the others followers) keeps a table of chunks in a replicated
write-ahead log; storage nodes keep the bytes; a client library asks the leader
where a chunk is and reads it from a storage node. This directory holds
specifications of that system, translated from the C++ sources (repository root
`src/`, so the leader's replication code is `src/src/meta/meta_replication.cpp`),
the TLC configurations that check them on small instances, and TLAPS proofs, for every
size of instance, of the metadata log (what is answered OK is replayed, log matching, acknowledgements, the
refinement of an abstract log), of what is stored and read in the data plane, of
reconfiguration, of the adaptive policy and of the workload generator's choices.

## 1. Inventory

| Component | State it keeps | Operations | Hard behaviours | What makes it correct |
|---|---|---|---|---|
| Metadata log (`meta_wal`) | entries in RocksDB, `last_index_`, `committed_` in memory and persisted without sync | open, append, commit, replay, read_entry | append is not locked; entry, counter and mark are three writes; crash between them | what was committed is replayed; counters never outrun the entries |
| Leader replication (`meta_replication`) | `ack_counts_`, `match_index` of each follower | write, record_ack, replicate_to_follower (direct append, catch-up), send_heartbeats | one detached thread per write and follower; RPCs lost, late, twice, out of order; a deadline (`quorum_timeout_ms`) against a late answer | OK implies committed for good and on a majority; `match_index` sound; entries reach the followers |
| Follower (`meta_follower`) | its own log and tables | handle_append, handle_commit | handlers run concurrently; test and append are separate steps; commit before the leader has a majority | its log is a prefix of the leader's |
| Start-up and recovery (`meta_server`, `recovery`, `meta_snapshot`) | none of its own | replay, cleanup_uncommitted_puts, bootstrap_follower_from_leader, take/install_snapshot, FetchLogEntries | crash at every point; snapshot index, tables and log stream are read at different moments | recovery deletes nothing that was acknowledged |
| Metadata tables (`meta_coordinator`) | `chunk_table_`, `node_table_` | apply_*, next_version, evict_stale_nodes | versions are computed, not reserved; unsigned time difference | one version, one content |
| Metadata RPCs (`meta_rpc`) | none of its own | PutChunk, GetChunkInfo, DeleteChunk, NodeHeartbeat, Add/RemoveReplica, AppendEntry, CommitEntry, FetchLogEntries | PutChunk writes replicas one after the other, then the log; each step may fail | acknowledged data is on a majority and stays |
| Storage node (`chunk_store`, `storage_rpc`) | versions of chunks in RocksDB | WriteChunk, ReadChunk, FetchChunk, DeleteChunkData | late writes; delete removes all versions | data under (chunk, version) is the put that was given that version |
| Heartbeats and repair (`stats_reporter`, `replica_repair`) | the last assignment list | run_once of both loops | the list is old when it is used; data fetched earlier is written later | a replica that missed a put is healed; nothing assigned is collected |
| Client library (`nimbus_client`) | none | get, put, remove | table read first, replica read later | a read is never stale |
| Reconfiguration (`reconfig_driver`) | chunk state STABLE/TRANSITIONING, old and new replica set (in the table) | reconfig, copy, verify, commit | copies with a remembered version; puts, other reconfigurations and crashes in between | the chunk stays readable; the new set holds the data |
| Adaptive policy (`policy`, `hb_thread` of `meta_server`) | tier, hysteresis counters and pending accesses of each chunk, in memory | record_accesses, evaluate; evict_stale_nodes; the round that calls reconfig | reports late or lost; the tier advances although reconfig fails; one thread does evictions and reconfigurations; unsigned clock differences; a restart forgets | a tier moves only after enough windows in a row; the factor follows the tier; idle chunks cool down; the node table follows the nodes |
| Follower status (`meta_replication`) | `last_ack_ms`, `missed_pings`, HEALTHY/LAGGING | record_ack, send_heartbeats | the clock is read before the lock | LAGGING means silent, and passes |
| Placement (`placement`, target choice in `reconfig_driver`) | none | select_nodes, the choice of `target_ids` | factor and target come from two looks at the table | right size, no node twice, the best nodes alive |
| Snapshot (`meta_snapshot`) | a byte string | take, stream, parse, install | read at three moments while entries commit; a stream breaks | after the log is replayed the chunks are the leader's; all or nothing |
| Workload generator, history tracer | shared list of records | run, pick_chunk, record, get_stats | threads share the tracer; counts at their edges | all operations counted; statistics match the history |
| CLI, workload runner, config, logging | – | – | – | not modelled, section 7 |

How they interact: a client's `put` is one `PutChunk` call on the leader. The
handler asks Placement for nodes, sends `WriteChunk` to each, and when a majority
took it calls `MetaReplication::write()`, which appends to the leader's log,
starts one detached thread per follower and polls `ack_counts_` until a majority
answered or the deadline passes; then the entry is committed and applied to the
leader's tables. Storage nodes send heartbeats (themselves log entries) and get
the list of their chunks back; their repair loop fetches what they lack from peers
and removes what is not in the list. The policy thread and two RPC handlers call
`reconfig()`, which writes two log entries around a copy of the bytes.

## 2. Modules

| Module | Models | State | Composition |
|---|---|---|---|
| `MetaWal` | `meta_wal.cpp` | `log`, `last`, `committed`, `disk` (survives a process crash), `synced` (survives a power loss) | base of `MetaReplication` |
| `MetaReplication` | `meta_replication.cpp`, `meta_follower.cpp`, start-up, recovery, bootstrap | `wr` (write() calls), `thr` (replication and bootstrap threads), `hnd` (handle_append calls), `acks`, `match`, `up`, `view` (the applied tables), and the observations `started`, `result`, `cleaned` | extends `MetaWal` |
| `ChunkTable` | `meta_coordinator.cpp` | `table`, `alive`; of the log: `logged`, `replayed`, `tail` | base of `DataPlane` |
| `DataPlane` | PutChunk, DeleteChunk, GetChunkInfo, NodeHeartbeat; storage node; repair; `get` | `store`, `up`, `assigned`, `put`, `get`, `rep`, and the observations `stale`, `passed`, `seen` | extends `ChunkTable` |
| `CommitLog` | what `write()` promises | `chain`, `answer` | abstract; `MetaReplication` instantiates it with the committed prefix |
| `FollowerHealth` | `send_heartbeats`, the status part of `record_ack` | `health`, `hb` | extends `MetaReplication`; `ReplStep` runs a replication step |
| `Placement` | `placement.cpp`, target choice of `reconfig()` | none (pure) | used by `Reconfig` and `ReplicaChoice` |
| `Reconfig` | `reconfig_driver.cpp` and its callers | `rc` (reconfig() calls) | extends `DataPlane` and `Placement`; `OtherStep` runs a data-plane step |
| `ReplicaChoice` | PutChunk, Add/RemoveReplica and the policy choosing replica sets | `reps`, `trans`, `live`, `call` | extends `Placement` |
| `AdaptivePolicy` | `policy.cpp` | `pol`, and the history `recent` | base of `Background` |
| `Background` | `hb_thread`, `stats_reporter`, NodeHeartbeat, evict_stale_nodes | `ent` (factor and state of chunks), `hb`, `node`, and the histories `missed`, `due` | extends `AdaptivePolicy` |
| `Snapshot` | `meta_snapshot.cpp`, `bootstrap_follower_from_leader`, InstallSnapshot, FetchLogEntries | `log`, `mark`, `ldr`, `done`, `pend`, `fol`, `boot` | on its own |
| `Workload` | `workload_gen.cpp`, `history_tracer.cpp` | `run`, `left`, `cur`, `records`, `stats`, `now` | on its own |
| `MC*` | – | – | symmetry sets and constant values for TLC; `MCParts` puts `Snapshot`, `ReplicaChoice` and `Workload` side by side, one of them moving |
| `MetaDurabilityProofs` | – | – | types of `MetaReplication`, what OK means on the leader, the refinement of `CommitLog` |
| `LogMatchingProofs` | – | – | followers' logs; extends `MetaDurabilityProofs` |
| `AckProofs` | – | – | acknowledgements, `match_index`, majorities, what followers show, their status; extends `LogMatchingProofs` and `FollowerHealth` |
| `DataPlaneProofs` | – | – | types of `DataPlane` and what the stores hold |
| `DataConsistencyProofs` | – | – | reads, versions and majorities with few faults; extends `DataPlaneProofs` |
| `ReconfigProofs` | – | – | reconfiguration: readable chunks, installed data, reads; extends `DataConsistencyProofs` |
| `BackgroundProofs` | – | – | hysteresis and factors of `Background` |
| `WorkloadProofs` | – | – | the chunks `Workload` picks |

### Correspondence with the code

*MetaWal and MetaReplication.* Code that runs without a lock is split where other
threads can see the difference. `append()` is four steps (load of `++last_index_`,
store, Put of the entry, `persist_last_index`); `handle_append` is its check
followed by those four; a follower's `commit` is test-and-mark followed by the
store of `committed_`. The leader's commit runs under `mu_` and is one step.
A detached thread is `thr[<<f, t>>]`: `rpc` (waiting for AppendEntry), `commit`
(CommitEntry is next), `next` (the catch-up loop reads the next entry). A handler
whose caller gave up goes on, as a gRPC handler does. `RpcFailed` and `CommitLost`
cover the request lost, the answer lost and the deadline passed. An entry is the
identity of its write, so "same entry" is equality. All writes put one chunk, so
the tables are represented by the put applied last. `cleaned` records the puts that a
failure path was run for (PutChunk after UNAVAILABLE, `cleanup_uncommitted_puts` after a
restart). Bytes are not in this module: `DeleteChunkData` removes every version of a
chunk, so the cleanup of one put can take an earlier, acknowledged one along. That is
modelled in `DataPlane` (`DocPutFailure.cfg`).

*ChunkTable and DataPlane.* A metadata write is one step: it is appended, commits and is
applied, or it is appended and returns UNAVAILABLE (bounded by `MaxUnavailable`); writes
that wait at the same time, and apply in another order than the log's, are in
`MetaReplication`. A refused write stays in the log. The module keeps the log by its
effect: `logged` is the chunk table that all entries would give, `replayed` the one that
those up to the committed index give, `tail` the puts above that index. `CommitAll`
is `commit()` of the last index, which takes all entries below it along, so the next
write or heartbeat moves refused entries into `replayed`; they are never applied to
`table`. `LeaderRestart` sets `table` to `replayed` and removes the chunks of the puts in
`tail` from their replicas, every version, as `cleanup_uncommitted_puts` does; a refused
put that was committed by a later entry thus comes back after its bytes were cleaned up.
A put is its identity, which is also its data. `PutWrite` is one replica's
WriteChunk; `PutWriteLost` is a WriteChunk that fails for the leader with or
without taking effect. `get` reads the version and the replica sets of an entry in
two steps, because `get_chunk` hands out a pointer after releasing the lock. Replica
sets are sets; the order of attempts is nondeterministic. `has_assignment_snapshot_` is not a variable: with an empty list
`run_once` returns either way; `assigned` is kept for the nodes whose repair loop runs in
the instance (`Repairers`), nobody else reads it. `stale`, `passed`
and `seen` are history variables: they record which puts a read may no longer
return.

*Reconfig.* `reconfig()` from its checks to its end, one RPC per step. `Targets`
are the sets its callers can ask for: one node more, one node less, or a tier's
replication factor, for any factor, because the callers work it out from an earlier
look at the table.

*FollowerHealth and Background.* The code compares clock readings; the models keep
each as its distance to the present, which grows with `Tick` up to a bound above
which ages are not told apart. The unsigned difference `a - b` is `(a - b) % Wrap`:
it wraps when the second reading was overtaken between the clock and the lock.
`hb_thread` is one process, so its steps (`HbWake`, `HbEvict`, `HbEvaluate`, the
`Reconfig...` steps) follow one another; `hb.copy` is the copy of the table a round
works with. `ReportSend` clears the counts before the report arrives or is lost, as
`run_once` does. Rates are compared as integers; `Gaps` are the possible times between
two evaluations, in tenths of a second, a clock set back (hence a huge unsigned
difference) included. `ReconfigRefused` may refuse any growth, because the replica sets
that decide whether enough nodes are alive are in `Reconfig`.

*Placement and ReplicaChoice.* Pure functions of sequences, in the order of the code
(`BaseIds`, `TrimIds`, `FillIds` are the three passes over `target_ids`); `TargetSets`
is the same without order, which `Reconfig` uses, and `ChosenSound` checks that the two
agree. Scores are whole percents, nodes of equal score are interchangeable as in
`max_element` over a hash table.

*Snapshot.* The byte string is a sequence of numbers and fields: a record is its
length followed by its body, a `;`-separated body the sequence of its fields, so that
offsets, counts, truncation and field order are real and text is not. The leader's
`wal_.commit` and `on_commit_` are two steps (`LeaderMark`, `LeaderApply`), taken for any
entry that is not applied yet: an index may commit before a lower one, whose write waits
still or has timed out and is never applied. `done` is the order of application.
`take_snapshot` reads in three steps. A chunk count read past the end of the string is
whatever lies there, so `InstallSnapshot` has more than one outcome then.

*Workload.* A configuration is chosen at the start; draws from a distribution are any
draw; latencies come from a clock that passes while operations run.

Definitions named `X_Something` placed before `X` and commented "Seeded bug" are
plausible mistakes in the code behind `X`. They are not used by any specification;
replacing `X` by one of them makes a property fail and shows what the property is
sensitive to.

## 3. Serial schedules

`Spec` of `MetaReplication` allows every overlap of the unlocked sections, as the
code does. Several promises of the code do not survive some overlaps (section 5).
To ask what holds otherwise, `SerialSpec` singles out the schedules in which, on one
node, (1) a `write()` enters `append()` only when no other is inside, (2) a
`handle_append` makes its checks only when no other is between its check and its
end, (3) a `handle_commit` does not start between another's test and store, and (4)
the log stream of a bootstrap does not sample `last_index_` inside an `append()`.
Everything else still interleaves: any number of writes wait at the same time,
their threads deliver in any order, RPCs fail, handlers outlive their callers,
processes crash. The same results hold of the code if `append`, `handle_append` and
`handle_commit` take a lock each.

`ApartSpec` of `Reconfig` in the same way singles out the schedules in which no
put of a chunk is in progress during a reconfiguration of that chunk; `FreshSpec` those
in which, besides, repair works with the assignment of this moment. `Overlap = FALSE` in
`Snapshot` says that no AppendEntry or CommitEntry reaches a follower during its
bootstrap; the server does listen by then (`meta_server.cpp:346`), and
`DocBootstrapOverlap.cfg` is what happens if one does.

## 4. Runs that pass

| Run | Instance | Checks | Distinct states |
|---|---|---|---|
| `repl_lossy` | 2 followers, 1 writer, 2 writes, 1 loss, serial | `TypeOK`, `LogMatching`, `OkOnMajority`, `MatchSound` | 335 k |
| `repl_crashes` | 1 follower, 2 writers, 2 writes, 1 leader crash, 1 follower crash with bootstrap, serial | `OkDurable`, `AppliedStands`, `LeaderInv`, `LogInv`, `AcksSound`, `CommittedStable`, `ReplayNotOlder`, `ImplementsCommitLog` | 319 k |
| `repl_live` | 1 follower, 2 writers, no faults, fair, with `hb_thread` and clock | `EntriesReplicated`, `LaggingRecovers`, `LaggingMeansSilent` | 98 k |
| `data_one_down` | 3 nodes, rf 3, 3 serial puts, 1 node crash, all repair loops | `TypeOK`, `NoStaleRead`, `AckedOnMajority` | 255 k |
| `data_two_faults` | 3 nodes, rf 3, 3 serial puts, 1 crash and 1 lost RPC (a write or the heartbeats before an eviction) | `AckedKept`, `NoStaleRead`, `SameVersionSameData` | 20 k |
| `data_all_faults` | 2 nodes, 2 chunks, 2 concurrent puts, 1 delete, repair, node crash, 1 UNAVAILABLE, leader crash with replay | `StoreIntegrity` | 536 k |
| `repair_live` | 3 nodes, 2 puts, 1 crash, fair threads | `RepairHeals` | 30 k |
| `reconfig_apart` | 3 nodes, 2 puts, 2 reconfigurations, 1 loss, apart | `ReadableThroughout`, `NoStaleRead`, `SameVersionSameData`, `CommitInstallsData` | 30 k |
| `reconfig_faults` | 3 nodes, 1 put, 2 overlapping reconfigurations, node crash, 2 UNAVAILABLE, leader crash with replay | `AckedReadable`, `CommitInstallsData` | 361 k |
| `policy` | 1 chunk, 1 storage node, 2 windows to promote or demote, policy every 2nd round, 2 accesses, 1 put, delete or manual change, 1 fault, fair | `PolicyInv`, `RfFollowsTier`, `CountedOnce`, `TierHysteresis`, `IdleDecays`, `AliveTracksNodes` | 0.7 M |
| `parts` | bootstrap: 3 entries, committed in any order, 1 restart; choice: 4 nodes, 2 threads, 4 calls, 1 node flip; workload: 3 configurations, 2 or 3 operations | `BootstrapCatchesUp`, `InstalledWhole`, `ChosenSound`, `StatsMatchHistory`, `PickedSound` | 2.2 M |

What they show:

* `LogMatching`: what a follower holds durably is the leader's, index by index.
  The gap check and the comparison in `handle_append` are what keeps it.
* `OkDurable`: a put answered OK is under the persisted committed index, so every
  restart replays it, and none of the two cleanups is ever run for it. That its bytes
  stay is another matter: the cleanup of a later put of the chunk takes them along.
* `OkOnMajority`: OK implies the entry is on a majority's disks (three servers;
  for five see `DocFiveServers.cfg`).
* `MatchSound`: `match_index` never runs ahead of the follower; catch-up would
  otherwise skip entries for good.
* `CommittedStable`: `committed_` never goes back and entries under it never
  change, restarts included.
* `AppliedStands`: followers apply entries before there is a majority, but only what
  stands in the leader's persisted log and survives its restart.
* `ReplayNotOlder`: entries are applied in the order of their majorities and replayed
  in index order, yet a restart never takes the tables back to an older put.
* `ImplementsCommitLog`: seen from the callers of `write()`, all of this is a chain of
  entries that only grows, and only with an answer OK.
* `EntriesReplicated`: out-of-order delivery is repaired by catch-up.
* `LaggingMeansSilent`, `LaggingRecovers`: the wrapped difference can count one ping as
  missed, never the three in a row that make a follower LAGGING; the status passes.
* `NoStaleRead`, `AckedOnMajority`, `AckedKept`: serial puts
  behave like a register while the stated faults happen. The budgets matter and
  are part of the claim: one more lost RPC (`DocLeftover.cfg`), an UNAVAILABLE
  metadata write or a leader crash during an overwrite (`DocPutFailure.cfg`), a stale
  assignment list (`doc_stale_assignment`), a delete (`DocReadAfterDelete.cfg`) or
  concurrent puts (`DocSameVersion.cfg`) break one of them.
* `SameVersionSameData`: in `data_two_faults` a put fails although one of its WriteChunks
  took effect, and the next one gets the same version; in `reconfig_apart` drivers copy
  next to a lost write. Neither leaves two contents under one version. Concurrent puts
  do (`DocSameVersion.cfg`).
* `StoreIntegrity`: puts, late writes and repair never mislabel data, under all
  faults of the data plane at once.
* `RepairHeals`: a running replica that missed a put gets it.
* `ReadableThroughout`, `CommitInstallsData`: every intermediate, failed or
  overlapping reconfiguration leaves a node that can serve the version, and
  RECONFIGURE_COMMIT installs only nodes that hold it.
* `AckedReadable`: the same for acknowledged puts, when the leader dies and replays a log
  that also holds refused entries, a refused RECONFIGURE_START or _COMMIT that a
  heartbeat committed among them. `ReadableThroughout` does not survive that: a put that
  was *refused* comes back without its bytes (`ReconfigFaults.cfg` with that invariant).
* `PolicyInv`, `TierHysteresis`: a tier moves only after `promote_windows` or
  `demote_windows` windows in a row on that side, whatever is late, lost or measured
  over a longer window.
* `RfFollowsTier`: the factor is that of the tier except after a failed or refused
  reconfiguration, a restart, or a change to another factor or behind a round's copy.
  The exceptions are real: nothing repairs the factor until the tier moves again.
* `CountedOnce`: an access is counted once or lost, never twice.
* `IdleDecays`: without readers every chunk keeps returning to COLD. "Keeps returning"
  is all: a reconfiguration reads the chunk itself, and those reads can warm it again.
* `AliveTracksNodes`: `alive` converges to the truth in spite of the wrapped
  difference and of reconfigurations that hold `hb_thread` up.
* `BootstrapCatchesUp`, `InstalledWhole`: the tables a snapshot holds may be newer than
  its index, and replay applies those entries twice; the chunks still come out as in
  the leader's log, except those with an entry up to that index which is not applied yet
  or never will be (`Missed`) or was applied out of order (`Reordered`). Encoding,
  streaming and parsing lose nothing but `alive`.
* `ChosenSound`: every chosen set has the size asked for, no node twice and the best
  nodes alive, also when the factor was read before another change.
* `StatsMatchHistory`, `PickedSound`: percentiles are the least
  latencies with their share of operations, no operation is lost in the division among
  threads, and a chunk is hot or cold throughout.

*Bounds.* Two writes are the least with reordering, catch-up and a second index;
two followers the least where a majority is not everybody and one follower can lag.
In `repl_lossy` one writer suffices: its first write can time out and leave its threads
to run beside those of the second. `repl_crashes` has two, so that majorities can come
in another order than indices.
One loss suffices for a duplicate delivery (the call that timed out plus the
catch-up). With three serial puts a version can be acknowledged, its successor can
fail and a third can reuse the version. Rf 3 on three nodes makes every put hit every
node; smaller sets occur in `data_all_faults` and in `Reconfig`. Two chunks are
needed only where collection of one chunk is driven by the assignment of another.
Two windows per move and two rounds per evaluation are the least that tell a row from
a single window and a round with from one without evaluation; with one chunk and one
node all exceptions of `RfFollowsTier` occur, and `Wrap` only has to exceed every real
age. Three log entries let a put, a reconfiguration and one more entry fall between the
three reads of a snapshot; pieces of five fields cut records in the middle. Four nodes
(two equal, one without disk figures, one that fails often) and four calls let two
changes overtake each other twice.
Every bound is a constant, named in the guard that uses it. Writes, puts and faults
are bounded, so a run ends in states where nothing is left to do: the
configurations say `CHECK_DEADLOCK FALSE`. The symmetric sets are those the
specification treats alike (followers, writers, storage nodes, chunks, readers,
drivers); the liveness runs use no symmetry.

*Fairness.* `FairHealthSpec` is weak fairness of the clock, of `hb_thread` and of the
replication steps together; without losses and crashes the latter are finite in number,
so this only says that threads which can run do run. `FairSpec` of `DataPlane` is weak
fairness of the heartbeat and of the repair loop of each node, which are `while` loops
with a sleep (`storage_server.cpp`); nothing is assumed of clients, RPC success or
restarts. `FairSpec` of `Background` is weak fairness of the clock, of `hb_thread`
(`meta_server.cpp:354`) and of each node's reporter; faults and changes are bounded.
`FairRSpec` is weak fairness of the driver's own steps: it is a thread of the leader.
The RPCs of these threads have no deadline, so all of them assume that a peer which is up
answers and that a call to one which is down fails; the code does not bound the wait
for a peer that accepts a call and stays silent.

## 5. Where the code and what is said of it disagree

One run is expected to be violated; it states what the repository says.

* `doc_stale_assignment`: the repair loops remove every chunk that is not in the
  assignment of their last heartbeat, hence also one that was put after it.
  An acknowledged put can lose all its copies.

More configurations hold a claim of a document, comment, message or test that some
schedule violates; TLC finds a counterexample with each, mostly within seconds
(`tlc -config <file> <module>`; where a row names a change, make it in a copy of the
file first):

| Configuration | Module | Claim | What happens |
|---|---|---|---|
| `DocCommitAssert.cfg` | MCMetaReplication | `assert(log_index <= last_index_)`, `meta_wal.cpp:118` | two writers inside `append()` store an older `last_index_` over a newer one |
| `DocFiveServers.cfg` | MCMetaReplication | report 2.2, "majority acknowledgment", for "typically 3 or 5 nodes" | `record_ack` counts calls, not followers: OK with the entry on two of five servers |
| `DocCommitAssert.cfg`, `INVARIANT AppendIdempotent` | MCMetaReplication | "treat as idempotent", `meta_follower.cpp:26` | the late direct call and the catch-up call both append the entry |
| `DocUncommittedNotReplayed.cfg` | MCMetaReplication | test `UncommittedEntryNotReplayed` | committing index 2 also commits index 1, whose write timed out |
| `DocUncommittedNotReplayed.cfg`, `INVARIANT FollowerViewConsistent` | MCMetaReplication | integration test T8, "consistent view" | CommitEntry is sent before there is a majority; the write then fails |
| `DocPowerLoss.cfg` | MCMetaReplication | "fault-tolerant, strongly consistent", `readme.md:5` | unsynced counters are lost with the power, recovery deletes an acknowledged put |
| `DocReplayRestores.cfg` | MCMetaReplication | test `ReplayRestoresCommittedEntries` | entries are applied in order of their majorities, replayed in index order |
| `DocPutFailure.cfg` | MCDataPlane | "fault-tolerant, strongly consistent", `readme.md:5` | an overwrite that fails deletes the acknowledged version too; a leader that dies before that cleanup does the same in recovery |
| `DocPutFailure.cfg`, `MaxRestarts = 1` | MCDataPlane | test `UncommittedEntryNotReplayed` | a refused put is cleaned up, a heartbeat commits its entry, the restart replays it: in the table, on no node |
| `ReconfigFaults.cfg`, `INVARIANTS ReadableThroughout` | MCReconfig | integration test T7, "chunk remains readable" | the same, which is why `reconfig_faults` asks for acknowledged puts |
| `DocSameVersion.cfg` | MCDataPlane | report 2.3, "versioning ensures atomicity during concurrent writes" | two puts get one version |
| `DocReadAfterDelete.cfg` | MCDataPlane | `check.py:15`, delete resets the register | versions restart at 1, an older higher version is read |
| `DocLeftover.cfg` | MCDataPlane | `check.py:12`, most recent value | bytes of a failed put survive on a node and share the next put's version |
| `DocMonotonicReads.cfg` | MCDataPlane | `check.py:7`, linearizable register | a put in progress is seen, then not seen |
| `DocCollected.cfg` | MCDataPlane | report 2.3, unassigned chunks are collected | a node with an empty assignment never collects |
| `DocPutDuringReconfig.cfg` | MCReconfig | integration test T7, "chunk remains readable" | a put commits between START and COMMIT; COMMIT installs replicas without it |
| `DocPutDuringReconfig.cfg`, `INVARIANT StoreIntegrity` | MCReconfig | `chunk_store.h:13`, key is chunk and version | the copy stores a newer put under the older version |
| `DocReturnsToStable.cfg` | MCReconfig | report 3, "returns to STABLE" | a failed copy leaves the chunk TRANSITIONING |
| `DocOldMember.cfg` | MCReconfig | integration test T7 | during a shrink a node that is only in `old_replica_set` is assigned nothing (`meta_rpc.cpp:312`) and collects the last copy; found by `tlc -simulate -depth 60`, the breadth-first search is large |
| `DocReplicaAdded.cfg` | MCParts | `nimbus_cli.cpp:108`, "Replica added" | two overlapping calls: a stale factor trims the node, or fills a removed one in again, and the answer is ok |
| `DocSnapshotLsn.cfg` | MCParts | log message `meta_server.cpp:147` | the index is read between `wal_.commit` and `on_commit_`; its entry is missing from the snapshot and not replayed |
| `DocBootstrapOverlap.cfg` | MCParts | integration test T8 | the leader's own CommitEntry during a bootstrap is overwritten by the older snapshot or applied out of order |
| `DocSingleChunk.cfg` | MCParts | `pick_chunk` names an existing chunk | with one chunk, or only hot ones, the cold index is past the end (`workload_gen.cpp:68`) |
| `DocEvicted.cfg` | MCBackground | "declared dead (no heartbeat {}ms)", `meta_coordinator.cpp:120` | a heartbeat applied after the clock was read wraps the difference; a live node is declared dead |
| `DocIdleDemoted.cfg` | MCBackground | `demo.sh:366`, "Idle files demoted" | after a failed reconfiguration the tier is COLD and the factor stays (about a minute) |

## 6. Proofs

Assumptions on constants are the named ones of the modules: bounds are natural
numbers, the followers are a finite set without the leader, the storage nodes are
finite and at least `Rf`, thresholds and windows are as `policy.h` orders them, and
values such as `"-"` that stand for "no chunk" are not chunks. None bounds the
instance, so the theorems hold for any number of followers, writers, writes, nodes,
chunks, puts, losses and crashes. Where a theorem needs more, it says so in an `ASSUME`
of its own, listed below with the counterexample that makes it necessary.

**The leader's log** (`PowerLoss = FALSE`, serial schedules of section 3).

* `TypeCorrect` (`MetaDurabilityProofs`): `Spec => []TypeOK`, all overlaps, crashes
  and power losses included. One lemma per log operation and one per kind of thread.
* `LeaderInvariant` (`MetaDurabilityProofs`): `SerialSpec => []LeaderInv`.
  `LeaderInv == LeaderCounters /\ FreshIds /\ OkDurable`.
  `OkDurable` alone is not inductive: that the commit of an index makes *this*
  write's entry committed needs the entry to stand at its index and the counter to
  cover it (`LeaderCounters`), and that no cleanup is run for an acknowledged put needs
  identities to stand at one index only and results to be given once (`FreshIds`).
  One lemma per step of `write()`, one for a leader restart, and a frame lemma for
  the steps of followers, handlers, threads and bootstraps, which leave the leader's
  log alone.
* `AcknowledgedPutsDurable`: `SerialSpec => []OkDurable`, from it. It is about the log:
  an OK is replayed for ever and never taken for a failed put. It does not say that the
  bytes stay, which the cleanup of another put of the chunk may delete
  (`DocPutFailure.cfg`); for those see `AcknowledgedKept` and `ReadableOnce`.
* `CommittedPrefixStable`: `SerialSpec => CommittedStable`, from it.
* `ReplayedTablesNotOlder`: `SerialSpec => ReplayNotOlder`. The strengthening
  (`ReplayInv`) is that what the leader's tables show is a committed entry, and that no
  entry stands at two indices of its log, not even above the persisted last index, where
  a crash inside `append()` leaves a record.
* `WriteImplementsCommitLog`: `SerialSpec => ImplementsCommitLog`.
  `Init` maps to `Init`; `WriteCommit` maps to `Commit`,
  `WriteTimeout` to `Fail`, every other step, crashes and restarts included, to a
  stutter. That the chain holds a write once is `FreshIds`, that it is extended and not
  changed is `CommittedStable`'s argument, that OK finds its write on it `LeaderCounters`.

`PowerLoss = FALSE` is needed: `DocPowerLoss.cfg` is the counterexample otherwise.
So are serial appends on the leader: `DocCommitAssert.cfg` is what happens without.

**Followers and acknowledgements** (the same hypotheses).

* `LogInvariant` (`LogMatchingProofs`): `SerialSpec => []LogInv`, where
  `LogInv == FollowerCounters /\ CallsFromLog /\ ThreadsInLog /\ CallOwners /\
  LogMatching`. `LogMatching` alone is not inductive, because the entry that a handler
  is about to put was copied into the call long before. `CallsFromLog` ties every call
  to the leader's log, `ThreadsInLog` keeps threads within it, `FollowerCounters` says
  what a handler between the steps of `append()` may rely on. `CallOwners` says which
  calls can exist for a thread: without it an abandoned call of an earlier write could
  reach a handler under the name of a later one. `repl_crashes` checks all five.
* `FollowersArePrefixes`: `SerialSpec => []LogMatching`, from it.
* `AcknowledgementsSound` (`AckProofs`): `SerialSpec => []AcksSound`. Followers' logs
  only grow in the steps that concern a call under way, so an answer stays true while
  it travels.
* `MatchIndexSound`: `[]MatchSound`, from it.
* `OkOnSomeFollower`: with at least one follower, an entry answered OK is on the
  disk of one, for any number of them; `OkIsMajority`: hence `[]OkOnMajority` when
  `Cardinality(Followers) <= 2`. The bound is not a convenience: with four followers
  `record_ack` counts two successes of one of them (`DocFiveServers.cfg`).
* `FollowersShowTheLog`: `SerialSpec => []AppliedStands`. The strengthening
  (`AppliedInv`) adds the leader's tables and the snapshots under way.

* `LaggingOnlySilent` (`AckProofs`): `FairHealthSpec => []LaggingMeansSilent`
  when `MaxPings >= 2`; the code has 3, and with 1 a wrapped difference alone would make
  a live follower LAGGING. The invariant is that an acknowledgement after the clock was
  read has reset the pings, so that a wrapped difference counts as the first of a row
  only, and a second ping is counted only for real silence.

**The data plane.**

* `DataTypeCorrect` and `StoresHoldPuts` (`DataPlaneProofs`): `Spec => []TypeOK` and
  `Spec => []StoreIntegrity`, with no hypothesis: concurrent puts, deletes, crashes of
  nodes and leader, lost RPCs, failing metadata writes, cleanups, evictions and repair.
  The invariant `DataInv` adds that what a repair run has fetched and not yet stored is
  such a put too (`RepairsArePuts`), and that neither a put nor the table is numbered
  above the puts that were started (`PutsNumbered`).
* `ReadsNotStale` (`DataConsistencyProofs`): `[]NoStaleRead` under `FewFaults`: one put at a time, no delete, no
  leader restart and no UNAVAILABLE, and `2 * (MaxCrashes + MaxLosses) < Rf`. Then no put
  fails: each crash or lost RPC takes away one replica at most (`FaultsCounted`), so
  every put gets its majority, versions are handed out one by one (`VersionsOrdered`,
  `VersionsUnique`), and what a get may no longer return is below the version it asks
  for (`StalesBelow`, `GetsAbove`). Repair loops, evictions, heartbeats and
  crashed nodes that come back go on meanwhile.
* `AcknowledgedOnMajority` and `AcknowledgedKept`: `[]AckedOnMajority` and `[]AckedKept`
  under `FewFaults` and `NothingToCollect` (no repair loop, or a single chunk, so that
  a nonempty assignment names it). `AckInv` adds that a put has what it counted as
  written and that the table's version is on a majority.

  Each part of the hypotheses has its counterexample: concurrent puts share a version
  (`DocSameVersion.cfg`), a delete restarts the numbering (`DocReadAfterDelete.cfg`),
  UNAVAILABLE deletes the acknowledged version (`DocPutFailure.cfg`) and a restart brings
  the refused one back without its bytes (the same with `MaxRestarts = 1`), too many losses leave bytes of a failed put
  behind (`DocLeftover.cfg`), and with a second chunk a stale assignment collects the
  copies of a new put (`doc_stale_assignment`). `data_one_down` is an instance of
  all hypotheses. `data_two_faults` lies outside them, since one put may fail there;
  what it shows is model-checked only.

**Reconfiguration** (`ReconfigProofs`), any number of drivers at a time on one chunk.

* With puts and reconfigurations of a chunk apart (`ApartSpec`), `FewFaults` and
  `NothingToCollect`: `ReadableThroughReconfig` (`[]ReadableThroughout`),
  `CommitsInstallData` (`CommitInstallsData`), `ReconfigReadsNotStale` (`[]NoStaleRead`),
  `ReconfigStoresHoldPuts` (`[]StoreIntegrity`) and `ReconfigVersionNamesData`
  (`[]SameVersionSameData`). `reconfig_apart` is an instance.
  None is inductive: a driver commits what it verified several RPCs earlier, with
  a version it read at the very beginning. `ReconfigInv` says what it may still rely on
  (`DriversSound`): the version was acknowledged and is still the table's, the data it
  copies is a put of that version, a member of its old set has it, and so has every
  replica it has verified. The first holds because a put of the chunk would have to
  overlap the driver, the last because no version is taken from a node while nothing is
  collected; another driver of the chunk can only add copies. `TableSound` says that
  the old set or the new one has the version, whichever driver wrote them, `AckedPresent`
  and `PresentAcked` tie the table's versions to the acknowledged puts, `PutsStable`
  that no put starts from a replica set left behind by a failed driver, and `BaseInv`
  carries the invariants of `DataConsistencyProofs` along, of which the drivers' steps
  preserve each part because they change replica sets and add copies only
  (`DriverQuiet`).
* For chunks that are put at most once (`OnceSpec`), with `NothingToCollect` as the only
  hypothesis: `ReadableOnce` (`[]AckedReadable`) and `OnceCommitsInstallData`
  (`CommitInstallsData`). Nodes and leader may crash and
  restart, RPCs get lost, metadata writes be refused, chunks be deleted, puts of
  different chunks run together, all without bound; a restart replays whatever the log
  holds up to the committed index, refused entries included. `OnceInv` therefore speaks of
  three tables, the leader's, the one a replay gives and the one the whole log would give.
  Each names for an acknowledged put a node that has it (`TableSound`), and when an entry
  is TRANSITIONING in one and STABLE in a later one, the new set holds the data
  (`Installed`), because only drivers that have verified it log a RECONFIGURE_COMMIT,
  refused or not. `TailUnapplied` says that a put above the committed index is in neither
  the table nor the replay, so that recovery's cleanup hurts no acknowledged put;
  `AckedListed` that an acknowledged put is in all three while nothing was deleted.
  Instead of counting faults it uses that no node has a later version than a
  driver read (`NoneLater`, a consequence of `Once`), and that a put that goes on to the
  metadata write has written something (`PutsWritten`).
  `OnePutReadable` draws the conclusion for `RSpec` itself with `MaxPuts <= 1`;
  `reconfig_faults` is an instance. That a chunk is put once is needed:
  `DocPutFailure.cfg` is the counterexample with an overwrite.

  Without `Apart` the first group fails even without a fault
  (`DocPutDuringReconfig.cfg`), with a second chunk and a stale assignment so does
  readability (`doc_stale_assignment`), and with a current one too during a shrink
  (`DocOldMember.cfg`), which is what `NothingToCollect` excludes.

**The policy and the factors** (`BackgroundProofs`; no hypothesis).

* `PolicyCountersHonest`: `Spec => []PolicyInv`, and `TiersMoveByHysteresis`:
  `Spec => TierHysteresis`, for all thresholds, window counts, rates and gaps between
  evaluations. `PolicyInv` relates the two counters to the history of windows; the
  step that evaluates a chunk is a shift of that history by one (lemmas `RunGrows`, `EvaluateSteps`).
* `FactorsFollowTiers`: `Spec => []RfFollowsTier`. Not inductive by itself: a round works
  with a copy of the table and a factor chosen several steps before it is committed.
  `HbInv` says that the factor under way is that of the tier `evaluate()` moved to and
  that the copy is right for every chunk nobody changed since.

**The workload generator** (`WorkloadProofs`).

* `PickedChunksSound`: `WorkSpec => []PickedSound` under `ConfigsSound`: a configuration
  that is neither zipfian nor uniform has more chunks than hot ones. `DocSingleChunk.cfg`
  is the counterexample otherwise. `WorkInv` says that what a thread has chosen and not
  yet recorded, and what is recorded, carries the label of its index: two records of one
  chunk then agree, whichever threads made them and in whatever order.

**Only model-checked.** Liveness (`EntriesReplicated`, `LaggingRecovers`, `RepairHeals`,
`IdleDecays`, `AliveTracksNodes`): fairness and ENABLED are out of the prover's reach.
Inductions over data, which the prover cannot do either: `CountedOnce` (a sum over a set
by a fold), `StatsMatchHistory` (sums, sorting and percentiles of the history),
`BootstrapCatchesUp` and `InstalledWhole` (the fold that replays a log, the loop that
parses a byte string), `ChosenSound` (the greedy loop of
`select_nodes()` and filtered sequences). The instance of `data_two_faults`, which lies
outside `FewFaults`.

## 7. Not modelled

The term (constant 1, there is no election); the text of entries and of snapshot
fields, so also identifiers that contain a delimiter and the rounding of floats;
`deserialize_chunk` and `deserialize_node`, which nothing calls; the EWMA rate of the
policy, which is only logged; the weights of the workload's distributions, its CSV file
and printed summary; a chunk's size; the retry back-off of the client; CLI and
`workload_runner` (argument parsing around one call), logging, configuration, scripts.
`cleanup_uncommitted_puts` is one step in `DataPlane`: it runs before the server
accepts calls, but storage nodes could act in between. `Background` has no replica
sets and `Reconfig` no tiers: every decision of the policy is a target in `Reconfig`.

## 8. Plan

1. Done: all components that keep state; the refinement of the log; proofs for the
   metadata log, its followers and acknowledgements, the data plane, reconfiguration,
   the policy and the workload generator's choices.
2. Next: an abstract register per chunk, implemented by `DataPlane` for serial puts:
   `SerialInv` is most of its refinement proof.
3. `AckedKept` for the faults of `data_two_faults`, where one put may fail and leave
   bytes behind: `FaultsCounted` has to count per put instead of over all of them.
