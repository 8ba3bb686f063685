----------------------------- MODULE DataPlane -----------------------------
(***************************************************************************)
(* Chunk data: PutChunk, GetChunkInfo and DeleteChunk on the leader        *)
(* (meta_rpc.cpp), the storage nodes' chunk stores, heartbeats and replica *)
(* repair (storage/), and the client's get (nimbus_client.cpp).            *)
(*                                                                         *)
(* A call of MetaReplication::write() is one step here: its entry is       *)
(* appended, commits and is applied, or it is appended and the call        *)
(* returns UNAVAILABLE.  Writes that overlap, and may be applied in        *)
(* another order than that of the log, are in module MetaReplication.      *)
(* A put is its identity 1 .. MaxPuts, in the order the puts start, and    *)
(* that is also the data it writes.                                        *)
(***************************************************************************)
EXTENDS ChunkTable

CONSTANTS
    Readers,        \* clients inside get()
    Rf,             \* desired_rf of every put
    MaxActive,      \* bound: puts in progress at a time
    MaxGets,        \* bound
    MaxDeletes,     \* bound
    Repairers,      \* the storage nodes whose repair loop is modelled
    MaxCrashes,     \* bound: crashes of storage nodes
    MaxRestarts,    \* bound: crashes (and restarts) of the leader
    MaxLosses,      \* bound: RPCs of a running storage node that fail
    MaxUnavailable  \* bound: metadata writes that do not return OK

ASSUME DataPlaneAssumption ==
    /\ Rf \in 1 .. Cardinality(Storage)
    /\ MaxActive \in Nat /\ MaxGets \in Nat /\ MaxDeletes \in Nat
    /\ Repairers \subseteq Storage
    /\ MaxCrashes \in Nat /\ MaxRestarts \in Nat
    /\ MaxLosses \in Nat /\ MaxUnavailable \in Nat

VARIABLES
    store,      \* store[n][c][v]: the data under key (c, v), or NoData
    up,         \* the storage nodes that are running
    assigned,   \* assigned[n]: assigned_chunk_ids_ of the StatsReporter of repairer n
    put,        \* put[id]: the PutChunk handler of put id
    get,        \* get[r]: a client's get()
    rep,        \* rep[n]: ReplicaRepair::run_once
    started,    \* how many puts were started
    stale,      \* the puts a get that starts now must not return: an acknowledged
                \* put or delete of their chunk began after they had ended
    passed,     \* the puts that had ended before one began that a get returned
    seen,       \* the gets that returned data: put read, stale and passed at start
    gets, deletes, crashes, restarts, losses, unavailable

nodeVars == <<store, up, assigned>>
cntVars  == <<gets, deletes, crashes, restarts, losses, unavailable>>
obsVars  == <<started, stale, passed, seen>>
vars == <<tableVars, nodeVars, put, get, rep, obsVars, cntVars>>

Ids    == 1 .. MaxPuts
NoData == 0
Data   == 0 .. MaxPuts

NoPut == [pc |-> "none", c |-> "-", ver |-> 0, reps |-> {}, todo |-> {}, oks |-> {},
          prior |-> {}]
NoGet == [pc |-> "idle", c |-> "-", ver |-> 0, from |-> {}, stale |-> {}, passed |-> {}]
NoRep == [pc |-> "idle", set |-> {}, todo |-> {}, c |-> "-", ver |-> 0, peers |-> {},
          data |-> 0]

TypeOK ==
    /\ TableTypeOK
    /\ store \in [Storage -> [Chunks -> [Ids -> Data]]]
    /\ up \in SUBSET Storage
    /\ assigned \in [Storage -> SUBSET Chunks]
    /\ put \in [Ids -> [pc : {"none", "write", "meta", "cleanup", "ok", "failed"},
                        c : Chunks \union {"-"}, ver : Version, reps : SUBSET Storage,
                        todo : SUBSET Storage, oks : SUBSET Storage, prior : SUBSET Ids]]
    /\ get \in [Readers -> [pc : {"idle", "info", "read"}, c : Chunks \union {"-"}, ver : Version,
                            from : SUBSET Storage, stale : SUBSET Ids, passed : SUBSET Ids]]
    /\ rep \in [Storage -> [pc : {"idle", "scan", "fetch", "store"}, set : SUBSET Chunks,
                            todo : SUBSET Chunks, c : Chunks \union {"-"}, ver : Version,
                            peers : SUBSET Storage, data : Data]]
    /\ started \in Data
    /\ stale \in SUBSET Ids
    /\ passed \in SUBSET Ids
    /\ seen \subseteq [id : Ids, stale : SUBSET Ids, passed : SUBSET Ids]

Init ==
    /\ TableInit
    /\ store = [n \in Storage |-> [c \in Chunks |-> [v \in Ids |-> NoData]]]
    /\ up = Storage
    /\ assigned = [n \in Storage |-> {}]
    /\ put = [id \in Ids |-> NoPut]
    /\ get = [r \in Readers |-> NoGet]
    /\ rep = [n \in Storage |-> NoRep]
    /\ started = 0
    /\ stale = {}
    /\ passed = {}
    /\ seen = {}
    /\ gets = 0 /\ deletes = 0 /\ crashes = 0 /\ restarts = 0
    /\ losses = 0 /\ unavailable = 0

-----------------------------------------------------------------------------
(* ChunkStore: write adds one version, remove drops all of them, read and   *)
(* latest_version look at the highest version only.                         *)

Held(n, c) == {v \in Ids : store[n][c][v] # NoData}

LatestVersion(n, c) ==
    IF Held(n, c) = {} THEN 0 ELSE CHOOSE v \in Held(n, c) : \A u \in Held(n, c) : u <= v

\* Seeded bug: min_version is ignored.
Serves_AnyVersion(n, c, min) == n \in up /\ Held(n, c) # {}

\* ReadChunk / FetchChunk of at least version min can be served.
Serves(n, c, min) == n \in up /\ Held(n, c) # {} /\ LatestVersion(n, c) >= min

\* Seeded bug: a version that is there is not written again.
StoreWrite_KeepsFirst(n, c, v, d) ==
    IF store[n][c][v] # NoData THEN UNCHANGED store ELSE store' = [store EXCEPT ![n][c][v] = d]

StoreWrite(n, c, v, d) == store' = [store EXCEPT ![n][c][v] = d]

StoreRemove(n, cs) ==
    store' = [store EXCEPT ![n] = [c \in Chunks |-> IF c \in cs THEN [v \in Ids |-> NoData] ELSE @[c]]]

-----------------------------------------------------------------------------
(* MetaRpcService::PutChunk                                                 *)

Ended(c) == {id \in Ids : put[id].c = c /\ put[id].pc \in {"ok", "failed"}}

Active == {id \in Ids : put[id].pc \in {"write", "meta", "cleanup"}}

\* The checks, Placement::select_nodes over the alive nodes and next_version().
\* A refused call (TRANSITIONING, not enough nodes) changes nothing.
PutStart(c, reps) ==
    /\ started < MaxPuts
    /\ Cardinality(Active) < MaxActive
    /\ table[c].state # "TRANSITIONING"
    /\ reps \subseteq alive
    /\ Cardinality(reps) = Rf
    /\ started' = started + 1
    /\ put' = [put EXCEPT ![started + 1] = [pc |-> "write", c |-> c, ver |-> NextVersion(c),
                                            reps |-> reps, todo |-> reps, oks |-> {},
                                            prior |-> Ended(c)]]
    /\ UNCHANGED <<tableVars, nodeVars, get, rep, stale, passed, seen, cntVars>>

\* write_chunk_to_replica: done, or refused by a node that is down.
PutWrite(id, n) ==
    /\ put[id].pc = "write"
    /\ n \in put[id].todo
    /\ IF n \in up
       THEN /\ StoreWrite(n, put[id].c, put[id].ver, id)
            /\ put' = [put EXCEPT ![id].todo = @ \ {n}, ![id].oks = @ \union {n}]
       ELSE /\ put' = [put EXCEPT ![id].todo = @ \ {n}]
            /\ UNCHANGED store
    /\ UNCHANGED <<tableVars, up, assigned, get, rep, obsVars, cntVars>>

\* The RPC fails, before or after the node wrote.
PutWriteLost(id, n) ==
    /\ put[id].pc = "write"
    /\ n \in put[id].todo \intersect up
    /\ losses < MaxLosses
    /\ losses' = losses + 1
    /\ put' = [put EXCEPT ![id].todo = @ \ {n}]
    /\ StoreWrite(n, put[id].c, put[id].ver, id) \/ UNCHANGED store
    /\ UNCHANGED <<tableVars, up, assigned, get, rep, obsVars,
                   gets, deletes, crashes, restarts, unavailable>>

StorageMajority(id) == Cardinality(put[id].oks) >= Cardinality(put[id].reps) \div 2 + 1

\* Seeded bug: the cleanup goes to all replicas, not to the written ones.
PutDecide_CleansAll(id) ==
    /\ put[id].pc = "write"
    /\ put[id].todo = {}
    /\ put' = [put EXCEPT ![id] = IF StorageMajority(id) THEN [@ EXCEPT !.pc = "meta"]
                                  ELSE [@ EXCEPT !.pc = "cleanup", !.oks = put[id].reps]]
    /\ UNCHANGED <<tableVars, nodeVars, get, rep, obsVars, cntVars>>

\* All replicas were tried: go on to the metadata write, or clean up.
PutDecide(id) ==
    /\ put[id].pc = "write"
    /\ put[id].todo = {}
    /\ put' = [put EXCEPT ![id].pc = IF StorageMajority(id) THEN "meta" ELSE "cleanup"]
    /\ UNCHANGED <<tableVars, nodeVars, get, rep, obsVars, cntVars>>

\* repl_->write(PUT_CHUNK) commits and is applied; the client gets OK.
PutCommit(id) ==
    /\ put[id].pc = "meta"
    /\ ApplyPutChunk(put[id].c, put[id].ver, put[id].reps)
    /\ put' = [put EXCEPT ![id].pc = "ok"]
    /\ stale' = stale \union put[id].prior
    /\ UNCHANGED <<alive, nodeVars, get, rep, started, passed, seen, cntVars>>

\* It returns UNAVAILABLE: the entry stays in the log.  Followed by LeaderRestart,
\* this is also a leader that dies inside write().
PutUnavailable(id) ==
    /\ put[id].pc = "meta"
    /\ unavailable < MaxUnavailable
    /\ unavailable' = unavailable + 1
    /\ LogOnly(PutApplied(logged, put[id].c, put[id].ver, put[id].reps), {id})
    /\ put' = [put EXCEPT ![id].pc = "cleanup"]
    /\ UNCHANGED <<alive, nodeVars, get, rep, obsVars, gets, deletes, crashes, restarts, losses>>

\* delete_chunk_from_replica on each node that had been written: every
\* version of the chunk goes.  A node that is down keeps what it has.
PutCleanup(id, n) ==
    /\ put[id].pc = "cleanup"
    /\ n \in put[id].oks
    /\ put' = [put EXCEPT ![id].oks = @ \ {n}]
    /\ IF n \in up THEN StoreRemove(n, {put[id].c}) ELSE UNCHANGED store
    /\ UNCHANGED <<tableVars, up, assigned, get, rep, obsVars, cntVars>>

PutFailed(id) ==
    /\ put[id].pc = "cleanup"
    /\ put[id].oks = {}
    /\ put' = [put EXCEPT ![id].pc = "failed"]
    /\ UNCHANGED <<tableVars, nodeVars, get, rep, obsVars, cntVars>>

\* DeleteChunk commits.  Only the table changes; the bytes stay for the
\* repair loops to collect.
DeleteChunk(c) ==
    /\ deletes < MaxDeletes
    /\ deletes' = deletes + 1
    /\ ApplyDeleteChunk(c)
    /\ stale' = stale \union Ended(c)
    /\ UNCHANGED <<alive, nodeVars, put, get, rep, started, passed, seen,
                   gets, crashes, restarts, losses, unavailable>>

\* The delete returns UNAVAILABLE.
DeleteUnavailable(c) ==
    /\ deletes < MaxDeletes /\ unavailable < MaxUnavailable
    /\ deletes' = deletes + 1 /\ unavailable' = unavailable + 1
    /\ LogOnly(DeleteApplied(logged, c), {})
    /\ UNCHANGED <<alive, nodeVars, put, get, rep, obsVars, gets, crashes, restarts, losses>>

-----------------------------------------------------------------------------
(* NimbusClient::get: the leader is asked once, then the replicas are tried  *)
(* with the version it named.                                               *)

\* GetChunkInfo finds the entry and, after get_chunk() has released the lock,
\* reads its version ...
GetInfo(r, c) ==
    /\ get[r].pc = "idle"
    /\ gets < MaxGets
    /\ gets' = gets + 1
    /\ Present(c)
    /\ get' = [get EXCEPT ![r] = [pc |-> "info", c |-> c, ver |-> table[c].version,
                                  from |-> {}, stale |-> stale, passed |-> passed]]
    /\ UNCHANGED <<tableVars, nodeVars, put, rep, obsVars, deletes, crashes, restarts, losses,
                   unavailable>>

\* ... and its replica sets, which a put or reconfiguration may have replaced
\* since.  An entry deleted in between yields no replica.
GetReplicas(r) ==
    /\ get[r].pc = "info"
    /\ get' = [get EXCEPT ![r].pc = "read",
                          ![r].from = table[get[r].c].reps \union table[get[r].c].old]
    /\ UNCHANGED <<tableVars, nodeVars, put, rep, obsVars, cntVars>>

GetRead(r, n) ==
    LET c == get[r].c
    IN /\ get[r].pc = "read"
       /\ n \in get[r].from
       /\ Serves(n, c, get[r].ver)
       /\ LET id == store[n][c][LatestVersion(n, c)]
          IN /\ seen' = seen \union {[id |-> id, stale |-> get[r].stale,
                                      passed |-> get[r].passed]}
             /\ passed' = passed \union put[id].prior
       /\ get' = [get EXCEPT ![r] = NoGet]
       /\ UNCHANGED <<tableVars, nodeVars, put, rep, started, stale, cntVars>>

\* All attempts failed: every replica was down, lacked the version or did not
\* answer.  A read that is lost changes nothing, so it is not counted.
GetFailed(r) ==
    /\ get[r].pc \in {"info", "read"}
    /\ get' = [get EXCEPT ![r] = NoGet]
    /\ UNCHANGED <<tableVars, nodeVars, put, rep, obsVars, cntVars>>

-----------------------------------------------------------------------------
(* Storage nodes: StatsReporter::run_once and ReplicaRepair::run_once       *)

\* The heartbeat commits and brings back the assignment of the moment, which
\* only the repair loop reads.
Heartbeat(n) ==
    /\ n \in up
    /\ ApplyHeartbeat(n)
    /\ assigned' = [assigned EXCEPT ![n] = IF n \in Repairers THEN AssignedTo(n) ELSE {}]
    /\ UNCHANGED <<store, up, put, get, rep, obsVars, cntVars>>

\* The metadata write behind the heartbeat fails: the reply carries no
\* assignment, and the node takes that for its new assignment.
HeartbeatRefused(n) ==
    /\ n \in up
    /\ unavailable < MaxUnavailable
    /\ unavailable' = unavailable + 1
    /\ assigned' = [assigned EXCEPT ![n] = {}]
    /\ UNCHANGED <<tableVars, store, up, put, get, rep, obsVars,
                   gets, deletes, crashes, restarts, losses>>

\* has_assignment_snapshot_ only matters while the list is empty.
RepairBegin(n) ==
    /\ n \in up \intersect Repairers
    /\ rep[n].pc = "idle"
    /\ assigned[n] # {}
    /\ rep' = [rep EXCEPT ![n] = [NoRep EXCEPT !.pc = "scan", !.set = assigned[n],
                                               !.todo = assigned[n]]]
    /\ UNCHANGED <<tableVars, nodeVars, put, get, obsVars, cntVars>>

\* GetChunkInfo for the next assigned chunk; one the table has lost is skipped.
RepairInfo(n, c) ==
    /\ rep[n].pc = "scan"
    /\ c \in rep[n].todo
    /\ rep' = [rep EXCEPT ![n] =
                 IF Present(c)
                 THEN [@ EXCEPT !.pc = "fetch", !.todo = rep[n].todo \ {c}, !.c = c,
                                !.ver = table[c].version, !.peers = table[c].reps \ {n}]
                 ELSE [@ EXCEPT !.todo = rep[n].todo \ {c}]]
    /\ UNCHANGED <<tableVars, nodeVars, put, get, obsVars, cntVars>>

\* Seeded bug: any local version will do.
RepairSkip_AnyVersion(n) ==
    /\ rep[n].pc = "fetch"
    /\ \/ Held(n, rep[n].c) # {}
       \/ \A p \in rep[n].peers : ~Serves(p, rep[n].c, rep[n].ver)
    /\ rep' = [rep EXCEPT ![n] = [NoRep EXCEPT !.pc = "scan", !.set = rep[n].set,
                                               !.todo = rep[n].todo]]
    /\ UNCHANGED <<tableVars, nodeVars, put, get, obsVars, cntVars>>

\* The local version is recent enough, or no peer can serve the target.
RepairSkip(n) ==
    /\ rep[n].pc = "fetch"
    /\ \/ LatestVersion(n, rep[n].c) >= rep[n].ver
       \/ \A p \in rep[n].peers : ~Serves(p, rep[n].c, rep[n].ver)
    /\ rep' = [rep EXCEPT ![n] = [NoRep EXCEPT !.pc = "scan", !.set = rep[n].set,
                                               !.todo = rep[n].todo]]
    /\ UNCHANGED <<tableVars, nodeVars, put, get, obsVars, cntVars>>

\* Seeded bug: the data is stored under the target version.
RepairFetch_TargetVersion(n, p) ==
    LET c == rep[n].c
    IN /\ rep[n].pc = "fetch"
       /\ LatestVersion(n, c) < rep[n].ver
       /\ p \in rep[n].peers
       /\ Serves(p, c, rep[n].ver)
       /\ rep' = [rep EXCEPT ![n] = [@ EXCEPT !.pc = "store", !.peers = {},
                                              !.data = store[p][c][LatestVersion(p, c)]]]
       /\ UNCHANGED <<tableVars, nodeVars, put, get, obsVars, cntVars>>

\* fetch_from_peer: the latest version the peer has, at least the target.
RepairFetch(n, p) ==
    LET c == rep[n].c
    IN /\ rep[n].pc = "fetch"
       /\ LatestVersion(n, c) < rep[n].ver
       /\ p \in rep[n].peers
       /\ Serves(p, c, rep[n].ver)
       /\ rep' = [rep EXCEPT ![n] = [@ EXCEPT !.pc = "store", !.peers = {},
                                              !.ver = LatestVersion(p, c),
                                              !.data = store[p][c][LatestVersion(p, c)]]]
       /\ UNCHANGED <<tableVars, nodeVars, put, get, obsVars, cntVars>>

RepairStore(n) ==
    /\ rep[n].pc = "store"
    /\ StoreWrite(n, rep[n].c, rep[n].ver, rep[n].data)
    /\ rep' = [rep EXCEPT ![n] = [NoRep EXCEPT !.pc = "scan", !.set = rep[n].set,
                                               !.todo = rep[n].todo]]
    /\ UNCHANGED <<tableVars, up, assigned, put, get, obsVars, cntVars>>

\* Seeded bug: what is left of the work list decides, not the assignment.
RepairCollect_WorkList(n) ==
    /\ rep[n].pc = "scan"
    /\ rep[n].todo = {}
    /\ StoreRemove(n, Chunks \ rep[n].todo)
    /\ rep' = [rep EXCEPT ![n] = NoRep]
    /\ UNCHANGED <<tableVars, up, assigned, put, get, obsVars, cntVars>>

\* Remove every local chunk outside the assignment the run began with.
RepairCollect(n) ==
    /\ rep[n].pc = "scan"
    /\ rep[n].todo = {}
    /\ StoreRemove(n, Chunks \ rep[n].set)
    /\ rep' = [rep EXCEPT ![n] = NoRep]
    /\ UNCHANGED <<tableVars, up, assigned, put, get, obsVars, cntVars>>

-----------------------------------------------------------------------------
NodeCrash(n) ==
    /\ n \in up
    /\ crashes < MaxCrashes
    /\ crashes' = crashes + 1
    /\ up' = up \ {n}
    /\ assigned' = [assigned EXCEPT ![n] = {}]
    /\ rep' = [rep EXCEPT ![n] = NoRep]
    /\ UNCHANGED <<tableVars, store, put, get, obsVars, gets, deletes, restarts, losses, unavailable>>

NodeRestart(n) ==
    /\ n \notin up
    /\ up' = up \union {n}
    /\ UNCHANGED <<tableVars, store, assigned, put, get, rep, obsVars, cntVars>>

\* evict_stale_nodes(): a node that is down, or a running one whose heartbeats
\* were lost (or came in between the two clock readings of the unsigned
\* difference now_ms - last_seen_ms).
Evict(n) ==
    /\ n \in alive
    /\ n \notin up \/ losses < MaxLosses
    /\ losses' = IF n \in up THEN losses + 1 ELSE losses
    /\ EvictStaleNode(n)
    /\ UNCHANGED <<nodeVars, put, get, rep, obsVars,
                   gets, deletes, crashes, restarts, unavailable>>

\* The leader dies and starts again: the committed part of the log is replayed,
\* and cleanup_uncommitted_puts() removes the chunks of the puts above it from
\* their replicas, every version.  The puts in progress end without an answer
\* and without their own cleanup.  GetChunkInfo calls in progress fail.
\* Replaying the heartbeats makes every node alive again.
LeaderRestart ==
    /\ restarts < MaxRestarts
    /\ restarts' = restarts + 1
    /\ ReplayTable
    /\ store' = [n \in Storage |-> [c \in Chunks |->
                   IF n \in up /\ \E id \in tail : put[id].c = c /\ n \in put[id].reps
                   THEN [v \in Ids |-> NoData] ELSE store[n][c]]]
    /\ put' = [id \in Ids |-> IF id \in Active
                             THEN [put[id] EXCEPT !.pc = "failed", !.todo = {}, !.oks = {}]
                             ELSE put[id]]
    /\ get' = [r \in Readers |-> IF get[r].pc = "info" THEN NoGet ELSE get[r]]
    /\ alive' = Storage
    /\ UNCHANGED <<up, assigned, rep, obsVars, gets, deletes, crashes, losses, unavailable>>

-----------------------------------------------------------------------------
PutStep ==
    \/ \E c \in Chunks, reps \in SUBSET Storage : PutStart(c, reps)
    \/ \E id \in Ids, n \in Storage : PutWrite(id, n) \/ PutWriteLost(id, n) \/ PutCleanup(id, n)
    \/ \E id \in Ids : PutDecide(id) \/ PutCommit(id) \/ PutUnavailable(id) \/ PutFailed(id)

GetStep ==
    \E r \in Readers : \/ \E c \in Chunks : GetInfo(r, c)
                       \/ \E n \in Storage : GetRead(r, n)
                       \/ GetReplicas(r) \/ GetFailed(r)

RepairStep(n) ==
    \/ RepairBegin(n) \/ RepairStore(n) \/ RepairCollect(n)
    \/ RepairSkip(n)
    \/ \E c \in Chunks : RepairInfo(n, c)
    \/ \E p \in Storage : RepairFetch(n, p)

Next ==
    \/ PutStep
    \/ GetStep
    \/ \E c \in Chunks : DeleteChunk(c) \/ DeleteUnavailable(c)
    \/ \E n \in Storage : \/ Heartbeat(n) \/ HeartbeatRefused(n) \/ RepairStep(n)
                          \/ NodeCrash(n) \/ NodeRestart(n) \/ Evict(n)
    \/ LeaderRestart

Spec == Init /\ [][Next]_vars

\* The heartbeat and repair threads of a running storage node loop for ever
\* (storage_server.cpp).  Nothing is assumed of clients, RPCs or restarts.
FairSpec ==
    /\ Spec
    /\ \A n \in Storage : WF_vars(Heartbeat(n)) /\ WF_vars(RepairStep(n))

-----------------------------------------------------------------------------
\* Strong consistency for serial puts: a get never returns a put that had ended
\* before a put or delete of the chunk began which was acknowledged before the
\* get began.  It rests on the version the table names, on ReadChunk refusing
\* older versions and on the order of the storage and the metadata write.
NoStaleRead == \A g \in seen : g.id \notin g.stale

\* A PutChunk that is answered OK leaves its version on a majority of the
\* replica set, and neither later puts nor repair take it away from there.
AckedOnMajority ==
    \A c \in Chunks : Present(c) =>
        2 * Cardinality({n \in table[c].reps : Held(n, c) # {} /\ LatestVersion(n, c) >= table[c].version})
          > Cardinality(table[c].reps)

\* An acknowledged put can still be read from some replica (running or not):
\* failed puts, their cleanup and the repair loops do not destroy it.
AckedKept ==
    \A c \in Chunks : Present(c) =>
        \E n \in table[c].reps : Held(n, c) # {} /\ LatestVersion(n, c) >= table[c].version

\* What is stored under (chunk, version), on every node and whichever path it
\* took there (put, late write, repair), is a put of that chunk which was given
\* that version.
StoreIntegrity ==
    \A n \in Storage, c \in Chunks : \A v \in Held(n, c) :
        LET id == store[n][c][v] IN put[id].c = c /\ put[id].ver = v

\* Puts of a chunk one at a time: a WriteChunk that failed for the leader and took
\* effect, the next put's use of the table's version, and the copies that repair
\* and reconfiguration make never leave different data under one version.
\* Concurrent puts do (DocSameVersion.cfg), although the report says that "this
\* inherent versioning ensures atomicity during concurrent writes".
SameVersionSameData ==
    Active = {} =>
        \A m, n \in Storage, c \in Chunks : \A v \in Held(m, c) \intersect Held(n, c) :
            store[m][c][v] = store[n][c][v]

\* A running replica that lacks the acknowledged version gets it in the end.
Heals(n, c) ==
    (Present(c) /\ n \in table[c].reps \intersect up /\ LatestVersion(n, c) < table[c].version)
      ~> (n \notin table[c].reps \intersect up \/ LatestVersion(n, c) >= table[c].version)

\* Replica repair heals every replica: one that missed a put, through a lost
\* RPC or because it was down, fetches the version from a peer.
RepairHeals == \A n \in Storage, c \in Chunks : Heals(n, c)

-----------------------------------------------------------------------------
(* What the report and the tests say, and some schedule violates.           *)

\* The register model of the linearizability checker: once a get has returned
\* a put, a later get does not return one that had ended before that put began.
ReadsMonotonic == \A g \in seen : g.id \notin g.passed

\* "unassigned chunks are aggressively garbage-collected": the bytes of a
\* deleted chunk go away, unless the chunk is put again.
Collected ==
    \A n \in Storage, c \in Chunks :
        (deletes > 0 /\ ~Present(c) /\ n \in up /\ Held(n, c) # {})
          ~> (n \notin up \/ Present(c) \/ Held(n, c) = {})
=============================================================================
