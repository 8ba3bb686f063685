-------------------------- MODULE MetaReplication --------------------------
(***************************************************************************)
(* The metadata log of NimbusVault: one fixed leader replicates its        *)
(* write-ahead log to the followers (meta_replication.cpp,                 *)
(* meta_follower.cpp, recovery.cpp, meta_snapshot.cpp and the start-up     *)
(* code of meta_server.cpp).                                               *)
(*                                                                         *)
(*   Writers   leader threads inside MetaReplication::write()              *)
(*   Threads   <<f, t>>: t > 0 is the detached replicate_to_follower()     *)
(*             thread of write t for follower f; t = 0 is follower f       *)
(*             inside bootstrap_follower_from_leader()                     *)
(*   Calls     <<f, t, m>>: the handle_append() call thread <<f, t>> has   *)
(*             open at follower f, m = "d" for the direct AppendEntry and  *)
(*             m = "c" for one of a catch-up or bootstrap loop             *)
(*                                                                         *)
(* A write is its identity 1 .. MaxWrites.  All writes put the same chunk, *)
(* so the state of a MetaCoordinator is the put it applied last (view).    *)
(* The bytes of the chunk are module DataPlane's: a cleanup deletes every  *)
(* version of the chunk, here only the put it was run for is recorded.     *)
(* The term is left out: the leader's term_ is 1 for ever.                 *)
(***************************************************************************)
EXTENDS MetaWal, FiniteSets

CONSTANTS
    Leader,
    Followers,
    Writers,
    MaxLosses,          \* bound: AppendEntry/CommitEntry RPCs that fail
    MaxLeaderCrashes,   \* bound
    MaxFollowerCrashes, \* bound
    PowerLoss           \* whether a crash may lose what was not synced

ASSUME ConstantsAssumption ==
    /\ Nodes = Followers \union {Leader}
    /\ Leader \notin Followers
    /\ IsFiniteSet(Followers)
    /\ MaxLosses \in Nat
    /\ MaxLeaderCrashes \in Nat
    /\ MaxFollowerCrashes \in Nat
    /\ PowerLoss \in BOOLEAN

VARIABLES
    wr,         \* wr[w]: a write() call in progress
    acks,       \* ack_counts_, Absent where the map has no key
    match,      \* match[f]: FollowerState::match_index
    thr,        \* thr[<<f, t>>]: see Threads
    hnd,        \* hnd[<<f, t, m>>]: see Calls
    up,         \* up[f]: follower f is running
    view,       \* view[n]: the put the coordinator of n applied last
    started,    \* how many write() calls were made
    result,     \* result[id]: what write() returned to its caller
    cleaned,    \* the puts that a failure cleanup was run for: PutChunk's after
                \* UNAVAILABLE, or cleanup_uncommitted_puts()
    losses, leaderCrashes, followerCrashes

ctlVars == <<wr, acks, match, thr, hnd, up>>
obsVars == <<view, started, result, cleaned>>
cntVars == <<losses, leaderCrashes, followerCrashes>>
vars == <<walVars, ctlVars, obsVars, cntVars>>

Tids    == 0 .. MaxWrites
Threads == Followers \X Tids
Modes   == {"d", "c"}
Calls   == Followers \X Tids \X Modes
Absent  == -1

IdleWriter  == [pc |-> "idle", id |-> 0, idx |-> 0]
OffThread   == [pc |-> "off", idx |-> 0, k |-> 0, seen |-> 0]
NoCall      == [pc |-> "none", idx |-> 0, ent |-> 0, reg |-> 0]

Writer == {IdleWriter} \union
          [pc : {"store", "put", "persist", "spawn", "wait"}, id : Ids, idx : Index]
Thread == [pc : {"off", "lsn", "table", "install", "next", "rpc", "commit", "set"},
           idx : Counter, k : Counter, seen : Entries]
Call   == [pc : {"none", "sent", "load", "store", "put", "persist", "ok", "no"},
           idx : Counter, ent : Entries, reg : Counter]

TypeOK ==
    /\ WalTypeOK
    /\ wr \in [Writers -> Writer]
    /\ acks \in [Index -> Nat \union {Absent}]
    /\ match \in [Followers -> Counter]
    /\ thr \in [Threads -> Thread]
    /\ hnd \in [Calls -> Call]
    /\ up \in [Followers -> BOOLEAN]
    /\ view \in [Nodes -> Entries]
    /\ started \in Counter
    /\ result \in [Ids -> {"none", "OK", "UNAVAILABLE"}]
    /\ cleaned \in SUBSET Ids
    /\ losses \in Nat /\ leaderCrashes \in Nat /\ followerCrashes \in Nat

Init ==
    /\ WalInit
    /\ wr = [w \in Writers |-> IdleWriter]
    /\ acks = [i \in Index |-> Absent]
    /\ match = [f \in Followers |-> 0]
    /\ thr = [x \in Threads |-> OffThread]
    /\ hnd = [c \in Calls |-> NoCall]
    /\ up = [f \in Followers |-> TRUE]
    /\ view = [n \in Nodes |-> NoEntry]
    /\ started = 0
    /\ result = [id \in Ids |-> "none"]
    /\ cleaned = {}
    /\ losses = 0 /\ leaderCrashes = 0 /\ followerCrashes = 0

-----------------------------------------------------------------------------
(* MetaReplication::write()                                                 *)

\* int majority_needed = (total_followers + 1) / 2
MajorityNeeded == (Cardinality(Followers) + 1) \div 2

\* on_commit_(idx): apply_wal_entry of what the log holds at idx
Apply(n, i) ==
    view' = [view EXCEPT ![n] = IF ReadEntry(n, i) = NoEntry THEN @ ELSE ReadEntry(n, i)]

\* Seeded bug: last_index_++ instead of ++last_index_.
WriteLoad_PostIncrement(w) ==
    /\ wr[w].pc = "idle"
    /\ started < MaxWrites
    /\ started' = started + 1
    /\ wr' = [wr EXCEPT ![w] = [pc |-> "store", id |-> started + 1, idx |-> last[Leader]]]
    /\ UNCHANGED <<walVars, acks, match, thr, hnd, up, view, result, cleaned, cntVars>>

\* Enter append(): load of ++last_index_.
WriteLoad(w) ==
    /\ wr[w].pc = "idle"
    /\ started < MaxWrites
    /\ last[Leader] < MaxWrites
    /\ started' = started + 1
    /\ wr' = [wr EXCEPT ![w] = [pc |-> "store", id |-> started + 1,
                                idx |-> last[Leader] + 1]]
    /\ UNCHANGED <<walVars, acks, match, thr, hnd, up, view, result, cleaned, cntVars>>

WriteStore(w) ==
    /\ wr[w].pc = "store"
    /\ AppendStore(Leader, wr[w].idx)
    /\ wr' = [wr EXCEPT ![w] = [@ EXCEPT !.pc = "put"]]
    /\ UNCHANGED <<acks, match, thr, hnd, up, obsVars, cntVars>>

WritePut(w) ==
    /\ wr[w].pc = "put"
    /\ AppendPut(Leader, wr[w].idx, wr[w].id)
    /\ wr' = [wr EXCEPT ![w] = [@ EXCEPT !.pc = "persist"]]
    /\ UNCHANGED <<acks, match, thr, hnd, up, obsVars, cntVars>>

\* Seeded bug: persist_last_index() is missing.
WritePersist_Missing(w) ==
    /\ wr[w].pc = "persist"
    /\ wr' = [wr EXCEPT ![w] = [@ EXCEPT !.pc = "spawn"]]
    /\ UNCHANGED <<walVars, acks, match, thr, hnd, up, obsVars, cntVars>>

WritePersist(w) ==
    /\ wr[w].pc = "persist"
    /\ AppendPersist(Leader)
    /\ wr' = [wr EXCEPT ![w] = [@ EXCEPT !.pc = "spawn"]]
    /\ UNCHANGED <<acks, match, thr, hnd, up, obsVars, cntVars>>

\* Seeded bug: the leader counts itself although majority_needed does not.
WriteSpawn_CountsSelf(w) ==
    /\ wr[w].pc = "spawn"
    /\ acks' = [acks EXCEPT ![wr[w].idx] = 1]
    /\ thr' = [x \in Threads |->
                 IF x[2] = wr[w].id
                 THEN [pc |-> "rpc", idx |-> wr[w].idx, k |-> 0, seen |-> 0]
                 ELSE thr[x]]
    /\ hnd' = [c \in Calls |->
                 IF c[2] = wr[w].id /\ c[3] = "d"
                 THEN [pc |-> "sent", idx |-> wr[w].idx, ent |-> wr[w].id, reg |-> 0]
                 ELSE hnd[c]]
    /\ wr' = [wr EXCEPT ![w] = [@ EXCEPT !.pc = "wait"]]
    /\ UNCHANGED <<walVars, match, up, obsVars, cntVars>>

\* ack_counts_[idx] = 0 and one detached thread per follower, each of which
\* starts with the direct AppendEntry RPC.
WriteSpawn(w) ==
    /\ wr[w].pc = "spawn"
    /\ acks' = [acks EXCEPT ![wr[w].idx] = 0]
    /\ thr' = [x \in Threads |->
                 IF x[2] = wr[w].id
                 THEN [pc |-> "rpc", idx |-> wr[w].idx, k |-> 0, seen |-> 0]
                 ELSE thr[x]]
    /\ hnd' = [c \in Calls |->
                 IF c[2] = wr[w].id /\ c[3] = "d"
                 THEN [pc |-> "sent", idx |-> wr[w].idx, ent |-> wr[w].id, reg |-> 0]
                 ELSE hnd[c]]
    /\ wr' = [wr EXCEPT ![w] = [@ EXCEPT !.pc = "wait"]]
    /\ UNCHANGED <<walVars, match, up, obsVars, cntVars>>

\* The poll that finds enough acknowledgements: commit, apply and return OK,
\* all under mu_.
WriteCommit(w) ==
    /\ wr[w].pc = "wait"
    /\ acks[wr[w].idx] >= MajorityNeeded
    /\ Commit(Leader, wr[w].idx)
    /\ Apply(Leader, wr[w].idx)
    /\ result' = [result EXCEPT ![wr[w].id] = "OK"]
    /\ wr' = [wr EXCEPT ![w] = IdleWriter]
    /\ UNCHANGED <<acks, match, thr, hnd, up, started, cleaned, cntVars>>

\* The deadline passes: UNAVAILABLE.  The log entry stays; PutChunk runs its
\* cleanup.
WriteTimeout(w) ==
    /\ wr[w].pc = "wait"
    /\ result' = [result EXCEPT ![wr[w].id] = "UNAVAILABLE"]
    /\ cleaned' = cleaned \union {wr[w].id}
    /\ wr' = [wr EXCEPT ![w] = IdleWriter]
    /\ UNCHANGED <<walVars, acks, match, thr, hnd, up, view, started, cntVars>>

-----------------------------------------------------------------------------
(* MetaFollower::handle_append(), for an AppendEntry handler or for the     *)
(* bootstrap loop.  Handlers of one follower run concurrently.              *)

\* The log index the current iteration of a thread is about.
Cur(x) == IF thr[x].k = 0 THEN thr[x].idx ELSE thr[x].k

\* The thread that made call c still waits for its answer.
Awaited(c) ==
    LET x == <<c[1], c[2]>>
    IN thr[x].pc = "rpc" /\ (c[3] = "d" <=> thr[x].k = 0)

Answer(c, ans) == hnd' = [hnd EXCEPT ![c] = IF Awaited(c) THEN [NoCall EXCEPT !.pc = ans] ELSE NoCall]

\* Seeded bug: an index beyond the next one is appended instead of refused.
AppendCheck_NoGapCheck(c) ==
    LET f == c[1]
        i == hnd[c].idx
    IN /\ hnd[c].pc = "sent"
       /\ up[f]
       /\ \/ /\ i <= last[f]
             /\ Answer(c, IF ReadEntry(f, i) \in {NoEntry, hnd[c].ent} THEN "ok" ELSE "no")
          \/ /\ i > last[f]
             /\ hnd' = [hnd EXCEPT ![c] = [@ EXCEPT !.pc = "load"]]
       /\ UNCHANGED <<walVars, wr, acks, match, thr, up, obsVars, cntVars>>

\* The checks: an index that is already there is compared (a missing entry
\* counts as the same), a gap is refused, the next index is to be appended.
\* prev_log_index is always log_index - 1, so its check cannot fail here.
AppendCheck(c) ==
    LET f == c[1]
        i == hnd[c].idx
    IN /\ hnd[c].pc = "sent"
       /\ up[f]
       /\ \/ /\ i <= last[f]
             /\ Answer(c, IF ReadEntry(f, i) \in {NoEntry, hnd[c].ent} THEN "ok" ELSE "no")
          \/ /\ i > last[f] + 1
             /\ Answer(c, "no")
          \/ /\ i = last[f] + 1
             /\ hnd' = [hnd EXCEPT ![c] = [@ EXCEPT !.pc = "load"]]
       /\ UNCHANGED <<walVars, wr, acks, match, thr, up, obsVars, cntVars>>

AppendLoad(c) ==
    /\ hnd[c].pc = "load"
    /\ last[c[1]] < MaxWrites
    /\ hnd' = [hnd EXCEPT ![c] = [@ EXCEPT !.pc = "store", !.reg = last[c[1]] + 1]]
    /\ UNCHANGED <<walVars, wr, acks, match, thr, up, obsVars, cntVars>>

AppendInc(c) ==
    /\ hnd[c].pc = "store"
    /\ AppendStore(c[1], hnd[c].reg)
    /\ hnd' = [hnd EXCEPT ![c] = [@ EXCEPT !.pc = "put"]]
    /\ UNCHANGED <<wr, acks, match, thr, up, obsVars, cntVars>>

AppendWrite(c) ==
    /\ hnd[c].pc = "put"
    /\ AppendPut(c[1], hnd[c].reg, hnd[c].ent)
    /\ hnd' = [hnd EXCEPT ![c] = [@ EXCEPT !.pc = "persist"]]
    /\ UNCHANGED <<wr, acks, match, thr, up, obsVars, cntVars>>

AppendDone(c) ==
    /\ hnd[c].pc = "persist"
    /\ AppendPersist(c[1])
    /\ Answer(c, "ok")
    /\ UNCHANGED <<wr, acks, match, thr, up, obsVars, cntVars>>

-----------------------------------------------------------------------------
(* MetaReplication::replicate_to_follower()                                 *)

\* The call a thread waits for.
CallOf(x) == <<x[1], x[2], IF thr[x].k = 0 THEN "d" ELSE "c">>

\* Seeded bug: no catch-up after a refused AppendEntry.
EnterCatchUp_GivesUp(x) == OffThread

\* The direct AppendEntry failed: the catch-up loop runs from match_index + 1
\* to the thread's own index.
EnterCatchUp(x) ==
    IF match[x[1]] + 1 <= thr[x].idx
    THEN [thr[x] EXCEPT !.pc = "next", !.k = match[x[1]] + 1]
    ELSE OffThread

\* A failed AppendEntry: the direct one is followed by the catch-up loop, a
\* failure inside the loop (or of the bootstrap's append) breaks out of it.
AfterFailure(x) == IF thr[x].k = 0 THEN EnterCatchUp(x) ELSE OffThread

\* After CommitEntry: a direct append is done, the loop takes the next index.
NextIteration(x) ==
    IF thr[x].k = 0 \/ thr[x].k >= thr[x].idx
    THEN OffThread
    ELSE [thr[x] EXCEPT !.pc = "next", !.k = thr[x].k + 1]

\* Seeded bug: match_index takes the thread's own index during catch-up.
RecordAck_OwnIndex(x) ==
    LET i == Cur(x)
    IN /\ thr[x].pc = "rpc"
       /\ hnd[CallOf(x)].pc = "ok"
       /\ IF x[2] = 0 THEN UNCHANGED <<acks, match>>
          ELSE /\ acks' = [acks EXCEPT ![i] = IF @ = Absent THEN @ ELSE @ + 1]
               /\ match' = [match EXCEPT ![x[1]] = IF @ < thr[x].idx THEN thr[x].idx ELSE @]
       /\ thr' = [thr EXCEPT ![x] = [@ EXCEPT !.pc = "commit"]]
       /\ hnd' = [hnd EXCEPT ![CallOf(x)] = NoCall]
       /\ UNCHANGED <<walVars, wr, up, obsVars, cntVars>>

\* record_ack(): every success counts, whichever thread reports it.  The
\* bootstrap loop acknowledges to nobody.
RecordAck(x) ==
    LET i == Cur(x)
    IN /\ thr[x].pc = "rpc"
       /\ hnd[CallOf(x)].pc = "ok"
       /\ IF x[2] = 0 THEN UNCHANGED <<acks, match>>
          ELSE /\ acks' = [acks EXCEPT ![i] = IF @ = Absent THEN @ ELSE @ + 1]
               /\ match' = [match EXCEPT ![x[1]] = IF @ < i THEN i ELSE @]
       /\ thr' = [thr EXCEPT ![x] = [@ EXCEPT !.pc = "commit"]]
       /\ hnd' = [hnd EXCEPT ![CallOf(x)] = NoCall]
       /\ UNCHANGED <<walVars, wr, up, obsVars, cntVars>>

Rejected(x) ==
    /\ thr[x].pc = "rpc"
    /\ hnd[CallOf(x)].pc = "no"
    /\ thr' = [thr EXCEPT ![x] = AfterFailure(x)]
    /\ hnd' = [hnd EXCEPT ![CallOf(x)] = NoCall]
    /\ UNCHANGED <<walVars, wr, acks, match, up, obsVars, cntVars>>

\* The RPC fails: the follower is down or died with the call, or (bounded by
\* MaxLosses) the request, the answer or the deadline is lost.  A handler that
\* is already running goes on without its caller.
RpcFailed(x) ==
    /\ x[2] # 0
    /\ thr[x].pc = "rpc"
    /\ LET c == CallOf(x)
           dead == ~up[x[1]] \/ hnd[c].pc = "none"
       IN /\ dead \/ losses < MaxLosses
          /\ losses' = IF dead THEN losses ELSE losses + 1
          /\ hnd' = [hnd EXCEPT ![c] = IF @.pc \in {"load", "store", "put", "persist"}
                                       THEN @ ELSE NoCall]
    /\ thr' = [thr EXCEPT ![x] = AfterFailure(x)]
    /\ UNCHANGED <<walVars, wr, acks, match, up, obsVars, leaderCrashes, followerCrashes>>

\* The next iteration of a catch-up or bootstrap loop reads the leader's log
\* and sends the entry; a missing one ends the loop.
NextEntry(x) ==
    LET e == ReadEntry(Leader, thr[x].k)
        c == <<x[1], x[2], "c">>
    IN /\ thr[x].pc = "next"
       /\ IF e = NoEntry
          THEN /\ thr' = [thr EXCEPT ![x] = OffThread]
               /\ UNCHANGED hnd
          ELSE /\ thr' = [thr EXCEPT ![x] = [@ EXCEPT !.pc = "rpc"]]
               /\ hnd' = [hnd EXCEPT ![c] = [pc |-> "sent", idx |-> thr[x].k,
                                             ent |-> e, reg |-> 0]]
       /\ UNCHANGED <<walVars, wr, acks, match, up, obsVars, cntVars>>

-----------------------------------------------------------------------------
(* MetaFollower::handle_commit(): called for each entry right after its     *)
(* AppendEntry succeeded, whether or not the leader has committed it.       *)

CommitEntry(x) ==
    LET f == x[1]
        i == Cur(x)
    IN /\ thr[x].pc = "commit"
       /\ up[f]
       /\ \/ /\ i > last[f]
             /\ thr' = [thr EXCEPT ![x] = NextIteration(x)]
             /\ UNCHANGED <<walVars, view>>
          \/ /\ i <= last[f]
             /\ i > committed[f]
             /\ CommitMark(f)
             /\ thr' = [thr EXCEPT ![x] = [@ EXCEPT !.pc = "set"]]
             /\ UNCHANGED view
          \/ /\ i <= last[f]
             /\ i <= committed[f]
             /\ CommitMark(f)
             /\ Apply(f, i)
             /\ thr' = [thr EXCEPT ![x] = NextIteration(x)]
       /\ UNCHANGED <<wr, acks, match, hnd, up, started, result, cleaned, cntVars>>

\* The store to committed_ after the comparison above, and on_commit.
CommitSet(x) ==
    /\ thr[x].pc = "set"
    /\ CommitRaise(x[1], Cur(x))
    /\ Apply(x[1], Cur(x))
    /\ thr' = [thr EXCEPT ![x] = NextIteration(x)]
    /\ UNCHANGED <<wr, acks, match, hnd, up, started, result, cleaned, cntVars>>

\* The CommitEntry RPC fails; its status is ignored.
CommitLost(x) ==
    /\ x[2] # 0
    /\ thr[x].pc = "commit"
    /\ ~up[x[1]] \/ losses < MaxLosses
    /\ losses' = IF up[x[1]] THEN losses + 1 ELSE losses
    /\ thr' = [thr EXCEPT ![x] = NextIteration(x)]
    /\ UNCHANGED <<walVars, wr, acks, match, hnd, up, obsVars, leaderCrashes, followerCrashes>>

-----------------------------------------------------------------------------
(* Crashes, restarts and bootstrap                                          *)

\* What open() finds after a crash of node n.
Survives(n) == IF PowerLoss THEN {disk[n], synced[n]} ELSE {disk[n]}

\* Seeded bug: the cleanup starts at the committed index, not after it.
LeaderRestart_CleansCommitted ==
    /\ leaderCrashes < MaxLeaderCrashes
    /\ leaderCrashes' = leaderCrashes + 1
    /\ \E d \in Survives(Leader), v \in Entries :
         /\ Reopen(Leader, d)
         /\ Replayed(Leader, d.committed, v)
         /\ view' = [view EXCEPT ![Leader] = v]
         /\ cleaned' = cleaned \union
                       {log[Leader][i] : i \in {j \in Index : /\ d.committed <= j
                                                              /\ j <= d.last
                                                              /\ log[Leader][j] # NoEntry}}
    /\ wr' = [w \in Writers |-> IdleWriter]
    /\ acks' = [i \in Index |-> Absent]
    /\ match' = [f \in Followers |-> 0]
    /\ thr' = [x \in Threads |->
                 IF thr[x].pc = "set" \/ (x[2] = 0 /\ thr[x].pc \in {"rpc", "commit"})
                 THEN [thr[x] EXCEPT !.idx = Cur(x)]
                 ELSE IF thr[x].pc = "install" THEN thr[x] ELSE OffThread]
    /\ hnd' = [c \in Calls |->
                 IF c[2] = 0 \/ hnd[c].pc \in {"load", "store", "put", "persist"}
                 THEN hnd[c] ELSE NoCall]
    /\ UNCHANGED <<up, started, result, losses, followerCrashes>>

\* The leader process dies and main() runs again: open, replay, then
\* cleanup_uncommitted_puts() over the entries above committed.  Handlers that
\* are running at the followers finish on their own; everything else the
\* leader had in flight is gone.
LeaderRestart ==
    /\ leaderCrashes < MaxLeaderCrashes
    /\ leaderCrashes' = leaderCrashes + 1
    /\ \E d \in Survives(Leader), v \in Entries :
         /\ Reopen(Leader, d)
         /\ Replayed(Leader, d.committed, v)
         /\ view' = [view EXCEPT ![Leader] = v]
         /\ cleaned' = cleaned \union
                       {log[Leader][i] : i \in {j \in Index : /\ d.committed < j
                                                              /\ j <= d.last
                                                              /\ log[Leader][j] # NoEntry}}
    /\ wr' = [w \in Writers |-> IdleWriter]
    /\ acks' = [i \in Index |-> Absent]
    /\ match' = [f \in Followers |-> 0]
    /\ thr' = [x \in Threads |->
                 IF thr[x].pc = "set" \/ (x[2] = 0 /\ thr[x].pc \in {"rpc", "commit"})
                 THEN [thr[x] EXCEPT !.idx = Cur(x)]
                 ELSE IF thr[x].pc = "install" THEN thr[x] ELSE OffThread]
    /\ hnd' = [c \in Calls |->
                 IF c[2] = 0 \/ hnd[c].pc \in {"load", "store", "put", "persist"}
                 THEN hnd[c] ELSE NoCall]
    /\ UNCHANGED <<up, started, result, losses, followerCrashes>>

FollowerCrash(f) ==
    /\ up[f]
    /\ followerCrashes < MaxFollowerCrashes
    /\ followerCrashes' = followerCrashes + 1
    /\ up' = [up EXCEPT ![f] = FALSE]
    /\ \E d \in Survives(f) : Reopen(f, d)
    /\ view' = [view EXCEPT ![f] = NoEntry]
    /\ hnd' = [c \in Calls |-> IF c[1] = f THEN NoCall ELSE hnd[c]]
    /\ thr' = [x \in Threads |->
                 IF x[1] = f /\ x[2] = 0 THEN OffThread
                 ELSE IF x[1] = f /\ thr[x].pc = "set" THEN NextIteration(x)
                 ELSE thr[x]]
    /\ UNCHANGED <<wr, acks, match, started, result, cleaned, losses, leaderCrashes>>

\* main() of a follower: replay, start the server, then bootstrap.
FollowerRestart(f) ==
    /\ ~up[f]
    /\ up' = [up EXCEPT ![f] = TRUE]
    /\ \E v \in Entries :
         /\ Replayed(f, committed[f], v)
         /\ view' = [view EXCEPT ![f] = v]
    /\ thr' = [thr EXCEPT ![<<f, 0>>] = [OffThread EXCEPT !.pc = "lsn"]]
    /\ UNCHANGED <<walVars, wr, acks, match, hnd, started, result, cleaned, cntVars>>

\* take_snapshot() at the leader reads the committed index first, ...
SnapshotLsn(f) ==
    LET x == <<f, 0>>
    IN /\ thr[x].pc = "lsn"
       /\ thr' = [thr EXCEPT ![x] = [@ EXCEPT !.pc = "table", !.k = committed[Leader]]]
       /\ UNCHANGED <<walVars, wr, acks, match, hnd, up, obsVars, cntVars>>

\* ... then the tables.
SnapshotTable(f) ==
    LET x == <<f, 0>>
    IN /\ thr[x].pc = "table"
       /\ thr' = [thr EXCEPT ![x] = [@ EXCEPT !.pc = "install", !.seen = view[Leader]]]
       /\ UNCHANGED <<walVars, wr, acks, match, hnd, up, obsVars, cntVars>>

\* install_snapshot() replaces the follower's tables; FetchLogEntries then
\* streams the leader's entries from snapshot_lsn + 1 up to the last index it
\* read when the call arrived.  Neither moves the follower's own log to the
\* snapshot's index.
SnapshotInstall(f) ==
    LET x == <<f, 0>>
    IN /\ thr[x].pc = "install"
       /\ view' = [view EXCEPT ![f] = thr[x].seen]
       /\ thr' = [thr EXCEPT ![x] =
                    IF thr[x].k < last[Leader]
                    THEN [pc |-> "next", idx |-> last[Leader], k |-> thr[x].k + 1, seen |-> 0]
                    ELSE OffThread]
       /\ UNCHANGED <<walVars, wr, acks, match, hnd, up, started, result, cleaned, cntVars>>

\* The leader cannot be reached for the snapshot, or the stream breaks: once
\* per start of the follower, so it needs no bound of its own.
BootstrapFailed(f) ==
    LET x == <<f, 0>>
    IN /\ thr[x].pc \in {"lsn", "table", "next"}
       /\ thr' = [thr EXCEPT ![x] = OffThread]
       /\ UNCHANGED <<walVars, wr, acks, match, hnd, up, obsVars, cntVars>>

-----------------------------------------------------------------------------
WriteStep(w) ==
    \/ WriteLoad(w) \/ WriteStore(w) \/ WritePut(w) \/ WritePersist(w)
    \/ WriteSpawn(w) \/ WriteCommit(w) \/ WriteTimeout(w)

CallStep(c) ==
    \/ AppendCheck(c) \/ AppendLoad(c) \/ AppendInc(c)
    \/ AppendWrite(c) \/ AppendDone(c)

ThreadStep(x) ==
    \/ RecordAck(x) \/ Rejected(x) \/ RpcFailed(x) \/ NextEntry(x)
    \/ CommitEntry(x) \/ CommitSet(x) \/ CommitLost(x)

BootstrapStep(f) ==
    \/ FollowerRestart(f) \/ SnapshotLsn(f) \/ SnapshotTable(f)
    \/ SnapshotInstall(f) \/ BootstrapFailed(f)

Next ==
    \/ \E w \in Writers : WriteStep(w)
    \/ \E c \in Calls : CallStep(c)
    \/ \E x \in Threads : ThreadStep(x)
    \/ \E f \in Followers : BootstrapStep(f) \/ FollowerCrash(f)
    \/ LeaderRestart

Spec == Init /\ [][Next]_vars

-----------------------------------------------------------------------------
(* Schedules in which the sections that read, test and update a log's       *)
(* counters without a lock do not overlap on one node.  Spec allows every   *)
(* overlap, as the code does; SerialSpec singles out these schedules.       *)

LeaderSection == {w \in Writers : wr[w].pc \in {"store", "put", "persist"}}

AppendSection(f) ==
    {c \in Calls : c[1] = f /\ hnd[c].pc \in {"load", "store", "put", "persist"}}

CommitSection(f) == {x \in Threads : x[1] = f /\ thr[x].pc = "set"}

Serial ==
    /\ \A w \in Writers :
          wr[w].pc = "idle" /\ wr'[w].pc = "store" => LeaderSection = {}
    /\ \A c \in Calls :
          hnd[c].pc = "sent" /\ hnd'[c].pc \in {"load", "ok", "no"} => AppendSection(c[1]) = {}
    /\ \A x \in Threads :
          thr[x].pc = "commit" /\ thr'[x].pc = "set" => CommitSection(x[1]) = {}
    /\ \A x \in Threads :
          thr[x].pc = "install" /\ thr'[x].pc = "next" => LeaderSection = {}

SerialSpec == Init /\ [][Next /\ Serial]_vars

-----------------------------------------------------------------------------
\* TypeOK (above) is the type invariant.

\* The entries a follower holds durably are the leader's, at the same
\* indices: handle_append()'s comparison and gap check keep every follower's
\* log a prefix of the leader's through lost RPCs, catch-up, crashes and
\* bootstrap.
LogMatching ==
    \A f \in Followers : \A i \in Index :
        i <= disk[f].last => /\ i <= disk[Leader].last
                             /\ log[f][i] = log[Leader][i]

\* A put that was answered OK is replayed by every later start of the leader, and
\* neither PutChunk nor cleanup_uncommitted_puts() ever takes it for a failed put
\* and runs a cleanup for it.
OkDurable ==
    \A id \in Ids : result[id] = "OK" =>
        /\ id \notin cleaned
        /\ \E i \in Index : i <= disk[Leader].committed /\ log[Leader][i] = id

\* write() returns OK only when a majority of the servers, the leader
\* included, hold the entry on disk.
OkOnMajority ==
    \A id \in Ids : result[id] = "OK" =>
        2 * (1 + Cardinality({f \in Followers :
                 \E i \in Index : i <= disk[f].last /\ log[f][i] = id}))
          > Cardinality(Followers) + 1

\* match_index never runs ahead of what the follower holds: the catch-up loop
\* starts at match_index + 1 and would never send what lies below.
MatchSound == \A f \in Followers : match[f] <= disk[f].last

\* What a follower shows stands in the leader's persisted log, although
\* CommitEntry makes followers apply an entry before the leader has a majority
\* for it and the write may fail: a restart of the leader does not drop it.
AppliedStands ==
    \A f \in Followers : view[f] # NoEntry =>
        \E i \in Index : i <= disk[Leader].last /\ log[Leader][i] = view[f]

KeepsCommitted ==
    /\ committed'[Leader] >= committed[Leader]
    /\ \A i \in Index : i <= committed[Leader] => log'[Leader][i] = log[Leader][i]

\* What the leader has committed stays: no step, restarts included, moves
\* committed_ back or changes an entry at or below it.
CommittedStable == [][KeepsCommitted]_vars

NotOlder ==
    \A i \in Index : view[Leader] # NoEntry /\ log[Leader][i] = view[Leader] =>
        \E j \in Index : i <= j /\ log'[Leader][j] = view'[Leader]

\* Tables rebuilt by replay() after a crash of the leader never show an older
\* put than the tables showed before it, although entries are applied in the
\* order of their majorities and replayed in the order of their indices.
ReplayNotOlder == [][leaderCrashes' # leaderCrashes => NotOlder]_vars

(* The refinement: the committed part of the leader's log is the chain.    *)
CommittedChain == [i \in 1 .. committed[Leader] |-> log[Leader][i]]

Promise == INSTANCE CommitLog WITH chain <- CommittedChain, answer <- result

\* write() keeps the promise of CommitLog through crashes of the leader and of
\* followers, lost RPCs and timeouts: nothing is committed except by the step
\* that answers OK, nothing committed is ever withdrawn, moved or committed
\* twice, and no caller gets two answers.
ImplementsCommitLog == Promise!Spec

\* With reliable RPCs and no crash, every entry of the leader's log is in the
\* end held and committed by every follower, whatever order the AppendEntry
\* RPCs of concurrent writes arrive in.
EntriesReplicated ==
    \A i \in Index :
        (i <= disk[Leader].last) ~> (\A f \in Followers : i <= disk[f].committed)

-----------------------------------------------------------------------------
(* The inductive invariant behind the safety properties of SerialSpec when  *)
(* a crash loses nothing that RocksDB was given (~PowerLoss).  The first    *)
(* three parts speak of the leader alone.                                   *)

\* One append() at a time, and how far it has got with the counters.
LeaderCounters ==
    /\ committed[Leader] = disk[Leader].committed
    /\ disk[Leader].committed <= disk[Leader].last
    /\ \A v, w \in Writers : v \in LeaderSection /\ w \in LeaderSection => v = w
    /\ LeaderSection = {} => last[Leader] = disk[Leader].last
    /\ \A w \in Writers :
          /\ wr[w].pc = "store" => /\ last[Leader] = disk[Leader].last
                                   /\ wr[w].idx = last[Leader] + 1
          /\ wr[w].pc \in {"put", "persist"} => /\ last[Leader] = disk[Leader].last + 1
                                                /\ wr[w].idx = last[Leader]
          /\ wr[w].pc = "persist" => log[Leader][wr[w].idx] = wr[w].id
          /\ wr[w].pc \in {"spawn", "wait"} => /\ wr[w].idx <= disk[Leader].last
                                               /\ log[Leader][wr[w].idx] = wr[w].id

\* A write has an identity of its own and stands at one index.
FreshIds ==
    /\ \A i \in Index : log[Leader][i] <= started
    /\ \A i, j \in Index : i < j /\ j <= disk[Leader].last => log[Leader][i] # log[Leader][j]
    /\ \A w \in Writers : wr[w].pc # "idle" =>
          /\ wr[w].id <= started
          /\ result[wr[w].id] = "none"
          /\ wr[w].id \notin cleaned
          /\ w \in LeaderSection =>
                \A i \in Index : i <= disk[Leader].last => log[Leader][i] # wr[w].id
    /\ \A v, w \in Writers : v # w /\ wr[v].pc # "idle" => wr[v].id # wr[w].id
    /\ \A id \in Ids : id > started => result[id] = "none" /\ id \notin cleaned

LeaderInv == LeaderCounters /\ FreshIds /\ OkDurable

\* One handle_append() past its checks at a time, and how far it has got.
FollowerCounters ==
    /\ \A c, e \in Calls :
          c \in AppendSection(e[1]) /\ e \in AppendSection(e[1]) => c = e
    /\ \A f \in Followers : AppendSection(f) = {} => last[f] = disk[f].last
    /\ \A c \in Calls :
          /\ hnd[c].pc = "load" => /\ last[c[1]] = disk[c[1]].last
                                   /\ hnd[c].idx = last[c[1]] + 1
          /\ hnd[c].pc = "store" => /\ last[c[1]] = disk[c[1]].last
                                    /\ hnd[c].reg = last[c[1]] + 1
                                    /\ hnd[c].idx = hnd[c].reg
          /\ hnd[c].pc \in {"put", "persist"} => /\ last[c[1]] = disk[c[1]].last + 1
                                                 /\ hnd[c].reg = last[c[1]]
                                                 /\ hnd[c].idx = hnd[c].reg
          /\ hnd[c].pc = "persist" => log[c[1]][hnd[c].reg] = hnd[c].ent

\* What is sent to a follower is what the leader holds durably.
CallsFromLog ==
    \A c \in Calls : hnd[c].pc \in {"sent", "load", "store", "put", "persist"} =>
        /\ hnd[c].idx \in Index
        /\ hnd[c].idx <= disk[Leader].last
        /\ hnd[c].ent = log[Leader][hnd[c].idx]

ThreadsInLog ==
    \A x \in Threads : thr[x].pc \in {"next", "rpc", "commit", "set"} =>
        /\ Cur(x) \in Index
        /\ Cur(x) <= thr[x].idx
        /\ thr[x].idx <= disk[Leader].last

\* A write that has not spawned its threads has neither threads nor calls, a
\* thread outside a catch-up RPC has no catch-up call open, and a bootstrap
\* lives and dies with its follower.
CallOwners ==
    /\ \A w \in Writers : wr[w].pc \in {"store", "put", "persist", "spawn"} =>
          /\ \A x \in Threads : x[2] = wr[w].id => thr[x].pc = "off"
          /\ \A c \in Calls : c[2] = wr[w].id => hnd[c].pc = "none"
    /\ \A x \in Threads : x[2] > started => thr[x].pc = "off"
    /\ \A c \in Calls : c[2] > started => hnd[c].pc = "none"
    /\ \A x \in Threads :
          \/ thr[x].pc = "rpc" /\ thr[x].k # 0
          \/ thr[x].pc = "off" /\ x[2] # 0
          \/ hnd[<<x[1], x[2], "c">>].pc = "none"
    /\ \A f \in Followers : thr[<<f, 0>>].pc # "off" => up[f]

LogInv == FollowerCounters /\ CallsFromLog /\ ThreadsInLog /\ CallOwners /\ LogMatching

\* A success that is reported, counted or followed by CommitEntry is a
\* success: the follower holds the entry durably.
AcksSound ==
    /\ \A x \in Threads : thr[x].pc = "rpc" =>
          /\ hnd[CallOf(x)].pc \in {"sent", "load", "store", "put", "persist"} =>
                hnd[CallOf(x)].idx = Cur(x)
          /\ hnd[CallOf(x)].pc = "ok" => Cur(x) <= disk[x[1]].last
    /\ \A x \in Threads : thr[x].pc \in {"commit", "set"} => Cur(x) <= disk[x[1]].last
    /\ MatchSound
    /\ \A i \in Index : acks[i] > 0 => \E f \in Followers : i <= disk[f].last
-----------------------------------------------------------------------------
\* What documents, comments and assertions of the repository say, and some
\* schedule of the code violates.

\* assert(log_index <= last_index_) in MetaWal::commit().
CommitAssert == committed[Leader] <= last[Leader]

\* "treat as idempotent": a follower never holds one entry at two indices.
AppendIdempotent ==
    \A f \in Followers : \A i, j \in Index :
        i < j /\ log[f][i] # NoEntry => log[f][i] # log[f][j]

\* An entry whose write() did not commit is not replayed.
UncommittedNotReplayed ==
    \A i \in Index : i <= disk[Leader].committed => result[log[Leader][i]] # "UNAVAILABLE"

\* A follower's tables show no put that the leader reported as failed.
FollowerViewConsistent ==
    \A f \in Followers : view[f] # NoEntry => result[view[f]] # "UNAVAILABLE"

\* Replaying the log at restart restores the leader's tables.
ReplayRestores == [][leaderCrashes' # leaderCrashes => view'[Leader] = view[Leader]]_vars
=============================================================================
