------------------------ MODULE MetaDurabilityProofs ------------------------
(***************************************************************************)
(* Theorems about the metadata log, for every number of followers, writers *)
(* and writes.  First type correctness, with every overlap, crash and      *)
(* loss.  Then what the leader alone guarantees as long as its append()    *)
(* calls do not overlap and a crash loses nothing RocksDB was given: a put *)
(* answered OK is replayed after every restart and no cleanup is ever run  *)
(* for it.  The followers may do anything, race included.                  *)
(***************************************************************************)
EXTENDS MetaReplication, TLAPS, SequenceTheorems

(***************************************************************************)
(* Facts about the sets the state is typed with.                           *)
(***************************************************************************)

ActiveWriter == [pc : {"store", "put", "persist", "spawn", "wait"}, id : Ids, idx : Index]

\* Indices and identities are counters and entries; the leader is a node.
LEMMA Sets ==
    /\ Leader \in Nodes
    /\ Followers \subseteq Nodes
    /\ Index \subseteq Counter
    /\ Ids \subseteq Entries
    /\ Index = Ids
    /\ Counter = Entries
    /\ 0 \in Counter
    /\ NoEntry = 0
    /\ NoEntry \notin Ids
    /\ Counter \subseteq Nat
    /\ \A i \in Counter : i = 0 \/ i \in Index
    /\ \A i \in Counter : i < MaxWrites => i + 1 \in Index
    /\ \A i \in Counter : \A j \in Counter : i < j => i + 1 \in Index
  BY MaxWritesAssumption, ConstantsAssumption
     DEF Index, Counter, Ids, Entries, NoEntry

\* The constant records are of their types.
LEMMA Blank ==
    /\ IdleWriter \in Writer
    /\ OffThread \in Thread
    /\ NoCall \in Call
    /\ \A a \in {"ok", "no"} : [NoCall EXCEPT !.pc = a] \in Call
  BY Sets DEF IdleWriter, Writer, OffThread, Thread, NoCall, Call

\* A writer that is not idle has an identity and an index, and keeps them
\* when its program counter moves.
LEMMA Active ==
    ASSUME NEW r \in Writer, r.pc # "idle"
    PROVE  /\ r \in ActiveWriter
           /\ r.id \in Ids
           /\ r.idx \in Index
           /\ \A p \in {"put", "persist", "spawn", "wait"} : [r EXCEPT !.pc = p] \in Writer
  BY DEF Writer, IdleWriter, ActiveWriter

\* Reading a log yields an entry.
LEMMA Reads ==
    ASSUME TypeOK, NEW n \in Nodes, NEW i
    PROVE  ReadEntry(n, i) \in Entries
<1>1. log[n] \in [Index -> Entries]
  BY DEF TypeOK, WalTypeOK
<1>2. CASE i \in Index
  BY <1>1, <1>2 DEF ReadEntry
<1>3. CASE i \notin Index
  BY <1>3, Sets DEF ReadEntry
<1> QED BY <1>2, <1>3

\* The logs start empty and nobody is active: the initial state is well typed.
LEMMA InitType == Init => TypeOK
  BY Sets, Blank, MaxWritesAssumption
     DEF Init, TypeOK, WalInit, WalTypeOK, Saved, Absent

(***************************************************************************)
(* The log operations keep the logs' types.                                *)
(***************************************************************************)
\* append() storing last_index_ keeps the logs well typed.
LEMMA StoreType ==
    ASSUME WalTypeOK, NEW n \in Nodes, NEW r \in Counter, AppendStore(n, r)
    PROVE  WalTypeOK'
  BY DEF WalTypeOK, AppendStore

\* append() writing its record keeps the logs well typed.
LEMMA PutType ==
    ASSUME WalTypeOK, NEW n \in Nodes, NEW r \in Counter, NEW e \in Entries, AppendPut(n, r, e)
    PROVE  WalTypeOK'
  BY DEF WalTypeOK, AppendPut

\* append() writing its counters keeps the logs well typed.
LEMMA PersistType ==
    ASSUME WalTypeOK, NEW n \in Nodes, AppendPersist(n)
    PROVE  WalTypeOK'
  BY DEF WalTypeOK, AppendPersist, Saved

\* commit() writing the index's mark keeps the logs well typed.
LEMMA MarkType ==
    ASSUME WalTypeOK, NEW n \in Nodes, CommitMark(n)
    PROVE  WalTypeOK'
  BY DEF WalTypeOK, CommitMark

\* commit() raising committed_ keeps the logs well typed.
LEMMA RaiseType ==
    ASSUME WalTypeOK, NEW n \in Nodes, NEW i \in Counter, CommitRaise(n, i)
    PROVE  WalTypeOK'
  BY DEF WalTypeOK, CommitRaise, Saved

\* The whole of commit() keeps the logs well typed.
LEMMA CommitType ==
    ASSUME WalTypeOK, NEW n \in Nodes, NEW i \in Counter, Commit(n, i)
    PROVE  WalTypeOK'
<1>1. CASE i > committed[n]
  <2>1. committed' \in [Nodes -> Counter] /\ synced' \in [Nodes -> Saved]
    BY <1>1 DEF WalTypeOK, Commit
  <2>2. disk' = [disk EXCEPT ![n] = [last |-> disk[n].last, committed |-> i]]
    BY <1>1 DEF Commit
  <2>3. [last |-> disk[n].last, committed |-> i] \in Saved
    BY DEF WalTypeOK, Saved
  <2>4. disk' \in [Nodes -> Saved]
    BY <2>2, <2>3 DEF WalTypeOK
  <2> QED BY <2>1, <2>4 DEF WalTypeOK, Commit
<1>2. CASE ~(i > committed[n])
  BY <1>2 DEF WalTypeOK, Commit
<1> QED BY <1>1, <1>2

\* open() after a crash, from the synced or the unsynced counters, is well typed.
LEMMA ReopenType ==
    ASSUME WalTypeOK, NEW n \in Nodes, NEW d \in Saved, Reopen(n, d)
    PROVE  WalTypeOK'
  BY DEF WalTypeOK, Reopen, Saved

\* Steps that leave the logs alone keep them well typed.
LEMMA SameType ==
    ASSUME WalTypeOK, UNCHANGED walVars
    PROVE  WalTypeOK'
  BY DEF WalTypeOK, walVars

\* Applying a read entry keeps the in-memory tables well typed.
LEMMA ApplyType ==
    ASSUME TypeOK, NEW n \in Nodes, NEW i, Apply(n, i)
    PROVE  view' \in [Nodes -> Entries]
  BY Reads DEF TypeOK, Apply

\* Every step of write() preserves the types.
LEMMA WriteType ==
    ASSUME TypeOK, NEW w \in Writers, WriteStep(w)
    PROVE  TypeOK'
<1>0. wr[w] \in Writer /\ WalTypeOK
  BY DEF TypeOK
<1>1. CASE WriteLoad(w)
  <2>1. last[Leader] + 1 \in Index /\ started + 1 \in Ids /\ started' \in Counter
    BY <1>1, Sets DEF WriteLoad, TypeOK, WalTypeOK
  <2>2. [pc |-> "store", id |-> started + 1, idx |-> last[Leader] + 1] \in Writer
    BY <2>1 DEF Writer
  <2> QED BY <1>1, <1>0, <2>1, <2>2, SameType DEF WriteLoad, TypeOK, cntVars
<1>2. CASE WriteStore(w)
  <2>1. WalTypeOK'
    BY <1>0, <1>2, Active, Sets, StoreType DEF WriteStore
  <2> QED BY <1>0, <1>2, <2>1, Active DEF WriteStore, TypeOK, obsVars, cntVars
<1>3. CASE WritePut(w)
  <2>1. WalTypeOK'
    BY <1>0, <1>3, Active, Sets, PutType DEF WritePut
  <2> QED BY <1>0, <1>3, <2>1, Active DEF WritePut, TypeOK, obsVars, cntVars
<1>4. CASE WritePersist(w)
  <2>1. WalTypeOK'
    BY <1>0, <1>4, Sets, PersistType DEF WritePersist
  <2> QED BY <1>0, <1>4, <2>1, Active DEF WritePersist, TypeOK, obsVars, cntVars
<1>5. CASE WriteSpawn(w)
  <2>1. wr[w].idx \in Counter /\ wr[w].idx \in Index /\ wr[w].id \in Entries
    BY <1>0, <1>5, Active, Sets DEF WriteSpawn
  <2>2. [pc |-> "rpc", idx |-> wr[w].idx, k |-> 0, seen |-> 0] \in Thread
    BY <2>1, Sets DEF Thread
  <2>3. [pc |-> "sent", idx |-> wr[w].idx, ent |-> wr[w].id, reg |-> 0] \in Call
    BY <2>1, Sets DEF Call
  <2>4. thr' \in [Threads -> Thread] /\ hnd' \in [Calls -> Call]
    BY <1>5, <2>2, <2>3 DEF WriteSpawn, TypeOK
  <2>5. acks' \in [Index -> Nat \union {Absent}]
    BY <1>5, <2>1 DEF WriteSpawn, TypeOK
  <2> QED BY <1>0, <1>5, <2>4, <2>5, Active, SameType DEF WriteSpawn, TypeOK, obsVars, cntVars
<1>6. CASE WriteCommit(w)
  <2>1. wr[w].idx \in Counter
    BY <1>0, <1>6, Active, Sets DEF WriteCommit
  <2>2. WalTypeOK' /\ view' \in [Nodes -> Entries]
    BY <1>0, <1>6, <2>1, Sets, CommitType, ApplyType DEF WriteCommit
  <2> QED BY <1>6, <2>2, Blank DEF WriteCommit, TypeOK, cntVars
<1>7. CASE WriteTimeout(w)
  <2>1. wr[w].id \in Ids
    BY <1>0, <1>7, Active DEF WriteTimeout
  <2> QED BY <1>0, <1>7, <2>1, Blank, SameType DEF WriteTimeout, TypeOK, cntVars
<1> QED BY <1>1, <1>2, <1>3, <1>4, <1>5, <1>6, <1>7 DEF WriteStep

\* Every step of a handle_append call on a follower preserves the types.
LEMMA CallType ==
    ASSUME TypeOK, NEW c \in Calls, CallStep(c)
    PROVE  TypeOK'
<1>0. c[1] \in Followers /\ c[1] \in Nodes /\ hnd[c] \in Call /\ WalTypeOK
  BY Sets DEF Calls, TypeOK
<1>1. hnd[c].idx \in Counter /\ hnd[c].ent \in Entries /\ hnd[c].reg \in Counter
  BY <1>0 DEF Call
<1>2. \A p \in {"load", "store", "put", "persist"} :
        /\ [hnd[c] EXCEPT !.pc = p] \in Call
        /\ \A r \in Counter : [hnd[c] EXCEPT !.pc = p, !.reg = r] \in Call
  BY <1>0 DEF Call
<1>3. ASSUME NEW a \in {"ok", "no"}, Answer(c, a) PROVE hnd' \in [Calls -> Call]
  BY <1>3, Blank DEF Answer, TypeOK
<1>4. CASE AppendCheck(c)
  <2>1. hnd' \in [Calls -> Call]
    BY <1>2, <1>3, <1>4 DEF AppendCheck, TypeOK
  <2> QED BY <1>0, <1>4, <2>1, SameType DEF AppendCheck, TypeOK, obsVars, cntVars
<1>5. CASE AppendLoad(c)
  <2>1. last[c[1]] + 1 \in Counter
    BY <1>0, <1>5, Sets DEF AppendLoad, WalTypeOK
  <2> QED BY <1>0, <1>2, <1>5, <2>1, SameType DEF AppendLoad, TypeOK, obsVars, cntVars
<1>6. CASE AppendInc(c)
  BY <1>0, <1>1, <1>2, <1>6, StoreType DEF AppendInc, TypeOK, obsVars, cntVars
<1>7. CASE AppendWrite(c)
  BY <1>0, <1>1, <1>2, <1>7, PutType DEF AppendWrite, TypeOK, obsVars, cntVars
<1>8. CASE AppendDone(c)
  BY <1>0, <1>3, <1>8, PersistType DEF AppendDone, TypeOK, obsVars, cntVars
<1> QED BY <1>4, <1>5, <1>6, <1>7, <1>8 DEF CallStep

\* Every step of a replicate_to_follower thread preserves the types.
LEMMA ThreadType ==
    ASSUME TypeOK, NEW x \in Threads, ThreadStep(x)
    PROVE  TypeOK'
<1>0. x[1] \in Followers /\ x[1] \in Nodes /\ thr[x] \in Thread /\ WalTypeOK
  BY Sets DEF Threads, TypeOK
<1>1. thr[x].idx \in Counter /\ thr[x].k \in Counter /\ Cur(x) \in Counter
  BY <1>0 DEF Thread, Cur
<1>2. /\ \A p \in {"next", "rpc", "commit", "set"} : [thr[x] EXCEPT !.pc = p] \in Thread
      /\ \A j \in Counter : [thr[x] EXCEPT !.pc = "next", !.k = j] \in Thread
  BY <1>0 DEF Thread
<1>3. AfterFailure(x) \in Thread
  <2>1. match[x[1]] \in Counter
    BY <1>0 DEF TypeOK
  <2>2. match[x[1]] + 1 <= thr[x].idx => match[x[1]] + 1 \in Counter
    BY <1>1, <2>1, MaxWritesAssumption DEF Counter
  <2> QED BY <1>2, <2>2, Blank DEF AfterFailure, EnterCatchUp
<1>4. NextIteration(x) \in Thread
  <2>1. CASE thr[x].k = 0 \/ thr[x].k >= thr[x].idx
    BY <2>1, Blank DEF NextIteration
  <2>2. CASE ~(thr[x].k = 0 \/ thr[x].k >= thr[x].idx)
    <3>1. thr[x].k + 1 \in Counter
      BY <1>1, <2>2, MaxWritesAssumption DEF Counter
    <3>2. NextIteration(x) = [thr[x] EXCEPT !.pc = "next", !.k = thr[x].k + 1]
      BY <2>2 DEF NextIteration
    <3> QED BY <1>2, <3>1, <3>2
  <2> QED BY <2>1, <2>2
<1>5. CallOf(x) \in Calls /\ <<x[1], x[2], "c">> \in Calls
  BY DEF CallOf, Threads, Calls, Modes
<1>6. CASE RecordAck(x)
  <2>1. acks' \in [Index -> Nat \union {Absent}]
    BY <1>6 DEF RecordAck, TypeOK, Absent
  <2>2. match' \in [Followers -> Counter]
    BY <1>1, <1>6 DEF RecordAck, TypeOK
  <2> QED BY <1>0, <1>2, <1>5, <1>6, <2>1, <2>2, Blank, SameType
          DEF RecordAck, TypeOK, obsVars, cntVars
<1>7. CASE Rejected(x)
  BY <1>0, <1>3, <1>5, <1>7, Blank, SameType DEF Rejected, TypeOK, obsVars, cntVars
<1>8. CASE RpcFailed(x)
  <2>1. hnd' \in [Calls -> Call] /\ losses' \in Nat
    BY <1>5, <1>8, Blank DEF RpcFailed, TypeOK
  <2> QED BY <1>0, <1>3, <1>8, <2>1, SameType DEF RpcFailed, TypeOK, obsVars
<1>9. CASE NextEntry(x)
  <2>1. [pc |-> "sent", idx |-> thr[x].k, ent |-> ReadEntry(Leader, thr[x].k), reg |-> 0] \in Call
    BY <1>1, Reads, Sets DEF Call
  <2>2. thr' \in [Threads -> Thread] /\ hnd' \in [Calls -> Call]
    BY <1>2, <1>5, <1>9, <2>1, Blank DEF NextEntry, TypeOK
  <2> QED BY <1>0, <1>9, <2>2, SameType DEF NextEntry, TypeOK, obsVars, cntVars
<1>10. CASE CommitEntry(x)
  <2>1. WalTypeOK' /\ view' \in [Nodes -> Entries]
    BY <1>0, <1>1, <1>10, SameType, MarkType, ApplyType DEF CommitEntry, TypeOK
  <2>2. thr' \in [Threads -> Thread]
    BY <1>2, <1>4, <1>10 DEF CommitEntry, TypeOK
  <2> QED BY <1>10, <2>1, <2>2 DEF CommitEntry, TypeOK, cntVars
<1>11. CASE CommitSet(x)
  <2>1. WalTypeOK' /\ view' \in [Nodes -> Entries]
    BY <1>0, <1>1, <1>11, RaiseType, ApplyType DEF CommitSet
  <2> QED BY <1>4, <1>11, <2>1 DEF CommitSet, TypeOK, cntVars
<1>12. CASE CommitLost(x)
  <2>1. losses' \in Nat
    BY <1>12 DEF CommitLost, TypeOK
  <2> QED BY <1>0, <1>4, <1>12, <2>1, SameType DEF CommitLost, TypeOK, obsVars
<1> QED BY <1>6, <1>7, <1>8, <1>9, <1>10, <1>11, <1>12 DEF ThreadStep

\* Every step of a follower's bootstrap preserves the types.
LEMMA BootstrapType ==
    ASSUME TypeOK, NEW f \in Followers, BootstrapStep(f)
    PROVE  TypeOK'
<1> DEFINE x == <<f, 0>>
<1>0. x \in Threads /\ thr[x] \in Thread /\ f \in Nodes /\ WalTypeOK
  BY Sets, MaxWritesAssumption DEF Threads, Tids, TypeOK
<1>1. CASE FollowerRestart(f)
  <2>1. [OffThread EXCEPT !.pc = "lsn"] \in Thread
    BY Sets DEF OffThread, Thread
  <2>2. view' \in [Nodes -> Entries]
    BY <1>1 DEF FollowerRestart, TypeOK
  <2> QED BY <1>0, <1>1, <2>1, <2>2, SameType DEF FollowerRestart, TypeOK, cntVars
<1>2. CASE SnapshotLsn(f)
  <2>1. [thr[x] EXCEPT !.pc = "table", !.k = committed[Leader]] \in Thread
    BY <1>0, Sets DEF Thread, WalTypeOK
  <2> QED BY <1>0, <1>2, <2>1, SameType DEF SnapshotLsn, TypeOK, obsVars, cntVars
<1>3. CASE SnapshotTable(f)
  <2>1. [thr[x] EXCEPT !.pc = "install", !.seen = view[Leader]] \in Thread
    BY <1>0, Sets DEF Thread, TypeOK
  <2> QED BY <1>0, <1>3, <2>1, SameType DEF SnapshotTable, TypeOK, obsVars, cntVars
<1>4. CASE SnapshotInstall(f)
  <2>1. thr[x].seen \in Entries /\ thr[x].k \in Counter /\ last[Leader] \in Counter
    BY <1>0, Sets DEF Thread, WalTypeOK
  <2>2. thr[x].k < last[Leader] =>
          [pc |-> "next", idx |-> last[Leader], k |-> thr[x].k + 1, seen |-> 0] \in Thread
    BY <2>1, Sets DEF Thread
  <2>3. thr' \in [Threads -> Thread]
    BY <1>0, <1>4, <2>2, Blank DEF SnapshotInstall, TypeOK
  <2>4. view' \in [Nodes -> Entries]
    BY <1>4, <2>1 DEF SnapshotInstall, TypeOK
  <2> QED BY <1>0, <1>4, <2>3, <2>4, SameType DEF SnapshotInstall, TypeOK, cntVars
<1>5. CASE BootstrapFailed(f)
  BY <1>0, <1>5, Blank, SameType DEF BootstrapFailed, TypeOK, obsVars, cntVars
<1> QED BY <1>1, <1>2, <1>3, <1>4, <1>5 DEF BootstrapStep

\* A crash and restart of a follower preserves the types.
LEMMA FollowerCrashType ==
    ASSUME TypeOK, NEW f \in Followers, FollowerCrash(f)
    PROVE  TypeOK'
<1>1. f \in Nodes /\ WalTypeOK /\ Survives(f) \subseteq Saved
  BY Sets DEF Survives, TypeOK, WalTypeOK
<1>2. WalTypeOK'
  BY <1>1, ReopenType DEF FollowerCrash
<1>3. \A x \in Threads : NextIteration(x) \in Thread
  <2> SUFFICES ASSUME NEW x \in Threads PROVE NextIteration(x) \in Thread
    OBVIOUS
  <2>1. thr[x] \in Thread
    BY DEF TypeOK
  <2>2. CASE thr[x].k = 0 \/ thr[x].k >= thr[x].idx
    BY <2>2, Blank DEF NextIteration
  <2>3. CASE ~(thr[x].k = 0 \/ thr[x].k >= thr[x].idx)
    <3>1. thr[x].k + 1 \in Counter
      BY <2>1, <2>3, MaxWritesAssumption DEF Thread, Counter
    <3> QED BY <2>1, <2>3, <3>1 DEF NextIteration, Thread
  <2> QED BY <2>2, <2>3
<1>4. thr' \in [Threads -> Thread] /\ hnd' \in [Calls -> Call]
  BY <1>3, Blank DEF FollowerCrash, TypeOK
<1>5. view' \in [Nodes -> Entries] /\ followerCrashes' \in Nat /\ up' \in [Followers -> BOOLEAN]
  BY Sets DEF FollowerCrash, TypeOK
<1> QED BY <1>2, <1>4, <1>5 DEF FollowerCrash, TypeOK

\* A crash and restart of the leader preserves the types.
LEMMA LeaderRestartType ==
    ASSUME TypeOK, LeaderRestart
    PROVE  TypeOK'
<1>1. WalTypeOK /\ Survives(Leader) \subseteq Saved
  BY Sets DEF Survives, TypeOK, WalTypeOK
<1>2. WalTypeOK'
  BY <1>1, Sets, ReopenType DEF LeaderRestart
<1>3. view' \in [Nodes -> Entries]
  BY DEF LeaderRestart, TypeOK
<1>4. cleaned' \in SUBSET Ids
  <2>1. \A i \in Index : log[Leader][i] \in Entries
    BY <1>1, Sets DEF WalTypeOK
  <2>2. \A i \in Index : log[Leader][i] # NoEntry => log[Leader][i] \in Ids
    BY <2>1 DEF Entries, Ids, NoEntry
  <2> QED BY <2>2 DEF LeaderRestart, TypeOK
<1>5. \A x \in Threads : [thr[x] EXCEPT !.idx = Cur(x)] \in Thread
  BY DEF TypeOK, Thread, Cur
<1>6. thr' \in [Threads -> Thread] /\ hnd' \in [Calls -> Call] /\ wr' \in [Writers -> Writer]
  BY <1>5, Blank DEF LeaderRestart, TypeOK
<1>7. /\ acks' \in [Index -> Nat \union {Absent}]
      /\ match' \in [Followers -> Counter]
      /\ leaderCrashes' \in Nat
  BY Sets DEF LeaderRestart, TypeOK
<1> QED BY <1>2, <1>3, <1>4, <1>6, <1>7 DEF LeaderRestart, TypeOK

\* The type invariant is inductive: every step of the system preserves it.
LEMMA NextType == TypeOK /\ [Next]_vars => TypeOK'
<1> SUFFICES ASSUME TypeOK, [Next]_vars PROVE TypeOK'
  OBVIOUS
<1>1. CASE UNCHANGED vars
  BY <1>1 DEF TypeOK, WalTypeOK, vars, walVars, ctlVars, obsVars, cntVars
<1>2. CASE Next
  BY <1>2, WriteType, CallType, ThreadType, BootstrapType, FollowerCrashType, LeaderRestartType
     DEF Next
<1> QED BY <1>1, <1>2

\* Every behaviour of the code, with any overlap of its unlocked sections and
\* any crash, keeps the counters, program counters and tables in their ranges.
THEOREM TypeCorrect == Spec => []TypeOK
  BY InitType, NextType, PTL DEF Spec

-----------------------------------------------------------------------------
(* What a writer was answered OK for survives.                              *)

\* On a serial schedule a writer about to store, write or persist is the only one inside append().
LEMMA InLeaderSection ==
    \A w \in Writers : w \in LeaderSection <=> wr[w].pc \in {"store", "put", "persist"}
  BY DEF LeaderSection

\* A step that leaves the leader's log and its callers alone.
LeaderSame ==
    /\ log'[Leader] = log[Leader]
    /\ last'[Leader] = last[Leader]
    /\ committed'[Leader] = committed[Leader]
    /\ disk'[Leader] = disk[Leader]
    /\ wr' = wr /\ started' = started /\ result' = result /\ cleaned' = cleaned

\* A step that leaves the leader's log, its writers and its results alone preserves the invariant.
LEMMA LeaderFrame ==
    ASSUME LeaderInv, LeaderSame
    PROVE  LeaderInv'
<1>1. LeaderSection' = LeaderSection
  BY DEF LeaderSame, LeaderSection
<1>2. LeaderCounters'
  BY <1>1 DEF LeaderInv, LeaderCounters, LeaderSame
<1>3. FreshIds'
  BY <1>1 DEF LeaderInv, FreshIds, LeaderSame
<1>4. OkDurable'
  BY DEF LeaderInv, OkDurable, LeaderSame
<1> QED BY <1>2, <1>3, <1>4 DEF LeaderInv

\* Handlers, replication threads and bootstraps only touch follower logs.
LEMMA CallSame ==
    ASSUME TypeOK, NEW c \in Calls, CallStep(c)
    PROVE  LeaderSame
<1>1. c[1] \in Nodes /\ c[1] # Leader /\ Leader \in Nodes /\ WalTypeOK
  BY ConstantsAssumption DEF Calls, TypeOK
<1>2. CASE AppendCheck(c)
  BY <1>2 DEF AppendCheck, LeaderSame, walVars, obsVars
<1>3. CASE AppendLoad(c)
  BY <1>3 DEF AppendLoad, LeaderSame, walVars, obsVars
<1>4. CASE AppendInc(c)
  BY <1>1, <1>4 DEF AppendInc, AppendStore, LeaderSame, obsVars, WalTypeOK
<1>5. CASE AppendWrite(c)
  BY <1>1, <1>5 DEF AppendWrite, AppendPut, LeaderSame, obsVars, WalTypeOK
<1>6. CASE AppendDone(c)
  BY <1>1, <1>6 DEF AppendDone, AppendPersist, LeaderSame, obsVars, WalTypeOK
<1> QED BY <1>2, <1>3, <1>4, <1>5, <1>6 DEF CallStep

\* The replication threads do not touch the leader's log.
LEMMA ThreadSame ==
    ASSUME TypeOK, NEW x \in Threads, ThreadStep(x)
    PROVE  LeaderSame
<1>1. x[1] \in Nodes /\ x[1] # Leader /\ Leader \in Nodes /\ WalTypeOK
  BY ConstantsAssumption DEF Threads, TypeOK
<1>2. CASE RecordAck(x)
  BY <1>2 DEF RecordAck, LeaderSame, walVars, obsVars
<1>3. CASE Rejected(x)
  BY <1>3 DEF Rejected, LeaderSame, walVars, obsVars
<1>4. CASE RpcFailed(x)
  BY <1>4 DEF RpcFailed, LeaderSame, walVars, obsVars
<1>5. CASE NextEntry(x)
  BY <1>5 DEF NextEntry, LeaderSame, walVars, obsVars
<1>6. CASE CommitEntry(x)
  BY <1>1, <1>6 DEF CommitEntry, CommitMark, LeaderSame, walVars, WalTypeOK
<1>7. CASE CommitSet(x)
  BY <1>1, <1>7 DEF CommitSet, CommitRaise, LeaderSame, WalTypeOK
<1>8. CASE CommitLost(x)
  BY <1>8 DEF CommitLost, LeaderSame, walVars, obsVars
<1> QED BY <1>2, <1>3, <1>4, <1>5, <1>6, <1>7, <1>8 DEF ThreadStep

\* Bootstraps and follower crashes do not touch the leader's log.
LEMMA BootstrapSame ==
    ASSUME TypeOK, NEW f \in Followers, BootstrapStep(f) \/ FollowerCrash(f)
    PROVE  LeaderSame
<1>1. f \in Nodes /\ f # Leader /\ Leader \in Nodes /\ WalTypeOK
  BY ConstantsAssumption DEF TypeOK
<1>2. CASE FollowerRestart(f)
  BY <1>2 DEF FollowerRestart, LeaderSame, walVars
<1>3. CASE SnapshotLsn(f)
  BY <1>3 DEF SnapshotLsn, LeaderSame, walVars, obsVars
<1>4. CASE SnapshotTable(f)
  BY <1>4 DEF SnapshotTable, LeaderSame, walVars, obsVars
<1>5. CASE SnapshotInstall(f)
  BY <1>5 DEF SnapshotInstall, LeaderSame, walVars
<1>6. CASE BootstrapFailed(f)
  BY <1>6 DEF BootstrapFailed, LeaderSame, walVars, obsVars
<1>7. CASE FollowerCrash(f)
  BY <1>1, <1>7 DEF FollowerCrash, Reopen, LeaderSame, WalTypeOK
<1> QED BY <1>2, <1>3, <1>4, <1>5, <1>6, <1>7 DEF BootstrapStep

\* The invariant holds of the empty log.
LEMMA LeaderInit == Init => LeaderInv
<1> SUFFICES ASSUME Init PROVE LeaderInv
  OBVIOUS
<1>1. LeaderCounters
  BY Sets DEF Init, WalInit, LeaderCounters, LeaderSection, IdleWriter
<1>2. FreshIds
  BY Sets, MaxWritesAssumption DEF Init, WalInit, FreshIds, IdleWriter, Index
<1>3. OkDurable
  BY DEF Init, OkDurable
<1> QED BY <1>1, <1>2, <1>3 DEF LeaderInv

(***************************************************************************)
(* The steps of write().                                                   *)
(***************************************************************************)
\* write() entering append(): the new identity and index are fresh.
LEMMA LoadInv ==
    ASSUME TypeOK, LeaderInv, Serial, NEW w \in Writers, WriteLoad(w)
    PROVE  LeaderInv'
<1> USE DEF LeaderInv
<1>0. /\ wr \in [Writers -> Writer] /\ started \in Nat /\ MaxWrites \in Nat
      /\ last[Leader] \in Nat /\ disk[Leader].last \in Nat
      /\ \A i \in Index : log[Leader][i] \in Nat
  BY Sets, MaxWritesAssumption DEF TypeOK, WalTypeOK, Saved, Counter, Entries
<1>1. wr' = [wr EXCEPT ![w] = [pc |-> "store", id |-> started + 1, idx |-> last[Leader] + 1]]
  BY DEF WriteLoad
<1>2. LeaderSection = {}
  BY <1>0, <1>1 DEF WriteLoad, Serial
<1>3. \A v \in Writers : v # w => wr[v].pc \notin {"store", "put", "persist"} /\ wr'[v] = wr[v]
  BY <1>0, <1>1, <1>2, InLeaderSection
<1>4. \A v \in Writers : v \in LeaderSection' <=> v = w
  BY <1>0, <1>1, <1>3 DEF LeaderSection
<1>5. LeaderCounters'
  BY <1>0, <1>1, <1>2, <1>3, <1>4 DEF WriteLoad, LeaderCounters, walVars
<1>6. FreshIds'
  <2>1. started + 1 \in Ids
    BY <1>0, Sets DEF WriteLoad, TypeOK
  <2>2. result[started + 1] = "none" /\ started + 1 \notin cleaned
    BY <1>0, <2>1 DEF FreshIds
  <2>3. \A v \in Writers : wr[v].pc # "idle" => wr[v].id \in Nat /\ wr[v].id # started + 1
    <3>1. \A v \in Writers : wr[v].pc # "idle" => wr[v].id \in Ids /\ wr[v].id <= started
      BY <1>0, Active DEF FreshIds
    <3> QED BY <1>0, <3>1 DEF Ids
  <2>4. \A v \in Writers : wr'[v].pc # "idle" =>
          /\ wr'[v].id <= started'
          /\ result'[wr'[v].id] = "none"
          /\ wr'[v].id \notin cleaned'
    BY <1>0, <1>1, <1>3, <2>2, <2>3 DEF WriteLoad, FreshIds
  <2>5. \A i \in Index : log'[Leader][i] <= started'
    BY <1>0 DEF WriteLoad, FreshIds, walVars
  <2>6. \A i \in Index : log'[Leader][i] # wr'[w].id
    BY <1>0, <1>1 DEF WriteLoad, FreshIds, walVars
  <2>7. \A v \in Writers : wr[v] \in Writer
    BY <1>0
  <2>8. \A v, u \in Writers : v # u /\ wr'[v].pc # "idle" => wr'[v].id # wr'[u].id
    <3> SUFFICES ASSUME NEW v \in Writers, NEW u \in Writers, v # u, wr'[v].pc # "idle"
                 PROVE  wr'[v].id # wr'[u].id
      OBVIOUS
    <3>1. CASE v = w
      <4>1. wr'[v].id = started + 1 /\ wr'[u] = wr[u]
        BY <1>0, <1>1, <1>3, <3>1
      <4>2. CASE wr[u].pc = "idle"
        BY <1>0, <2>7, <4>1, <4>2 DEF Writer, IdleWriter
      <4>3. CASE wr[u].pc # "idle"
        BY <2>3, <3>1, <4>1, <4>3
      <4> QED BY <4>2, <4>3
    <3>2. CASE u = w
      BY <1>0, <1>1, <1>3, <2>3, <3>2
    <3>3. CASE v # w /\ u # w
      BY <1>3, <3>3 DEF FreshIds
    <3> QED BY <3>1, <3>2, <3>3
  <2>9. \A id \in Ids : id > started' => result'[id] = "none" /\ id \notin cleaned'
    BY <1>0 DEF WriteLoad, FreshIds, Ids
  <2> QED BY <1>4, <2>4, <2>5, <2>6, <2>8, <2>9 DEF WriteLoad, FreshIds, walVars
<1>7. OkDurable'
  BY DEF WriteLoad, OkDurable, walVars
<1> QED BY <1>5, <1>6, <1>7

\* Facts every later step of write() starts from.
LEMMA WriterFacts ==
    ASSUME TypeOK, LeaderInv, NEW w \in Writers, wr[w].pc # "idle"
    PROVE  /\ wr \in [Writers -> Writer]
           /\ log \in [Nodes -> [Index -> Entries]] /\ log[Leader] \in [Index -> Entries]
           /\ last \in [Nodes -> Counter] /\ disk \in [Nodes -> Saved]
           /\ committed \in [Nodes -> Counter]
           /\ Leader \in Nodes
           /\ last[Leader] \in Nat /\ disk[Leader].last \in Nat
           /\ committed[Leader] \in Nat /\ disk[Leader].committed \in Nat
           /\ wr[w].id \in Ids /\ wr[w].idx \in Index
           /\ Ids \subseteq Nat /\ Index \subseteq Nat
           /\ wr[w].id <= started /\ result[wr[w].id] = "none" /\ wr[w].id \notin cleaned
<1>1. wr[w] \in Writer
  BY DEF TypeOK
<1>2. wr[w].id \in Ids /\ wr[w].idx \in Index
  BY <1>1, Active
<1> QED BY <1>2, Sets DEF TypeOK, WalTypeOK, Saved, Counter, Ids, Index, LeaderInv, FreshIds

\* append() storing last_index_: the index is the writer's own.
LEMMA StoreInv ==
    ASSUME TypeOK, LeaderInv, NEW w \in Writers, WriteStore(w)
    PROVE  LeaderInv'
<1> USE DEF LeaderInv
<1>0. wr[w].pc = "store"
  BY DEF WriteStore
<1>1. \A v \in Writers : v # w => wr'[v] = wr[v] /\ wr[v].pc \notin {"store", "put", "persist"}
  BY <1>0, WriterFacts, InLeaderSection DEF WriteStore, LeaderCounters
<1>2. wr'[w].pc = "put" /\ wr'[w].id = wr[w].id /\ wr'[w].idx = wr[w].idx
  BY <1>0, WriterFacts, Active DEF WriteStore, Writer, IdleWriter
<1>3. last'[Leader] = wr[w].idx /\ log' = log /\ disk' = disk /\ committed' = committed
  BY <1>0, WriterFacts DEF WriteStore, AppendStore
<1>4. \A v \in Writers : v \in LeaderSection' <=> v = w
  BY <1>1, <1>2 DEF LeaderSection
<1>5. w \in LeaderSection
  BY <1>0, InLeaderSection
<1>6. LeaderCounters'
  BY <1>0, <1>1, <1>2, <1>3, <1>4 DEF LeaderCounters
<1>7. FreshIds'
  BY <1>0, <1>1, <1>2, <1>3, <1>4, <1>5 DEF FreshIds, WriteStore, obsVars
<1>8. OkDurable'
  BY <1>3 DEF OkDurable, WriteStore, obsVars
<1> QED BY <1>6, <1>7, <1>8

\* append() writing the record: no committed index is overwritten.
LEMMA PutInv ==
    ASSUME TypeOK, LeaderInv, NEW w \in Writers, WritePut(w)
    PROVE  LeaderInv'
<1> USE DEF LeaderInv
<1>0. wr[w].pc = "put"
  BY DEF WritePut
<1>1. \A v \in Writers : v # w => wr'[v] = wr[v] /\ wr[v].pc \notin {"store", "put", "persist"}
  BY <1>0, WriterFacts, InLeaderSection DEF WritePut, LeaderCounters
<1>2. wr'[w].pc = "persist" /\ wr'[w].id = wr[w].id /\ wr'[w].idx = wr[w].idx
  BY <1>0, WriterFacts, Active DEF WritePut, Writer, IdleWriter
<1>3. last' = last /\ disk' = disk /\ committed' = committed
  BY DEF WritePut, AppendPut
<1>4. /\ log'[Leader][wr[w].idx] = wr[w].id
      /\ \A i \in Index : i # wr[w].idx => log'[Leader][i] = log[Leader][i]
  BY <1>0, WriterFacts DEF WritePut, AppendPut
<1>5. \A v \in Writers : v \in LeaderSection' <=> v = w
  BY <1>1, <1>2 DEF LeaderSection
<1>6. w \in LeaderSection
  BY <1>0, InLeaderSection
<1>7. wr[w].idx = disk[Leader].last + 1
  BY <1>0, WriterFacts DEF LeaderCounters
<1>8. \A i \in Index : i <= disk[Leader].last => log'[Leader][i] = log[Leader][i]
  BY <1>0, <1>4, <1>7, WriterFacts
<1>9. \A v \in Writers : wr[v].pc \in {"spawn", "wait"} => wr[v].idx \in Index
  BY <1>0, WriterFacts, Active
<1>10. LeaderCounters'
  BY <1>0, <1>1, <1>2, <1>3, <1>4, <1>5, <1>8, <1>9 DEF LeaderCounters
<1>11. FreshIds'
  <2>1. \A i \in Index : log'[Leader][i] <= started'
    BY <1>0, <1>4, WriterFacts DEF FreshIds, WritePut, obsVars
  <2>2. \A i, j \in Index : i < j /\ j <= disk'[Leader].last => log'[Leader][i] # log'[Leader][j]
    BY <1>0, <1>3, <1>8, WriterFacts DEF FreshIds
  <2>3. \A i \in Index : i <= disk'[Leader].last => log'[Leader][i] # wr'[w].id
    BY <1>0, <1>2, <1>3, <1>6, <1>8 DEF FreshIds
  <2> QED BY <1>0, <1>1, <1>2, <1>5, <2>1, <2>2, <2>3 DEF FreshIds, WritePut, obsVars
<1>12. OkDurable'
  <2>1. \A i \in Index : i <= disk[Leader].committed => log'[Leader][i] = log[Leader][i]
    BY <1>0, <1>8, WriterFacts DEF LeaderCounters
  <2> QED BY <1>3, <2>1 DEF OkDurable, WritePut, obsVars
<1> QED BY <1>10, <1>11, <1>12

\* append() writing the counters: the record is already there.
LEMMA PersistInv ==
    ASSUME TypeOK, LeaderInv, NEW w \in Writers, WritePersist(w)
    PROVE  LeaderInv'
<1> USE DEF LeaderInv
<1>0. wr[w].pc = "persist"
  BY DEF WritePersist
<1>1. \A v \in Writers : v # w => wr'[v] = wr[v] /\ wr[v].pc \notin {"store", "put", "persist"}
  BY <1>0, WriterFacts, InLeaderSection DEF WritePersist, LeaderCounters
<1>2. wr'[w].pc = "spawn" /\ wr'[w].id = wr[w].id /\ wr'[w].idx = wr[w].idx
  BY <1>0, WriterFacts, Active DEF WritePersist, Writer, IdleWriter
<1>3. log' = log /\ last' = last /\ committed' = committed
  BY DEF WritePersist, AppendPersist
<1>4. disk'[Leader].last = last[Leader] /\ disk'[Leader].committed = disk[Leader].committed
  BY <1>0, WriterFacts DEF WritePersist, AppendPersist
<1>5. LeaderSection' = {}
  BY <1>1, <1>2 DEF LeaderSection
<1>6. w \in LeaderSection
  BY <1>0, InLeaderSection
<1>7. /\ last[Leader] = disk[Leader].last + 1 /\ wr[w].idx = last[Leader]
      /\ log[Leader][wr[w].idx] = wr[w].id
  BY <1>0 DEF LeaderCounters
<1>8. \A v \in Writers : wr[v].pc \in {"spawn", "wait"} => wr[v].idx \in Nat
  BY <1>0, WriterFacts, Active, Sets
<1>9. LeaderCounters'
  BY <1>0, <1>1, <1>2, <1>3, <1>4, <1>5, <1>7, <1>8, WriterFacts DEF LeaderCounters
<1>10. FreshIds'
  <2>1. \A i, j \in Index : i < j /\ j <= disk'[Leader].last => log'[Leader][i] # log'[Leader][j]
    <3> SUFFICES ASSUME NEW i \in Index, NEW j \in Index, i < j, j <= last[Leader]
                 PROVE  log[Leader][i] # log[Leader][j]
      BY <1>3, <1>4
    <3>1. CASE j <= disk[Leader].last
      BY <3>1 DEF FreshIds
    <3>2. CASE ~(j <= disk[Leader].last)
      <4>0. disk[Leader].last \in Nat /\ i \in Nat /\ j \in Nat
        BY <1>0, WriterFacts
      <4>1. j = wr[w].idx /\ i <= disk[Leader].last
        BY <1>7, <3>2, <4>0
      <4> QED BY <1>0, <1>6, <1>7, <4>1 DEF FreshIds
    <3> QED BY <3>1, <3>2
  <2> QED BY <1>0, <1>1, <1>2, <1>3, <1>5, <2>1 DEF FreshIds, WritePersist, obsVars
<1>11. OkDurable'
  BY <1>3, <1>4 DEF OkDurable, WritePersist, obsVars
<1> QED BY <1>9, <1>10, <1>11

\* write() starting the replication threads changes no log.
LEMMA SpawnInv ==
    ASSUME TypeOK, LeaderInv, NEW w \in Writers, WriteSpawn(w)
    PROVE  LeaderInv'
<1> USE DEF LeaderInv
<1>0. wr[w].pc = "spawn"
  BY DEF WriteSpawn
<1>1. \A v \in Writers : v # w => wr'[v] = wr[v]
  BY <1>0, WriterFacts DEF WriteSpawn
<1>2. wr'[w].pc = "wait" /\ wr'[w].id = wr[w].id /\ wr'[w].idx = wr[w].idx
  BY <1>0, WriterFacts, Active DEF WriteSpawn, Writer, IdleWriter
<1>3. log' = log /\ last' = last /\ committed' = committed /\ disk' = disk
  BY DEF WriteSpawn, walVars
<1>4. LeaderSection' = LeaderSection
  BY <1>0, <1>1, <1>2 DEF LeaderSection
<1>5. w \notin LeaderSection
  BY <1>0, InLeaderSection
<1>6. LeaderCounters'
  BY <1>0, <1>1, <1>2, <1>3, <1>4 DEF LeaderCounters
<1>7. FreshIds'
  BY <1>0, <1>1, <1>2, <1>3, <1>4, <1>5 DEF FreshIds, WriteSpawn, obsVars
<1>8. OkDurable'
  BY <1>3 DEF OkDurable, WriteSpawn, obsVars
<1> QED BY <1>6, <1>7, <1>8

\* write() past the quorum: the index that becomes committed holds this write's entry.
LEMMA CommitInv ==
    ASSUME TypeOK, LeaderInv, NEW w \in Writers, WriteCommit(w)
    PROVE  LeaderInv'
<1> USE DEF LeaderInv
<1>0. wr[w].pc = "wait"
  BY DEF WriteCommit
<1>1. \A v \in Writers : v # w => wr'[v] = wr[v]
  BY <1>0, WriterFacts DEF WriteCommit
<1>2. wr'[w] = IdleWriter /\ wr'[w].pc = "idle" /\ wr'[w].id = 0
  BY <1>0, WriterFacts DEF WriteCommit, IdleWriter
<1>3. log' = log /\ last' = last
  BY DEF WriteCommit, Commit
<1>4. /\ disk'[Leader].last = disk[Leader].last
      /\ disk'[Leader].committed = committed'[Leader]
      /\ committed'[Leader] \in Nat
      /\ committed'[Leader] >= committed[Leader] /\ committed'[Leader] >= wr[w].idx
      /\ committed'[Leader] <= disk[Leader].last
  <2>0. wr[w].idx <= disk[Leader].last /\ committed[Leader] = disk[Leader].committed
        /\ disk[Leader].committed <= disk[Leader].last
    BY <1>0 DEF LeaderCounters
  <2>1. CASE wr[w].idx > committed[Leader]
    BY <1>0, <2>0, <2>1, WriterFacts DEF WriteCommit, Commit
  <2>2. CASE ~(wr[w].idx > committed[Leader])
    BY <1>0, <2>0, <2>2, WriterFacts DEF WriteCommit, Commit
  <2> QED BY <2>1, <2>2
<1>5. LeaderSection' = LeaderSection
  BY <1>0, <1>1, <1>2 DEF LeaderSection
<1>6. LeaderCounters'
  BY <1>0, <1>1, <1>2, <1>3, <1>4, <1>5 DEF LeaderCounters
<1>7. \A v \in Writers : v # w /\ wr[v].pc # "idle" => wr[v].id # wr[w].id /\ wr[v].id # 0
  BY <1>0, WriterFacts, Active, Sets DEF FreshIds
<1>8. /\ cleaned' = cleaned /\ started' = started
      /\ result'[wr[w].id] = "OK"
      /\ \A id \in Ids : id # wr[w].id => result'[id] = result[id]
  BY <1>0, WriterFacts DEF WriteCommit, TypeOK
<1>9. FreshIds'
  <2>1. \A id \in Ids : id > started' => result'[id] = "none" /\ id \notin cleaned'
    BY <1>0, <1>8, WriterFacts DEF FreshIds, TypeOK, Counter
  <2>2. \A v \in Writers : wr[v].pc # "idle" => wr[v].id \in Ids
    BY <1>0, WriterFacts, Active
  <2>3. \A v, u \in Writers : v # u /\ wr'[v].pc # "idle" => wr'[v].id # wr'[u].id
    BY <1>1, <1>2, <1>7 DEF FreshIds
  <2>4. \A v \in Writers : wr'[v].pc # "idle" =>
          /\ wr'[v].id <= started'
          /\ result'[wr'[v].id] = "none"
          /\ wr'[v].id \notin cleaned'
          /\ v \in LeaderSection' =>
                \A i \in Index : i <= disk'[Leader].last => log'[Leader][i] # wr'[v].id
    BY <1>1, <1>2, <1>3, <1>4, <1>5, <1>7, <1>8, <2>2 DEF FreshIds
  <2> QED BY <1>3, <1>4, <1>8, <2>1, <2>3, <2>4 DEF FreshIds
<1>10. OkDurable'
  <2>1. /\ wr[w].id \notin cleaned'
        /\ wr[w].idx <= disk'[Leader].committed
        /\ log'[Leader][wr[w].idx] = wr[w].id
    BY <1>0, <1>3, <1>4, <1>8, WriterFacts DEF LeaderCounters
  <2>2. \A i \in Index : i <= disk[Leader].committed => i <= disk'[Leader].committed
    BY <1>0, <1>4, WriterFacts DEF LeaderCounters
  <2> QED BY <1>0, <1>3, <1>8, <2>1, <2>2, WriterFacts DEF OkDurable
<1> QED BY <1>6, <1>9, <1>10

\* write() timing out: it answers UNAVAILABLE and its own put is cleaned up.
LEMMA TimeoutInv ==
    ASSUME TypeOK, LeaderInv, NEW w \in Writers, WriteTimeout(w)
    PROVE  LeaderInv'
<1> USE DEF LeaderInv
<1>0. wr[w].pc = "wait"
  BY DEF WriteTimeout
<1>1. \A v \in Writers : v # w => wr'[v] = wr[v]
  BY <1>0, WriterFacts DEF WriteTimeout
<1>2. wr'[w].pc = "idle" /\ wr'[w].id = 0
  BY <1>0, WriterFacts DEF WriteTimeout, IdleWriter
<1>3. log' = log /\ last' = last /\ committed' = committed /\ disk' = disk
  BY DEF WriteTimeout, walVars
<1>4. LeaderSection' = LeaderSection
  BY <1>0, <1>1, <1>2 DEF LeaderSection
<1>5. LeaderCounters'
  BY <1>0, <1>1, <1>2, <1>3, <1>4 DEF LeaderCounters
<1>6. \A v \in Writers : v # w /\ wr[v].pc # "idle" => wr[v].id # wr[w].id /\ wr[v].id # 0
  BY <1>0, WriterFacts, Active, Sets DEF FreshIds
<1>7. /\ cleaned' = cleaned \union {wr[w].id} /\ started' = started
      /\ result'[wr[w].id] = "UNAVAILABLE"
      /\ \A id \in Ids : id # wr[w].id => result'[id] = result[id]
  BY <1>0, WriterFacts DEF WriteTimeout, TypeOK
<1>8. FreshIds'
  <2>1. \A id \in Ids : id > started' => result'[id] = "none" /\ id \notin cleaned'
    BY <1>0, <1>7, WriterFacts DEF FreshIds, TypeOK, Counter
  <2>2. \A v \in Writers : wr[v].pc # "idle" => wr[v].id \in Ids
    BY <1>0, WriterFacts, Active
  <2>3. \A v, u \in Writers : v # u /\ wr'[v].pc # "idle" => wr'[v].id # wr'[u].id
    BY <1>1, <1>2, <1>6 DEF FreshIds
  <2>4. \A v \in Writers : wr'[v].pc # "idle" =>
          /\ wr'[v].id <= started'
          /\ result'[wr'[v].id] = "none"
          /\ wr'[v].id \notin cleaned'
          /\ v \in LeaderSection' =>
                \A i \in Index : i <= disk'[Leader].last => log'[Leader][i] # wr'[v].id
    BY <1>1, <1>2, <1>3, <1>4, <1>6, <1>7, <2>2 DEF FreshIds
  <2> QED BY <1>3, <1>7, <2>1, <2>3, <2>4 DEF FreshIds
<1>9. OkDurable'
  BY <1>0, <1>3, <1>7, WriterFacts DEF OkDurable
<1> QED BY <1>5, <1>8, <1>9

(***************************************************************************)
(* A crash of the leader process and its restart.                          *)
(***************************************************************************)
\* Recovery of the leader runs the cleanup for uncommitted puts only.
LEMMA RestartInv ==
    ASSUME PowerLoss = FALSE, TypeOK, LeaderInv, LeaderRestart
    PROVE  LeaderInv'
<1> USE DEF LeaderInv
<1>0. /\ Leader \in Nodes /\ WalTypeOK
      /\ disk[Leader].last \in Nat /\ disk[Leader].committed \in Nat /\ Index \subseteq Nat
  BY Sets DEF TypeOK, WalTypeOK, Saved, Counter, Index
<1>1. Survives(Leader) = {disk[Leader]}
  BY DEF Survives
<1>2. Reopen(Leader, disk[Leader])
  BY <1>1 DEF LeaderRestart
<1>3. /\ log' = log /\ disk'[Leader] = disk[Leader]
      /\ last'[Leader] = disk[Leader].last /\ committed'[Leader] = disk[Leader].committed
  BY <1>0, <1>2 DEF Reopen, WalTypeOK
<1>4. \A w \in Writers : wr'[w].pc = "idle"
  BY DEF LeaderRestart, IdleWriter
<1>5. LeaderSection' = {}
  BY <1>4 DEF LeaderSection
<1>6. cleaned' = cleaned \union {log[Leader][i] : i \in {j \in Index : /\ disk[Leader].committed < j
                                                                 /\ j <= disk[Leader].last
                                                                 /\ log[Leader][j] # NoEntry}}
  BY <1>1 DEF LeaderRestart
<1>7. result' = result /\ started' = started
  BY DEF LeaderRestart
<1>8. LeaderCounters'
  BY <1>0, <1>3, <1>4, <1>5 DEF LeaderCounters
<1>9. FreshIds'
  <2>1. \A id \in Ids : id > started' => result'[id] = "none" /\ id \notin cleaned'
    <3>1. started \in Nat /\ Ids \subseteq Nat
      BY DEF TypeOK, Counter, Ids
    <3>2. \A id \in Ids : id > started => \A i \in Index : log[Leader][i] # id
      BY <3>1, <1>0 DEF FreshIds, WalTypeOK, Entries
    <3> QED BY <1>6, <1>7, <3>2 DEF FreshIds
  <2> QED BY <1>3, <1>4, <1>7, <2>1 DEF FreshIds
<1>10. OkDurable'
  <2> SUFFICES ASSUME NEW id \in Ids, result[id] = "OK"
               PROVE  /\ id \notin cleaned'
                      /\ \E i \in Index : i <= disk'[Leader].committed /\ log'[Leader][i] = id
    BY <1>7 DEF OkDurable
  <2>1. PICK i \in Index : i <= disk[Leader].committed /\ log[Leader][i] = id
    BY DEF OkDurable
  <2>2. \A j \in Index : disk[Leader].committed < j /\ j <= disk[Leader].last => log[Leader][j] # id
    BY <1>0, <2>1 DEF FreshIds
  <2>3. id \notin cleaned'
    BY <1>6, <2>2 DEF OkDurable
  <2> QED BY <1>3, <2>1, <2>3
<1> QED BY <1>8, <1>9, <1>10

\* Every step of a serial schedule preserves the invariant when no power is lost.
LEMMA LeaderNext ==
    ASSUME PowerLoss = FALSE, TypeOK, LeaderInv, [Next /\ Serial]_vars
    PROVE  LeaderInv'
<1>1. CASE UNCHANGED vars
  BY <1>1, LeaderFrame DEF LeaderSame, vars, walVars, ctlVars, obsVars
<1>2. ASSUME Serial, NEW w \in Writers, WriteStep(w) PROVE LeaderInv'
  BY <1>2, LoadInv, StoreInv, PutInv, PersistInv, SpawnInv, CommitInv, TimeoutInv DEF WriteStep
<1>3. ASSUME NEW c \in Calls, CallStep(c) PROVE LeaderInv'
  BY <1>3, CallSame, LeaderFrame
<1>4. ASSUME NEW x \in Threads, ThreadStep(x) PROVE LeaderInv'
  BY <1>4, ThreadSame, LeaderFrame
<1>5. ASSUME NEW f \in Followers, BootstrapStep(f) \/ FollowerCrash(f) PROVE LeaderInv'
  BY <1>5, BootstrapSame, LeaderFrame
<1>6. ASSUME LeaderRestart PROVE LeaderInv'
  BY <1>6, RestartInv
<1> QED BY <1>1, <1>2, <1>3, <1>4, <1>5, <1>6 DEF Next

\* SerialSpec is a restriction of Spec, so it is type correct too.
LEMMA SerialType == SerialSpec => []TypeOK
<1>1. TypeOK /\ [Next /\ Serial]_vars => TypeOK'
  BY NextType
<1> QED BY <1>1, InitType, PTL DEF SerialSpec

\* On serial schedules without power loss the leader's counters, the freshness of
\* entry identities and the durability of what was answered OK hold together.
THEOREM LeaderInvariant ==
    ASSUME PowerLoss = FALSE
    PROVE  SerialSpec => []LeaderInv
<1>1. TypeOK /\ LeaderInv /\ [Next /\ Serial]_vars => LeaderInv'
  BY LeaderNext
<1> QED BY <1>1, LeaderInit, SerialType, PTL DEF SerialSpec

\* A put that write() answered OK is replayed by every later start of the
\* leader, and neither the cleanup of a failed write nor that of a restart is
\* run for it, for any number of followers, writers, writes, lost RPCs and
\* process crashes, as long as append() calls do not overlap.
THEOREM AcknowledgedPutsDurable ==
    ASSUME PowerLoss = FALSE
    PROVE  SerialSpec => []OkDurable
<1>1. LeaderInv => OkDurable
  BY DEF LeaderInv
<1> QED BY <1>1, LeaderInvariant, PTL

\* No step of a serial schedule moves committed_ back or rewrites an entry under it.
LEMMA KeepsCommittedStep ==
    ASSUME PowerLoss = FALSE, TypeOK, LeaderInv, [Next /\ Serial]_vars
    PROVE  [KeepsCommitted]_vars
<1>0. /\ committed[Leader] \in Nat /\ disk[Leader].committed \in Nat
      /\ disk[Leader].last \in Nat /\ Index \subseteq Nat /\ Leader \in Nodes /\ WalTypeOK
  BY Sets DEF TypeOK, WalTypeOK, Saved, Counter, Index
<1>1. ASSUME LeaderSame PROVE KeepsCommitted
  BY <1>0, <1>1 DEF LeaderSame, KeepsCommitted
<1>2. ASSUME NEW w \in Writers, WriteStep(w) PROVE KeepsCommitted
  <2>1. CASE WriteLoad(w) \/ WriteSpawn(w) \/ WriteTimeout(w)
    BY <1>0, <2>1 DEF WriteLoad, WriteSpawn, WriteTimeout, walVars, KeepsCommitted
  <2>2. CASE WriteStore(w) \/ WritePersist(w)
    BY <1>0, <2>2 DEF WriteStore, AppendStore, WritePersist, AppendPersist, KeepsCommitted
  <2>3. CASE WritePut(w)
    <3>1. wr[w].idx = disk[Leader].last + 1 /\ committed[Leader] <= disk[Leader].last
      BY <2>3, <1>0 DEF WritePut, LeaderInv, LeaderCounters
    <3> QED BY <1>0, <2>3, <3>1 DEF WritePut, AppendPut, WalTypeOK, KeepsCommitted
  <2>4. CASE WriteCommit(w)
    <3>1. wr[w].idx \in Nat
      BY <2>4, WriterFacts DEF WriteCommit
    <3>2. log' = log
      BY <2>4 DEF WriteCommit, Commit
    <3>3. committed'[Leader] >= committed[Leader]
      BY <1>0, <2>4, <3>1 DEF WriteCommit, Commit, WalTypeOK
    <3> QED BY <3>2, <3>3 DEF KeepsCommitted
  <2> QED BY <1>2, <2>1, <2>2, <2>3, <2>4 DEF WriteStep
<1>3. ASSUME LeaderRestart PROVE KeepsCommitted
  <2>1. Reopen(Leader, disk[Leader])
    BY <1>3 DEF LeaderRestart, Survives
  <2> QED BY <1>0, <2>1 DEF Reopen, WalTypeOK, LeaderInv, LeaderCounters, KeepsCommitted
<1>4. CASE Next
  BY <1>1, <1>2, <1>3, <1>4, CallSame, ThreadSame, BootstrapSame DEF Next
<1> QED BY <1>4

\* No step moves the leader's committed_ back or changes an entry at or
\* below it.
THEOREM CommittedPrefixStable ==
    ASSUME PowerLoss = FALSE
    PROVE  SerialSpec => CommittedStable
<1>1. TypeOK /\ LeaderInv /\ [Next /\ Serial]_vars => [KeepsCommitted]_vars
  BY KeepsCommittedStep
<1> QED BY <1>1, SerialType, LeaderInvariant, PTL DEF SerialSpec, CommittedStable

(***************************************************************************)
(* What the tables of the leader show before and after a restart.          *)
(***************************************************************************)
\* No two indices of the leader's log hold one entry, not even above the
\* persisted last index (where a crash inside append() leaves a record), and
\* what the leader's tables show is an entry at or below committed_.
ReplayInv ==
    /\ \A i, j \in Index : i < j /\ log[Leader][i] # NoEntry => log[Leader][i] # log[Leader][j]
    /\ \A w \in Writers : wr[w].pc \in {"store", "put"} =>
          \A i \in Index : log[Leader][i] # wr[w].id
    /\ view[Leader] # NoEntry =>
          \E i \in Index : i <= committed[Leader] /\ log[Leader][i] = view[Leader]

\* Only write() and a restart of the leader change the leader's tables.
LEMMA LeaderViewSame ==
    ASSUME TypeOK,
           \/ \E c \in Calls : CallStep(c)
           \/ \E x \in Threads : ThreadStep(x)
           \/ \E f \in Followers : BootstrapStep(f) \/ FollowerCrash(f)
    PROVE  view'[Leader] = view[Leader] /\ leaderCrashes' = leaderCrashes
<1>0. view \in [Nodes -> Entries] /\ Leader \in Nodes /\ Leader \notin Followers
  BY ConstantsAssumption DEF TypeOK
<1>1. ASSUME NEW c \in Calls, CallStep(c)
      PROVE  view'[Leader] = view[Leader] /\ leaderCrashes' = leaderCrashes
  BY <1>1 DEF CallStep, AppendCheck, AppendLoad, AppendInc, AppendWrite, AppendDone, obsVars, cntVars
<1>2. ASSUME NEW x \in Threads, ThreadStep(x)
      PROVE  view'[Leader] = view[Leader] /\ leaderCrashes' = leaderCrashes
  <2>0. x[1] # Leader
    BY <1>0 DEF Threads
  <2>1. CASE CommitEntry(x) \/ CommitSet(x)
    BY <1>0, <2>0, <2>1 DEF CommitEntry, CommitSet, Apply, cntVars
  <2>2. CASE RecordAck(x) \/ Rejected(x) \/ RpcFailed(x) \/ NextEntry(x) \/ CommitLost(x)
    BY <2>2 DEF RecordAck, Rejected, RpcFailed, NextEntry, CommitLost, obsVars, cntVars
  <2> QED BY <1>2, <2>1, <2>2 DEF ThreadStep
<1>3. ASSUME NEW f \in Followers, BootstrapStep(f)
      PROVE  view'[Leader] = view[Leader] /\ leaderCrashes' = leaderCrashes
  <2>1. CASE FollowerRestart(f) \/ SnapshotInstall(f)
    BY <1>0, <2>1 DEF FollowerRestart, SnapshotInstall, cntVars
  <2>2. CASE SnapshotLsn(f) \/ SnapshotTable(f) \/ BootstrapFailed(f)
    BY <2>2 DEF SnapshotLsn, SnapshotTable, BootstrapFailed, obsVars, cntVars
  <2> QED BY <1>3, <2>1, <2>2 DEF BootstrapStep
<1>4. ASSUME NEW f \in Followers, FollowerCrash(f)
      PROVE  view'[Leader] = view[Leader] /\ leaderCrashes' = leaderCrashes
  BY <1>0, <1>4 DEF FollowerCrash
<1> QED BY <1>1, <1>2, <1>3, <1>4

\* What was at or below committed_ before a step still is after it.
LEMMA CommittedEntryKept ==
    ASSUME PowerLoss = FALSE, TypeOK, LeaderInv, [Next /\ Serial]_vars, NEW e,
           \E i \in Index : i <= committed[Leader] /\ log[Leader][i] = e
    PROVE  \E i \in Index : i <= committed'[Leader] /\ log'[Leader][i] = e
<1>1. CASE UNCHANGED vars
  BY <1>1 DEF vars, walVars
<1>2. CASE ~UNCHANGED vars
  <2>1. KeepsCommitted
    BY <1>2, KeepsCommittedStep
  <2>2. TypeOK'
    BY NextType
  <2>3. committed[Leader] \in Nat /\ committed'[Leader] \in Nat /\ Index \subseteq Nat
    BY <2>2, Sets DEF TypeOK, WalTypeOK, Counter, Index
  <2>4. \A i, m, n \in Nat : i <= m /\ n >= m => i <= n
    OBVIOUS
  <2> QED BY <2>1, <2>3, <2>4 DEF KeepsCommitted
<1> QED BY <1>1, <1>2

\* Every step of a serial schedule preserves ReplayInv.
LEMMA ReplayNext ==
    ASSUME PowerLoss = FALSE, TypeOK, LeaderInv, ReplayInv, [Next /\ Serial]_vars
    PROVE  ReplayInv'
<1>0. /\ log[Leader] \in [Index -> Entries] /\ Leader \in Nodes /\ view \in [Nodes -> Entries]
      /\ log \in [Nodes -> [Index -> Entries]] /\ wr \in [Writers -> Writer]
      /\ started \in Nat /\ NoEntry = 0 /\ Index \subseteq Nat /\ Ids \subseteq Nat
  BY Sets DEF TypeOK, WalTypeOK, Counter, Index, Ids
<1>1. ASSUME log'[Leader] = log[Leader], view'[Leader] = view[Leader],
             \A w \in Writers : wr'[w].pc \in {"store", "put"} =>
                wr[w].pc \in {"store", "put"} /\ wr'[w].id = wr[w].id
      PROVE  ReplayInv'
  <2>1. \A i, j \in Index : i < j /\ log'[Leader][i] # NoEntry => log'[Leader][i] # log'[Leader][j]
    BY <1>1 DEF ReplayInv
  <2>2. \A w \in Writers : wr'[w].pc \in {"store", "put"} =>
          \A i \in Index : log'[Leader][i] # wr'[w].id
    BY <1>1 DEF ReplayInv
  <2>3. view'[Leader] # NoEntry =>
          \E i \in Index : i <= committed'[Leader] /\ log'[Leader][i] = view'[Leader]
    BY <1>1, CommittedEntryKept DEF ReplayInv
  <2> QED BY <2>1, <2>2, <2>3 DEF ReplayInv
<1>2. ASSUME NEW w \in Writers, WriteStep(w) PROVE ReplayInv'
  <2>1. CASE WriteLoad(w)
    <3>1. /\ log' = log /\ view' = view
          /\ wr' = [wr EXCEPT ![w] = [pc |-> "store", id |-> started + 1, idx |-> last[Leader] + 1]]
      BY <2>1 DEF WriteLoad, walVars
    <3>2. \A i \in Index : log[Leader][i] # started + 1
      BY <1>0 DEF LeaderInv, FreshIds, Entries
    <3>3. \A v \in Writers : wr'[v].pc \in {"store", "put"} =>
            \A i \in Index : log'[Leader][i] # wr'[v].id
      BY <1>0, <3>1, <3>2 DEF ReplayInv
    <3> QED BY <3>1, <3>3, CommittedEntryKept DEF ReplayInv
  <2>2. CASE WriteStore(w)
    <3>1. wr' = [wr EXCEPT ![w] = [wr[w] EXCEPT !.pc = "put"]] /\ wr[w].pc = "store"
          /\ log' = log /\ view' = view
      BY <2>2 DEF WriteStore, AppendStore, obsVars
    <3>2. wr[w].pc # "idle" /\ wr'[w].id = wr[w].id
      BY <1>0, <3>1, Active DEF ActiveWriter
    <3> QED BY <1>0, <1>1, <3>1, <3>2
  <2>3. CASE WritePut(w)
    <3>1. /\ wr[w].pc = "put" /\ wr' = [wr EXCEPT ![w] = [wr[w] EXCEPT !.pc = "persist"]]
          /\ log' = [log EXCEPT ![Leader] = [log[Leader] EXCEPT ![wr[w].idx] = wr[w].id]]
          /\ view' = view
      BY <2>3 DEF WritePut, AppendPut, obsVars
    <3>2. wr[w].idx \in Index /\ wr[w].id \in Ids /\ wr'[w].pc = "persist"
      <4>1. wr[w] \in ActiveWriter /\ wr[w].idx \in Index /\ wr[w].id \in Ids
        BY <1>0, <3>1, Active
      <4>2. wr'[w] = [wr[w] EXCEPT !.pc = "persist"]
        BY <1>0, <3>1
      <4> QED BY <4>1, <4>2 DEF ActiveWriter
    <3>3. \A v \in Writers : v # w => wr'[v] = wr[v] /\ wr[v].pc \notin {"store", "put"}
      BY <1>0, <3>1, InLeaderSection DEF LeaderInv, LeaderCounters
    <3>4. \A v \in Writers : wr'[v].pc \notin {"store", "put"}
      BY <3>2, <3>3
    <3>5. /\ log'[Leader][wr[w].idx] = wr[w].id
          /\ \A i \in Index : i # wr[w].idx => log'[Leader][i] = log[Leader][i]
          /\ \A i \in Index : log[Leader][i] # wr[w].id
      BY <1>0, <3>1, <3>2 DEF ReplayInv
    <3>6. \A i, j \in Index : i < j /\ log'[Leader][i] # NoEntry => log'[Leader][i] # log'[Leader][j]
      <4> SUFFICES ASSUME NEW i \in Index, NEW j \in Index, i < j, log'[Leader][i] # NoEntry
                   PROVE  log'[Leader][i] # log'[Leader][j]
        OBVIOUS
      <4>0. i # j
        BY <1>0
      <4>1. CASE i = wr[w].idx
        BY <3>5, <4>0, <4>1
      <4>2. CASE i # wr[w].idx /\ j = wr[w].idx
        BY <3>5, <4>2
      <4>3. CASE i # wr[w].idx /\ j # wr[w].idx
        BY <3>5, <4>3 DEF ReplayInv
      <4> QED BY <4>1, <4>2, <4>3
    <3> QED BY <3>1, <3>4, <3>6, CommittedEntryKept DEF ReplayInv
  <2>4. CASE WritePersist(w) \/ WriteSpawn(w) \/ WriteTimeout(w)
    <3>1. log' = log /\ view' = view
      BY <2>4 DEF WritePersist, AppendPersist, WriteSpawn, WriteTimeout, walVars, obsVars
    <3>2. wr[w].pc \in {"persist", "spawn", "wait"} /\ \A v \in Writers : v # w => wr'[v] = wr[v]
      BY <1>0, <2>4 DEF WritePersist, WriteSpawn, WriteTimeout
    <3>3. wr'[w].pc \in {"spawn", "wait", "idle"}
      <4>1. wr[w] \in ActiveWriter
        BY <1>0, <3>2, Active
      <4>2. \/ wr'[w] = [wr[w] EXCEPT !.pc = "spawn"]
            \/ wr'[w] = [wr[w] EXCEPT !.pc = "wait"]
            \/ wr'[w] = IdleWriter
        BY <1>0, <2>4 DEF WritePersist, WriteSpawn, WriteTimeout
      <4> QED BY <4>1, <4>2 DEF ActiveWriter, IdleWriter
    <3> QED BY <1>1, <3>1, <3>2, <3>3
  <2>5. CASE WriteCommit(w)
    <3>1. /\ wr[w].pc = "wait" /\ log' = log
          /\ view' = [view EXCEPT ![Leader] = IF ReadEntry(Leader, wr[w].idx) = NoEntry
                                              THEN view[Leader]
                                              ELSE ReadEntry(Leader, wr[w].idx)]
      BY <2>5 DEF WriteCommit, Commit, Apply
    <3>2. wr'[w].pc = "idle" /\ \A v \in Writers : v # w => wr'[v] = wr[v]
      BY <1>0, <2>5 DEF WriteCommit, IdleWriter
    <3>3. wr[w].idx \in Index /\ log[Leader][wr[w].idx] = wr[w].id /\ wr[w].id # NoEntry
      <4>1. wr[w].idx \in Index /\ wr[w].id \in Ids
        BY <1>0, <3>1, Active
      <4>2. log[Leader][wr[w].idx] = wr[w].id
        BY <3>1 DEF LeaderInv, LeaderCounters
      <4>3. \A id \in Ids : id # 0
        BY DEF Ids
      <4> QED BY <1>0, <4>1, <4>2, <4>3
    <3>4. view'[Leader] = wr[w].id
      BY <1>0, <3>1, <3>3 DEF ReadEntry
    <3>5. wr[w].idx <= committed'[Leader]
      BY <1>0, <2>5, <3>3, Sets DEF WriteCommit, Commit, TypeOK, WalTypeOK, Counter
    <3> QED BY <3>1, <3>2, <3>3, <3>4, <3>5 DEF ReplayInv
  <2> QED BY <1>2, <2>1, <2>2, <2>3, <2>4, <2>5 DEF WriteStep
<1>3. ASSUME LeaderRestart PROVE ReplayInv'
  <2>1. PICK v \in Entries : /\ Reopen(Leader, disk[Leader])
                             /\ Replayed(Leader, disk[Leader].committed, v)
                             /\ view' = [view EXCEPT ![Leader] = v]
    BY <1>3 DEF LeaderRestart, Survives
  <2>2. log' = log /\ committed'[Leader] = disk[Leader].committed
    BY <1>0, <2>1 DEF Reopen, TypeOK, WalTypeOK
  <2>3. view'[Leader] = v
    BY <1>0, <2>1
  <2>4. v # NoEntry => \E i \in Index : i <= disk[Leader].committed /\ log[Leader][i] = v
    BY <2>1 DEF Replayed
  <2>5. \A w \in Writers : wr'[w].pc = "idle"
    BY <1>3 DEF LeaderRestart, IdleWriter
  <2> QED BY <2>2, <2>3, <2>4, <2>5 DEF ReplayInv
<1>4. ASSUME LeaderSame, view'[Leader] = view[Leader] PROVE ReplayInv'
  BY <1>1, <1>4 DEF LeaderSame
<1>5. CASE UNCHANGED vars
  BY <1>1, <1>5 DEF vars, walVars, ctlVars, obsVars
<1> QED BY <1>2, <1>3, <1>4, <1>5, CallSame, ThreadSame, BootstrapSame, LeaderViewSame DEF Next

\* A restart of the leader rebuilds tables that are no older.
LEMMA RestartNotOlder ==
    ASSUME PowerLoss = FALSE, TypeOK, LeaderInv, ReplayInv, LeaderRestart
    PROVE  NotOlder
<1>0. Index \subseteq Nat /\ disk[Leader].committed \in Nat /\ view \in [Nodes -> Entries]
      /\ Leader \in Nodes
  BY Sets DEF TypeOK, WalTypeOK, Saved, Counter, Index
<1> SUFFICES ASSUME NEW i \in Index, view[Leader] # NoEntry, log[Leader][i] = view[Leader]
             PROVE  \E j \in Index : i <= j /\ log'[Leader][j] = view'[Leader]
  BY DEF NotOlder
<1>1. PICK v \in Entries : /\ Reopen(Leader, disk[Leader])
                           /\ Replayed(Leader, disk[Leader].committed, v)
                           /\ view' = [view EXCEPT ![Leader] = v]
  BY DEF LeaderRestart, Survives
<1>2. log' = log /\ view'[Leader] = v
  BY <1>0, <1>1 DEF Reopen
<1>3. PICK c \in Index : c <= disk[Leader].committed /\ log[Leader][c] = view[Leader]
  BY DEF ReplayInv, LeaderInv, LeaderCounters
<1>4. i = c
  BY <1>0, <1>3 DEF ReplayInv
<1>5. i \in {k \in Index : k <= disk[Leader].committed /\ log[Leader][k] # NoEntry}
  BY <1>3, <1>4
<1>6. PICK j \in Index : i <= j /\ v = log[Leader][j]
  BY <1>1, <1>5 DEF Replayed
<1> QED BY <1>2, <1>6

\* Only a restart of the leader counts as one.
LEMMA CrashIsRestart ==
    ASSUME TypeOK, [Next /\ Serial]_vars, leaderCrashes' # leaderCrashes
    PROVE  LeaderRestart
<1>1. ASSUME NEW w \in Writers, WriteStep(w) PROVE leaderCrashes' = leaderCrashes
  BY <1>1 DEF WriteStep, WriteLoad, WriteStore, WritePut, WritePersist, WriteSpawn, WriteCommit,
              WriteTimeout, cntVars
<1>2. CASE UNCHANGED vars
  BY <1>2 DEF vars, cntVars
<1> QED BY <1>1, <1>2, LeaderViewSame DEF Next

\* Tables rebuilt by replay() after a crash of the leader never show an older
\* put than the tables showed before the crash.
THEOREM ReplayedTablesNotOlder ==
    ASSUME PowerLoss = FALSE
    PROVE  SerialSpec => ReplayNotOlder
<1>1. Init => ReplayInv
  BY Sets DEF Init, WalInit, ReplayInv, IdleWriter
<1>2. TypeOK /\ LeaderInv /\ ReplayInv /\ [Next /\ Serial]_vars => ReplayInv'
  BY ReplayNext
<1>3. TypeOK /\ LeaderInv /\ ReplayInv /\ [Next /\ Serial]_vars
        => [leaderCrashes' # leaderCrashes => NotOlder]_vars
  BY RestartNotOlder, CrashIsRestart
<1> QED BY <1>1, <1>2, <1>3, SerialType, LeaderInvariant, PTL DEF SerialSpec, ReplayNotOlder

(***************************************************************************)
(* The metadata log implements CommitLog: on these schedules every step of *)
(* the detailed specification is a Commit, a Fail or no step of the        *)
(* abstract one.                                                           *)
(***************************************************************************)
\* The persisted part of the leader's log has no missing entry.
NoHoles == \A i \in Index : i <= disk[Leader].last => log[Leader][i] # NoEntry

\* The types the arguments below rest on.
LEMMA LeaderTypes ==
    ASSUME TypeOK
    PROVE  /\ Leader \in Nodes /\ WalTypeOK
           /\ log[Leader] \in [Index -> Entries]
           /\ last[Leader] \in Nat /\ committed[Leader] \in Nat
           /\ disk[Leader].last \in Nat /\ disk[Leader].committed \in Nat
           /\ disk[Leader].last <= MaxWrites
           /\ MaxWrites \in Nat /\ Index = 1 .. MaxWrites /\ Ids = 1 .. MaxWrites
           /\ Entries = 0 .. MaxWrites /\ NoEntry = 0
<1>1. Leader \in Nodes /\ MaxWrites \in Nat
  BY Sets, MaxWritesAssumption
<1>2. WalTypeOK
  BY DEF TypeOK
<1>3. /\ log[Leader] \in [Index -> Entries]
      /\ last[Leader] \in Counter /\ committed[Leader] \in Counter
      /\ disk[Leader].last \in Counter /\ disk[Leader].committed \in Counter
  BY <1>1, <1>2 DEF WalTypeOK, Saved
<1>4. Index = 1 .. MaxWrites /\ Ids = 1 .. MaxWrites /\ Entries = 0 .. MaxWrites /\ NoEntry = 0
  BY <1>1 DEF Index, Ids, Entries, NoEntry
<1> QED BY <1>1, <1>2, <1>3, <1>4 DEF Counter

\* append() persists an index only after its entry was put there, and a
\* restart reads back the persisted index, so no step opens a hole.
LEMMA NoHolesNext ==
    ASSUME PowerLoss = FALSE, TypeOK, LeaderInv, NoHoles, [Next /\ Serial]_vars
    PROVE  NoHoles'
<1>1. ASSUME LeaderSame PROVE NoHoles'
  BY <1>1 DEF LeaderSame, NoHoles
<1>2. ASSUME NEW w \in Writers, WriteStep(w) PROVE NoHoles'
  <2>1. CASE WriteLoad(w) \/ WriteSpawn(w) \/ WriteTimeout(w) \/ WriteStore(w)
    BY <2>1 DEF WriteLoad, WriteSpawn, WriteTimeout, WriteStore, AppendStore, walVars, NoHoles
  <2>2. CASE WritePut(w)
    <3>1. wr[w].pc # "idle" /\ wr[w].idx = disk[Leader].last + 1
      BY <2>2, LeaderTypes DEF WritePut, LeaderInv, LeaderCounters
    <3>2. \A i \in Index : i <= disk[Leader].last => log'[Leader][i] = log[Leader][i]
      BY <2>2, <3>1, LeaderTypes DEF WritePut, AppendPut, WalTypeOK
    <3> QED BY <2>2, <3>2 DEF WritePut, AppendPut, NoHoles
  <2>3. CASE WritePersist(w)
    <3>1. /\ last[Leader] = disk[Leader].last + 1 /\ wr[w].idx = last[Leader]
          /\ log[Leader][wr[w].idx] = wr[w].id
      BY <2>3 DEF WritePersist, LeaderInv, LeaderCounters
    <3>2. wr[w].id \in Ids
      BY <2>3, WriterFacts DEF WritePersist
    <3>3. log' = log /\ disk'[Leader].last = last[Leader]
      BY <2>3, LeaderTypes DEF WritePersist, AppendPersist, WalTypeOK
    <3> QED BY <3>1, <3>2, <3>3, LeaderTypes DEF NoHoles
  <2>4. CASE WriteCommit(w)
    <3>1. log' = log /\ disk'[Leader].last = disk[Leader].last
      BY <2>4, LeaderTypes DEF WriteCommit, Commit, WalTypeOK
    <3> QED BY <3>1 DEF NoHoles
  <2> QED BY <1>2, <2>1, <2>2, <2>3, <2>4 DEF WriteStep
<1>3. ASSUME LeaderRestart PROVE NoHoles'
  <2>1. Reopen(Leader, disk[Leader])
    BY <1>3 DEF LeaderRestart, Survives
  <2> QED BY <2>1, LeaderTypes DEF Reopen, WalTypeOK, NoHoles
<1>4. CASE UNCHANGED vars
  BY <1>4 DEF vars, walVars, NoHoles
<1> QED BY <1>1, <1>2, <1>3, <1>4, CallSame, ThreadSame, BootstrapSame DEF Next

\* The committed part of the leader's log is a sequence of distinct writes.
ChainOK ==
    /\ committed[Leader] \in Nat
    /\ CommittedChain \in Seq(Ids)
    /\ DOMAIN CommittedChain = 1 .. committed[Leader]
    /\ Promise!OnceEach(CommittedChain)

\* That follows from the invariants of the leader's log.
LEMMA ChainIsLog ==
    ASSUME TypeOK, LeaderInv, NoHoles
    PROVE  ChainOK
<1>1. /\ committed[Leader] <= disk[Leader].last
      /\ 1 .. committed[Leader] \subseteq Index
  BY LeaderTypes DEF LeaderInv, LeaderCounters
<1>2. \A i \in 1 .. committed[Leader] : log[Leader][i] \in Ids
  BY <1>1, LeaderTypes DEF NoHoles
<1>3. CommittedChain \in [1 .. committed[Leader] -> Ids]
  BY <1>2 DEF CommittedChain
<1>4. CommittedChain \in Seq(Ids)
  BY <1>3, LeaderTypes, SeqDef
<1>5. ASSUME NEW i \in 1 .. committed[Leader], NEW j \in 1 .. committed[Leader], i # j
      PROVE  log[Leader][i] # log[Leader][j]
  <2>1. i \in Index /\ j \in Index /\ i <= disk[Leader].last /\ j <= disk[Leader].last
    BY <1>1, LeaderTypes
  <2>2. i < j \/ j < i
    BY <1>5, LeaderTypes
  <2> QED BY <2>1, <2>2 DEF LeaderInv, FreshIds
<1>6. DOMAIN CommittedChain = 1 .. committed[Leader]
  BY DEF CommittedChain
<1>7. Promise!OnceEach(CommittedChain)
  BY <1>5, <1>6 DEF CommittedChain, Promise!OnceEach
<1> QED BY <1>4, <1>6, <1>7, LeaderTypes DEF ChainOK

\* A step that leaves the committed part of the log and the answers alone.
LEMMA ChainSame ==
    ASSUME TypeOK, LeaderInv,
           committed'[Leader] = committed[Leader],
           \A i \in Index : i <= committed[Leader] => log'[Leader][i] = log[Leader][i],
           result' = result
    PROVE  UNCHANGED <<CommittedChain, result>>
<1>1. 1 .. committed[Leader] \subseteq Index
  BY LeaderTypes DEF LeaderInv, LeaderCounters
<1>2. \A i \in 1 .. committed[Leader] : log'[Leader][i] = log[Leader][i]
  BY <1>1, LeaderTypes
<1>3. [i \in 1 .. committed'[Leader] |-> log'[Leader][i]] = [i \in 1 .. committed[Leader] |-> log[Leader][i]]
  BY <1>2
<1> QED BY <1>3 DEF CommittedChain

\* Every step of the detailed specification is a step of CommitLog or none.
LEMMA StepRefines ==
    ASSUME PowerLoss = FALSE, TypeOK, LeaderInv, ChainOK', [Next /\ Serial]_vars
    PROVE  [Promise!Next]_<<CommittedChain, result>>
<1>1. ASSUME LeaderSame PROVE UNCHANGED <<CommittedChain, result>>
  BY <1>1, ChainSame DEF LeaderSame
<1>2. ASSUME NEW w \in Writers, WriteCommit(w) PROVE Promise!Commit(wr[w].id)
  <2>0. /\ wr[w].pc = "wait" /\ wr[w].pc # "idle"
    BY <1>2 DEF WriteCommit
  <2>1. /\ wr[w].id \in Ids /\ result[wr[w].id] = "none"
        /\ wr[w].idx \in Index /\ log[Leader][wr[w].idx] = wr[w].id
    BY <2>0, WriterFacts DEF LeaderInv, LeaderCounters
  <2>2. result' = [result EXCEPT ![wr[w].id] = "OK"]
    BY <1>2 DEF WriteCommit
  <2>3. log' = log
    BY <1>2 DEF WriteCommit, Commit
  <2>4. committed'[Leader] >= committed[Leader] /\ committed'[Leader] >= wr[w].idx
    BY <1>2, <2>1, LeaderTypes DEF WriteCommit, Commit, WalTypeOK
  <2>5. /\ CommittedChain' \in Seq(Ids)
        /\ DOMAIN CommittedChain' = 1 .. committed'[Leader]
        /\ Promise!OnceEach(CommittedChain')
        /\ committed'[Leader] \in Nat
    BY DEF ChainOK, Promise!OnceEach, Ids
  <2>7. Promise!Extends(CommittedChain, CommittedChain')
    BY <2>3, <2>4, <2>5, LeaderTypes DEF Promise!Extends, CommittedChain
  <2>8. wr[w].idx \in DOMAIN CommittedChain' /\ CommittedChain'[wr[w].idx] = wr[w].id
    BY <2>1, <2>3, <2>4, <2>5, LeaderTypes DEF CommittedChain
  <2> QED BY <2>1, <2>2, <2>5, <2>7, <2>8 DEF Promise!Commit
<1>3. ASSUME NEW w \in Writers, WriteTimeout(w) PROVE Promise!Fail(wr[w].id)
  <2>1. result[wr[w].id] = "none"
    BY <1>3, WriterFacts DEF WriteTimeout
  <2>2. CommittedChain' = CommittedChain
    BY <1>3 DEF WriteTimeout, walVars, CommittedChain
  <2> QED BY <1>3, <2>1, <2>2 DEF WriteTimeout, Promise!Fail
<1>4. ASSUME NEW w \in Writers, WriteStep(w), ~WriteCommit(w), ~WriteTimeout(w)
      PROVE  UNCHANGED <<CommittedChain, result>>
  <2>1. committed' = committed /\ result' = result
    BY <1>4 DEF WriteStep, WriteLoad, WriteStore, WritePut, WritePersist, WriteSpawn,
                AppendStore, AppendPut, AppendPersist, walVars, obsVars
  <2>2. CASE log' = log
    BY <2>1, <2>2, ChainSame
  <2>3. CASE WritePut(w)
    <3>1. wr[w].idx = disk[Leader].last + 1 /\ committed[Leader] <= disk[Leader].last
      BY <2>3, LeaderTypes DEF WritePut, LeaderInv, LeaderCounters
    <3>2. \A i \in Index : i <= committed[Leader] => log'[Leader][i] = log[Leader][i]
      BY <2>3, <3>1, LeaderTypes DEF WritePut, AppendPut, WalTypeOK
    <3> QED BY <2>1, <3>2, ChainSame
  <2> QED BY <1>4, <2>2, <2>3 DEF WriteStep, WriteLoad, WriteStore, WritePersist, WriteSpawn,
                AppendStore, AppendPersist, walVars
<1>5. ASSUME LeaderRestart PROVE UNCHANGED <<CommittedChain, result>>
  <2>1. Reopen(Leader, disk[Leader]) /\ result' = result
    BY <1>5 DEF LeaderRestart, Survives
  <2>2. log' = log /\ committed'[Leader] = committed[Leader]
    BY <2>1, LeaderTypes DEF Reopen, WalTypeOK, LeaderInv, LeaderCounters
  <2> QED BY <2>1, <2>2, ChainSame
<1>6. CASE UNCHANGED vars
  BY <1>6 DEF vars, walVars, obsVars, CommittedChain
<1>7. ASSUME NEW w \in Writers, WriteStep(w) PROVE [Promise!Next]_<<CommittedChain, result>>
  <2>1. WriteCommit(w) \/ WriteTimeout(w) => wr[w].id \in Ids
    BY WriterFacts DEF WriteCommit, WriteTimeout
  <2> QED BY <1>2, <1>3, <1>4, <1>7, <2>1 DEF Promise!Next
<1> QED BY <1>1, <1>5, <1>6, <1>7, CallSame, ThreadSame, BootstrapSame DEF Next

\* The initial log is the empty chain with no answers.
LEMMA InitRefines == Init => Promise!Init /\ NoHoles
<1> SUFFICES ASSUME Init PROVE Promise!Init /\ NoHoles
  OBVIOUS
<1>1. committed[Leader] = 0 /\ disk[Leader].last = 0
  BY Sets DEF Init, WalInit
<1>2. CommittedChain = << >>
  BY <1>1 DEF CommittedChain
<1>3. NoHoles
  BY <1>1 DEF NoHoles, Index
<1> QED BY <1>2, <1>3 DEF Init, Promise!Init

\* write() implements CommitLog: whatever is lost, delayed or crashes below
\* it, nothing is committed except by the step that answers OK, nothing
\* committed is withdrawn, moved or committed twice, and nobody is answered
\* twice, for any number of followers, writers and writes.
THEOREM WriteImplementsCommitLog ==
    ASSUME PowerLoss = FALSE
    PROVE  SerialSpec => ImplementsCommitLog
<1>1. TypeOK /\ LeaderInv /\ NoHoles /\ [Next /\ Serial]_vars => NoHoles'
  BY NoHolesNext
<1>2. TypeOK /\ LeaderInv /\ ChainOK' /\ [Next /\ Serial]_vars
        => [Promise!Next]_<<CommittedChain, result>>
  BY StepRefines
<1>3. TypeOK /\ LeaderInv /\ NoHoles => ChainOK
  BY ChainIsLog
<1>4. SerialSpec => []NoHoles
  BY <1>1, InitRefines, SerialType, LeaderInvariant, PTL DEF SerialSpec
<1> QED BY <1>2, <1>3, <1>4, InitRefines, SerialType, LeaderInvariant, PTL
        DEF SerialSpec, ImplementsCommitLog, Promise!Spec
=============================================================================
