------------------------------ MODULE AckProofs ------------------------------
(***************************************************************************)
(* What an acknowledgement is worth, on serial schedules and as long as a  *)
(* crash loses nothing RocksDB was given: a success that is reported,      *)
(* counted or followed by CommitEntry stands for an entry on the           *)
(* follower's disk.  From it follow what match_index promises, what an OK  *)
(* answer promises and what the followers show.  Last, the status the      *)
(* leader derives from the time since the last acknowledgement, for any    *)
(* schedule: LAGGING only while the follower is silent.                    *)
(***************************************************************************)
EXTENDS LogMatchingProofs, FollowerHealth, FiniteSetTheorems

(***************************************************************************)
(* AcksSound, thread by thread.                                            *)
(***************************************************************************)

AckOfThread(x) ==
    /\ thr[x].pc = "rpc" =>
          /\ hnd[CallOf(x)].pc \in InFlight => hnd[CallOf(x)].idx = Cur(x)
          /\ hnd[CallOf(x)].pc = "ok" => Cur(x) <= disk[x[1]].last
    /\ thr[x].pc \in {"commit", "set"} => Cur(x) <= disk[x[1]].last

AckCounts == \A i \in Index : acks[i] > 0 => \E f \in Followers : i <= disk[f].last

\* AcksSound is these parts.
LEMMA AcksParts ==
    AcksSound <=> (\A x \in Threads : AckOfThread(x)) /\ MatchSound /\ AckCounts
  BY DEF AcksSound, AckOfThread, AckCounts, InFlight, InSection

\* A thread that stays where it is, and whose call is the same or gone.
LEMMA AckFrame ==
    ASSUME TypeOK, FollowersGrow, NEW x \in Threads, AckOfThread(x),
           thr'[x].pc \in {"rpc", "commit", "set"} =>
               thr'[x].pc = thr[x].pc /\ thr'[x].k = thr[x].k /\ Cur(x)' = Cur(x),
           hnd'[CallOf(x)] = hnd[CallOf(x)] \/ hnd'[CallOf(x)].pc = "none"
    PROVE  AckOfThread(x)'
<1>1. /\ x[1] \in Followers /\ Cur(x) \in Nat
      /\ disk[x[1]].last \in Nat /\ disk'[x[1]].last \in Nat
      /\ disk'[x[1]].last >= disk[x[1]].last
  BY ThreadTypes, NodeTypes DEF FollowersGrow
<1>2. Cur(x) <= disk[x[1]].last => Cur(x) <= disk'[x[1]].last
  BY <1>1
<1>3. thr'[x].k = thr[x].k => CallOf(x)' = CallOf(x)
  BY DEF CallOf
<1>4. CASE thr'[x].pc \in {"rpc", "commit", "set"}
  <2>1. CallOf(x)' = CallOf(x) /\ Cur(x)' = Cur(x) /\ thr'[x].pc = thr[x].pc
    BY <1>3, <1>4
  <2>2. hnd'[CallOf(x)].pc \in InFlight \union {"ok"} => hnd'[CallOf(x)] = hnd[CallOf(x)]
    BY DEF InFlight, InSection
  <2> QED BY <1>2, <2>1, <2>2 DEF AckOfThread
<1>5. CASE thr'[x].pc \notin {"rpc", "commit", "set"}
  BY <1>5 DEF AckOfThread
<1> QED BY <1>4, <1>5

\* What match_index and the counts say stays true as the logs grow.
LEMMA CountsFrame ==
    ASSUME TypeOK, FollowersGrow, MatchSound, AckCounts, match' = match,
           \A i \in Index : acks'[i] > 0 => acks[i] > 0
    PROVE  MatchSound' /\ AckCounts'
<1>1. \A f \in Followers : /\ disk[f].last \in Nat /\ disk'[f].last \in Nat
                           /\ disk'[f].last >= disk[f].last
                           /\ match[f] \in Nat
  BY NodeTypes DEF FollowersGrow, TypeOK, Counter
<1>2. MatchSound'
  BY <1>1 DEF MatchSound
<1>3. AckCounts'
  <2> SUFFICES ASSUME NEW i \in Index, acks'[i] > 0
               PROVE  \E f \in Followers : i <= disk'[f].last
    BY DEF AckCounts
  <2>1. PICK f \in Followers : i <= disk[f].last
    BY DEF AckCounts
  <2> QED BY <1>1, <2>1, NodeTypes
<1> QED BY <1>2, <1>3

\* write() spawns threads whose call is about their own index.
LEMMA WriteAcks ==
    ASSUME TypeOK, FollowersGrow, AcksSound, NEW w \in Writers, WriteStep(w)
    PROVE  AcksSound'
<1>0. (\A x \in Threads : AckOfThread(x)) /\ MatchSound /\ AckCounts
  BY AcksParts
<1>1. CASE WriteSpawn(w)
  <2>1. match' = match /\ \A i \in Index : acks'[i] > 0 => acks[i] > 0
    BY <1>1 DEF WriteSpawn, TypeOK
  <2>2. ASSUME NEW x \in Threads PROVE AckOfThread(x)'
    <3>1. CASE x[2] = wr[w].id
      <4>1. thr'[x] = [pc |-> "rpc", idx |-> wr[w].idx, k |-> 0, seen |-> 0]
        BY <1>1, <3>1 DEF WriteSpawn
      <4>2. CallOf(x)' = <<x[1], x[2], "d">> /\ Cur(x)' = wr[w].idx
        BY <4>1 DEF CallOf, Cur
      <4>3. <<x[1], x[2], "d">> \in Calls
        BY DEF Calls, Threads, Modes
      <4>4. hnd'[<<x[1], x[2], "d">>] =
              [pc |-> "sent", idx |-> wr[w].idx, ent |-> wr[w].id, reg |-> 0]
        BY <1>1, <3>1, <4>3 DEF WriteSpawn
      <4> QED BY <4>1, <4>2, <4>4 DEF AckOfThread
    <3>2. CASE x[2] # wr[w].id
      <4>1. thr'[x] = thr[x]
        BY <1>1, <3>2 DEF WriteSpawn
      <4>2. CallOf(x) \in Calls /\ CallOf(x)[2] = x[2]
        BY ThreadTypes DEF CallOf
      <4>3. hnd'[CallOf(x)] = hnd[CallOf(x)]
        BY <1>1, <3>2, <4>2 DEF WriteSpawn
      <4>4. Cur(x)' = Cur(x)
        BY <4>1 DEF Cur
      <4> QED BY <1>0, <4>1, <4>3, <4>4, AckFrame
    <3> QED BY <3>1, <3>2
  <2> QED BY <1>0, <2>1, <2>2, CountsFrame DEF AcksSound, AckOfThread, AckCounts, InFlight, InSection
<1>2. CASE ~WriteSpawn(w)
  <2>1. thr' = thr /\ hnd' = hnd /\ match' = match /\ acks' = acks
    BY <1>2 DEF WriteStep, WriteLoad, WriteStore, WritePut, WritePersist, WriteCommit, WriteTimeout
  <2>2. \A x \in Threads : Cur(x)' = Cur(x)
    BY <2>1 DEF Cur
  <2>3. \A x \in Threads : AckOfThread(x)'
    BY <1>0, <2>1, <2>2, AckFrame
  <2> QED BY <1>0, <2>1, <2>3, CountsFrame DEF AcksSound, AckOfThread, AckCounts, InFlight, InSection
<1> QED BY <1>1, <1>2

\* The call a thread waits for is the one it made.
LEMMA AwaitedCall ==
    ASSUME TypeOK, NEW c \in Calls, Awaited(c)
    PROVE  c = CallOf(<<c[1], c[2]>>) /\ thr[<<c[1], c[2]>>].pc = "rpc"
<1>1. c = <<c[1], c[2], c[3]>> /\ c[3] \in {"d", "c"}
  BY CallTypes
<1> QED BY <1>1 DEF Awaited, CallOf

\* handle_append() answers "ok" only for an entry that is on disk.
LEMMA CallAcks ==
    ASSUME TypeOK, FollowerCounters, FollowersGrow, AcksSound, Serial, NEW c \in Calls, CallStep(c)
    PROVE  AcksSound'
<1> DEFINE f == c[1]
           x == <<c[1], c[2]>>
<1>0. (\A y \in Threads : AckOfThread(y)) /\ MatchSound /\ AckCounts
  BY AcksParts
<1>1. /\ thr' = thr /\ match' = match /\ acks' = acks
      /\ \A e \in Calls : e # c => hnd'[e] = hnd[e]
      /\ hnd[c].pc \in InFlight
      /\ hnd'[c].pc \in InFlight => hnd'[c].idx = hnd[c].idx
  <2>1. match' = match /\ acks' = acks
    BY DEF CallStep, AppendCheck, AppendLoad, AppendInc, AppendWrite, AppendDone
  <2> QED BY <2>1, CallStepKept DEF CallsKept
<1>2. /\ x \in Threads /\ x[1] = f /\ f \in Followers /\ f \in Nodes
      /\ disk[f].last \in Nat /\ last[f] \in Nat /\ hnd[c].idx \in Nat
      /\ hnd \in [Calls -> Call]
  BY CallTypes, NodeTypes DEF TypeOK
<1>3. \A y \in Threads : CallOf(y)' = CallOf(y) /\ Cur(y)' = Cur(y)
  BY <1>1 DEF CallOf, Cur
<1>4. ASSUME NEW y \in Threads, CallOf(y) # c PROVE AckOfThread(y)'
  <2>1. hnd'[CallOf(y)] = hnd[CallOf(y)]
    BY <1>1, <1>4, ThreadTypes
  <2> QED BY <1>0, <1>1, <1>3, <2>1, AckFrame
<1>5. ASSUME NEW y \in Threads, CallOf(y) = c PROVE y = x
  BY <1>5, ThreadTypes DEF CallOf
<1>6. hnd'[c].pc = "ok" => hnd[c].idx <= disk'[f].last
  <2>1. CASE AppendCheck(c)
    <3> SUFFICES ASSUME hnd'[c].pc = "ok" PROVE hnd[c].idx <= disk'[f].last
      OBVIOUS
    <3>1. hnd[c].pc = "sent" /\ disk' = disk
      BY <2>1 DEF AppendCheck, walVars
    <3>2. AppendSection(f) = {}
      BY <3>1 DEF Serial
    <3>3. last[f] = disk[f].last
      BY <1>2, <3>2 DEF FollowerCounters
    <3>4. hnd[c].idx <= last[f]
      BY <1>2, <2>1 DEF AppendCheck, Answer, NoCall, Call
    <3> QED BY <3>1, <3>3, <3>4
  <2>2. CASE AppendLoad(c) \/ AppendInc(c) \/ AppendWrite(c)
    BY <1>2, <2>2 DEF AppendLoad, AppendInc, AppendWrite, Call
  <2>3. CASE AppendDone(c)
    <3>1. hnd[c].idx = last[f]
      BY <2>3 DEF AppendDone, FollowerCounters
    <3>2. disk'[f].last = last[f]
      BY <1>2, <2>3 DEF AppendDone, AppendPersist, TypeOK, WalTypeOK
    <3> QED BY <1>2, <3>1, <3>2
  <2> QED BY <2>1, <2>2, <2>3 DEF CallStep
<1>7. ASSUME CallOf(x) = c PROVE AckOfThread(x)'
  <2>1. thr[x].pc = "rpc" => hnd[c].idx = Cur(x)
    BY <1>0, <1>1, <1>2, <1>7 DEF AckOfThread
  <2>2. thr[x].pc \in {"commit", "set"} => Cur(x) <= disk'[f].last
    <3>1. thr[x].pc \in {"commit", "set"} => Cur(x) <= disk[f].last
      BY <1>0, <1>2 DEF AckOfThread
    <3>2. Cur(x) \in Nat /\ disk'[f].last \in Nat /\ disk'[f].last >= disk[f].last
      BY <1>2, ThreadTypes DEF FollowersGrow
    <3> QED BY <1>2, <3>1, <3>2
  <2>3. CallOf(x)' = c /\ Cur(x)' = Cur(x)
    BY <1>2, <1>3, <1>7
  <2> QED BY <1>1, <1>2, <1>6, <2>1, <2>2, <2>3 DEF AckOfThread
<1>8. \A y \in Threads : AckOfThread(y)'
  BY <1>4, <1>5, <1>7
<1> QED BY <1>0, <1>1, <1>8, CountsFrame DEF AcksSound, AckOfThread, AckCounts, InFlight, InSection

\* The calls of two threads are two calls.
LEMMA CallsApart ==
    ASSUME NEW x \in Threads, NEW y \in Threads, x # y
    PROVE  CallOf(y) # CallOf(x) /\ CallOf(y) # <<x[1], x[2], "c">>
  BY DEF CallOf, Threads

\* A thread counts, and raises match_index for, what its follower holds.
LEMMA ThreadAcks ==
    ASSUME TypeOK, ThreadsInLog, FollowersGrow, AcksSound, NEW x \in Threads, ThreadStep(x)
    PROVE  AcksSound'
<1> DEFINE f == x[1]
<1>0. (\A y \in Threads : AckOfThread(y)) /\ MatchSound /\ AckCounts
  BY AcksParts
<1>1. /\ \A y \in Threads : y # x => thr'[y] = thr[y]
      /\ thr[x].pc \in Moving
  BY ThreadStepThreads
<1>2. /\ x \in Threads /\ f \in Followers /\ Cur(x) \in Nat
      /\ disk[f].last \in Nat /\ disk'[f].last \in Nat /\ disk'[f].last >= disk[f].last
      /\ hnd \in [Calls -> Call] /\ thr \in [Threads -> Thread] /\ thr[x] \in Thread
      /\ CallOf(x) \in Calls /\ <<x[1], x[2], "c">> \in Calls
  BY ThreadTypes, NodeTypes DEF TypeOK, FollowersGrow
<1>3. ASSUME NEW y \in Threads, y # x PROVE AckOfThread(y)'
  <2>1. hnd'[CallOf(y)] = hnd[CallOf(y)]
    <3>1. CallOf(y) # CallOf(x) /\ CallOf(y) # <<x[1], x[2], "c">> /\ CallOf(y) \in Calls
      BY <1>3, CallsApart, ThreadTypes
    <3> QED BY <1>2, <3>1 DEF ThreadStep, RecordAck, Rejected, RpcFailed, NextEntry, CommitEntry,
                              CommitSet, CommitLost
  <2>2. thr'[y] = thr[y] /\ Cur(y)' = Cur(y)
    BY <1>1, <1>3 DEF Cur
  <2> QED BY <1>0, <2>1, <2>2, AckFrame
<1>4. CASE RecordAck(x)
  <2>1. Cur(x) <= disk[f].last
    BY <1>0, <1>4 DEF RecordAck, AckOfThread
  <2>2. disk' = disk
    BY <1>4 DEF RecordAck, walVars
  <2>3. thr'[x].pc = "commit" /\ Cur(x)' = Cur(x)
    BY <1>2, <1>4 DEF RecordAck, Thread, Cur
  <2>4. AckOfThread(x)'
    BY <2>1, <2>2, <2>3 DEF AckOfThread
  <2>5. MatchSound'
    <3>1. \A g \in Followers : match'[g] = match[g] \/ (g = f /\ match'[g] = Cur(x))
      BY <1>4 DEF RecordAck, TypeOK
    <3> QED BY <1>0, <2>1, <2>2, <3>1 DEF MatchSound
  <2>6. AckCounts'
    <3>1. \A i \in Index : i = Cur(x) \/ acks'[i] = acks[i]
      BY <1>4 DEF RecordAck, TypeOK
    <3> QED BY <1>0, <1>2, <2>1, <2>2, <3>1 DEF AckCounts
  <2> QED BY <1>3, <2>4, <2>5, <2>6 DEF AcksSound, AckOfThread, AckCounts, InFlight, InSection
<1>5. CASE ~RecordAck(x)
  <2>1. match' = match /\ acks' = acks
    BY <1>5 DEF ThreadStep, Rejected, RpcFailed, NextEntry, CommitEntry, CommitSet, CommitLost
  <2>2. AckOfThread(x)'
    <3>1. CASE thr'[x].pc \notin {"rpc", "commit", "set"}
      BY <3>1 DEF AckOfThread
    <3>2. CASE NextEntry(x) /\ thr'[x].pc = "rpc"
      <4>1. /\ ReadEntry(Leader, thr[x].k) # NoEntry
            /\ thr' = [thr EXCEPT ![x] = [@ EXCEPT !.pc = "rpc"]]
            /\ hnd' = [hnd EXCEPT ![<<x[1], x[2], "c">>] =
                         [pc |-> "sent", idx |-> thr[x].k,
                          ent |-> ReadEntry(Leader, thr[x].k), reg |-> 0]]
        BY <1>2, <3>2 DEF NextEntry, OffThread
      <4>2. thr[x].k # 0
        BY <4>1 DEF ReadEntry, Index
      <4>3. thr'[x].k = thr[x].k
        BY <1>2, <4>1 DEF Thread
      <4>4. CallOf(x)' = <<x[1], x[2], "c">> /\ Cur(x)' = thr[x].k
        BY <4>2, <4>3 DEF CallOf, Cur
      <4>5. hnd'[<<x[1], x[2], "c">>].pc = "sent" /\ hnd'[<<x[1], x[2], "c">>].idx = thr[x].k
        BY <1>2, <4>1
      <4> QED BY <3>2, <4>4, <4>5 DEF AckOfThread
    <3>3. CASE CommitEntry(x) /\ thr'[x].pc = "set"
      <4>1. thr[x].pc = "commit" /\ Cur(x) <= disk[f].last
        BY <1>0, <3>3 DEF CommitEntry, AckOfThread
      <4>2. thr'[x].k = thr[x].k /\ thr'[x].idx = thr[x].idx
        BY <3>3, ThreadStepThreads
      <4>3. Cur(x)' = Cur(x)
        BY <4>2 DEF Cur
      <4>4. Cur(x) <= disk'[f].last
        BY <1>2, <4>1
      <4> QED BY <3>3, <4>3, <4>4 DEF AckOfThread
    <3>4. \/ thr'[x].pc \notin {"rpc", "commit", "set"}
          \/ NextEntry(x) /\ thr'[x].pc = "rpc"
          \/ CommitEntry(x) /\ thr'[x].pc = "set"
      <4>1. NextIteration(x).pc \in {"off", "next"} /\ AfterFailure(x).pc \in {"off", "next"}
        BY <1>1, NextIterationWithin, AfterFailureWithin
      <4>2. CASE Rejected(x) \/ RpcFailed(x)
        BY <1>2, <4>1, <4>2 DEF Rejected, RpcFailed
      <4>3. CASE CommitSet(x) \/ CommitLost(x)
        BY <1>2, <4>1, <4>3 DEF CommitSet, CommitLost
      <4>4. CASE NextEntry(x)
        BY <1>2, <4>4 DEF NextEntry, OffThread, Thread
      <4>5. CASE CommitEntry(x)
        BY <1>2, <4>1, <4>5 DEF CommitEntry, Thread
      <4> QED BY <1>5, <4>2, <4>3, <4>4, <4>5 DEF ThreadStep
    <3> QED BY <3>1, <3>2, <3>3, <3>4
  <2> QED BY <1>0, <1>3, <2>1, <2>2, CountsFrame
          DEF AcksSound, AckOfThread, AckCounts, InFlight, InSection
<1> QED BY <1>4, <1>5

\* Crashes, restarts and bootstraps drop threads, calls and counts, and keep
\* the position of the threads that go on.
LEMMA OtherAcks ==
    ASSUME TypeOK, ThreadsInLog, FollowersGrow, AcksSound,
           \/ UNCHANGED vars
           \/ LeaderRestart
           \/ \E f \in Followers : BootstrapStep(f) \/ FollowerCrash(f)
    PROVE  AcksSound'
<1>0. (\A x \in Threads : AckOfThread(x)) /\ MatchSound /\ AckCounts
  BY AcksParts
<1>1. ASSUME \A x \in Threads : thr'[x].pc \in {"rpc", "commit", "set"} =>
                 thr'[x].pc = thr[x].pc /\ thr'[x].k = thr[x].k /\ Cur(x)' = Cur(x),
             \A c \in Calls : hnd'[c] = hnd[c] \/ hnd'[c].pc = "none",
             MatchSound' /\ AckCounts'
      PROVE  AcksSound'
  <2>1. \A x \in Threads : AckOfThread(x)'
    BY <1>0, <1>1, AckFrame, ThreadTypes
  <2> QED BY <1>1, <2>1 DEF AcksSound, AckOfThread, AckCounts, InFlight, InSection
<1>2. CASE UNCHANGED vars
  <2>1. thr' = thr /\ hnd' = hnd /\ match' = match /\ acks' = acks
    BY <1>2 DEF vars, ctlVars
  <2>2. \A x \in Threads : Cur(x)' = Cur(x)
    BY <2>1 DEF Cur
  <2> QED BY <1>0, <1>1, <2>1, <2>2, CountsFrame
<1>3. CASE LeaderRestart
  <2>1. match' = [f \in Followers |-> 0] /\ acks' = [i \in Index |-> Absent]
    BY <1>3 DEF LeaderRestart
  <2>2. MatchSound'
    BY <2>1 DEF MatchSound, FollowersGrow
  <2>3. AckCounts'
    BY <2>1 DEF AckCounts, Absent
  <2>4. \A c \in Calls : hnd'[c] = hnd[c] \/ hnd'[c].pc = "none"
    BY <1>3 DEF LeaderRestart, NoCall
  <2>5. ASSUME NEW x \in Threads, thr'[x].pc \in {"rpc", "commit", "set"}
        PROVE  thr'[x].pc = thr[x].pc /\ thr'[x].k = thr[x].k /\ Cur(x)' = Cur(x)
    <3>1. thr'[x] = thr[x] \/ thr'[x] = [thr[x] EXCEPT !.idx = Cur(x)]
      BY <1>3, <2>5 DEF LeaderRestart, OffThread
    <3>2. CASE thr'[x] = thr[x]
      BY <3>2 DEF Cur
    <3>3. CASE thr'[x] = [thr[x] EXCEPT !.idx = Cur(x)]
      <4>1. thr'[x].pc = thr[x].pc /\ thr'[x].k = thr[x].k /\ thr'[x].idx = Cur(x)
        BY <3>3 DEF TypeOK, Thread
      <4> QED BY <4>1 DEF Cur
    <3> QED BY <3>1, <3>2, <3>3
  <2> QED BY <1>1, <2>2, <2>3, <2>4, <2>5
<1>4. ASSUME NEW f \in Followers, BootstrapStep(f) PROVE AcksSound'
  <2> DEFINE b == <<f, 0>>
  <2>0. b \in Threads /\ thr \in [Threads -> Thread] /\ thr[b] \in Thread
    BY MaxWritesAssumption DEF Threads, Tids, TypeOK
  <2>1. hnd' = hnd /\ match' = match /\ acks' = acks
    BY <1>4, BootstrapLogsSame
  <2>2. \A x \in Threads : x # b => thr'[x] = thr[x]
    BY <1>4, <2>0 DEF BootstrapStep, FollowerRestart, SnapshotLsn, SnapshotTable, SnapshotInstall,
                      BootstrapFailed
  <2>3. thr'[b].pc \notin {"rpc", "commit", "set"}
    <3>1. CASE FollowerRestart(f)
      BY <2>0, <3>1 DEF FollowerRestart, OffThread
    <3>2. CASE SnapshotLsn(f)
      BY <2>0, <3>2 DEF SnapshotLsn, Thread
    <3>3. CASE SnapshotTable(f)
      BY <2>0, <3>3 DEF SnapshotTable, Thread
    <3>4. CASE SnapshotInstall(f)
      BY <2>0, <3>4 DEF SnapshotInstall, OffThread
    <3>5. CASE BootstrapFailed(f)
      BY <2>0, <3>5 DEF BootstrapFailed, OffThread
    <3> QED BY <1>4, <3>1, <3>2, <3>3, <3>4, <3>5 DEF BootstrapStep
  <2>4. \A x \in Threads : thr'[x] = thr[x] => Cur(x)' = Cur(x)
    BY DEF Cur
  <2> QED BY <1>0, <1>1, <2>1, <2>2, <2>3, <2>4, CountsFrame
<1>5. ASSUME NEW f \in Followers, FollowerCrash(f) PROVE AcksSound'
  <2>1. match' = match /\ acks' = acks
    BY <1>5 DEF FollowerCrash
  <2>2. \A c \in Calls : hnd'[c] = hnd[c] \/ hnd'[c].pc = "none"
    BY <1>5 DEF FollowerCrash, NoCall
  <2>3. ASSUME NEW x \in Threads, thr'[x].pc \in {"rpc", "commit", "set"} PROVE thr'[x] = thr[x]
    <3>1. thr[x].pc = "set" => NextIteration(x).pc \in {"off", "next"}
      BY NextIterationWithin DEF Moving
    <3> QED BY <1>5, <2>3, <3>1 DEF FollowerCrash, OffThread
  <2>4. \A x \in Threads : thr'[x] = thr[x] => Cur(x)' = Cur(x)
    BY DEF Cur
  <2> QED BY <1>0, <1>1, <2>1, <2>2, <2>3, <2>4, CountsFrame
<1> QED BY <1>2, <1>3, <1>4, <1>5

\* Nobody has acknowledged anything at the start.
LEMMA AcksInit == Init => AcksSound
<1> SUFFICES ASSUME Init PROVE AcksSound
  OBVIOUS
<1>1. \A x \in Threads : thr[x].pc = "off"
  BY DEF Init, OffThread
<1>2. MatchSound /\ AckCounts
  BY ConstantsAssumption DEF Init, WalInit, MatchSound, AckCounts, Absent
<1> QED BY <1>1, <1>2 DEF AcksSound, AckCounts

\* Every step of a serial schedule preserves AcksSound.
LEMMA AcksNext ==
    ASSUME PowerLoss = FALSE, TypeOK, LeaderInv, LogInv, AcksSound, [Next /\ Serial]_vars
    PROVE  AcksSound'
<1>1. FollowersGrow /\ FollowerCounters /\ ThreadsInLog
  BY LogNext DEF LogInv
<1> QED BY <1>1, WriteAcks, CallAcks, ThreadAcks, OtherAcks DEF Next

\* Every success a replication thread reports, counts or follows with
\* CommitEntry stands for an entry its follower has on disk.
THEOREM AcknowledgementsSound ==
    ASSUME PowerLoss = FALSE
    PROVE  SerialSpec => []AcksSound
<1>1. TypeOK /\ LeaderInv /\ LogInv /\ AcksSound /\ [Next /\ Serial]_vars => AcksSound'
  BY AcksNext
<1> QED BY <1>1, AcksInit, SerialType, LeaderInvariant, LogInvariant, PTL DEF SerialSpec

\* match_index never runs ahead of what the follower holds, so the catch-up
\* loop, which starts at match_index + 1, skips nothing.
THEOREM MatchIndexSound ==
    ASSUME PowerLoss = FALSE
    PROVE  SerialSpec => []MatchSound
<1>1. AcksSound => MatchSound
  BY DEF AcksSound
<1> QED BY <1>1, AcknowledgementsSound, PTL

(***************************************************************************)
(* What an OK answer promises.                                             *)
(***************************************************************************)

\* A put that was answered OK is on the disk of some follower, if there is one.
OkHeld ==
    Followers # {} =>
        \A id \in Ids : result[id] = "OK" =>
            \E f \in Followers : \E i \in Index : i <= disk[f].last /\ log[f][i] = id

\* write() waits for one acknowledgement at least when there is a follower.
LEMMA MajorityPositive == Followers # {} => MajorityNeeded \in Nat /\ MajorityNeeded >= 1
<1>1. IsFiniteSet(Followers) /\ Cardinality(Followers) \in Nat
  BY ConstantsAssumption, FS_CardinalityType
<1>2. Followers # {} => Cardinality(Followers) # 0
  BY <1>1, FS_EmptySet
<1> QED BY <1>1, <1>2 DEF MajorityNeeded

\* The step that answers OK has an acknowledgement, and entries persisted by
\* a follower stay.
LEMMA OkHeldNext ==
    ASSUME PowerLoss = FALSE, TypeOK, LeaderInv, LogInv, AcksSound, OkHeld, [Next /\ Serial]_vars
    PROVE  OkHeld'
<1> SUFFICES ASSUME Followers # {}, NEW id \in Ids, result'[id] = "OK"
             PROVE  \E f \in Followers : \E i \in Index : i <= disk'[f].last /\ log'[f][i] = id
  BY DEF OkHeld
<1>0. \A f \in Followers :
        /\ disk[f].last \in Nat /\ disk'[f].last \in Nat /\ disk'[f].last >= disk[f].last
        /\ \A i \in Index : i <= disk[f].last => log'[f][i] = log[f][i] /\ i <= disk'[f].last
  <2> SUFFICES ASSUME NEW f \in Followers
               PROVE  /\ disk[f].last \in Nat /\ disk'[f].last \in Nat /\ disk'[f].last >= disk[f].last
                      /\ \A i \in Index : i <= disk[f].last =>
                            log'[f][i] = log[f][i] /\ i <= disk'[f].last
    OBVIOUS
  <2>1. FollowersGrow
    BY LogNext
  <2>2. disk[f].last \in Nat /\ Index \subseteq Nat
    BY NodeTypes
  <2>3. disk'[f].last \in Nat /\ disk'[f].last >= disk[f].last
    BY <2>1 DEF FollowersGrow
  <2>4. \A i, m, n \in Nat : i <= m /\ n >= m => i <= n
    OBVIOUS
  <2>5. \A i \in Index : i <= disk[f].last => i <= disk'[f].last
    BY <2>2, <2>3, <2>4
  <2> QED BY <2>1, <2>2, <2>3, <2>5 DEF FollowersGrow
<1>1. ASSUME NEW f \in Followers, NEW i \in Index, i <= disk[f].last, log[f][i] = id
      PROVE  \E g \in Followers : \E j \in Index : j <= disk'[g].last /\ log'[g][j] = id
  BY <1>0, <1>1
<1>2. CASE result[id] = "OK"
  BY <1>1, <1>2 DEF OkHeld
<1>3. CASE result[id] # "OK"
  <2>1. PICK w \in Writers : WriteCommit(w)
    <3>1. ASSUME result' = result PROVE FALSE
      BY <1>3, <3>1
    <3>2. ASSUME NEW w \in Writers, WriteTimeout(w) PROVE FALSE
      BY <1>3, <3>2 DEF WriteTimeout, TypeOK
    <3>3. ASSUME NEW w \in Writers, WriteStep(w), ~WriteCommit(w) PROVE FALSE
      BY <3>1, <3>2, <3>3 DEF WriteStep, WriteLoad, WriteStore, WritePut, WritePersist, WriteSpawn,
                              obsVars
    <3>4. ASSUME LeaderRestart PROVE FALSE
      BY <3>1, <3>4 DEF LeaderRestart
    <3>5. ASSUME LeaderSame PROVE FALSE
      BY <3>1, <3>5 DEF LeaderSame
    <3>6. CASE UNCHANGED vars
      BY <3>1, <3>6 DEF vars, obsVars
    <3> QED BY <3>3, <3>4, <3>5, <3>6, CallSame, ThreadSame, BootstrapSame DEF Next
  <2>2. wr[w].pc = "wait" /\ acks[wr[w].idx] >= MajorityNeeded
    BY <2>1 DEF WriteCommit
  <2>3. id = wr[w].id
    BY <1>3, <2>1 DEF WriteCommit, TypeOK
  <2>4. wr[w].idx \in Index /\ log[Leader][wr[w].idx] = wr[w].id
    BY <2>2, WriterFacts DEF LeaderInv, LeaderCounters
  <2>5. acks[wr[w].idx] > 0
    <3>1. acks[wr[w].idx] \in Nat \union {-1}
      BY <2>4 DEF TypeOK, Absent
    <3> QED BY <2>2, <3>1, MajorityPositive
  <2>6. PICK f \in Followers : wr[w].idx <= disk[f].last
    BY <2>4, <2>5 DEF AcksSound
  <2>7. log[f][wr[w].idx] = id
    BY <2>3, <2>4, <2>6 DEF LogInv, LogMatching
  <2> QED BY <1>1, <2>4, <2>6, <2>7
<1> QED BY <1>2, <1>3

\* For any number of followers: an OK is never the leader's word alone.
THEOREM OkOnSomeFollower ==
    ASSUME PowerLoss = FALSE
    PROVE  SerialSpec => []OkHeld
<1>1. Init => OkHeld
  BY DEF Init, OkHeld
<1>2. TypeOK /\ LeaderInv /\ LogInv /\ AcksSound /\ OkHeld /\ [Next /\ Serial]_vars => OkHeld'
  BY OkHeldNext
<1> QED BY <1>1, <1>2, SerialType, LeaderInvariant, LogInvariant, AcknowledgementsSound, PTL
       DEF SerialSpec

\* With two followers, as the repository deploys it, an OK is a majority of
\* the servers.  (With more, one follower's successes are counted twice and
\* the claim is false: see the runs.)
THEOREM OkIsMajority ==
    ASSUME PowerLoss = FALSE, Cardinality(Followers) <= 2
    PROVE  SerialSpec => []OkOnMajority
<1>1. OkHeld => OkOnMajority
  <2> SUFFICES ASSUME OkHeld, NEW id \in Ids, result[id] = "OK"
               PROVE  2 * (1 + Cardinality({f \in Followers :
                              \E i \in Index : i <= disk[f].last /\ log[f][i] = id}))
                        > Cardinality(Followers) + 1
    BY DEF OkOnMajority
  <2> DEFINE H == {f \in Followers : \E i \in Index : i <= disk[f].last /\ log[f][i] = id}
  <2>1. IsFiniteSet(Followers) /\ Cardinality(Followers) \in Nat
    BY ConstantsAssumption, FS_CardinalityType
  <2>2. IsFiniteSet(H) /\ Cardinality(H) \in Nat
    BY <2>1, FS_Subset, FS_CardinalityType
  <2>3. CASE Followers = {}
    <3>1. Cardinality(Followers) = 0
      BY <2>3, FS_EmptySet
    <3> QED BY <2>2, <3>1
  <2>4. CASE Followers # {}
    <3>1. H # {}
      BY <2>4 DEF OkHeld
    <3>2. Cardinality(H) # 0
      BY <2>2, <3>1, FS_EmptySet
    <3> HIDE DEF H
    <3>3. 2 * (1 + Cardinality(H)) > Cardinality(Followers) + 1
      BY <2>1, <2>2, <3>2
    <3> QED BY <3>3 DEF H
  <2> QED BY <2>3, <2>4
<1> QED BY <1>1, OkOnSomeFollower, PTL

(***************************************************************************)
(* What the followers show.                                                *)
(***************************************************************************)

\* e is missing or stands in the leader's persisted log.
Stands(e) == e # NoEntry => \E i \in Index : i <= disk[Leader].last /\ log[Leader][i] = e

\* The strengthening AppliedStands needs: the leader's tables and the snapshots
\* under way stand too, and a follower's committed_ stays within its log.
AppliedInv ==
    /\ \A n \in Nodes : Stands(view[n])
    /\ \A x \in Threads : thr[x].pc = "install" => Stands(thr[x].seen)
    /\ \A f \in Followers : committed[f] <= disk[f].last /\ disk[f].committed <= disk[f].last

\* What stands keeps standing.
LEMMA StandsKept ==
    ASSUME TypeOK, LeaderGrows, NEW e, Stands(e)
    PROVE  Stands(e)'
<1> SUFFICES ASSUME e # NoEntry
             PROVE  \E i \in Index : i <= disk'[Leader].last /\ log'[Leader][i] = e
  BY DEF Stands
<1>1. PICK i \in Index : i <= disk[Leader].last /\ log[Leader][i] = e
  BY DEF Stands
<1>2. i \in Nat /\ disk[Leader].last \in Nat
  BY NodeTypes
<1>3. i <= disk'[Leader].last
  BY <1>1, <1>2 DEF LeaderGrows
<1> QED BY <1>1, <1>3 DEF LeaderGrows

\* What a follower reads below its persisted index stands, and so does what a
\* replay finds there.
LEMMA FollowerReads ==
    ASSUME TypeOK, LogMatching, NEW f \in Followers, NEW i \in Nat, i <= disk[f].last
    PROVE  Stands(ReadEntry(f, i))
<1>1. CASE i \in Index
  <2>1. i <= disk[Leader].last /\ log[f][i] = log[Leader][i]
    BY <1>1 DEF LogMatching
  <2> QED BY <1>1, <2>1 DEF Stands, ReadEntry
<1>2. CASE i \notin Index
  BY <1>2 DEF Stands, ReadEntry
<1> QED BY <1>1, <1>2

\* A replay that stays within the persisted log finds an entry that stands.
LEMMA FollowerReplays ==
    ASSUME TypeOK, LogMatching, NEW f \in Followers, committed[f] <= disk[f].last,
           NEW v, Replayed(f, committed[f], v)
    PROVE  Stands(v)
<1>1. CASE v = NoEntry
  BY <1>1 DEF Stands
<1>2. CASE v # NoEntry
  <2>1. PICK i \in Index : i <= committed[f] /\ v = log[f][i]
    BY <1>2 DEF Replayed
  <2>2. i <= disk[f].last
    BY <2>1, NodeTypes
  <2> QED BY <2>1, <2>2 DEF Stands, LogMatching
<1> QED BY <1>1, <1>2

\* A step that changes no table, takes no snapshot and commits nothing.
LEMMA AppliedFrame ==
    ASSUME TypeOK, LeaderGrows, FollowersGrow, AppliedInv,
           \A n \in Nodes : view'[n] = view[n] \/ Stands(view'[n]),
           \A x \in Threads : thr'[x].pc = "install" =>
               thr'[x] = thr[x] \/ Stands(thr'[x].seen),
           \A f \in Followers :
               \/ committed'[f] = committed[f] /\ disk'[f].committed = disk[f].committed
               \/ committed'[f] <= disk'[f].last /\ disk'[f].committed <= disk'[f].last
    PROVE  AppliedInv'
<1>1. ASSUME NEW n \in Nodes PROVE Stands(view[n])'
  <2>1. Stands(view'[n])
    BY DEF AppliedInv
  <2>2. \A e : Stands(e) => (e # NoEntry =>
                \E i \in Index : i <= disk'[Leader].last /\ log'[Leader][i] = e)
    BY StandsKept DEF Stands
  <2> QED BY <2>1, <2>2 DEF Stands
<1>2. ASSUME NEW x \in Threads, thr'[x].pc = "install" PROVE Stands(thr[x].seen)'
  <2>1. Stands(thr'[x].seen)
    BY <1>2 DEF AppliedInv
  <2>2. \A e : Stands(e) => (e # NoEntry =>
                \E i \in Index : i <= disk'[Leader].last /\ log'[Leader][i] = e)
    BY StandsKept DEF Stands
  <2> QED BY <2>1, <2>2 DEF Stands
<1>3. ASSUME NEW f \in Followers
      PROVE  committed'[f] <= disk'[f].last /\ disk'[f].committed <= disk'[f].last
  <2>1. /\ committed[f] \in Nat /\ disk[f].committed \in Nat /\ disk[f].last \in Nat
        /\ disk'[f].last \in Nat /\ disk'[f].last >= disk[f].last
    BY NodeTypes DEF FollowersGrow
  <2>2. committed[f] <= disk[f].last /\ disk[f].committed <= disk[f].last
    BY DEF AppliedInv
  <2>3. committed[f] <= disk'[f].last /\ disk[f].committed <= disk'[f].last
    BY <2>1, <2>2
  <2> QED BY <2>3
<1> QED BY <1>1, <1>2, <1>3 DEF AppliedInv

\* Every step of a serial schedule preserves AppliedInv.
LEMMA AppliedNext ==
    ASSUME PowerLoss = FALSE, TypeOK, LeaderInv, LogInv, AcksSound, AppliedInv,
           [Next /\ Serial]_vars
    PROVE  AppliedInv'
<1>0. LeaderGrows /\ FollowersGrow /\ LogMatching /\ FollowerCounters
  BY LeaderPersistent, LogNext DEF LogInv
<1>1. /\ view \in [Nodes -> Entries] /\ thr \in [Threads -> Thread] /\ Leader \in Nodes
      /\ WalTypeOK
      /\ \A f \in Followers : f \in Nodes /\ f # Leader
      /\ \A f \in Followers : <<f, 0>> \in Threads
  <2>1. \A f \in Followers : <<f, 0>> \in Threads
    BY MaxWritesAssumption DEF Threads, Tids
  <2> QED BY <2>1, NodeTypes DEF TypeOK
<1>2. ASSUME NEW w \in Writers, WriteStep(w) PROVE AppliedInv'
  <2>1. CASE WriteCommit(w)
    <3>1. wr[w].pc = "wait" /\ wr[w].idx \in Index /\ wr[w].idx <= disk[Leader].last
      BY <2>1, WriterFacts DEF WriteCommit, LeaderInv, LeaderCounters
    <3>2. Stands(ReadEntry(Leader, wr[w].idx))
      BY <3>1 DEF Stands, ReadEntry
    <3>3. \A n \in Nodes : view'[n] = view[n] \/ view'[n] = ReadEntry(Leader, wr[w].idx)
      BY <1>1, <2>1 DEF WriteCommit, Apply
    <3>4. \A n \in Nodes : view'[n] = view[n] \/ Stands(view'[n])
      BY <3>2, <3>3
    <3>5. thr' = thr
      BY <2>1 DEF WriteCommit
    <3>6. \A f \in Followers : committed'[f] = committed[f] /\ disk'[f].committed = disk[f].committed
      BY <1>1, <2>1 DEF WriteCommit, Commit, WalTypeOK
    <3> QED BY <1>0, <3>4, <3>5, <3>6, AppliedFrame
  <2>2. CASE ~WriteCommit(w)
    <3>1. view' = view /\ committed' = committed
      BY <1>2, <2>2 DEF WriteStep, WriteLoad, WriteStore, AppendStore, WritePut, AppendPut,
                        WritePersist, AppendPersist, WriteSpawn, WriteTimeout, obsVars, walVars
    <3>2. \A f \in Followers : disk'[f] = disk[f]
      BY <1>1, <1>2, <2>2 DEF WriteStep, WriteLoad, WriteStore, AppendStore, WritePut, AppendPut,
                        WritePersist, AppendPersist, WriteSpawn, WriteTimeout, walVars, WalTypeOK
    <3>3. \A x \in Threads : thr'[x].pc = "install" => thr'[x] = thr[x]
      BY <1>2, <2>2 DEF WriteStep, WriteLoad, WriteStore, WritePut, WritePersist, WriteSpawn, WriteTimeout
    <3> QED BY <1>0, <3>1, <3>2, <3>3, AppliedFrame
  <2> QED BY <2>1, <2>2
<1>3. ASSUME NEW c \in Calls, CallStep(c) PROVE AppliedInv'
  <2>1. view' = view /\ committed' = committed /\ thr' = thr
    BY <1>3 DEF CallStep, AppendCheck, AppendLoad, AppendInc, AppendStore, AppendWrite, AppendPut,
                AppendDone, AppendPersist, obsVars, walVars
  <2>2. \A f \in Followers : disk'[f].committed = disk[f].committed
    <3>1. CASE AppendDone(c)
      <4>1. disk' = [disk EXCEPT ![c[1]] = [last |-> last[c[1]], committed |-> disk[c[1]].committed]]
        BY <3>1 DEF AppendDone, AppendPersist
      <4>2. disk \in [Nodes -> Saved]
        BY <1>1 DEF WalTypeOK
      <4> QED BY <1>1, <4>1, <4>2
    <3>2. CASE ~AppendDone(c)
      <4>1. disk' = disk
        BY <1>3, <3>2 DEF CallStep, AppendCheck, AppendLoad, AppendInc, AppendStore, AppendWrite,
                          AppendPut, walVars
      <4> QED BY <4>1
    <3> QED BY <3>1, <3>2
  <2> QED BY <1>0, <2>1, <2>2, AppliedFrame
<1>4. ASSUME NEW x \in Threads, ThreadStep(x) PROVE AppliedInv'
  <2> DEFINE f == x[1]
  <2>0. /\ f \in Followers /\ f \in Nodes /\ Cur(x) \in Nat /\ disk[f].last \in Nat
        /\ disk'[f].last \in Nat /\ disk'[f].last >= disk[f].last
    BY <1>0, <1>1, ThreadTypes, NodeTypes DEF FollowersGrow
  <2>1. \A y \in Threads : thr'[y].pc = "install" => thr'[y] = thr[y]
    BY <1>4, ThreadStepThreads DEF LogInv
  <2>2. CASE CommitEntry(x) \/ CommitSet(x)
    <3>1. Cur(x) <= disk[f].last
      BY <2>2, AcksParts DEF CommitEntry, CommitSet, AckOfThread
    <3>2. Stands(ReadEntry(f, Cur(x)))
      BY <1>0, <2>0, <3>1, FollowerReads
    <3>3. \A n \in Nodes : view'[n] = view[n] \/ view'[n] = ReadEntry(f, Cur(x))
      BY <1>1, <2>0, <2>2 DEF CommitEntry, CommitSet, Apply
    <3>4. \A n \in Nodes : view'[n] = view[n] \/ Stands(view'[n])
      BY <3>2, <3>3
    <3>5. CASE CommitEntry(x)
      <4>1. committed' = committed /\ disk' = disk
        BY <3>5 DEF CommitEntry, CommitMark, walVars
      <4> QED BY <1>0, <2>1, <3>4, <4>1, AppliedFrame
    <3>6. CASE CommitSet(x)
      <4>1. /\ \A g \in Followers : g # f => committed'[g] = committed[g] /\ disk'[g] = disk[g]
            /\ committed'[f] = Cur(x) /\ disk'[f].committed = Cur(x) /\ disk'[f].last = disk[f].last
        BY <1>1, <2>0, <3>6 DEF CommitSet, CommitRaise, WalTypeOK
      <4>2. committed'[f] <= disk'[f].last /\ disk'[f].committed <= disk'[f].last
        BY <3>1, <4>1
      <4> QED BY <1>0, <2>1, <3>4, <4>1, <4>2, AppliedFrame
    <3> QED BY <2>2, <3>5, <3>6
  <2>3. CASE ~(CommitEntry(x) \/ CommitSet(x))
    <3>1. view' = view /\ committed' = committed /\ disk' = disk
      BY <1>4, <2>3 DEF ThreadStep, RecordAck, Rejected, RpcFailed, NextEntry, CommitLost, obsVars, walVars
    <3> QED BY <1>0, <2>1, <3>1, AppliedFrame
  <2> QED BY <2>2, <2>3
<1>5. ASSUME NEW f \in Followers, BootstrapStep(f) PROVE AppliedInv'
  <2> DEFINE b == <<f, 0>>
  <2>0. b \in Threads /\ f \in Nodes /\ committed' = committed /\ disk' = disk /\ thr[b] \in Thread
    BY <1>1, <1>5, BootstrapLogsSame DEF walVars
  <2>1. ASSUME \A n \in Nodes : view'[n] = view[n] \/ Stands(view'[n]),
               \A x \in Threads : x # b => thr'[x] = thr[x],
               thr'[b].pc # "install" \/ Stands(thr'[b].seen)
        PROVE  AppliedInv'
    BY <1>0, <2>0, <2>1, AppliedFrame
  <2>2. CASE FollowerRestart(f)
    <3>1. PICK v \in Entries : Replayed(f, committed[f], v) /\ view' = [view EXCEPT ![f] = v]
      BY <2>2 DEF FollowerRestart
    <3>2. Stands(v)
      BY <1>0, <3>1, FollowerReplays DEF AppliedInv
    <3>3. \A n \in Nodes : view'[n] = view[n] \/ Stands(view'[n])
      BY <1>1, <3>1, <3>2
    <3>4. (\A x \in Threads : x # b => thr'[x] = thr[x]) /\ thr'[b].pc # "install"
      BY <1>1, <2>0, <2>2 DEF FollowerRestart, OffThread
    <3> QED BY <2>1, <3>3, <3>4
  <2>3. CASE SnapshotLsn(f) \/ BootstrapFailed(f)
    <3>1. view' = view /\ (\A x \in Threads : x # b => thr'[x] = thr[x])
      BY <1>1, <2>0, <2>3 DEF SnapshotLsn, BootstrapFailed, obsVars
    <3>2. thr'[b].pc # "install"
      <4>1. CASE SnapshotLsn(f)
        <5>1. thr'[b] = [thr[b] EXCEPT !.pc = "table", !.k = committed[Leader]]
          BY <1>1, <2>0, <4>1 DEF SnapshotLsn
        <5> QED BY <2>0, <5>1 DEF Thread
      <4>2. CASE BootstrapFailed(f)
        <5>1. thr'[b] = OffThread
          BY <1>1, <2>0, <4>2 DEF BootstrapFailed
        <5> QED BY <5>1 DEF OffThread
      <4> QED BY <2>3, <4>1, <4>2
    <3> QED BY <2>1, <3>1, <3>2
  <2>4. CASE SnapshotTable(f)
    <3>1. view' = view /\ (\A x \in Threads : x # b => thr'[x] = thr[x])
      BY <1>1, <2>0, <2>4 DEF SnapshotTable, obsVars
    <3>2. thr'[b].seen = view[Leader]
      BY <1>1, <2>0, <2>4 DEF SnapshotTable, Thread
    <3>3. Stands(thr'[b].seen)
      BY <1>1, <3>2 DEF AppliedInv
    <3> QED BY <2>1, <3>1, <3>3
  <2>5. CASE SnapshotInstall(f)
    <3>1. Stands(thr[b].seen)
      BY <2>0, <2>5 DEF SnapshotInstall, AppliedInv
    <3>2. \A n \in Nodes : view'[n] = view[n] \/ view'[n] = thr[b].seen
      BY <1>1, <2>5 DEF SnapshotInstall
    <3>3. (\A x \in Threads : x # b => thr'[x] = thr[x]) /\ thr'[b].pc # "install"
      BY <1>1, <2>0, <2>5 DEF SnapshotInstall, OffThread
    <3>4. \A n \in Nodes : view'[n] = view[n] \/ Stands(view'[n])
      BY <3>1, <3>2
    <3> QED BY <2>1, <3>3, <3>4
  <2> QED BY <1>5, <2>2, <2>3, <2>4, <2>5 DEF BootstrapStep
<1>6. ASSUME NEW f \in Followers, FollowerCrash(f) PROVE AppliedInv'
  <2>1. Reopen(f, disk[f])
    BY <1>6 DEF FollowerCrash, Survives
  <2>2. /\ \A g \in Followers : g # f => committed'[g] = committed[g] /\ disk'[g] = disk[g]
        /\ committed'[f] = disk[f].committed /\ disk'[f] = disk[f]
    BY <1>1, <2>1 DEF Reopen, WalTypeOK
  <2>3. committed'[f] <= disk'[f].last /\ disk'[f].committed <= disk'[f].last
    BY <2>2 DEF AppliedInv
  <2>4. \A n \in Nodes : view'[n] = view[n] \/ Stands(view'[n])
    BY <1>1, <1>6 DEF FollowerCrash, Stands
  <2>5. \A x \in Threads : thr'[x].pc = "install" => thr'[x] = thr[x]
    <3>1. \A x \in Threads : thr[x].pc = "set" => NextIteration(x).pc \in {"off", "next"}
      BY NextIterationWithin DEF Moving, LogInv
    <3> QED BY <1>6, <3>1 DEF FollowerCrash, OffThread
  <2> QED BY <1>0, <2>2, <2>3, <2>4, <2>5, AppliedFrame
<1>7. ASSUME LeaderRestart PROVE AppliedInv'
  <2>1. PICK v \in Entries : /\ Reopen(Leader, disk[Leader])
                             /\ Replayed(Leader, disk[Leader].committed, v)
                             /\ view' = [view EXCEPT ![Leader] = v]
    BY <1>7 DEF LeaderRestart, Survives
  <2>2. Stands(v)
    <3>1. CASE v = NoEntry
      BY <3>1 DEF Stands
    <3>2. CASE v # NoEntry
      <4>1. PICK i \in Index : i <= disk[Leader].committed /\ v = log[Leader][i]
        BY <2>1, <3>2 DEF Replayed
      <4>2. disk[Leader].committed <= disk[Leader].last
        BY DEF LeaderInv, LeaderCounters
      <4>3. i <= disk[Leader].last
        BY <1>1, <4>1, <4>2, NodeTypes
      <4> QED BY <4>1, <4>3 DEF Stands
    <3> QED BY <3>1, <3>2
  <2>3. \A n \in Nodes : view'[n] = view[n] \/ Stands(view'[n])
    BY <1>1, <2>1, <2>2
  <2>4. \A f \in Followers : committed'[f] = committed[f] /\ disk'[f] = disk[f]
    BY <1>1, <2>1 DEF Reopen, WalTypeOK
  <2>5. \A x \in Threads : thr'[x].pc = "install" => thr'[x] = thr[x]
    <3>1. \A x \in Threads : [thr[x] EXCEPT !.idx = Cur(x)].pc = thr[x].pc
      BY <1>1 DEF Thread
    <3> QED BY <1>7, <3>1 DEF LeaderRestart, OffThread
  <2> QED BY <1>0, <2>3, <2>4, <2>5, AppliedFrame
<1>8. CASE UNCHANGED vars
  <2>1. view' = view /\ thr' = thr /\ committed' = committed /\ disk' = disk
    BY <1>8 DEF vars, walVars, ctlVars, obsVars
  <2> QED BY <1>0, <2>1, AppliedFrame
<1> QED BY <1>2, <1>3, <1>4, <1>5, <1>6, <1>7, <1>8 DEF Next

\* What a follower shows stands in the leader's persisted log, whether it came
\* by CommitEntry, by replay or by a snapshot.
THEOREM FollowersShowTheLog ==
    ASSUME PowerLoss = FALSE
    PROVE  SerialSpec => []AppliedStands
<1>1. Init => AppliedInv
  <2> SUFFICES ASSUME Init PROVE AppliedInv
    OBVIOUS
  <2>1. \A n \in Nodes : view[n] = NoEntry /\ committed[n] = 0 /\ disk[n].last = 0 /\ disk[n].committed = 0
    BY DEF Init, WalInit
  <2>2. \A x \in Threads : thr[x].pc = "off"
    BY DEF Init, OffThread
  <2> QED BY <2>1, <2>2, ConstantsAssumption DEF AppliedInv, Stands
<1>2. TypeOK /\ LeaderInv /\ LogInv /\ AcksSound /\ AppliedInv /\ [Next /\ Serial]_vars => AppliedInv'
  BY AppliedNext
<1>3. AppliedInv => AppliedStands
  BY ConstantsAssumption DEF AppliedInv, Stands, AppliedStands
<1> QED BY <1>1, <1>2, <1>3, SerialType, LeaderInvariant, LogInvariant, AcknowledgementsSound, PTL
       DEF SerialSpec

-----------------------------------------------------------------------------
(* The status of followers, for any delay of hb_thread and any threshold of *)
(* at least two missed pings (the code has three).                          *)

\* The fields of a follower's status and of hb_thread, with their ranges.
IsHealth(h) ==
    /\ h = [age |-> h.age, pings |-> h.pings, lagging |-> h.lagging]
    /\ h.age \in 0 .. MaxAge /\ h.pings \in 0 .. MaxPings

IsHb(b) == b = [pc |-> b.pc, t |-> b.t, last |-> b.last] /\ b.t \in 0 .. MaxDelay

\* One follower: an acknowledgement since the clock was read (the difference
\* wraps) has reset the pings, so a wrapped difference is the first of a row;
\* a second one is counted only for real silence.
Sound(h, b) ==
    /\ b.pc = "lock" /\ h.age < b.t => h.pings = 0
    /\ h.pings >= 2 => h.age > SilentAfter
    /\ h.lagging => h.pings >= 2

HealthInv ==
    /\ IsHb(hb)
    /\ \A f \in Followers : IsHealth(health[f]) /\ Sound(health[f], hb)

\* A fresh status is sound whatever hb_thread does.
LEMMA FreshSound ==
    /\ IsHealth(Fresh) /\ \A b : Sound(Fresh, b)
    /\ IsHb(Asleep) /\ Asleep.pc = "sleep"
<1>1. Fresh.age = 0 /\ Fresh.pings = 0 /\ Fresh.lagging = FALSE
  BY DEF Fresh
<1>2. IsHealth(Fresh)
  BY HealthAssumption, <1>1 DEF IsHealth, Fresh
<1>3. IsHb(Asleep) /\ Asleep.pc = "sleep"
  BY HealthAssumption DEF IsHb, Asleep
<1>4. \A b : Sound(Fresh, b)
  BY <1>1 DEF Sound
<1> QED BY <1>2, <1>3, <1>4

\* Time makes a status older and hb_thread's clock reading too, in step.
LEMMA TickSound ==
    ASSUME HealthInv, Tick
    PROVE  HealthInv'
<1>1. hb' = [pc |-> hb.pc, t |-> AtMost(hb.t + 1, MaxDelay), last |-> hb.last]
  BY DEF HealthInv, IsHb, Tick
<1>2. AtMost(hb.t + 1, MaxDelay) \in 0 .. MaxDelay
  BY HealthAssumption DEF HealthInv, IsHb, AtMost
<1>3. IsHb(hb') /\ hb'.pc = hb.pc /\ hb'.t = AtMost(hb.t + 1, MaxDelay)
  BY <1>1, <1>2 DEF IsHb
<1>4. ASSUME NEW f \in Followers PROVE IsHealth(health'[f]) /\ Sound(health'[f], hb')
  <2> DEFINE h == health[f]
  <2>1. IsHealth(h) /\ Sound(h, hb) /\ hb.t \in 0 .. MaxDelay
    BY DEF HealthInv, IsHb
  <2>2. health'[f] = [h EXCEPT !.age = AtMost(h.age + 1, MaxAge)]
    BY DEF Tick
  <2> HIDE DEF h
  <2>3. health'[f] = [age |-> AtMost(h.age + 1, MaxAge), pings |-> h.pings, lagging |-> h.lagging]
    BY <2>1, <2>2 DEF IsHealth
  <2>4. /\ health'[f].age = AtMost(h.age + 1, MaxAge)
        /\ health'[f].pings = h.pings /\ health'[f].lagging = h.lagging
    BY <2>3
  <2>5. /\ AtMost(h.age + 1, MaxAge) \in 0 .. MaxAge /\ AtMost(h.age + 1, MaxAge) >= h.age
        /\ h.age > SilentAfter => AtMost(h.age + 1, MaxAge) > SilentAfter
        /\ AtMost(h.age + 1, MaxAge) < AtMost(hb.t + 1, MaxDelay) => h.age < hb.t
    BY <2>1, HealthAssumption DEF IsHealth, AtMost
  <2>6. IsHealth(health'[f])
    BY <2>1, <2>3, <2>4, <2>5 DEF IsHealth
  <2> QED BY <1>3, <2>1, <2>4, <2>5, <2>6 DEF Sound
<1> QED BY <1>3, <1>4 DEF HealthInv

\* hb_thread reads the clock: nobody is younger than that.
LEMMA SampleSound ==
    ASSUME HealthInv, HbSample
    PROVE  HealthInv'
<1>1. hb' = [pc |-> "lock", t |-> 0, last |-> last[Leader]] /\ health' = health
  BY DEF HbSample
<1>2. IsHb(hb') /\ hb'.t = 0
  BY <1>1, HealthAssumption DEF IsHb
<1>3. ASSUME NEW f \in Followers PROVE Sound(health[f], hb')
  <2>1. IsHealth(health[f]) /\ Sound(health[f], hb)
    BY DEF HealthInv
  <2>2. ~(health[f].age < 0)
    BY <2>1, HealthAssumption DEF IsHealth
  <2> QED BY <1>2, <2>1, <2>2 DEF Sound
<1> QED BY <1>1, <1>2, <1>3 DEF HealthInv

\* A ping counted as missed: either the follower has been silent, or it is the
\* first of a row.
LEMMA MissedSound ==
    ASSUME MaxPings >= 2, HealthInv, hb.pc = "lock", NEW f \in Followers, Elapsed(f) > SilentAfter
    PROVE  /\ Missed(f) \in 0 .. MaxPings
           /\ Missed(f) >= 2 => health[f].age > SilentAfter
           /\ (health[f].lagging \/ Missed(f) = MaxPings) => Missed(f) >= 2
<1> DEFINE h == health[f]
<1>1. IsHealth(h) /\ Sound(h, hb) /\ hb.t \in 0 .. MaxDelay
  BY DEF HealthInv, IsHb
<1>2. Missed(f) = AtMost(h.pings + 1, MaxPings) /\ (h.age - hb.t) % Wrap > SilentAfter
  BY DEF Missed, Elapsed
<1> HIDE DEF h
<1>3. h.age \in Nat /\ h.pings \in Nat /\ h.age <= MaxAge /\ h.pings <= MaxPings
  BY <1>1, HealthAssumption DEF IsHealth
<1>4. Missed(f) \in 0 .. MaxPings /\ Missed(f) >= h.pings /\ (h.pings = 0 => Missed(f) = 1)
  BY <1>2, <1>3, HealthAssumption DEF AtMost
<1>5. CASE h.age < hb.t
  <2>1. h.pings = 0
    BY <1>1, <1>5 DEF Sound
  <2>2. ~h.lagging
    BY <1>1, <2>1 DEF Sound
  <2> QED BY <1>4, <2>1, <2>2 DEF h
<1>6. CASE ~(h.age < hb.t)
  <2>1. h.age - hb.t \in 0 .. Wrap - 1
    BY <1>1, <1>3, <1>6, HealthAssumption
  <2>2. (h.age - hb.t) % Wrap = h.age - hb.t
    BY <2>1, HealthAssumption
  <2>3. h.age > SilentAfter
    BY <1>1, <1>2, <1>3, <2>2, HealthAssumption
  <2>4. h.lagging => Missed(f) >= 2
    BY <1>1, <1>3, <1>4 DEF Sound
  <2>5. Missed(f) = MaxPings => Missed(f) >= 2
    OBVIOUS
  <2> QED BY <1>4, <2>3, <2>4, <2>5 DEF h
<1> QED BY <1>5, <1>6

\* send_heartbeats() under the lock.
LEMMA MarkSound ==
    ASSUME MaxPings >= 2, HealthInv, HbMark
    PROVE  HealthInv'
<1>1. hb' = Asleep /\ IsHb(hb') /\ hb'.pc = "sleep" /\ hb.pc = "lock"
  BY FreshSound DEF HbMark
<1>2. ASSUME NEW f \in Followers PROVE IsHealth(health'[f]) /\ Sound(health'[f], hb')
  <2> DEFINE h == health[f]
             miss == match[f] < hb.last /\ Elapsed(f) > SilentAfter
  <2>1. IsHealth(h) /\ Sound(h, hb)
    BY DEF HealthInv
  <2>2. health'[f] = CASE match[f] >= hb.last -> [h EXCEPT !.pings = 0, !.lagging = FALSE]
                       [] miss -> [h EXCEPT !.pings = Missed(f), !.lagging = h.lagging \/ Missed(f) = MaxPings]
                       [] OTHER -> h
    BY DEF HbMark
  <2>3. \/ health'[f] = [h EXCEPT !.pings = 0, !.lagging = FALSE]
        \/ miss /\ health'[f] = [h EXCEPT !.pings = Missed(f), !.lagging = h.lagging \/ Missed(f) = MaxPings]
        \/ health'[f] = h
    BY <2>2
  <2>4. CASE health'[f] = h
    BY <1>1, <2>1, <2>4 DEF Sound
  <2>5. CASE health'[f] = [h EXCEPT !.pings = 0, !.lagging = FALSE]
    <3> HIDE DEF h
    <3>1. health'[f] = [age |-> h.age, pings |-> 0, lagging |-> FALSE]
      BY <2>1, <2>5 DEF IsHealth
    <3>2. IsHealth(health'[f])
      BY <2>1, <3>1, HealthAssumption DEF IsHealth
    <3> QED BY <1>1, <3>1, <3>2 DEF Sound
  <2>6. CASE miss /\ health'[f] = [h EXCEPT !.pings = Missed(f), !.lagging = h.lagging \/ Missed(f) = MaxPings]
    <3> DEFINE m == Missed(f)
               l == h.lagging \/ m = MaxPings
    <3>1. /\ m \in 0 .. MaxPings /\ (m >= 2 => h.age > SilentAfter)
          /\ l => m >= 2
      BY <1>1, <2>6, MissedSound
    <3>2. health'[f] = [h EXCEPT !.pings = m, !.lagging = l]
      BY <2>6
    <3> HIDE DEF h, m, l
    <3>3. health'[f] = [age |-> h.age, pings |-> m, lagging |-> l]
      BY <2>1, <3>2 DEF IsHealth
    <3>4. IsHealth(health'[f])
      BY <2>1, <3>1, <3>3 DEF IsHealth
    <3>5. health'[f].age = h.age /\ health'[f].pings = m /\ health'[f].lagging = l
      BY <3>3
    <3> QED BY <1>1, <3>1, <3>4, <3>5 DEF Sound
  <2> QED BY <2>3, <2>4, <2>5, <2>6
<1> QED BY <1>1, <1>2 DEF HealthInv

\* Replication steps: record_ack() and a restart of the leader make a status
\* fresh, the others leave it alone.
LEMMA ReplSound ==
    ASSUME HealthInv, ReplStep
    PROVE  HealthInv'
<1>1. \/ hb' = hb
      \/ hb' = Asleep /\ \A f \in Followers : health'[f] = Fresh
  <2> DEFINE crashed == leaderCrashes' # leaderCrashes
  <2>1. /\ hb' = IF crashed THEN Asleep ELSE hb
        /\ health' = [f \in Followers |-> IF crashed THEN Fresh ELSE AckHealth(f)]
    BY DEF ReplStep
  <2> HIDE DEF crashed
  <2> QED BY <2>1
<1>2. \A f \in Followers : health'[f] = Fresh \/ health'[f] = health[f]
  BY DEF ReplStep, AckHealth
<1>3. IsHb(hb') /\ \A f \in Followers : IsHealth(health'[f])
  BY <1>1, <1>2, FreshSound DEF HealthInv
<1>4. \A f \in Followers : Sound(health'[f], hb')
  <2>1. CASE hb' = hb
    BY <1>2, <2>1, FreshSound DEF HealthInv
  <2>2. CASE \A f \in Followers : health'[f] = Fresh
    BY <2>2, FreshSound
  <2> QED BY <1>1, <2>1, <2>2
<1> QED BY <1>3, <1>4 DEF HealthInv

\* A follower is reported LAGGING only while it has been silent for longer than
\* three heartbeat intervals, although t - last_ack_ms may wrap.
THEOREM LaggingOnlySilent ==
    ASSUME MaxPings >= 2
    PROVE  FairHealthSpec => []LaggingMeansSilent
<1>1. HInit => HealthInv
  BY FreshSound DEF HInit, HealthInv
<1>2. HealthInv /\ [HNext]_hvars => HealthInv'
  <2> SUFFICES ASSUME HealthInv, [HNext]_hvars PROVE HealthInv'
    OBVIOUS
  <2>1. CASE UNCHANGED hvars
    BY <2>1 DEF hvars, HealthInv
  <2> QED BY <2>1, TickSound, SampleSound, MarkSound, ReplSound DEF HNext
<1>3. HealthInv => LaggingMeansSilent
  BY DEF HealthInv, Sound, LaggingMeansSilent
<1> QED BY <1>1, <1>2, <1>3, PTL DEF FairHealthSpec
=============================================================================
