-------------------------- MODULE LogMatchingProofs --------------------------
(***************************************************************************)
(* What the followers hold, on serial schedules and as long as a crash     *)
(* loses nothing RocksDB was given.  LogInv is the inductive invariant: it *)
(* ties the counters of a handle_append() call, the entries in flight and  *)
(* the replication threads to the leader's persisted log, and with them    *)
(* every follower's log stays a prefix of the leader's.                    *)
(***************************************************************************)
EXTENDS MetaDurabilityProofs

InSection == {"load", "store", "put", "persist"}
InFlight  == {"sent"} \union InSection

(***************************************************************************)
(* Types, in the form the arguments below use them.                        *)
(***************************************************************************)

\* Every node's counters are numbers and its log maps indices to entries.
LEMMA NodeTypes ==
    ASSUME TypeOK
    PROVE  /\ Leader \in Nodes
           /\ Index \subseteq Nat
           /\ \A f \in Followers : f \in Nodes /\ f # Leader
           /\ \A n \in Nodes : /\ log[n] \in [Index -> Entries]
                               /\ last[n] \in Nat
                               /\ committed[n] \in Nat
                               /\ disk[n].last \in Nat
                               /\ disk[n].committed \in Nat
<1>1. Leader \in Nodes /\ (\A f \in Followers : f \in Nodes /\ f # Leader)
  BY ConstantsAssumption
<1>2. Counter \subseteq Nat /\ Index \subseteq Nat
  BY DEF Counter, Index
<1>3. \A n \in Nodes : disk[n] \in Saved /\ last[n] \in Counter /\ committed[n] \in Counter
                       /\ log[n] \in [Index -> Entries]
  BY DEF TypeOK, WalTypeOK
<1>4. \A n \in Nodes : disk[n].last \in Counter /\ disk[n].committed \in Counter
  BY <1>3 DEF Saved
<1> QED BY <1>1, <1>2, <1>3, <1>4

\* A call belongs to a follower and its record has its fields.
LEMMA CallTypes ==
    ASSUME TypeOK, NEW c \in Calls
    PROVE  /\ c[1] \in Followers /\ c[2] \in Tids /\ c[2] \in Nat
           /\ c = <<c[1], c[2], c[3]>> /\ c[3] \in {"d", "c"}
           /\ <<c[1], c[2]>> \in Threads
           /\ hnd[c] \in Call
           /\ hnd[c].idx \in Nat /\ hnd[c].reg \in Nat
  BY DEF Calls, Threads, Tids, Modes, TypeOK, Call, Counter

\* So do a thread and the calls it makes.
LEMMA ThreadTypes ==
    ASSUME TypeOK, NEW x \in Threads
    PROVE  /\ x[1] \in Followers /\ x[2] \in Tids /\ x[2] \in Nat
           /\ x = <<x[1], x[2]>>
           /\ CallOf(x) \in Calls /\ <<x[1], x[2], "c">> \in Calls
           /\ thr[x] \in Thread
           /\ thr[x].idx \in Nat /\ thr[x].k \in Nat /\ Cur(x) \in Nat
  BY DEF Calls, Threads, Tids, Modes, TypeOK, Thread, Counter, CallOf, Cur

(***************************************************************************)
(* Persisted entries stay where they are.                                  *)
(***************************************************************************)

LeaderGrows ==
    /\ disk'[Leader].last \in Nat
    /\ disk'[Leader].last >= disk[Leader].last
    /\ \A i \in Index : i <= disk[Leader].last => log'[Leader][i] = log[Leader][i]

\* No step takes a persisted entry of the leader away or changes it.
LEMMA LeaderPersistent ==
    ASSUME PowerLoss = FALSE, TypeOK, LeaderInv, [Next]_vars
    PROVE  LeaderGrows
<1>0. WalTypeOK
  BY DEF TypeOK
<1>1. ASSUME LeaderSame PROVE LeaderGrows
  BY <1>1, NodeTypes DEF LeaderSame, LeaderGrows
<1>2. ASSUME NEW w \in Writers, WriteStep(w) PROVE LeaderGrows
  <2>1. CASE WriteLoad(w) \/ WriteSpawn(w) \/ WriteTimeout(w) \/ WriteStore(w)
    BY <2>1, NodeTypes DEF WriteLoad, WriteSpawn, WriteTimeout, WriteStore, AppendStore,
                           walVars, LeaderGrows
  <2>2. CASE WritePut(w)
    <3>1. wr[w].pc # "idle" /\ wr[w].idx = disk[Leader].last + 1 /\ disk' = disk
      BY <2>2, NodeTypes DEF WritePut, AppendPut, LeaderInv, LeaderCounters
    <3>2. \A i \in Index : i # wr[w].idx => log'[Leader][i] = log[Leader][i]
      BY <2>2, <1>0, NodeTypes DEF WritePut, AppendPut, WalTypeOK
    <3> QED BY <3>1, <3>2, NodeTypes DEF LeaderGrows
  <2>3. CASE WritePersist(w)
    <3>1. last[Leader] = disk[Leader].last + 1
      BY <2>3 DEF WritePersist, LeaderInv, LeaderCounters
    <3>2. log' = log /\ disk'[Leader].last = last[Leader]
      BY <2>3, <1>0, NodeTypes DEF WritePersist, AppendPersist, WalTypeOK
    <3> QED BY <3>1, <3>2, NodeTypes DEF LeaderGrows
  <2>4. CASE WriteCommit(w)
    <3>1. log' = log /\ disk'[Leader].last = disk[Leader].last
      BY <2>4, <1>0, NodeTypes DEF WriteCommit, Commit, WalTypeOK
    <3> QED BY <3>1, NodeTypes DEF LeaderGrows
  <2> QED BY <1>2, <2>1, <2>2, <2>3, <2>4 DEF WriteStep
<1>3. ASSUME LeaderRestart PROVE LeaderGrows
  <2>1. Reopen(Leader, disk[Leader])
    BY <1>3 DEF LeaderRestart, Survives
  <2> QED BY <2>1, <1>0, NodeTypes DEF Reopen, WalTypeOK, LeaderGrows
<1>4. CASE UNCHANGED vars
  BY <1>4, NodeTypes DEF vars, walVars, LeaderGrows
<1> QED BY <1>1, <1>2, <1>3, <1>4, CallSame, ThreadSame, BootstrapSame DEF Next

\* A step that leaves the logs of the followers alone, their committed_ excepted.
FollowerLogsSame ==
    \A f \in Followers :
        log'[f] = log[f] /\ last'[f] = last[f] /\ disk'[f].last = disk[f].last

\* A step that leaves every call past its checks alone and starts none.
SectionsSame ==
    \A c \in Calls : hnd[c].pc \in InSection \/ hnd'[c].pc \in InSection => hnd'[c] = hnd[c]

\* write() touches neither the followers' logs nor a running handle_append().
LEMMA WriteLogsSame ==
    ASSUME TypeOK, CallOwners, NEW w \in Writers, WriteStep(w)
    PROVE  FollowerLogsSame /\ SectionsSame
<1>0. WalTypeOK /\ wr[w] \in Writer
  BY DEF TypeOK
<1>1. CASE WriteLoad(w) \/ WriteTimeout(w)
  BY <1>1 DEF WriteLoad, WriteTimeout, walVars, FollowerLogsSame, SectionsSame
<1>2. CASE WriteStore(w)
  BY <1>0, <1>2, NodeTypes DEF WriteStore, AppendStore, WalTypeOK, FollowerLogsSame, SectionsSame
<1>3. CASE WritePut(w)
  BY <1>0, <1>3, NodeTypes DEF WritePut, AppendPut, WalTypeOK, FollowerLogsSame, SectionsSame
<1>4. CASE WritePersist(w)
  BY <1>0, <1>4, NodeTypes DEF WritePersist, AppendPersist, WalTypeOK, FollowerLogsSame, SectionsSame
<1>5. CASE WriteCommit(w)
  BY <1>0, <1>5, NodeTypes DEF WriteCommit, Commit, WalTypeOK, FollowerLogsSame, SectionsSame
<1>6. CASE WriteSpawn(w)
  <2>1. FollowerLogsSame
    BY <1>6 DEF WriteSpawn, walVars, FollowerLogsSame
  <2>2. \A c \in Calls : c[2] = wr[w].id => hnd[c].pc = "none"
    BY <1>6 DEF WriteSpawn, CallOwners
  <2>3. \A c \in Calls : hnd'[c] = hnd[c] \/ (c[2] = wr[w].id /\ hnd'[c].pc = "sent")
    BY <1>6 DEF WriteSpawn
  <2>4. SectionsSame
    BY <2>2, <2>3 DEF SectionsSame, InSection
  <2> QED BY <2>1, <2>4
<1> QED BY <1>1, <1>2, <1>3, <1>4, <1>5, <1>6 DEF WriteStep

\* Neither does a replication thread: it takes an answer, sends a catch-up
\* entry while it has none open, or marks an entry committed.
LEMMA ThreadLogsSame ==
    ASSUME TypeOK, CallOwners, NEW x \in Threads, ThreadStep(x)
    PROVE  FollowerLogsSame /\ SectionsSame
<1>0. /\ WalTypeOK /\ x[1] \in Nodes /\ CallOf(x) \in Calls /\ <<x[1], x[2], "c">> \in Calls
      /\ hnd \in [Calls -> Call]
  BY ThreadTypes, NodeTypes DEF TypeOK
<1>1. NoCall.pc = "none"
  BY DEF NoCall
<1>2. CASE RecordAck(x) \/ Rejected(x)
  <2>1. hnd' = [hnd EXCEPT ![CallOf(x)] = NoCall] /\ hnd[CallOf(x)].pc \in {"ok", "no"}
    BY <1>2 DEF RecordAck, Rejected
  <2>2. SectionsSame
    BY <1>0, <1>1, <2>1 DEF SectionsSame, InSection
  <2> QED BY <1>2, <2>2 DEF RecordAck, Rejected, walVars, FollowerLogsSame
<1>3. CASE RpcFailed(x)
  <2>1. SectionsSame
    BY <1>0, <1>1, <1>3 DEF RpcFailed, SectionsSame, InSection
  <2> QED BY <1>3, <2>1 DEF RpcFailed, walVars, FollowerLogsSame
<1>4. CASE NextEntry(x)
  <2>1. thr[x].pc = "next"
    BY <1>4 DEF NextEntry
  <2>2. hnd[<<x[1], x[2], "c">>].pc = "none"
    BY <2>1 DEF CallOwners
  <2>3. SectionsSame
    BY <1>0, <1>4, <2>2 DEF NextEntry, SectionsSame, InSection
  <2> QED BY <1>4, <2>3 DEF NextEntry, walVars, FollowerLogsSame
<1>5. CASE CommitEntry(x)
  BY <1>0, <1>5, NodeTypes DEF CommitEntry, CommitMark, walVars, WalTypeOK, FollowerLogsSame, SectionsSame
<1>6. CASE CommitSet(x)
  BY <1>0, <1>6, NodeTypes DEF CommitSet, CommitRaise, WalTypeOK, FollowerLogsSame, SectionsSame
<1>7. CASE CommitLost(x)
  BY <1>7 DEF CommitLost, walVars, FollowerLogsSame, SectionsSame
<1> QED BY <1>2, <1>3, <1>4, <1>5, <1>6, <1>7 DEF ThreadStep

\* Bootstrap writes the follower's tables, never its log.
LEMMA BootstrapLogsSame ==
    ASSUME NEW f \in Followers, BootstrapStep(f)
    PROVE  FollowerLogsSame /\ UNCHANGED <<walVars, wr, started, match, acks, hnd>>
<1>1. UNCHANGED <<walVars, wr, started, match, acks, hnd>>
  BY DEF BootstrapStep, FollowerRestart, SnapshotLsn, SnapshotTable, SnapshotInstall,
         BootstrapFailed, obsVars
<1> QED BY <1>1 DEF walVars, FollowerLogsSame

\* Handlers that run at the followers survive a restart of the leader.
LEMMA RestartLogsSame ==
    ASSUME TypeOK, LeaderRestart
    PROVE  FollowerLogsSame /\ SectionsSame
<1>1. PICK d : Reopen(Leader, d)
  BY DEF LeaderRestart
<1>2. FollowerLogsSame
  BY <1>1, NodeTypes DEF Reopen, TypeOK, WalTypeOK, FollowerLogsSame
<1>3. SectionsSame
  BY DEF LeaderRestart, SectionsSame, InSection, NoCall
<1> QED BY <1>2, <1>3

(***************************************************************************)
(* FollowerCounters: one handle_append() past its checks per follower.     *)
(***************************************************************************)

\* Membership in the set Serial speaks of.
LEMMA InAppendSection ==
    ASSUME NEW f \in Followers
    PROVE  \A c \in Calls : c \in AppendSection(f) <=> c[1] = f /\ hnd[c].pc \in InSection
  BY DEF AppendSection, InSection

\* The same after a step.
LEMMA InAppendSectionNext ==
    ASSUME NEW f \in Followers
    PROVE  \A c \in Calls : c \in AppendSection(f)' <=> c[1] = f /\ hnd'[c].pc \in InSection
  BY DEF AppendSection, InSection

\* A step that leaves the followers' logs and the running handlers alone.
LEMMA CountersFrame ==
    ASSUME TypeOK, FollowerCounters, FollowerLogsSame, SectionsSame
    PROVE  FollowerCounters'
<1>1. \A f \in Followers : AppendSection(f)' = AppendSection(f)
  BY DEF SectionsSame, AppendSection, InSection
<1>2. \A c \in Calls : c[1] \in Followers
  BY CallTypes
<1>3. \A c \in Calls : hnd'[c].pc \in InSection => hnd'[c] = hnd[c]
  BY DEF SectionsSame
<1>4. (\A c, e \in Calls : c \in AppendSection(e[1]) /\ e \in AppendSection(e[1]) => c = e)'
  BY <1>1, <1>2 DEF FollowerCounters
<1>5. (\A f \in Followers : AppendSection(f) = {} => last[f] = disk[f].last)'
  BY <1>1 DEF FollowerCounters, FollowerLogsSame
<1>6. ASSUME NEW c \in Calls
      PROVE  (/\ hnd[c].pc = "load" => /\ last[c[1]] = disk[c[1]].last
                                       /\ hnd[c].idx = last[c[1]] + 1
              /\ hnd[c].pc = "store" => /\ last[c[1]] = disk[c[1]].last
                                        /\ hnd[c].reg = last[c[1]] + 1
                                        /\ hnd[c].idx = hnd[c].reg
              /\ hnd[c].pc \in {"put", "persist"} => /\ last[c[1]] = disk[c[1]].last + 1
                                                     /\ hnd[c].reg = last[c[1]]
                                                     /\ hnd[c].idx = hnd[c].reg
              /\ hnd[c].pc = "persist" => log[c[1]][hnd[c].reg] = hnd[c].ent)'
  BY <1>2, <1>3 DEF FollowerCounters, FollowerLogsSame, InSection
<1> QED BY <1>4, <1>5, <1>6 DEF FollowerCounters

\* What a running handler of one follower knows of its own counters.
CallCounters(c) ==
    /\ hnd[c].pc = "load" => /\ last[c[1]] = disk[c[1]].last
                             /\ hnd[c].idx = last[c[1]] + 1
    /\ hnd[c].pc = "store" => /\ last[c[1]] = disk[c[1]].last
                              /\ hnd[c].reg = last[c[1]] + 1
                              /\ hnd[c].idx = hnd[c].reg
    /\ hnd[c].pc \in {"put", "persist"} => /\ last[c[1]] = disk[c[1]].last + 1
                                           /\ hnd[c].reg = last[c[1]]
                                           /\ hnd[c].idx = hnd[c].reg
    /\ hnd[c].pc = "persist" => log[c[1]][hnd[c].reg] = hnd[c].ent

\* The other followers and their handlers.
OthersSame(c) ==
    /\ \A e \in Calls : e # c => hnd'[e] = hnd[e]
    /\ \A f \in Followers : f # c[1] =>
          log'[f] = log[f] /\ last'[f] = last[f] /\ disk'[f] = disk[f]

\* A step of call c, when no other handler of its follower is past its checks:
\* the follower's counters need be looked at for c alone.
LEMMA CountersOfCall ==
    ASSUME TypeOK, FollowerCounters, NEW c \in Calls, OthersSame(c), hnd \in [Calls -> Call],
           \A e \in Calls : e # c /\ e[1] = c[1] => hnd[e].pc \notin InSection,
           CallCounters(c)',
           hnd'[c].pc \notin InSection => last'[c[1]] = disk'[c[1]].last
    PROVE  FollowerCounters'
<1>1. \A e \in Calls : e[1] \in Followers
  BY CallTypes
<1>2. \A e \in Calls : e # c => hnd'[e] = hnd[e]
  BY DEF OthersSame
<1>3. (\A d, e \in Calls : d \in AppendSection(e[1]) /\ e \in AppendSection(e[1]) => d = e)'
  <2> SUFFICES ASSUME NEW d \in Calls, NEW e \in Calls, d[1] = e[1],
                      hnd'[d].pc \in InSection, hnd'[e].pc \in InSection
               PROVE  d = e
    BY <1>1, InAppendSectionNext
  <2>1. CASE d = c \/ e = c
    BY <2>1, <1>2
  <2>2. CASE d # c /\ e # c
    BY <2>2, <1>1, <1>2, InAppendSection DEF FollowerCounters
  <2> QED BY <2>1, <2>2
<1>4. ASSUME NEW f \in Followers, AppendSection(f)' = {}
      PROVE  last'[f] = disk'[f].last
  <2>1. \A e \in Calls : e[1] = f => hnd'[e].pc \notin InSection
    BY <1>4, InAppendSectionNext
  <2>2. CASE f = c[1]
    BY <2>1, <2>2
  <2>3. CASE f # c[1]
    <3>1. \A e \in Calls : e \notin AppendSection(f)
      BY <1>2, <2>1, <2>3, InAppendSection
    <3>2. AppendSection(f) = {}
      BY <3>1 DEF AppendSection
    <3> QED BY <2>3, <3>2 DEF FollowerCounters, OthersSame
  <2> QED BY <2>2, <2>3
<1>5. ASSUME NEW e \in Calls
      PROVE  CallCounters(e)'
  <2>1. CASE e = c
    BY <2>1
  <2>2. CASE e # c /\ e[1] = c[1]
    BY <2>2, <1>2 DEF CallCounters, InSection
  <2>3. CASE e # c /\ e[1] # c[1]
    BY <2>3, <1>1, <1>2 DEF CallCounters, FollowerCounters, OthersSame
  <2> QED BY <2>1, <2>2, <2>3
<1> QED BY <1>3, <1>4, <1>5 DEF FollowerCounters, CallCounters

\* Every step of handle_append() keeps the counters of its follower in step
\* with the call: the comparison and the increment are about one index.
LEMMA CallCountersStep ==
    ASSUME TypeOK, FollowerCounters, Serial, NEW c \in Calls, CallStep(c)
    PROVE  FollowerCounters'
<1> DEFINE f == c[1]
<1>0. /\ f \in Followers /\ f \in Nodes /\ hnd \in [Calls -> Call] /\ hnd[c] \in Call
      /\ last \in [Nodes -> Counter] /\ disk \in [Nodes -> Saved]
      /\ log \in [Nodes -> [Index -> Entries]]
      /\ last[f] \in Nat /\ disk[f].last \in Nat
  BY CallTypes, NodeTypes DEF TypeOK, WalTypeOK
<1>1. \A e \in Calls : hnd[c].pc \in InSection /\ e # c /\ e[1] = c[1] => hnd[e].pc \notin InSection
  BY <1>0, InAppendSection DEF FollowerCounters
<1>2. CallCounters(c)
  BY DEF FollowerCounters, CallCounters
<1>3. \A p \in {"load", "store", "put", "persist"} :
        LET r == [hnd[c] EXCEPT !.pc = p]
        IN r.pc = p /\ r.idx = hnd[c].idx /\ r.ent = hnd[c].ent /\ r.reg = hnd[c].reg
  BY <1>0 DEF Call
<1>4. NoCall.pc = "none" /\ \A a \in {"ok", "no"} : [NoCall EXCEPT !.pc = a].pc = a
  BY DEF NoCall
<1>5. CASE AppendCheck(c)
  <2>1. hnd[c].pc = "sent" /\ UNCHANGED walVars
    BY <1>5 DEF AppendCheck
  <2>2. CASE hnd'[c].pc = "none"
    <3>1. FollowerLogsSame
      BY <2>1 DEF FollowerLogsSame, walVars
    <3>2. \A e \in Calls : e # c => hnd'[e] = hnd[e]
      BY <1>0, <1>5 DEF AppendCheck, Answer
    <3>3. SectionsSame
      BY <2>1, <2>2, <3>2 DEF SectionsSame, InSection
    <3> QED BY <3>1, <3>3, CountersFrame
  <2>3. CASE hnd'[c].pc # "none"
    <3>1. hnd'[c].pc \in {"load", "ok", "no"}
      BY <1>0, <1>3, <1>4, <1>5, <2>3 DEF AppendCheck, Answer
    <3>2. AppendSection(f) = {}
      BY <2>1, <3>1 DEF Serial
    <3>3. \A e \in Calls : e[1] = f => hnd[e].pc \notin InSection
      BY <1>0, <3>2, InAppendSection
    <3>4. last[f] = disk[f].last
      BY <1>0, <3>2 DEF FollowerCounters
    <3>5. OthersSame(c)
      BY <1>0, <1>5, <2>1 DEF AppendCheck, Answer, OthersSame, walVars
    <3>6. hnd'[c].pc = "load" => hnd'[c].idx = last[f] + 1
      BY <1>0, <1>3, <1>4, <1>5 DEF AppendCheck, Answer
    <3>7. CallCounters(c)'
      BY <2>1, <3>1, <3>4, <3>6 DEF CallCounters, walVars
    <3>8. last'[f] = disk'[f].last
      BY <2>1, <3>4 DEF walVars
    <3> QED BY <1>0, <3>3, <3>5, <3>7, <3>8, CountersOfCall
  <2> QED BY <2>2, <2>3
<1>6. CASE AppendLoad(c)
  <2>1. hnd[c].pc = "load" /\ UNCHANGED walVars
    BY <1>6 DEF AppendLoad
  <2>2. OthersSame(c)
    BY <1>0, <1>6, <2>1 DEF AppendLoad, OthersSame, walVars
  <2>3. hnd'[c].pc = "store" /\ hnd'[c].reg = last[f] + 1 /\ hnd'[c].idx = hnd[c].idx
    BY <1>0, <1>6 DEF AppendLoad, Call
  <2>4. CallCounters(c)' /\ hnd'[c].pc \in InSection
    BY <1>2, <2>1, <2>3 DEF CallCounters, walVars, InSection
  <2> QED BY <1>0, <1>1, <2>1, <2>2, <2>4, CountersOfCall DEF InSection
<1>7. CASE AppendInc(c)
  <2>1. hnd[c].pc = "store"
    BY <1>7 DEF AppendInc
  <2>2. OthersSame(c)
    BY <1>0, <1>7, NodeTypes DEF AppendInc, AppendStore, OthersSame
  <2>3. hnd'[c].pc = "put" /\ hnd'[c].reg = hnd[c].reg /\ hnd'[c].idx = hnd[c].idx
    BY <1>0, <1>3, <1>7 DEF AppendInc
  <2>4. last'[f] = hnd[c].reg /\ disk' = disk
    BY <1>0, <1>7 DEF AppendInc, AppendStore
  <2>5. CallCounters(c)' /\ hnd'[c].pc \in InSection
    BY <1>2, <2>1, <2>3, <2>4 DEF CallCounters, InSection
  <2> QED BY <1>0, <1>1, <2>1, <2>2, <2>5, CountersOfCall DEF InSection
<1>8. CASE AppendWrite(c)
  <2>1. hnd[c].pc = "put"
    BY <1>8 DEF AppendWrite
  <2>2. OthersSame(c)
    BY <1>0, <1>8, NodeTypes DEF AppendWrite, AppendPut, OthersSame
  <2>3. /\ hnd'[c].pc = "persist" /\ hnd'[c].reg = hnd[c].reg /\ hnd'[c].idx = hnd[c].idx
        /\ hnd'[c].ent = hnd[c].ent
    BY <1>0, <1>3, <1>8 DEF AppendWrite
  <2>4. hnd[c].reg \in Index
    <3>1. hnd[c].reg \in Counter /\ hnd[c].reg = disk[f].last + 1
      BY <1>0, <1>2, <2>1 DEF CallCounters, Call
    <3> QED BY <1>0, <3>1, MaxWritesAssumption DEF Counter, Index
  <2>5. log'[f][hnd[c].reg] = hnd[c].ent /\ last' = last /\ disk' = disk
    BY <1>0, <1>8, <2>4 DEF AppendWrite, AppendPut
  <2>6. CallCounters(c)' /\ hnd'[c].pc \in InSection
    BY <1>2, <2>1, <2>3, <2>5 DEF CallCounters, InSection
  <2> QED BY <1>0, <1>1, <2>1, <2>2, <2>6, CountersOfCall DEF InSection
<1>9. CASE AppendDone(c)
  <2>1. hnd[c].pc = "persist"
    BY <1>9 DEF AppendDone
  <2>2. OthersSame(c)
    BY <1>0, <1>9, NodeTypes DEF AppendDone, AppendPersist, Answer, OthersSame
  <2>3. hnd'[c].pc \in {"none", "ok"}
    BY <1>0, <1>4, <1>9 DEF AppendDone, Answer
  <2>4. last' = last /\ disk'[f].last = last[f]
    BY <1>0, <1>9 DEF AppendDone, AppendPersist
  <2>5. CallCounters(c)'
    BY <2>3 DEF CallCounters
  <2> QED BY <1>0, <1>1, <2>1, <2>2, <2>4, <2>5, CountersOfCall DEF InSection
<1> QED BY <1>5, <1>6, <1>7, <1>8, <1>9 DEF CallStep

\* A crash of a follower ends its handlers; open() reads back the counters.
LEMMA CrashCounters ==
    ASSUME PowerLoss = FALSE, TypeOK, FollowerCounters, NEW f \in Followers, FollowerCrash(f)
    PROVE  FollowerCounters'
<1>0. f \in Nodes /\ WalTypeOK
  BY NodeTypes DEF TypeOK
<1>1. Reopen(f, disk[f])
  BY DEF FollowerCrash, Survives
<1>2. /\ log' = log /\ last'[f] = disk[f].last /\ disk'[f] = disk[f]
      /\ \A g \in Followers : g # f => last'[g] = last[g] /\ disk'[g] = disk[g]
  BY <1>0, <1>1, NodeTypes DEF Reopen, WalTypeOK
<1>3. \A c \in Calls : IF c[1] = f THEN hnd'[c].pc = "none" ELSE hnd'[c] = hnd[c]
  BY DEF FollowerCrash, NoCall
<1>4. \A c \in Calls : c[1] \in Followers
  BY CallTypes
<1>5. \A g \in Followers : g # f => AppendSection(g)' = AppendSection(g)
  BY <1>3 DEF AppendSection
<1>6. AppendSection(f)' = {}
  BY <1>3 DEF AppendSection
<1>7. (\A c, e \in Calls : c \in AppendSection(e[1]) /\ e \in AppendSection(e[1]) => c = e)'
  BY <1>4, <1>5, <1>6 DEF FollowerCounters
<1>8. \A g \in Followers : AppendSection(g)' = {} => last'[g] = disk'[g].last
  BY <1>2, <1>5 DEF FollowerCounters
<1>9. ASSUME NEW c \in Calls PROVE CallCounters(c)'
  <2>1. CASE c[1] = f
    BY <1>3, <2>1 DEF CallCounters
  <2>2. CASE c[1] # f
    BY <1>2, <1>3, <1>4, <2>2 DEF CallCounters, FollowerCounters
  <2> QED BY <2>1, <2>2
<1> QED BY <1>7, <1>8, <1>9 DEF FollowerCounters, CallCounters

\* Every step of a serial schedule preserves FollowerCounters.
LEMMA CountersNext ==
    ASSUME PowerLoss = FALSE, TypeOK, FollowerCounters, CallOwners, [Next /\ Serial]_vars
    PROVE  FollowerCounters'
<1>1. CASE UNCHANGED vars
  BY <1>1, CountersFrame DEF vars, walVars, ctlVars, FollowerLogsSame, SectionsSame
<1>2. ASSUME NEW w \in Writers, WriteStep(w) PROVE FollowerCounters'
  BY <1>2, WriteLogsSame, CountersFrame
<1>3. ASSUME NEW x \in Threads, ThreadStep(x) PROVE FollowerCounters'
  BY <1>3, ThreadLogsSame, CountersFrame
<1>4. ASSUME NEW f \in Followers, BootstrapStep(f) PROVE FollowerCounters'
  <2>1. FollowerLogsSame /\ SectionsSame
    BY <1>4, BootstrapLogsSame DEF SectionsSame
  <2> QED BY <2>1, CountersFrame
<1>5. ASSUME LeaderRestart PROVE FollowerCounters'
  BY <1>5, RestartLogsSame, CountersFrame
<1> QED BY <1>1, <1>2, <1>3, <1>4, <1>5, CallCountersStep, CrashCounters DEF Next

(***************************************************************************)
(* CallsFromLog: entries in flight are entries of the leader's log.        *)
(***************************************************************************)

\* A step after which every call in flight was already, with the same entry.
CallsKept ==
    \A c \in Calls : hnd'[c].pc \in InFlight =>
        hnd[c].pc \in InFlight /\ hnd'[c].idx = hnd[c].idx /\ hnd'[c].ent = hnd[c].ent

\* Such a step keeps what is in flight equal to what the leader holds.
LEMMA CallsFrame ==
    ASSUME TypeOK, CallsFromLog, LeaderGrows, CallsKept
    PROVE  CallsFromLog'
<1> SUFFICES ASSUME NEW c \in Calls, hnd'[c].pc \in InFlight
             PROVE  /\ hnd'[c].idx \in Index
                    /\ hnd'[c].idx <= disk'[Leader].last
                    /\ hnd'[c].ent = log'[Leader][hnd'[c].idx]
  BY DEF CallsFromLog, InFlight, InSection
<1>1. hnd[c].pc \in InFlight /\ hnd'[c].idx = hnd[c].idx /\ hnd'[c].ent = hnd[c].ent
  BY DEF CallsKept
<1>2. /\ hnd[c].idx \in Index /\ hnd[c].idx <= disk[Leader].last
      /\ hnd[c].ent = log[Leader][hnd[c].idx]
  BY <1>1 DEF CallsFromLog, InFlight, InSection
<1>3. hnd[c].idx <= disk'[Leader].last
  BY <1>2, NodeTypes DEF LeaderGrows
<1> QED BY <1>1, <1>2, <1>3 DEF LeaderGrows

\* handle_append() changes how far it has got, never what it was sent.
LEMMA CallStepKept ==
    ASSUME TypeOK, NEW c \in Calls, CallStep(c)
    PROVE  /\ CallsKept
           /\ \A e \in Calls : e # c => hnd'[e] = hnd[e]
           /\ hnd[c].pc \in InFlight
           /\ thr' = thr
<1>0. hnd \in [Calls -> Call] /\ hnd[c] \in Call
  BY DEF TypeOK
<1>1. NoCall.pc \notin InFlight /\ \A a \in {"ok", "no"} : [NoCall EXCEPT !.pc = a].pc \notin InFlight
  BY DEF NoCall, InFlight, InSection
<1>2. ASSUME NEW a \in {"ok", "no"}, Answer(c, a)
      PROVE  hnd'[c].pc \notin InFlight /\ \A e \in Calls : e # c => hnd'[e] = hnd[e]
  BY <1>0, <1>1, <1>2 DEF Answer
<1>3. ASSUME hnd[c].pc \in InFlight,
             hnd'[c].pc \notin InFlight \/ (hnd'[c].idx = hnd[c].idx /\ hnd'[c].ent = hnd[c].ent),
             \A e \in Calls : e # c => hnd'[e] = hnd[e]
      PROVE  CallsKept
  BY <1>3 DEF CallsKept
<1>4. hnd[c].pc \in InFlight /\ thr' = thr
  BY DEF CallStep, AppendCheck, AppendLoad, AppendInc, AppendWrite, AppendDone, InFlight, InSection
<1>5. CASE AppendCheck(c)
  <2>1. CASE hnd' = [hnd EXCEPT ![c] = [@ EXCEPT !.pc = "load"]]
    BY <1>0, <1>3, <1>4, <2>1 DEF Call
  <2>2. CASE \E a \in {"ok", "no"} : Answer(c, a)
    BY <1>2, <1>3, <1>4, <2>2
  <2> QED BY <1>5, <2>1, <2>2 DEF AppendCheck
<1>6. CASE AppendLoad(c)
  <2>1. hnd'[c].idx = hnd[c].idx /\ hnd'[c].ent = hnd[c].ent /\ \A e \in Calls : e # c => hnd'[e] = hnd[e]
    BY <1>0, <1>6 DEF AppendLoad, Call
  <2> QED BY <1>3, <1>4, <2>1
<1>7. CASE AppendInc(c)
  <2>1. hnd'[c].idx = hnd[c].idx /\ hnd'[c].ent = hnd[c].ent /\ \A e \in Calls : e # c => hnd'[e] = hnd[e]
    BY <1>0, <1>7 DEF AppendInc, Call
  <2> QED BY <1>3, <1>4, <2>1
<1>8. CASE AppendWrite(c)
  <2>1. hnd'[c].idx = hnd[c].idx /\ hnd'[c].ent = hnd[c].ent /\ \A e \in Calls : e # c => hnd'[e] = hnd[e]
    BY <1>0, <1>8 DEF AppendWrite, Call
  <2> QED BY <1>3, <1>4, <2>1
<1>9. CASE AppendDone(c)
  BY <1>2, <1>3, <1>4, <1>9 DEF AppendDone
<1> QED BY <1>4, <1>5, <1>6, <1>7, <1>8, <1>9 DEF CallStep

\* The entry a writer hands to its threads is the one it has persisted.
LEMMA WriteCalls ==
    ASSUME TypeOK, LeaderInv, CallsFromLog, LeaderGrows, NEW w \in Writers, WriteStep(w)
    PROVE  CallsFromLog'
<1>1. CASE WriteSpawn(w)
  <2>1. /\ wr[w].pc = "spawn" /\ wr[w].idx <= disk[Leader].last
        /\ log[Leader][wr[w].idx] = wr[w].id
    BY <1>1 DEF WriteSpawn, LeaderInv, LeaderCounters
  <2>2. wr[w].idx \in Index
    BY <2>1, WriterFacts
  <2>3. UNCHANGED walVars
    BY <1>1 DEF WriteSpawn
  <2> SUFFICES ASSUME NEW c \in Calls, hnd'[c].pc \in InFlight
               PROVE  /\ hnd'[c].idx \in Index
                      /\ hnd'[c].idx <= disk[Leader].last
                      /\ hnd'[c].ent = log[Leader][hnd'[c].idx]
    BY <2>3 DEF CallsFromLog, InFlight, InSection, walVars
  <2>4. CASE hnd'[c] = hnd[c]
    BY <2>4 DEF CallsFromLog, InFlight, InSection
  <2>5. CASE hnd'[c] # hnd[c]
    <3>1. hnd'[c] = [pc |-> "sent", idx |-> wr[w].idx, ent |-> wr[w].id, reg |-> 0]
      BY <1>1, <2>5 DEF WriteSpawn
    <3> QED BY <2>1, <2>2, <3>1
  <2> QED BY <2>4, <2>5
<1>2. CASE ~WriteSpawn(w)
  <2>1. hnd' = hnd
    BY <1>2 DEF WriteStep, WriteLoad, WriteStore, WritePut, WritePersist, WriteCommit, WriteTimeout
  <2> QED BY <2>1, CallsFrame DEF CallsKept
<1> QED BY <1>1, <1>2

\* A thread takes answers away and, in a catch-up, sends what it reads.
LEMMA ThreadCalls ==
    ASSUME TypeOK, CallsFromLog, ThreadsInLog, LeaderGrows, NEW x \in Threads, ThreadStep(x)
    PROVE  CallsFromLog'
<1>0. hnd \in [Calls -> Call] /\ CallOf(x) \in Calls /\ <<x[1], x[2], "c">> \in Calls
  BY ThreadTypes DEF TypeOK
<1>1. NoCall.pc = "none"
  BY DEF NoCall
<1>2. CASE RecordAck(x) \/ Rejected(x) \/ RpcFailed(x)
  <2>1. \A c \in Calls : hnd'[c] = hnd[c] \/ hnd'[c] = NoCall
    BY <1>0, <1>2 DEF RecordAck, Rejected, RpcFailed
  <2>2. CallsKept
    BY <1>1, <2>1 DEF CallsKept, InFlight, InSection
  <2> QED BY <2>2, CallsFrame
<1>3. CASE NextEntry(x)
  <2>1. UNCHANGED walVars /\ thr[x].pc = "next"
    BY <1>3 DEF NextEntry
  <2>2. CASE hnd' = hnd
    BY <2>2, CallsFrame DEF CallsKept
  <2>3. CASE hnd' # hnd
    <3>1. /\ ReadEntry(Leader, thr[x].k) # NoEntry
          /\ hnd' = [hnd EXCEPT ![<<x[1], x[2], "c">>] =
                       [pc |-> "sent", idx |-> thr[x].k, ent |-> ReadEntry(Leader, thr[x].k), reg |-> 0]]
      BY <1>3, <2>3 DEF NextEntry
    <3>2. thr[x].k \in Index /\ ReadEntry(Leader, thr[x].k) = log[Leader][thr[x].k]
      BY <3>1 DEF ReadEntry
    <3>3. Cur(x) = thr[x].k
      BY <3>2, NodeTypes DEF Cur, Index
    <3>4. thr[x].k <= disk[Leader].last
      <4>1. Cur(x) <= thr[x].idx /\ thr[x].idx <= disk[Leader].last
        BY <2>1 DEF ThreadsInLog
      <4>2. thr[x].k \in Nat /\ thr[x].idx \in Nat /\ disk[Leader].last \in Nat
        BY NodeTypes, ThreadTypes
      <4> QED BY <3>3, <4>1, <4>2
    <3> SUFFICES ASSUME NEW c \in Calls, hnd'[c].pc \in InFlight
                 PROVE  /\ hnd'[c].idx \in Index
                        /\ hnd'[c].idx <= disk[Leader].last
                        /\ hnd'[c].ent = log[Leader][hnd'[c].idx]
      BY <2>1 DEF CallsFromLog, InFlight, InSection, walVars
    <3>5. CASE c = <<x[1], x[2], "c">>
      BY <1>0, <3>1, <3>2, <3>4, <3>5
    <3>6. CASE c # <<x[1], x[2], "c">>
      BY <1>0, <3>1, <3>6 DEF CallsFromLog, InFlight, InSection
    <3> QED BY <3>5, <3>6
  <2> QED BY <2>2, <2>3
<1>4. CASE CommitEntry(x) \/ CommitSet(x) \/ CommitLost(x)
  <2>1. hnd' = hnd
    BY <1>4 DEF CommitEntry, CommitSet, CommitLost
  <2> QED BY <2>1, CallsFrame DEF CallsKept
<1> QED BY <1>2, <1>3, <1>4 DEF ThreadStep

\* Every step of a serial schedule preserves CallsFromLog.
LEMMA CallsNext ==
    ASSUME PowerLoss = FALSE, TypeOK, LeaderInv, CallsFromLog, ThreadsInLog, [Next]_vars
    PROVE  CallsFromLog'
<1>1. LeaderGrows
  BY LeaderPersistent
<1>2. CASE UNCHANGED vars
  BY <1>1, <1>2, CallsFrame DEF vars, ctlVars, CallsKept
<1>3. ASSUME NEW c \in Calls, CallStep(c) PROVE CallsFromLog'
  BY <1>1, <1>3, CallStepKept, CallsFrame
<1>4. ASSUME NEW f \in Followers, BootstrapStep(f) PROVE CallsFromLog'
  BY <1>1, <1>4, BootstrapLogsSame, CallsFrame DEF CallsKept
<1>5. ASSUME NEW f \in Followers, FollowerCrash(f) PROVE CallsFromLog'
  <2>1. CallsKept
    BY <1>5 DEF FollowerCrash, NoCall, CallsKept, InFlight, InSection
  <2> QED BY <1>1, <2>1, CallsFrame
<1>6. ASSUME LeaderRestart PROVE CallsFromLog'
  <2>1. CallsKept
    BY <1>6 DEF LeaderRestart, NoCall, CallsKept, InFlight, InSection
  <2> QED BY <1>1, <2>1, CallsFrame
<1> QED BY <1>1, <1>2, <1>3, <1>4, <1>5, <1>6, WriteCalls, ThreadCalls DEF Next

(***************************************************************************)
(* ThreadsInLog: the replication threads stay within the leader's log.     *)
(***************************************************************************)

Moving == {"next", "rpc", "commit", "set"}

\* What a thread's next position has to satisfy.
Within(r, bound) ==
    LET cur == IF r.k = 0 THEN r.idx ELSE r.k
    IN cur \in Index /\ cur <= r.idx /\ r.idx <= bound

\* A step after which every moving thread is within the log.
LEMMA ThreadsFrame ==
    ASSUME TypeOK, ThreadsInLog, LeaderGrows,
           \A x \in Threads : thr'[x].pc \in Moving =>
               \/ thr'[x] = thr[x]
               \/ thr'[x].idx \in Nat /\ Within(thr'[x], disk[Leader].last)
    PROVE  ThreadsInLog'
<1> SUFFICES ASSUME NEW x \in Threads, thr'[x].pc \in Moving
             PROVE  /\ Cur(x)' \in Index
                    /\ Cur(x)' <= thr'[x].idx
                    /\ thr'[x].idx <= disk'[Leader].last
  BY DEF ThreadsInLog, Moving
<1>1. thr'[x].idx \in Nat /\ Within(thr'[x], disk[Leader].last)
  <2>1. CASE thr'[x] = thr[x]
    BY <2>1, ThreadTypes DEF ThreadsInLog, Within, Cur, Moving
  <2> QED BY <2>1
<1>2. thr'[x].idx <= disk[Leader].last
  BY <1>1 DEF Within
<1>3. disk'[Leader].last \in Nat /\ disk[Leader].last \in Nat
      /\ disk'[Leader].last >= disk[Leader].last
  BY NodeTypes DEF LeaderGrows
<1>4. thr'[x].idx <= disk'[Leader].last
  BY <1>1, <1>2, <1>3
<1> QED BY <1>1, <1>4 DEF Within, Cur

\* The next iteration of a loop is about the next index.
LEMMA NextIterationWithin ==
    ASSUME TypeOK, ThreadsInLog, NEW x \in Threads, thr[x].pc \in Moving
    PROVE  LET r == NextIteration(x)
           IN \/ r.pc = "off"
              \/ r.pc = "next" /\ r.idx \in Nat /\ r.k # 0 /\ Within(r, disk[Leader].last)
<1>0. /\ thr[x] \in Thread /\ thr[x].idx \in Nat /\ thr[x].k \in Nat /\ thr[x].idx \in Counter
  BY ThreadTypes DEF Thread
<1>1. thr[x].idx <= disk[Leader].last
  BY DEF ThreadsInLog, Moving
<1>2. CASE thr[x].k = 0 \/ thr[x].k >= thr[x].idx
  BY <1>2 DEF NextIteration, OffThread
<1>3. CASE ~(thr[x].k = 0 \/ thr[x].k >= thr[x].idx)
  <2> DEFINE r == [thr[x] EXCEPT !.pc = "next", !.k = thr[x].k + 1]
  <2>1. NextIteration(x) = r
    BY <1>3 DEF NextIteration
  <2>2. r.pc = "next" /\ r.idx = thr[x].idx /\ r.k = thr[x].k + 1
    BY <1>0 DEF Thread
  <2>3. thr[x].k + 1 \in Index /\ thr[x].k + 1 <= thr[x].idx /\ thr[x].k + 1 # 0
    BY <1>0, <1>3, MaxWritesAssumption DEF Counter, Index
  <2> QED BY <1>0, <1>1, <2>1, <2>2, <2>3 DEF Within
<1> QED BY <1>2, <1>3

\* A failed AppendEntry ends the thread or starts the catch-up at match_index + 1.
LEMMA AfterFailureWithin ==
    ASSUME TypeOK, ThreadsInLog, NEW x \in Threads, thr[x].pc \in Moving
    PROVE  LET r == AfterFailure(x)
           IN \/ r.pc = "off"
              \/ /\ r.pc = "next" /\ r.idx \in Nat /\ r.k # 0 /\ thr[x].k = 0
                 /\ Within(r, disk[Leader].last)
<1>0. /\ thr[x] \in Thread /\ thr[x].idx \in Nat /\ thr[x].k \in Nat /\ thr[x].idx \in Counter
      /\ x[1] \in Followers
  BY ThreadTypes DEF Thread
<1>1. thr[x].idx <= disk[Leader].last
  BY DEF ThreadsInLog, Moving
<1>2. match[x[1]] \in Counter
  BY <1>0 DEF TypeOK
<1>3. CASE ~(thr[x].k = 0 /\ match[x[1]] + 1 <= thr[x].idx)
  BY <1>3 DEF AfterFailure, EnterCatchUp, OffThread
<1>4. CASE thr[x].k = 0 /\ match[x[1]] + 1 <= thr[x].idx
  <2> DEFINE r == [thr[x] EXCEPT !.pc = "next", !.k = match[x[1]] + 1]
  <2>1. AfterFailure(x) = r
    BY <1>4 DEF AfterFailure, EnterCatchUp
  <2>2. r.pc = "next" /\ r.idx = thr[x].idx /\ r.k = match[x[1]] + 1
    BY <1>0 DEF Thread
  <2>3. match[x[1]] + 1 \in Index /\ match[x[1]] + 1 # 0
    BY <1>0, <1>2, <1>4, MaxWritesAssumption DEF Counter, Index
  <2> QED BY <1>0, <1>1, <1>4, <2>1, <2>2, <2>3 DEF Within
<1> QED BY <1>3, <1>4

\* Only the thread that steps moves.
LEMMA ThreadStepThreads ==
    ASSUME TypeOK, ThreadsInLog, NEW x \in Threads, ThreadStep(x)
    PROVE  /\ \A y \in Threads : y # x => thr'[y] = thr[y]
           /\ thr[x].pc \in Moving
           /\ \/ thr'[x].pc = "off"
              \/ thr'[x].pc = "next" /\ thr'[x].idx \in Nat /\ Within(thr'[x], disk[Leader].last)
              \/ /\ thr'[x].pc \in {"rpc", "commit", "set"}
                 /\ thr'[x].idx = thr[x].idx /\ thr'[x].k = thr[x].k
           /\ thr[x].pc = "rpc" => thr'[x].pc # "rpc"
<1>0. thr \in [Threads -> Thread] /\ thr[x] \in Thread
  BY DEF TypeOK
<1>1. thr[x].pc \in Moving
  BY DEF ThreadStep, RecordAck, Rejected, RpcFailed, NextEntry, CommitEntry, CommitSet, CommitLost,
         Moving
<1>2. \A p \in {"rpc", "commit", "set"} :
        LET r == [thr[x] EXCEPT !.pc = p] IN r.pc = p /\ r.idx = thr[x].idx /\ r.k = thr[x].k
  BY <1>0 DEF Thread
<1>3. OffThread.pc = "off"
  BY DEF OffThread
<1>4. \/ \E p \in {"rpc", "commit", "set"} :
           thr' = [thr EXCEPT ![x] = [@ EXCEPT !.pc = p]] /\ (p = "rpc" => thr[x].pc # "rpc")
      \/ thr' = [thr EXCEPT ![x] = AfterFailure(x)]
      \/ thr' = [thr EXCEPT ![x] = NextIteration(x)]
      \/ thr' = [thr EXCEPT ![x] = OffThread]
  BY DEF ThreadStep, RecordAck, Rejected, RpcFailed, NextEntry, CommitEntry, CommitSet, CommitLost
<1>5. CASE \E p \in {"rpc", "commit", "set"} :
           thr' = [thr EXCEPT ![x] = [@ EXCEPT !.pc = p]] /\ (p = "rpc" => thr[x].pc # "rpc")
  BY <1>0, <1>1, <1>2, <1>5
<1>6. CASE thr' = [thr EXCEPT ![x] = AfterFailure(x)]
  BY <1>0, <1>1, <1>6, AfterFailureWithin
<1>7. CASE thr' = [thr EXCEPT ![x] = NextIteration(x)]
  BY <1>0, <1>1, <1>7, NextIterationWithin
<1>8. CASE thr' = [thr EXCEPT ![x] = OffThread]
  BY <1>0, <1>1, <1>3, <1>8
<1> QED BY <1>4, <1>5, <1>6, <1>7, <1>8

\* Every step of a serial schedule preserves ThreadsInLog.
LEMMA ThreadsNext ==
    ASSUME PowerLoss = FALSE, TypeOK, LeaderInv, ThreadsInLog, [Next /\ Serial]_vars
    PROVE  ThreadsInLog'
<1>0. LeaderGrows /\ thr \in [Threads -> Thread]
  BY LeaderPersistent DEF TypeOK
<1>1. ASSUME thr' = thr PROVE ThreadsInLog'
  BY <1>0, <1>1, ThreadsFrame
<1>2. ASSUME NEW w \in Writers, WriteStep(w) PROVE ThreadsInLog'
  <2>1. CASE WriteSpawn(w)
    <3>1. wr[w].pc = "spawn" /\ wr[w].idx <= disk[Leader].last
      BY <2>1 DEF WriteSpawn, LeaderInv, LeaderCounters
    <3>2. wr[w].idx \in Index /\ wr[w].idx \in Nat
      BY <3>1, WriterFacts
    <3>3. \A x \in Threads : \/ thr'[x] = thr[x]
                             \/ thr'[x] = [pc |-> "rpc", idx |-> wr[w].idx, k |-> 0, seen |-> 0]
      BY <2>1 DEF WriteSpawn
    <3>4. ASSUME NEW x \in Threads, thr'[x] # thr[x]
          PROVE  thr'[x].idx \in Nat /\ Within(thr'[x], disk[Leader].last)
      <4>1. thr'[x].idx = wr[w].idx /\ thr'[x].k = 0
        BY <3>3, <3>4
      <4> QED BY <3>1, <3>2, <4>1 DEF Within
    <3> QED BY <1>0, <3>4, ThreadsFrame
  <2>2. CASE ~WriteSpawn(w)
    BY <1>1, <1>2, <2>2 DEF WriteStep, WriteLoad, WriteStore, WritePut, WritePersist,
                            WriteCommit, WriteTimeout
  <2> QED BY <2>1, <2>2
<1>3. ASSUME NEW x \in Threads, ThreadStep(x) PROVE ThreadsInLog'
  <2>1. \A y \in Threads : y # x => thr'[y] = thr[y]
    BY <1>3, ThreadStepThreads
  <2>2. thr'[x].pc \in Moving => thr'[x].idx \in Nat /\ Within(thr'[x], disk[Leader].last)
    <3>1. thr[x].pc \in Moving
      BY <1>3, ThreadStepThreads
    <3>2. thr[x].idx \in Nat /\ Within(thr[x], disk[Leader].last)
      BY <3>1, ThreadTypes DEF ThreadsInLog, Within, Cur, Moving
    <3> QED BY <1>3, <3>2, ThreadStepThreads DEF Within, Moving
  <2> QED BY <1>0, <2>1, <2>2, ThreadsFrame
<1>4. ASSUME NEW f \in Followers, BootstrapStep(f), Serial PROVE ThreadsInLog'
  <2> DEFINE x == <<f, 0>>
  <2>0. x \in Threads
    BY MaxWritesAssumption DEF Threads, Tids
  <2>1. CASE SnapshotInstall(f)
    <3>1. \A y \in Threads : y # x => thr'[y] = thr[y]
      BY <1>0, <2>1 DEF SnapshotInstall
    <3>2. CASE thr[x].k < last[Leader]
      <4>1. thr'[x] = [pc |-> "next", idx |-> last[Leader], k |-> thr[x].k + 1, seen |-> 0]
        BY <1>0, <2>0, <2>1, <3>2 DEF SnapshotInstall
      <4>2. LeaderSection = {}
        BY <1>4, <2>0, <2>1, <4>1 DEF SnapshotInstall, Serial
      <4>3. last[Leader] = disk[Leader].last
        BY <4>2 DEF LeaderInv, LeaderCounters
      <4>4. last[Leader] \in Nat /\ thr[x].k \in Nat /\ last[Leader] \in Counter
        BY <2>0, NodeTypes, ThreadTypes, Sets DEF TypeOK, WalTypeOK
      <4>5. thr[x].k + 1 \in Index /\ thr[x].k + 1 # 0 /\ thr[x].k + 1 <= last[Leader]
        BY <3>2, <4>4, MaxWritesAssumption DEF Counter, Index
      <4>6. thr'[x].idx \in Nat /\ Within(thr'[x], disk[Leader].last)
        BY <4>1, <4>3, <4>4, <4>5 DEF Within
      <4> QED BY <1>0, <3>1, <4>6, ThreadsFrame
    <3>3. CASE ~(thr[x].k < last[Leader])
      <4>1. thr'[x].pc = "off"
        BY <1>0, <2>0, <2>1, <3>3 DEF SnapshotInstall, OffThread
      <4> QED BY <1>0, <3>1, <4>1, ThreadsFrame DEF Moving
    <3> QED BY <3>2, <3>3
  <2>2. CASE ~SnapshotInstall(f)
    <3>1. \A y \in Threads : y # x => thr'[y] = thr[y]
      BY <1>0, <1>4, <2>2 DEF BootstrapStep, FollowerRestart, SnapshotLsn, SnapshotTable, BootstrapFailed
    <3>2. thr'[x].pc \in {"lsn", "table", "install", "off"}
      <4>1. CASE FollowerRestart(f)
        BY <1>0, <2>0, <4>1 DEF FollowerRestart, OffThread
      <4>2. CASE SnapshotLsn(f)
        BY <1>0, <2>0, <4>2 DEF SnapshotLsn, Thread
      <4>3. CASE SnapshotTable(f)
        BY <1>0, <2>0, <4>3 DEF SnapshotTable, Thread
      <4>4. CASE BootstrapFailed(f)
        BY <1>0, <2>0, <4>4 DEF BootstrapFailed, OffThread
      <4> QED BY <1>4, <2>2, <4>1, <4>2, <4>3, <4>4 DEF BootstrapStep
    <3> QED BY <1>0, <3>1, <3>2, ThreadsFrame DEF Moving
  <2> QED BY <2>1, <2>2
<1>5. ASSUME NEW f \in Followers, FollowerCrash(f) PROVE ThreadsInLog'
  <2>1. \A x \in Threads : \/ thr'[x] = thr[x]
                           \/ thr'[x].pc = "off"
                           \/ thr[x].pc = "set" /\ thr'[x] = NextIteration(x)
    BY <1>5 DEF FollowerCrash, OffThread
  <2>2. \A x \in Threads : thr'[x].pc \in Moving =>
               \/ thr'[x] = thr[x]
               \/ thr'[x].idx \in Nat /\ Within(thr'[x], disk[Leader].last)
    BY <2>1, NextIterationWithin DEF Moving
  <2> QED BY <1>0, <2>2, ThreadsFrame
<1>6. ASSUME LeaderRestart PROVE ThreadsInLog'
  <2> SUFFICES ASSUME NEW x \in Threads, thr'[x].pc \in Moving, thr'[x] # thr[x]
               PROVE  thr'[x].idx \in Nat /\ Within(thr'[x], disk[Leader].last)
    BY <1>0, ThreadsFrame
  <2>1. thr[x].pc \in {"set", "rpc", "commit"} /\ thr'[x] = [thr[x] EXCEPT !.idx = Cur(x)]
    BY <1>6 DEF LeaderRestart, Moving, OffThread
  <2>2. thr'[x].idx = Cur(x) /\ thr'[x].k = thr[x].k
    BY <1>0, <2>1 DEF Thread
  <2>3. Cur(x) \in Index /\ Cur(x) <= thr[x].idx /\ thr[x].idx <= disk[Leader].last
    BY <2>1 DEF ThreadsInLog
  <2>4. Cur(x) \in Nat /\ thr[x].idx \in Nat /\ disk[Leader].last \in Nat
    BY NodeTypes, ThreadTypes
  <2>5. Cur(x) <= disk[Leader].last
    BY <2>3, <2>4
  <2> QED BY <2>2, <2>3, <2>4, <2>5 DEF Within, Cur
<1>7. CASE UNCHANGED vars
  BY <1>1, <1>7 DEF vars, ctlVars
<1>8. ASSUME NEW c \in Calls, CallStep(c) PROVE ThreadsInLog'
  BY <1>1, <1>8, CallStepKept
<1> QED BY <1>2, <1>3, <1>4, <1>5, <1>6, <1>7, <1>8 DEF Next

(***************************************************************************)
(* LogMatching: every follower's log is a prefix of the leader's.          *)
(***************************************************************************)

\* No step takes a persisted entry of a follower away or changes it.
FollowersGrow ==
    \A f \in Followers :
        /\ disk'[f].last \in Nat
        /\ disk'[f].last >= disk[f].last
        /\ \A i \in Index : i <= disk[f].last => log'[f][i] = log[f][i]

\* A step that leaves the persisted logs of the followers alone.
LEMMA MatchingFrame ==
    ASSUME TypeOK, LogMatching, LeaderGrows,
           \A f \in Followers : /\ disk'[f].last = disk[f].last
                                /\ \A i \in Index : i <= disk[f].last => log'[f][i] = log[f][i]
    PROVE  LogMatching'
<1> SUFFICES ASSUME NEW f \in Followers, NEW i \in Index, i <= disk[f].last
             PROVE  i <= disk'[Leader].last /\ log'[f][i] = log'[Leader][i]
  BY DEF LogMatching
<1>1. i <= disk[Leader].last /\ log[f][i] = log[Leader][i]
  BY DEF LogMatching
<1>2. i \in Nat /\ disk[Leader].last \in Nat /\ disk'[Leader].last \in Nat
      /\ disk'[Leader].last >= disk[Leader].last
  BY NodeTypes DEF LeaderGrows
<1>3. i <= disk'[Leader].last
  BY <1>1, <1>2
<1> QED BY <1>1, <1>3 DEF LeaderGrows

\* handle_append() writes above what is persisted, and what it then persists
\* is the leader's entry at the same index.
LEMMA CallMatching ==
    ASSUME TypeOK, FollowerCounters, CallsFromLog, LogMatching, LeaderGrows,
           NEW c \in Calls, CallStep(c)
    PROVE  LogMatching' /\ FollowersGrow
<1> DEFINE f == c[1]
<1>0. /\ f \in Followers /\ f \in Nodes /\ WalTypeOK /\ hnd[c] \in Call
      /\ last[f] \in Nat /\ disk[f].last \in Nat /\ Index \subseteq Nat
      /\ \A g \in Followers : g \in Nodes /\ disk[g].last \in Nat
  BY CallTypes, NodeTypes DEF TypeOK
<1>1. ASSUME \A g \in Followers :
                 /\ disk'[g].last = disk[g].last
                 /\ \A i \in Index : i <= disk[g].last => log'[g][i] = log[g][i]
      PROVE  LogMatching' /\ FollowersGrow
  BY <1>0, <1>1, MatchingFrame DEF FollowersGrow
<1>2. CASE AppendCheck(c) \/ AppendLoad(c)
  BY <1>1, <1>2 DEF AppendCheck, AppendLoad, walVars
<1>3. CASE AppendInc(c)
  BY <1>1, <1>3 DEF AppendInc, AppendStore
<1>4. CASE AppendWrite(c)
  <2>1. hnd[c].reg = disk[f].last + 1
    BY <1>0, <1>4 DEF AppendWrite, FollowerCounters
  <2>2. \A g \in Nodes : \A i \in Index : i # hnd[c].reg \/ g # f => log'[g][i] = log[g][i]
    BY <1>0, <1>4 DEF AppendWrite, AppendPut, WalTypeOK
  <2>3. \A g \in Followers : \A i \in Index : i <= disk[g].last => log'[g][i] = log[g][i]
    BY <1>0, <2>1, <2>2
  <2> QED BY <1>1, <1>4, <2>3 DEF AppendWrite, AppendPut
<1>5. CASE AppendDone(c)
  <2>1. /\ hnd[c].pc = "persist"
        /\ last[f] = disk[f].last + 1
        /\ hnd[c].idx = last[f]
        /\ log[f][last[f]] = hnd[c].ent
    BY <1>0, <1>5 DEF AppendDone, FollowerCounters
  <2>2. last[f] <= disk[Leader].last /\ hnd[c].ent = log[Leader][last[f]]
    BY <2>1 DEF CallsFromLog
  <2>3. log' = log
    BY <1>5 DEF AppendDone, AppendPersist
  <2>4. disk'[f].last = last[f] /\ \A g \in Nodes : g # f => disk'[g] = disk[g]
    BY <1>0, <1>5 DEF AppendDone, AppendPersist, WalTypeOK
  <2>5. FollowersGrow
    BY <1>0, <2>1, <2>3, <2>4 DEF FollowersGrow
  <2>6. disk'[Leader] = disk[Leader]
    BY <1>0, <2>4, NodeTypes
  <2>7. ASSUME NEW g \in Followers, NEW i \in Index, i <= disk'[g].last
        PROVE  i <= disk[Leader].last /\ log[g][i] = log[Leader][i]
    <3>1. CASE g # f
      BY <1>0, <2>4, <2>7, <3>1 DEF LogMatching
    <3>2. CASE g = f /\ i <= disk[f].last
      BY <3>2 DEF LogMatching
    <3>3. CASE g = f /\ ~(i <= disk[f].last)
      <4>1. i = last[f]
        BY <1>0, <2>1, <2>4, <2>7, <3>3
      <4> QED BY <2>1, <2>2, <3>3, <4>1
    <3> QED BY <3>1, <3>2, <3>3
  <2> QED BY <2>3, <2>5, <2>6, <2>7 DEF LogMatching
<1> QED BY <1>2, <1>3, <1>4, <1>5 DEF CallStep

\* Every step of a serial schedule preserves LogMatching, and the persisted
\* logs only grow.
LEMMA MatchingNext ==
    ASSUME PowerLoss = FALSE, TypeOK, LeaderInv, LogInv, [Next /\ Serial]_vars
    PROVE  LogMatching' /\ FollowersGrow
<1> USE DEF LogInv
<1>0. LeaderGrows
  BY LeaderPersistent
<1>1. ASSUME FollowerLogsSame PROVE LogMatching' /\ FollowersGrow
  BY <1>0, <1>1, NodeTypes, MatchingFrame DEF FollowerLogsSame, FollowersGrow
<1>2. ASSUME NEW f \in Followers, FollowerCrash(f) PROVE LogMatching' /\ FollowersGrow
  <2>1. Reopen(f, disk[f])
    BY <1>2 DEF FollowerCrash, Survives
  <2>2. log' = log /\ \A g \in Followers : disk'[g] = disk[g]
    BY <2>1, NodeTypes DEF Reopen, TypeOK, WalTypeOK
  <2> QED BY <1>0, <2>2, NodeTypes, MatchingFrame DEF FollowersGrow
<1>3. CASE UNCHANGED vars
  BY <1>1, <1>3 DEF vars, walVars, FollowerLogsSame
<1> QED BY <1>0, <1>1, <1>2, <1>3, WriteLogsSame, ThreadLogsSame, BootstrapLogsSame,
           RestartLogsSame, CallMatching DEF Next

(***************************************************************************)
(* CallOwners: whose call is open when.                                    *)
(***************************************************************************)

Unspawned == {"store", "put", "persist", "spawn"}

\* The parts of CallOwners: of the writes, of the catch-up calls, of the
\* bootstraps.
FreshOwners ==
    /\ \A w \in Writers : wr[w].pc \in Unspawned =>
          /\ \A x \in Threads : x[2] = wr[w].id => thr[x].pc = "off"
          /\ \A c \in Calls : c[2] = wr[w].id => hnd[c].pc = "none"
    /\ \A x \in Threads : x[2] > started => thr[x].pc = "off"
    /\ \A c \in Calls : c[2] > started => hnd[c].pc = "none"

CatchUpOwner(x) ==
    \/ thr[x].pc = "rpc" /\ thr[x].k # 0
    \/ thr[x].pc = "off" /\ x[2] # 0
    \/ hnd[<<x[1], x[2], "c">>].pc = "none"

BootstrapOwners == \A f \in Followers : thr[<<f, 0>>].pc # "off" => up[f]

\* CallOwners is these three parts.
LEMMA OwnersParts ==
    CallOwners <=> FreshOwners /\ (\A x \in Threads : CatchUpOwner(x)) /\ BootstrapOwners
  BY DEF CallOwners, FreshOwners, CatchUpOwner, BootstrapOwners, Unspawned

\* A step that starts no write, and starts threads and calls only where there
\* was a thread: the writes that have not spawned have none.
LEMMA FreshFrame ==
    ASSUME TypeOK, FreshOwners, started' = started,
           \A w \in Writers : wr'[w].pc \in Unspawned =>
               wr[w].pc \in Unspawned /\ wr'[w].id = wr[w].id /\ wr[w].id # 0,
           \A x \in Threads : x[2] # 0 /\ thr[x].pc = "off" => thr'[x].pc = "off",
           \A c \in Calls : hnd'[c].pc # "none" =>
               \/ hnd[c].pc # "none"
               \/ thr[<<c[1], c[2]>>].pc # "off"
    PROVE  FreshOwners'
<1>0. /\ started \in Nat
      /\ \A x \in Threads : x[2] \in Nat
      /\ \A c \in Calls : c[2] \in Nat /\ <<c[1], c[2]>> \in Threads
  <2>1. started \in Nat
    BY DEF TypeOK, Counter
  <2> QED BY <2>1, CallTypes, ThreadTypes
<1>1. ASSUME NEW x \in Threads, x[2] > started \/ x[2] # 0, thr[x].pc = "off"
      PROVE  thr'[x].pc = "off"
  BY <1>0, <1>1
<1>2. \A c \in Calls : hnd[c].pc = "none" /\ thr[<<c[1], c[2]>>].pc = "off" => hnd'[c].pc = "none"
  OBVIOUS
<1>3. ASSUME NEW w \in Writers, wr'[w].pc \in Unspawned
      PROVE  /\ \A x \in Threads : x[2] = wr'[w].id => thr'[x].pc = "off"
             /\ \A c \in Calls : c[2] = wr'[w].id => hnd'[c].pc = "none"
  <2>1. wr[w].pc \in Unspawned /\ wr'[w].id = wr[w].id /\ wr[w].id # 0
    BY <1>3
  <2>2. \A x \in Threads : x[2] = wr[w].id => thr[x].pc = "off"
    BY <2>1 DEF FreshOwners
  <2>3. \A c \in Calls : c[2] = wr[w].id => hnd[c].pc = "none" /\ thr[<<c[1], c[2]>>].pc = "off"
    BY <1>0, <2>1, <2>2 DEF FreshOwners
  <2> QED BY <1>1, <1>2, <2>1, <2>2, <2>3
<1>4. \A x \in Threads : x[2] > started => thr'[x].pc = "off"
  BY <1>1 DEF FreshOwners
<1>5. \A c \in Calls : c[2] > started => hnd[c].pc = "none" /\ thr[<<c[1], c[2]>>].pc = "off"
  BY <1>0 DEF FreshOwners
<1> QED BY <1>2, <1>3, <1>4, <1>5 DEF FreshOwners

\* Writers that have not spawned have an identity.
LEMMA UnspawnedIds ==
    ASSUME TypeOK, NEW w \in Writers, wr[w].pc \in Unspawned
    PROVE  wr[w].id \in Ids /\ wr[w].id # 0 /\ wr[w].id \in Nat
<1>1. wr[w] \in Writer /\ wr[w].pc # "idle"
  BY DEF TypeOK, Unspawned
<1> QED BY <1>1, Active, Sets DEF Ids

\* write() starts with an identity nobody uses and spawns the threads of its
\* own identity.
LEMMA WriteOwners ==
    ASSUME TypeOK, LeaderInv, CallOwners, NEW w \in Writers, WriteStep(w)
    PROVE  CallOwners'
<1>00. FreshOwners /\ (\A x \in Threads : CatchUpOwner(x)) /\ BootstrapOwners
  BY OwnersParts
<1>0. /\ wr \in [Writers -> Writer] /\ wr[w] \in Writer /\ started \in Nat
      /\ \A x \in Threads : x[2] \in Nat /\ <<x[1], x[2], "c">> \in Calls
      /\ \A c \in Calls : c[2] \in Nat
  <2>1. wr \in [Writers -> Writer] /\ started \in Nat
    BY DEF TypeOK, Counter
  <2>2. \A x \in Threads : x[2] \in Nat /\ <<x[1], x[2], "c">> \in Calls
    BY ThreadTypes
  <2>3. \A c \in Calls : c[2] \in Nat
    BY CallTypes
  <2> QED BY <2>1, <2>2, <2>3
<1>1. up' = up
  BY DEF WriteStep, WriteLoad, WriteStore, WritePut, WritePersist, WriteSpawn, WriteCommit, WriteTimeout
<1>2. CASE WriteLoad(w)
  <2>1. thr' = thr /\ hnd' = hnd /\ started' = started + 1
    BY <1>2 DEF WriteLoad
  <2>2. /\ \A v \in Writers : v # w => wr'[v] = wr[v]
        /\ wr'[w].id = started + 1
    BY <1>0, <1>2 DEF WriteLoad
  <2>3. /\ \A x \in Threads : x[2] > started => thr'[x].pc = "off"
        /\ \A c \in Calls : c[2] > started => hnd'[c].pc = "none"
    BY <1>00, <2>1 DEF FreshOwners
  <2>4. ASSUME NEW v \in Writers, wr'[v].pc \in Unspawned
        PROVE  /\ \A x \in Threads : x[2] = wr'[v].id => thr'[x].pc = "off"
               /\ \A c \in Calls : c[2] = wr'[v].id => hnd'[c].pc = "none"
    <3>1. CASE v = w
      BY <1>0, <2>2, <2>3, <3>1
    <3>2. CASE v # w
      BY <1>00, <2>1, <2>2, <2>4, <3>2 DEF FreshOwners
    <3> QED BY <3>1, <3>2
  <2>5. /\ \A x \in Threads : x[2] > started' => thr'[x].pc = "off"
        /\ \A c \in Calls : c[2] > started' => hnd'[c].pc = "none"
    <3>1. \A n \in Nat : n > started + 1 => n > started
      BY <1>0
    <3> QED BY <1>0, <2>1, <2>3, <3>1
  <2>6. FreshOwners'
    BY <2>4, <2>5 DEF FreshOwners
  <2>7. \A x \in Threads : CatchUpOwner(x)'
    BY <1>00, <2>1 DEF CatchUpOwner
  <2>8. BootstrapOwners'
    BY <1>00, <1>1, <2>1 DEF BootstrapOwners
  <2> QED BY <2>6, <2>7, <2>8 DEF CallOwners, FreshOwners, CatchUpOwner, BootstrapOwners, Unspawned
<1>3. CASE WriteSpawn(w)
  <2>1. wr[w].pc = "spawn"
    BY <1>3 DEF WriteSpawn
  <2>2. wr[w].id \in Nat /\ wr[w].id # 0 /\ wr[w].id <= started
    BY <2>1, UnspawnedIds DEF Unspawned, LeaderInv, FreshIds
  <2>3. started' = started
    BY <1>3 DEF WriteSpawn, obsVars
  <2>4. /\ \A v \in Writers : v # w => wr'[v] = wr[v]
        /\ wr'[w].pc = "wait"
    BY <1>0, <1>3 DEF WriteSpawn, Writer, IdleWriter
  <2>5. \A x \in Threads :
          IF x[2] = wr[w].id THEN thr'[x].pc = "rpc" /\ thr'[x].k = 0 ELSE thr'[x] = thr[x]
    BY <1>3 DEF WriteSpawn
  <2>6. \A c \in Calls : c[2] # wr[w].id \/ c[3] # "d" => hnd'[c] = hnd[c]
    BY <1>3 DEF WriteSpawn
  <2>7. \A v \in Writers : wr'[v].pc \in Unspawned => v # w /\ wr[v].pc \in Unspawned /\ wr[v].id # wr[w].id
    BY <2>1, <2>4 DEF Unspawned, LeaderInv, FreshIds
  <2>8. ASSUME NEW v \in Writers, wr'[v].pc \in Unspawned
        PROVE  /\ \A x \in Threads : x[2] = wr'[v].id => thr'[x].pc = "off"
               /\ \A c \in Calls : c[2] = wr'[v].id => hnd'[c].pc = "none"
    BY <1>00, <2>4, <2>5, <2>6, <2>7, <2>8 DEF FreshOwners
  <2>9. /\ \A x \in Threads : x[2] > started' => thr'[x].pc = "off"
        /\ \A c \in Calls : c[2] > started' => hnd'[c].pc = "none"
    <3>1. \A x \in Threads : x[2] > started => x[2] # wr[w].id
      BY <1>0, <2>2
    <3>2. \A c \in Calls : c[2] > started => c[2] # wr[w].id
      BY <1>0, <2>2
    <3> QED BY <1>00, <2>3, <2>5, <2>6, <3>1, <3>2 DEF FreshOwners
  <2>10. FreshOwners'
    BY <2>8, <2>9 DEF FreshOwners
  <2>11. \A c \in Calls : c[2] = wr[w].id => hnd[c].pc = "none"
    BY <1>00, <2>1 DEF FreshOwners, Unspawned
  <2>12. ASSUME NEW x \in Threads PROVE CatchUpOwner(x)'
    <3>1. hnd'[<<x[1], x[2], "c">>] = hnd[<<x[1], x[2], "c">>]
      BY <1>0, <2>6
    <3>2. CASE x[2] = wr[w].id
      BY <1>0, <2>11, <3>1, <3>2 DEF CatchUpOwner
    <3>3. CASE x[2] # wr[w].id
      BY <1>00, <2>5, <3>1, <3>3 DEF CatchUpOwner
    <3> QED BY <3>2, <3>3
  <2>13. BootstrapOwners'
    <3>1. \A f \in Followers : <<f, 0>> \in Threads
      BY MaxWritesAssumption DEF Threads, Tids
    <3>2. \A f \in Followers : thr'[<<f, 0>>] = thr[<<f, 0>>]
      BY <2>2, <2>5, <3>1
    <3> QED BY <1>00, <1>1, <3>2 DEF BootstrapOwners
  <2> QED BY <2>10, <2>12, <2>13 DEF CallOwners, FreshOwners, CatchUpOwner, BootstrapOwners, Unspawned
<1>4. CASE ~WriteLoad(w) /\ ~WriteSpawn(w)
  <2>1. thr' = thr /\ hnd' = hnd /\ started' = started
    BY <1>4 DEF WriteStep, WriteStore, WritePut, WritePersist, WriteCommit, WriteTimeout, obsVars
  <2>2. \A v \in Writers : wr'[v].pc \in Unspawned => wr[v].pc \in Unspawned /\ wr'[v].id = wr[v].id
    <3>1. \A v \in Writers : v # w => wr'[v] = wr[v]
      BY <1>0, <1>4 DEF WriteStep, WriteStore, WritePut, WritePersist, WriteCommit, WriteTimeout
    <3>2. CASE WriteCommit(w) \/ WriteTimeout(w)
      BY <1>0, <3>1, <3>2 DEF WriteCommit, WriteTimeout, IdleWriter, Unspawned
    <3>3. CASE WriteStore(w) \/ WritePut(w) \/ WritePersist(w)
      <4>1. wr[w].pc \in Unspawned /\ \E p \in {"put", "persist", "spawn"} :
              wr' = [wr EXCEPT ![w] = [@ EXCEPT !.pc = p]]
        BY <3>3 DEF WriteStore, WritePut, WritePersist, Unspawned
      <4>2. wr'[w].id = wr[w].id
        BY <1>0, <4>1, Active DEF ActiveWriter, Unspawned
      <4> QED BY <3>1, <4>1, <4>2
    <3> QED BY <1>4, <3>2, <3>3 DEF WriteStep
  <2>3. \A v \in Writers : wr[v].pc \in Unspawned => wr[v].id # 0
    BY UnspawnedIds
  <2>4. FreshOwners'
    BY <1>00, <2>1, <2>2, <2>3, FreshFrame
  <2>5. \A x \in Threads : CatchUpOwner(x)'
    BY <1>00, <2>1 DEF CatchUpOwner
  <2>6. BootstrapOwners'
    BY <1>00, <1>1, <2>1 DEF BootstrapOwners
  <2> QED BY <2>4, <2>5, <2>6 DEF CallOwners, FreshOwners, CatchUpOwner, BootstrapOwners, Unspawned
<1> QED BY <1>2, <1>3, <1>4

\* handle_append() answers a call that is open.
LEMMA CallStepOwners ==
    ASSUME TypeOK, CallOwners, NEW c \in Calls, CallStep(c)
    PROVE  CallOwners'
<1>0. FreshOwners /\ (\A x \in Threads : CatchUpOwner(x)) /\ BootstrapOwners
  BY OwnersParts
<1>1. thr' = thr /\ wr' = wr /\ started' = started /\ up' = up
  BY DEF CallStep, AppendCheck, AppendLoad, AppendInc, AppendWrite, AppendDone, obsVars
<1>2. \A e \in Calls : hnd[e].pc = "none" => hnd'[e].pc = "none"
  BY CallStepKept DEF InFlight, InSection
<1>3. FreshOwners'
  BY <1>0, <1>1, <1>2, UnspawnedIds, FreshFrame
<1>4. \A x \in Threads : <<x[1], x[2], "c">> \in Calls
  BY ThreadTypes
<1>5. \A x \in Threads : CatchUpOwner(x)'
  BY <1>0, <1>1, <1>2, <1>4 DEF CatchUpOwner
<1>6. BootstrapOwners'
  BY <1>0, <1>1 DEF BootstrapOwners
<1> QED BY <1>3, <1>5, <1>6 DEF CallOwners, FreshOwners, CatchUpOwner, BootstrapOwners, Unspawned

\* A thread has at most one call open and takes its answer before it goes on.
LEMMA ThreadOwners ==
    ASSUME TypeOK, ThreadsInLog, CallOwners, NEW x \in Threads, ThreadStep(x)
    PROVE  CallOwners'
<1> DEFINE d == <<x[1], x[2], "d">>
           e == <<x[1], x[2], "c">>
<1>0. FreshOwners /\ (\A y \in Threads : CatchUpOwner(y)) /\ BootstrapOwners
  BY OwnersParts
<1>1. wr' = wr /\ started' = started /\ up' = up
  BY DEF ThreadStep, RecordAck, Rejected, RpcFailed, NextEntry, CommitEntry, CommitSet, CommitLost,
         obsVars
<1>2. (\A y \in Threads : y # x => thr'[y] = thr[y]) /\ thr[x].pc \in Moving /\ thr[x].pc # "off"
  BY ThreadStepThreads DEF Moving
<1>3. /\ CallOf(x) = IF thr[x].k = 0 THEN d ELSE e
      /\ d \in Calls /\ e \in Calls /\ d # e
      /\ hnd \in [Calls -> Call] /\ thr \in [Threads -> Thread]
      /\ NoCall.pc = "none"
  BY DEF CallOf, Calls, Threads, Modes, TypeOK, NoCall
<1>4. \A c \in Calls : c # d /\ c # e => hnd'[c] = hnd[c]
  BY <1>3 DEF ThreadStep, RecordAck, Rejected, RpcFailed, NextEntry, CommitEntry, CommitSet, CommitLost
<1>5. FreshOwners'
  <2>1. \A c \in Calls : hnd'[c].pc # "none" => hnd[c].pc # "none" \/ thr[<<c[1], c[2]>>].pc # "off"
    <3>1. <<d[1], d[2]>> = x /\ <<e[1], e[2]>> = x
      BY ThreadTypes
    <3> QED BY <1>2, <1>4, <3>1
  <2> QED BY <1>0, <1>1, <1>2, <2>1, UnspawnedIds, FreshFrame
<1>6. ASSUME NEW y \in Threads, y # x PROVE CatchUpOwner(y)'
  <2>1. <<y[1], y[2], "c">> \in Calls /\ <<y[1], y[2], "c">> # d /\ <<y[1], y[2], "c">> # e
    BY <1>6, ThreadTypes
  <2> QED BY <1>0, <1>2, <1>4, <1>6, <2>1 DEF CatchUpOwner
<1>7. CatchUpOwner(x)'
  <2>1. CASE RecordAck(x) \/ Rejected(x)
    <3>1. hnd' = [hnd EXCEPT ![CallOf(x)] = NoCall] /\ thr[x].pc = "rpc"
      BY <2>1 DEF RecordAck, Rejected
    <3>2. hnd'[e].pc = "none"
      BY <1>0, <1>3, <3>1 DEF CatchUpOwner
    <3> QED BY <3>2 DEF CatchUpOwner
  <2>2. CASE RpcFailed(x)
    <3>1. CASE thr[x].k = 0
      <4>1. hnd[e].pc = "none" /\ hnd'[e] = hnd[e]
        BY <1>0, <1>3, <2>2, <3>1 DEF RpcFailed, CatchUpOwner
      <4> QED BY <4>1 DEF CatchUpOwner
    <3>2. CASE thr[x].k # 0
      <4>1. thr'[x].pc = "off" /\ x[2] # 0
        BY <1>3, <2>2, <3>2 DEF RpcFailed, AfterFailure, OffThread
      <4> QED BY <4>1 DEF CatchUpOwner
    <3> QED BY <3>1, <3>2
  <2>3. CASE NextEntry(x)
    <3>1. thr[x].pc = "next" /\ hnd[e].pc = "none"
      BY <1>0, <2>3 DEF NextEntry, CatchUpOwner
    <3>2. CASE hnd' = hnd
      BY <3>1, <3>2 DEF CatchUpOwner
    <3>3. CASE hnd' # hnd
      <4>1. ReadEntry(Leader, thr[x].k) # NoEntry /\ thr' = [thr EXCEPT ![x] = [@ EXCEPT !.pc = "rpc"]]
        BY <2>3, <3>3 DEF NextEntry
      <4>2. thr[x].k \in Index
        BY <4>1 DEF ReadEntry
      <4>3. thr[x].k # 0
        BY <4>2 DEF Index
      <4>4. thr'[x].pc = "rpc" /\ thr'[x].k = thr[x].k
        BY <1>3, <4>1 DEF Thread
      <4> QED BY <4>3, <4>4 DEF CatchUpOwner
    <3> QED BY <3>2, <3>3
  <2>4. CASE CommitEntry(x) \/ CommitSet(x) \/ CommitLost(x)
    <3>1. hnd' = hnd /\ thr[x].pc \in {"commit", "set"}
      BY <2>4 DEF CommitEntry, CommitSet, CommitLost
    <3>2. hnd'[e].pc = "none"
      BY <1>0, <3>1 DEF CatchUpOwner
    <3> QED BY <3>2 DEF CatchUpOwner
  <2> QED BY <2>1, <2>2, <2>3, <2>4 DEF ThreadStep
<1>8. BootstrapOwners'
  <2>1. \A f \in Followers : <<f, 0>> \in Threads
    BY MaxWritesAssumption DEF Threads, Tids
  <2>2. \A f \in Followers : thr'[<<f, 0>>].pc # "off" => thr[<<f, 0>>].pc # "off"
    BY <1>2, <2>1
  <2> QED BY <1>0, <1>1, <2>2 DEF BootstrapOwners
<1> QED BY <1>5, <1>6, <1>7, <1>8 DEF CallOwners, FreshOwners, CatchUpOwner, BootstrapOwners, Unspawned

\* A bootstrap starts when its follower does, with no call left open.
LEMMA BootstrapStepOwners ==
    ASSUME TypeOK, CallOwners, NEW f \in Followers, BootstrapStep(f)
    PROVE  CallOwners'
<1> DEFINE x == <<f, 0>>
           e == <<f, 0, "c">>
<1>0. FreshOwners /\ (\A y \in Threads : CatchUpOwner(y)) /\ BootstrapOwners
  BY OwnersParts
<1>1. hnd' = hnd /\ wr' = wr /\ started' = started
  BY BootstrapLogsSame
<1>2. x \in Threads /\ x[1] = f /\ x[2] = 0 /\ thr \in [Threads -> Thread]
  BY MaxWritesAssumption DEF Threads, Tids, TypeOK
<1>3. \A y \in Threads : y # x => thr'[y] = thr[y]
  BY <1>2 DEF BootstrapStep, FollowerRestart, SnapshotLsn, SnapshotTable, SnapshotInstall, BootstrapFailed
<1>4. FreshOwners'
  BY <1>0, <1>1, <1>2, <1>3, UnspawnedIds, FreshFrame
<1>5. hnd[e].pc = "none"
  <2>1. thr[x].pc # "rpc"
    BY <1>0 DEF BootstrapStep, FollowerRestart, SnapshotLsn, SnapshotTable, SnapshotInstall,
                BootstrapFailed, BootstrapOwners
  <2> QED BY <1>0, <1>2, <2>1 DEF CatchUpOwner
<1>6. \A y \in Threads : CatchUpOwner(y)'
  BY <1>0, <1>1, <1>2, <1>3, <1>5 DEF CatchUpOwner
<1>7. BootstrapOwners'
  <2>1. \A g \in Followers : <<g, 0>> \in Threads /\ (g # f => <<g, 0>> # x)
    BY MaxWritesAssumption DEF Threads, Tids
  <2>2. up \in [Followers -> BOOLEAN]
    BY DEF TypeOK
  <2>3. CASE FollowerRestart(f)
    BY <1>0, <1>3, <2>1, <2>2, <2>3 DEF FollowerRestart, BootstrapOwners
  <2>4. CASE ~FollowerRestart(f)
    <3>1. up' = up /\ thr[x].pc # "off"
      BY <2>4 DEF BootstrapStep, SnapshotLsn, SnapshotTable, SnapshotInstall, BootstrapFailed
    <3> QED BY <1>0, <1>3, <2>1, <3>1 DEF BootstrapOwners
  <2> QED BY <2>3, <2>4
<1> QED BY <1>4, <1>6, <1>7 DEF CallOwners, FreshOwners, CatchUpOwner, BootstrapOwners, Unspawned

\* A crash of a follower ends its calls and its bootstrap.
LEMMA CrashOwners ==
    ASSUME TypeOK, ThreadsInLog, CallOwners, NEW f \in Followers, FollowerCrash(f)
    PROVE  CallOwners'
<1>0. FreshOwners /\ (\A y \in Threads : CatchUpOwner(y)) /\ BootstrapOwners
  BY OwnersParts
<1>1. wr' = wr /\ started' = started /\ up' = [up EXCEPT ![f] = FALSE] /\ up \in [Followers -> BOOLEAN]
  BY DEF FollowerCrash, TypeOK
<1>2. \A c \in Calls : IF c[1] = f THEN hnd'[c].pc = "none" ELSE hnd'[c] = hnd[c]
  BY DEF FollowerCrash, NoCall
<1>3. /\ \A x \in Threads : x[1] # f => thr'[x] = thr[x]
      /\ \A x \in Threads : x[1] = f /\ x[2] = 0 => thr'[x].pc = "off"
      /\ \A x \in Threads : thr[x].pc = "off" => thr'[x].pc = "off"
  BY DEF FollowerCrash, OffThread
<1>4. FreshOwners'
  BY <1>0, <1>1, <1>2, <1>3, UnspawnedIds, FreshFrame
<1>5. ASSUME NEW y \in Threads PROVE CatchUpOwner(y)'
  <2>1. <<y[1], y[2], "c">> \in Calls
    BY ThreadTypes
  <2> QED BY <1>0, <1>2, <1>3, <2>1 DEF CatchUpOwner
<1>6. BootstrapOwners'
  <2>1. \A g \in Followers : <<g, 0>> \in Threads
    BY MaxWritesAssumption DEF Threads, Tids
  <2> QED BY <1>0, <1>1, <1>3, <2>1 DEF BootstrapOwners
<1> QED BY <1>4, <1>5, <1>6 DEF CallOwners, FreshOwners, CatchUpOwner, BootstrapOwners, Unspawned

\* A restart of the leader ends every write and every thread; the bootstraps
\* and the handlers that run at the followers go on.
LEMMA RestartOwners ==
    ASSUME TypeOK, CallOwners, LeaderRestart
    PROVE  CallOwners'
<1>0. FreshOwners /\ (\A y \in Threads : CatchUpOwner(y)) /\ BootstrapOwners
  BY OwnersParts
<1>1. started' = started /\ up' = up /\ \A w \in Writers : wr'[w].pc \notin Unspawned
  BY DEF LeaderRestart, IdleWriter, Unspawned
<1>2. \A c \in Calls : hnd'[c] = hnd[c] \/ hnd'[c].pc = "none"
  BY DEF LeaderRestart, NoCall
<1>3. \A x \in Threads : \/ thr'[x].pc = "off"
                         \/ thr'[x] = thr[x]
                         \/ /\ thr'[x] = [thr[x] EXCEPT !.idx = Cur(x)]
                            /\ thr[x].pc = "set" \/ x[2] = 0
  BY DEF LeaderRestart, OffThread
<1>4. \A x \in Threads : LET r == [thr[x] EXCEPT !.idx = Cur(x)] IN r.pc = thr[x].pc /\ r.k = thr[x].k
  BY DEF TypeOK, Thread
<1>5. \A x \in Threads : \/ thr'[x].pc = "off"
                         \/ thr'[x].pc = thr[x].pc /\ thr'[x].k = thr[x].k
  BY <1>3, <1>4
<1>6. FreshOwners'
  BY <1>0, <1>1, <1>2, <1>5, FreshFrame
<1>7. ASSUME NEW x \in Threads PROVE CatchUpOwner(x)'
  <2>1. <<x[1], x[2], "c">> \in Calls
    BY ThreadTypes
  <2>2. CASE hnd[<<x[1], x[2], "c">>].pc = "none"
    BY <1>2, <2>1, <2>2 DEF CatchUpOwner
  <2>3. CASE thr[x].pc = "off" /\ x[2] # 0
    BY <1>5, <2>3 DEF CatchUpOwner
  <2>4. CASE thr[x].pc = "rpc" /\ thr[x].k # 0
    <3>1. CASE x[2] # 0
      <4>1. thr'[x].pc = "off"
        BY <2>4, <3>1 DEF LeaderRestart, OffThread
      <4> QED BY <3>1, <4>1 DEF CatchUpOwner
    <3>2. CASE x[2] = 0
      <4>1. thr'[x] = [thr[x] EXCEPT !.idx = Cur(x)]
        BY <2>4, <3>2 DEF LeaderRestart
      <4> QED BY <1>4, <2>4, <4>1 DEF CatchUpOwner
    <3> QED BY <3>1, <3>2
  <2> QED BY <1>0, <2>2, <2>3, <2>4 DEF CatchUpOwner
<1>8. BootstrapOwners'
  <2>1. \A g \in Followers : <<g, 0>> \in Threads
    BY MaxWritesAssumption DEF Threads, Tids
  <2> QED BY <1>0, <1>1, <1>5, <2>1 DEF BootstrapOwners
<1> QED BY <1>6, <1>7, <1>8 DEF CallOwners, FreshOwners, CatchUpOwner, BootstrapOwners, Unspawned

(***************************************************************************)
(* The theorems about the followers' logs.                                 *)
(***************************************************************************)

\* LogInv holds of the empty logs.
LEMMA LogInit == Init => LogInv
<1> SUFFICES ASSUME Init PROVE LogInv
  OBVIOUS
<1>1. /\ \A c \in Calls : hnd[c].pc = "none"
      /\ \A x \in Threads : thr[x].pc = "off"
      /\ \A w \in Writers : wr[w].pc = "idle"
      /\ \A f \in Followers : up[f]
  BY DEF Init, NoCall, OffThread, IdleWriter
<1>2. \A n \in Nodes : last[n] = 0 /\ disk[n].last = 0
  BY DEF Init, WalInit
<1>3. \A f \in Followers : f \in Nodes
  BY ConstantsAssumption
<1>4. FollowerCounters
  BY <1>1, <1>2, <1>3 DEF FollowerCounters, AppendSection
<1>5. CallsFromLog /\ ThreadsInLog /\ CallOwners
  <2>1. \A x \in Threads : <<x[1], x[2], "c">> \in Calls
    BY DEF Threads, Calls, Modes
  <2> QED BY <1>1, <2>1 DEF CallsFromLog, ThreadsInLog, CallOwners
<1>6. LogMatching
  BY <1>2, <1>3 DEF LogMatching, Index
<1> QED BY <1>4, <1>5, <1>6 DEF LogInv

\* Every step of a serial schedule preserves LogInv.
LEMMA LogNext ==
    ASSUME PowerLoss = FALSE, TypeOK, LeaderInv, LogInv, [Next /\ Serial]_vars
    PROVE  LogInv' /\ FollowersGrow
<1>0. FollowerCounters /\ CallsFromLog /\ ThreadsInLog /\ CallOwners /\ LogMatching
  BY DEF LogInv
<1>1. FollowerCounters' /\ CallsFromLog' /\ ThreadsInLog'
  BY <1>0, CountersNext, CallsNext, ThreadsNext
<1>2. LogMatching' /\ FollowersGrow
  BY MatchingNext
<1>3. CallOwners'
  <2>1. CASE UNCHANGED vars
    BY <1>0, <2>1 DEF vars, ctlVars, obsVars, CallOwners
  <2> QED BY <1>0, <2>1, WriteOwners, CallStepOwners, ThreadOwners, BootstrapStepOwners,
             CrashOwners, RestartOwners DEF Next
<1> QED BY <1>1, <1>2, <1>3 DEF LogInv

\* On serial schedules without power loss, the handlers, the entries in flight
\* and the replication threads stay tied to the leader's persisted log.
THEOREM LogInvariant ==
    ASSUME PowerLoss = FALSE
    PROVE  SerialSpec => []LogInv
<1>1. TypeOK /\ LeaderInv /\ LogInv /\ [Next /\ Serial]_vars => LogInv'
  BY LogNext
<1> QED BY <1>1, LogInit, SerialType, LeaderInvariant, PTL DEF SerialSpec

\* Every follower's persisted log is a prefix of the leader's, through lost
\* RPCs, catch-up, crashes and bootstrap, for any number of followers and
\* writes.
THEOREM FollowersArePrefixes ==
    ASSUME PowerLoss = FALSE
    PROVE  SerialSpec => []LogMatching
<1>1. LogInv => LogMatching
  BY DEF LogInv
<1> QED BY <1>1, LogInvariant, PTL
=============================================================================
