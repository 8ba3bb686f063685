----------------------- MODULE DataConsistencyProofs -----------------------
(***************************************************************************)
(* What DataPlane promises to clients when puts follow one another and     *)
(* fewer than half of a replica set is hit by a crash or a lost RPC: then  *)
(* every put succeeds, no two puts of a chunk share a version, and the     *)
(* version in the table is on a majority.                                  *)
(***************************************************************************)
EXTENDS DataPlaneProofs

\* One put at a time, no delete, the metadata service does not fail, and the
\* storage faults together hit less than half of a replica set.
FewFaults ==
    /\ MaxActive <= 1
    /\ MaxDeletes = 0 /\ MaxRestarts = 0 /\ MaxUnavailable = 0
    /\ 2 * (MaxCrashes + MaxLosses) < Rf

\* The counters stay within their bounds.
CountersBounded ==
    /\ deletes \in Nat /\ restarts \in Nat /\ unavailable \in Nat
    /\ crashes \in Nat /\ losses \in Nat
    /\ crashes <= MaxCrashes /\ losses <= MaxLosses

\* Puts follow one another and none fails.
SerialPuts ==
    /\ \A i, j \in Ids : put[i].pc \in {"write", "meta"} /\ put[j].pc \in {"write", "meta"} => i = j
    /\ \A id \in Ids : put[id].pc \in {"none", "write", "meta", "ok"}

\* A put is numbered above the table until it commits, and never above it after.
VersionsOrdered ==
    \A id \in Ids :
        /\ put[id].pc = "ok" => put[id].ver <= table[put[id].c].version
        /\ put[id].pc \in {"write", "meta"} => put[id].ver = table[put[id].c].version + 1

\* No two puts of a chunk have the same version.
VersionsUnique ==
    \A i, j \in Ids :
        i # j /\ put[i].pc # "none" /\ put[j].pc # "none" /\ put[i].c = put[j].c =>
            put[i].ver # put[j].ver

\* The puts that had ended before one began were acknowledged.
PriorsAcked ==
    \A id \in Ids : put[id].pc \in {"write", "meta"} =>
        \A p \in put[id].prior : put[p].pc = "ok" /\ put[p].c = put[id].c

\* A put that must not be read any more is below the table's version ...
StalesBelow == \A p \in stale : put[p].pc = "ok" /\ put[p].ver < table[put[p].c].version

\* ... and below the version that a get asks for which began since.
GetsAbove ==
    \A r \in Readers : get[r].pc # "idle" => \A p \in get[r].stale :
        put[p].pc # "none" /\ (put[p].c = get[r].c => put[p].ver < get[r].ver)

\* The nodes that are down and the replicas put id could not be sure of.
Gone(id) == (Storage \ up) \union (put[id].reps \ (put[id].oks \union put[id].todo))

\* Each crash and each lost RPC takes away one replica at most.
FaultsCounted ==
    /\ Cardinality(Storage \ up) <= crashes + losses
    /\ \A id \in Ids : put[id].pc = "write" =>
          /\ put[id].todo \subseteq put[id].reps /\ put[id].oks \subseteq put[id].reps
          /\ Cardinality(put[id].reps) = Rf
          /\ Cardinality(Gone(id)) <= crashes + losses

\* What relates the puts to each other and to the table.
PutsInv == SerialPuts /\ VersionsOrdered /\ VersionsUnique /\ PriorsAcked /\ StalesBelow

SerialInv == CountersBounded /\ PutsInv /\ GetsAbove /\ FaultsCounted /\ NoStaleRead

(***************************************************************************)
(* Faults and majorities.                                                  *)
(***************************************************************************)
\* Sets of storage nodes are finite, smaller ones are not larger, and one
\* node more is one more at most.
LEMMA NodeSets ==
    ASSUME NEW S \in SUBSET Storage
    PROVE  /\ IsFiniteSet(S) /\ Cardinality(S) \in Nat
           /\ \A T \in SUBSET S : Cardinality(T) \in Nat /\ Cardinality(T) <= Cardinality(S)
           /\ \A n : \A T \in SUBSET (S \union {n}) :
                Cardinality(T) \in Nat /\ Cardinality(T) <= Cardinality(S) + 1
<1>1. IsFiniteSet(S)
  BY ChunkTableAssumption, FS_Subset
<1>2. Cardinality(S) \in Nat
  BY <1>1, FS_CardinalityType
<1>3. ASSUME NEW T \in SUBSET S PROVE Cardinality(T) \in Nat /\ Cardinality(T) <= Cardinality(S)
  BY <1>1, <1>3, FS_Subset, FS_CardinalityType
<1>4. ASSUME NEW n, NEW T \in SUBSET (S \union {n})
      PROVE  Cardinality(T) \in Nat /\ Cardinality(T) <= Cardinality(S) + 1
  <2>1. IsFiniteSet(S \union {n}) /\ Cardinality(S \union {n}) \in Nat
    BY <1>1, FS_AddElement, FS_CardinalityType
  <2>2. Cardinality(S \union {n}) <= Cardinality(S) + 1
    BY <1>1, <1>2, FS_AddElement
  <2>3. Cardinality(T) \in Nat /\ Cardinality(T) <= Cardinality(S \union {n})
    BY <2>1, FS_Subset, FS_CardinalityType
  <2> QED BY <1>2, <2>1, <2>2, <2>3
<1> QED BY <1>1, <1>2, <1>3, <1>4

\* A put that tried all its replicas has written a majority of them.
LEMMA MajorityWritten ==
    ASSUME FewFaults, DataInv, SerialInv, NEW id \in Ids, put[id].pc = "write", put[id].todo = {}
    PROVE  StorageMajority(id)
<1> DEFINE oks == put[id].oks
           reps == put[id].reps
<1>0. /\ oks \subseteq reps /\ reps \in SUBSET Storage /\ Cardinality(reps) = Rf
      /\ Cardinality(Gone(id)) <= crashes + losses
      /\ crashes \in Nat /\ losses \in Nat /\ crashes <= MaxCrashes /\ losses <= MaxLosses
      /\ MaxCrashes \in Nat /\ MaxLosses \in Nat
  <2>1. put[id] \in PutState
    BY TypeParts DEF DataInv
  <2> QED BY <2>1, DataPlaneAssumption DEF PutState, SerialInv, FaultsCounted, CountersBounded
<1>1. reps \ oks \in SUBSET Gone(id) /\ Gone(id) \in SUBSET Storage
  BY <1>0 DEF Gone
<1>2. Cardinality(reps \ oks) <= Cardinality(Gone(id)) /\ Cardinality(reps \ oks) \in Nat
      /\ Cardinality(Gone(id)) \in Nat
  BY <1>1, NodeSets
<1>3. IsFiniteSet(oks) /\ IsFiniteSet(reps \ oks) /\ Cardinality(oks) \in Nat
      /\ Cardinality(reps) \in Nat
  BY <1>0, NodeSets
<1>4. Cardinality(oks \union (reps \ oks)) = Cardinality(oks) + Cardinality(reps \ oks)
  <2>1. oks \cap (reps \ oks) = {}
    OBVIOUS
  <2>2. Cardinality(oks \cap (reps \ oks)) = 0
    BY <2>1, FS_EmptySet
  <2>3. Cardinality(oks \union (reps \ oks))
          = Cardinality(oks) + Cardinality(reps \ oks) - Cardinality(oks \cap (reps \ oks))
    BY <1>3, FS_Union
  <2> QED BY <1>2, <1>3, <2>2, <2>3
<1>5. oks \union (reps \ oks) = reps
  BY <1>0
<1>6. Rf = Cardinality(oks) + Cardinality(reps \ oks) /\ Rf \in Nat
  BY <1>0, <1>3, <1>4, <1>5
<1> HIDE DEF oks, reps
<1>7. 2 * Cardinality(reps \ oks) < Rf
  BY <1>0, <1>2, <1>6 DEF FewFaults
<1>8. Cardinality(oks) >= Rf \div 2 + 1
  BY <1>2, <1>3, <1>6, <1>7
<1> QED BY <1>0, <1>8 DEF StorageMajority, oks, reps

(***************************************************************************)
(* The steps that few faults leave.                                        *)
(***************************************************************************)
\* The counters stay within their bounds and the faults only add up.
LEMMA CountersNext ==
    ASSUME CountersBounded, [Next]_vars
    PROVE  CountersBounded' /\ crashes' >= crashes /\ losses' >= losses /\ deletes' >= deletes
<1>0. MaxCrashes \in Nat /\ MaxLosses \in Nat
  BY DataPlaneAssumption
<1> DEFINE Same == UNCHANGED <<deletes, crashes, restarts, losses, unavailable>>
           Goal == CountersBounded' /\ crashes' >= crashes /\ losses' >= losses /\ deletes' >= deletes
<1>1. ASSUME Same PROVE Goal
  BY <1>1 DEF CountersBounded
<1>2. ASSUME NEW id \in Ids, NEW n \in Storage, PutWriteLost(id, n) PROVE Goal
  BY <1>0, <1>2 DEF PutWriteLost, CountersBounded
<1>3. ASSUME NEW id \in Ids, PutUnavailable(id) PROVE Goal
  BY <1>0, <1>3 DEF PutUnavailable, CountersBounded
<1>4. ASSUME NEW id \in Ids, PutDecide(id) \/ PutCommit(id) \/ PutFailed(id) PROVE Same
  BY <1>4 DEF PutDecide, PutCommit, PutFailed, cntVars
<1>5. ASSUME NEW id \in Ids, NEW n \in Storage, PutWrite(id, n) \/ PutCleanup(id, n) PROVE Same
  BY <1>5 DEF PutWrite, PutCleanup, cntVars
<1>6. ASSUME NEW c \in Chunks, NEW reps \in SUBSET Storage, PutStart(c, reps) PROVE Same
  BY <1>6 DEF PutStart, cntVars
<1>7. ASSUME GetStep PROVE Same
  BY <1>7 DEF GetStep, GetInfo, GetRead, GetReplicas, GetFailed, cntVars
<1>8. ASSUME NEW c \in Chunks, DeleteChunk(c) \/ DeleteUnavailable(c) PROVE Goal
  BY <1>0, <1>8 DEF DeleteChunk, DeleteUnavailable, CountersBounded
<1>9. ASSUME NEW n \in Storage, RepairStep(n) PROVE Same
  BY <1>9 DEF RepairStep, RepairBegin, RepairStore, RepairCollect, RepairSkip, RepairInfo,
              RepairFetch, cntVars
<1>10. ASSUME NEW n \in Storage, Heartbeat(n) \/ NodeRestart(n) PROVE Same
  BY <1>10 DEF Heartbeat, NodeRestart, cntVars
<1>11. ASSUME NEW n \in Storage, HeartbeatRefused(n) PROVE Goal
  BY <1>0, <1>11 DEF HeartbeatRefused, CountersBounded
<1>12. ASSUME NEW n \in Storage, NodeCrash(n) PROVE Goal
  BY <1>0, <1>12 DEF NodeCrash, CountersBounded
<1>13. ASSUME NEW n \in Storage, Evict(n) PROVE Goal
  <2>1. UNCHANGED <<deletes, crashes, restarts, unavailable>>
    BY <1>13 DEF Evict
  <2>2. losses' = losses \/ (losses' = losses + 1 /\ losses < MaxLosses)
    BY <1>13 DEF Evict
  <2> QED BY <1>0, <2>1, <2>2 DEF CountersBounded
<1>14. ASSUME LeaderRestart PROVE Goal
  <2>1. restarts' = restarts + 1 /\ UNCHANGED <<deletes, crashes, losses, unavailable>>
    BY <1>14 DEF LeaderRestart
  <2> QED BY <1>0, <2>1 DEF CountersBounded
<1>15. ASSUME UNCHANGED vars PROVE Goal
  BY <1>1, <1>15 DEF vars, cntVars
<1> HIDE DEF Same, Goal
<1>16. ASSUME PutStep PROVE Goal
  BY <1>1, <1>2, <1>3, <1>4, <1>5, <1>6, <1>16 DEF PutStep
<1>17. ASSUME NEW n \in Storage, \/ Heartbeat(n) \/ HeartbeatRefused(n) \/ RepairStep(n)
                                 \/ NodeCrash(n) \/ NodeRestart(n) \/ Evict(n)
       PROVE  Goal
  BY <1>1, <1>9, <1>10, <1>11, <1>12, <1>13, <1>17
<1>18. Goal
  BY <1>1, <1>7, <1>8, <1>14, <1>15, <1>16, <1>17 DEF Next
<1> QED BY <1>18 DEF Goal

\* Steps after which the puts and the table are as before.
Quiet ==
    \/ GetStep
    \/ \E n \in Storage : Heartbeat(n) \/ RepairStep(n) \/ NodeCrash(n) \/ NodeRestart(n) \/ Evict(n)

\* Few faults leave no delete, no failing metadata write and no failing put.
LEMMA FewSteps ==
    ASSUME FewFaults, CountersBounded, SerialPuts, Next
    PROVE  \/ \E c \in Chunks, reps \in SUBSET Storage : PutStart(c, reps)
           \/ \E id \in Ids, n \in Storage : PutWrite(id, n) \/ PutWriteLost(id, n)
           \/ \E id \in Ids : PutDecide(id) \/ PutCommit(id)
           \/ Quiet
<1>1. \A c \in Chunks : ~DeleteChunk(c) /\ ~DeleteUnavailable(c)
  BY DEF DeleteChunk, DeleteUnavailable, FewFaults, CountersBounded
<1>2. \A id \in Ids : ~PutUnavailable(id) /\ ~PutFailed(id)
  BY DEF PutUnavailable, PutFailed, FewFaults, CountersBounded, SerialPuts
<1>3. \A id \in Ids, n \in Storage : ~PutCleanup(id, n)
  BY DEF PutCleanup, SerialPuts
<1>4. \A n \in Storage : ~HeartbeatRefused(n)
  BY DEF HeartbeatRefused, FewFaults, CountersBounded
<1>5. ~LeaderRestart
  <2>1. LeaderRestart => restarts < MaxRestarts
    BY DEF LeaderRestart
  <2> QED BY <2>1 DEF FewFaults, CountersBounded
<1>6. \/ PutStep \/ GetStep
      \/ \E n \in Storage : \/ Heartbeat(n) \/ RepairStep(n)
                            \/ NodeCrash(n) \/ NodeRestart(n) \/ Evict(n)
  BY <1>1, <1>4, <1>5 DEF Next
<1>7. CASE PutStep
  BY <1>2, <1>3, <1>7 DEF PutStep
<1> QED BY <1>6, <1>7 DEF Quiet

\* What quiet steps leave alone.
LEMMA QuietSame ==
    ASSUME Quiet
    PROVE  put' = put /\ started' = started /\ table' = table /\ stale' = stale
<1>1. put' = put /\ started' = started
  BY PutsSame DEF Quiet
<1>2. ASSUME NEW n \in Storage, Heartbeat(n) \/ NodeCrash(n) \/ NodeRestart(n) \/ Evict(n)
      PROVE  table' = table /\ stale' = stale
  BY <1>2 DEF Heartbeat, ApplyHeartbeat, NodeCrash, NodeRestart, Evict, EvictStaleNode, tableVars,
              obsVars
<1>3. ASSUME NEW n \in Storage, RepairStep(n) PROVE stale' = stale
  BY <1>3 DEF RepairStep, RepairBegin, RepairStore, RepairCollect, RepairSkip, RepairInfo,
              RepairFetch, obsVars
<1>4. ASSUME GetStep PROVE stale' = stale
  BY <1>4 DEF GetStep, GetInfo, GetRead, GetReplicas, GetFailed, obsVars
<1>5. ASSUME NEW n \in Storage, RepairStep(n) PROVE table' = table
  BY <1>5, TableSame DEF tableVars
<1>6. ASSUME GetStep PROVE table' = table
  BY <1>6, TableSame DEF tableVars
<1> QED BY <1>1, <1>2, <1>3, <1>4, <1>5, <1>6 DEF Quiet

(***************************************************************************)
(* Puts one after the other.                                               *)
(***************************************************************************)
\* A put starts only when no other is in progress.
LEMMA NoneActive ==
    ASSUME FewFaults, TypeOK, NEW c \in Chunks, NEW reps \in SUBSET Storage, PutStart(c, reps)
    PROVE  \A id \in Ids : put[id].pc \notin {"write", "meta", "cleanup"}
<1>1. IsFiniteSet(Ids)
  BY Numbers, FS_Interval DEF Ids
<1>2. Active \in SUBSET Ids /\ IsFiniteSet(Active)
  BY <1>1, FS_Subset DEF Active
<1>3. Cardinality(Active) \in Nat
  BY <1>2, FS_CardinalityType
<1>4. Cardinality(Active) < MaxActive /\ MaxActive <= 1 /\ MaxActive \in Nat
  BY DataPlaneAssumption DEF PutStart, FewFaults
<1>5. Cardinality(Active) = 0
  BY <1>3, <1>4
<1>6. Active = {}
  BY <1>2, <1>5, FS_EmptySet
<1> QED BY <1>6 DEF Active

\* Versions are numbers.
LEMMA VersionNumbers ==
    ASSUME TypeOK
    PROVE  /\ \A c \in Chunks : table[c].version \in Nat
           /\ \A id \in Ids : put[id].ver \in Nat
<1>1. table \in [Chunks -> ChunkEntry] /\ put \in [Ids -> PutState]
  BY TypeParts DEF TableTypeOK
<1> QED BY <1>1, Numbers DEF ChunkEntry, PutState

\* A new put is numbered above all puts of its chunk.
LEMMA StartSerial ==
    ASSUME FewFaults, DataInv, PutsInv,
           NEW c \in Chunks, NEW reps \in SUBSET Storage, PutStart(c, reps)
    PROVE  PutsInv'
<1> DEFINE new == started + 1
           ver == table[c].version + 1
<1>0. TypeOK /\ PutsNumbered
  BY DEF DataInv
<1>1. /\ new \in Ids /\ put[new].pc = "none"
      /\ put'[new] = [pc |-> "write", c |-> c, ver |-> ver, reps |-> reps,
                      todo |-> reps, oks |-> {}, prior |-> Ended(c)]
      /\ \A j \in Ids : j # new => put'[j] = put[j]
  BY <1>0, PutStarts
<1>2. table' = table /\ stale' = stale
  BY DEF PutStart, tableVars
<1>3. \A j \in Ids : put[j].pc \in {"none", "ok"}
  BY <1>0, NoneActive DEF PutsInv, SerialPuts
<1>4. /\ put'[new].pc = "write" /\ put'[new].c = c /\ put'[new].ver = ver
      /\ put'[new].prior = Ended(c)
  BY <1>1
<1>5. /\ \A b \in Chunks : table[b].version \in Nat
      /\ \A id \in Ids : put[id].ver \in Nat
  BY <1>0, VersionNumbers
<1> HIDE DEF new, ver
<1>6. SerialPuts'
  BY <1>1, <1>3, <1>4 DEF SerialPuts
<1>7. VersionsOrdered'
  <2>1. put'[new].ver = table'[c].version + 1
    BY <1>2, <1>4 DEF ver
  <2>2. \A j \in Ids : j # new /\ put[j].pc = "ok" => put[j].ver <= table[put[j].c].version
    BY DEF PutsInv, VersionsOrdered
  <2> QED BY <1>1, <1>2, <1>3, <1>4, <2>1, <2>2 DEF VersionsOrdered
<1>8. VersionsUnique'
  <2>1. ASSUME NEW j \in Ids, j # new, put'[j].pc # "none", put'[j].c = c
        PROVE  put'[j].ver # ver
    <3>1. put'[j] = put[j] /\ put[j].pc = "ok" /\ put[j].c = c
      BY <1>1, <1>3, <2>1
    <3>2. put[j].ver <= table[c].version
      BY <3>1 DEF PutsInv, VersionsOrdered
    <3> QED BY <1>5, <3>1, <3>2 DEF ver
  <2> QED BY <1>1, <1>4, <2>1 DEF PutsInv, VersionsUnique
<1>9. PriorsAcked'
  <2>1. ASSUME NEW p \in Ended(c) PROVE p \in Ids /\ put'[p].pc = "ok" /\ put'[p].c = c
    BY <1>1, <1>3, <2>1 DEF Ended
  <2>2. \A j \in Ids : j # new => put'[j].pc \notin {"write", "meta"}
    BY <1>1, <1>3
  <2> QED BY <1>4, <2>1, <2>2 DEF PriorsAcked
<1>10. StalesBelow'
  <2>1. stale \in SUBSET Ids
    BY <1>0, TypeParts
  <2>2. \A p \in stale : p # new
    BY <1>1 DEF PutsInv, StalesBelow
  <2> QED BY <1>1, <1>2, <2>1, <2>2 DEF PutsInv, StalesBelow
<1> QED BY <1>6, <1>7, <1>8, <1>9, <1>10 DEF PutsInv

\* A put that goes on keeps its number, and the others theirs.
LEMMA MoveSerial ==
    ASSUME TypeOK, PutsInv, NEW id \in Ids, PutMoves(id), table' = table, stale' = stale,
           put[id].pc \in {"write", "meta"}, put'[id].pc \in {"write", "meta"}
    PROVE  PutsInv'
<1>1. /\ \A j \in Ids : j # id => put'[j] = put[j]
      /\ put'[id].c = put[id].c /\ put'[id].ver = put[id].ver
      /\ put'[id].prior = put[id].prior
  BY DEF PutMoves
<1>2. \A j \in Ids : /\ put'[j].c = put[j].c /\ put'[j].ver = put[j].ver
                     /\ put'[j].prior = put[j].prior
                     /\ put'[j].pc \in {"write", "meta"} <=> put[j].pc \in {"write", "meta"}
                     /\ put'[j].pc = "ok" <=> put[j].pc = "ok"
                     /\ put'[j].pc = "none" <=> put[j].pc = "none"
  BY <1>1
<1>3. SerialPuts'
  <2>1. \A j \in Ids : put'[j].pc \in {"none", "write", "meta", "ok"}
    BY <1>1 DEF PutsInv, SerialPuts
  <2> QED BY <1>2, <2>1 DEF PutsInv, SerialPuts
<1>4. VersionsOrdered'
  BY <1>2 DEF PutsInv, VersionsOrdered
<1>5. VersionsUnique'
  BY <1>2 DEF PutsInv, VersionsUnique
<1>6. \A j \in Ids : put[j].prior \subseteq Ids
  BY TypeParts DEF PutState
<1>7. PriorsAcked'
  BY <1>2, <1>6 DEF PutsInv, PriorsAcked
<1>8. StalesBelow'
  <2>1. stale \in SUBSET Ids
    BY TypeParts
  <2> QED BY <1>2, <2>1 DEF PutsInv, StalesBelow
<1> QED BY <1>3, <1>4, <1>5, <1>7, <1>8 DEF PutsInv

\* A commit moves the table to the put's version, above all puts before it.
LEMMA CommitSerial ==
    ASSUME DataInv, PutsInv, NEW id \in Ids, PutCommit(id)
    PROVE  PutsInv'
<1> DEFINE c == put[id].c
<1>0. TypeOK /\ PutsNumbered
  BY DEF DataInv
<1>1. /\ put[id].pc = "meta" /\ put'[id].pc = "ok"
      /\ \A j \in Ids : j # id => put'[j] = put[j]
      /\ put'[id].c = put[id].c /\ put'[id].ver = put[id].ver
      /\ put'[id].prior = put[id].prior
  BY <1>0, PutCommitMoves DEF PutMoves
<1>2. c \in Chunks /\ put[id].ver = table[c].version + 1
  BY <1>0, <1>1 DEF PutsNumbered, PutsInv, VersionsOrdered
<1>3. /\ \A b \in Chunks : table[b].version \in Nat
      /\ \A j \in Ids : put[j].ver \in Nat
  BY <1>0, VersionNumbers
<1>4. \A b \in Chunks : table'[b].version = IF b = c THEN put[id].ver ELSE table[b].version
  <2>1. table \in [Chunks -> ChunkEntry]
    BY <1>0, TypeParts DEF TableTypeOK
  <2> QED BY <1>2, <2>1 DEF PutCommit, ApplyPutChunk, PutApplied
<1>5. stale' = stale \union put[id].prior /\ stale \in SUBSET Ids /\ put[id].prior \in SUBSET Ids
  BY <1>0, TypeParts DEF PutCommit, PutState
<1>6. \A j \in Ids : put[j].pc \in {"none", "write", "meta", "ok"}
                     /\ (j # id => put[j].pc \in {"none", "ok"})
  BY <1>1 DEF PutsInv, SerialPuts
<1>7. SerialPuts'
  BY <1>1, <1>6 DEF SerialPuts
<1>8. \A j \in Ids : put[j].pc = "ok" => put[j].c \in Chunks /\ put[j].ver <= table[put[j].c].version
  BY <1>0 DEF PutsNumbered, PutsInv, VersionsOrdered
<1>9. \A j \in Ids : put[j].pc = "ok" => put[j].ver <= table'[put[j].c].version
  BY <1>2, <1>3, <1>4, <1>8
<1>10. VersionsOrdered'
  <2>1. \A j \in Ids : put'[j].pc \notin {"write", "meta"}
    BY <1>1, <1>6
  <2>2. put'[id].ver <= table'[put'[id].c].version
    BY <1>1, <1>2, <1>3, <1>4
  <2> QED BY <1>1, <1>9, <2>1, <2>2 DEF VersionsOrdered
<1>11. VersionsUnique'
  <2>1. \A j \in Ids : /\ put'[j].c = put[j].c /\ put'[j].ver = put[j].ver
                       /\ put'[j].pc = "none" <=> put[j].pc = "none"
    BY <1>1
  <2> QED BY <2>1 DEF PutsInv, VersionsUnique
<1>12. PriorsAcked'
  BY <1>1, <1>6 DEF PriorsAcked
<1>13. StalesBelow'
  <2>1. ASSUME NEW p \in stale PROVE put'[p].pc = "ok" /\ put'[p].ver < table'[put'[p].c].version
    <3>1. p \in Ids /\ put[p].pc = "ok" /\ put[p].ver < table[put[p].c].version /\ put[p].c \in Chunks
      BY <1>5, <1>8 DEF PutsInv, StalesBelow
    <3>2. put'[p] = put[p]
      BY <1>1, <3>1
    <3>3. put[p].ver < table'[put[p].c].version
      BY <1>2, <1>3, <1>4, <3>1
    <3> QED BY <3>1, <3>2, <3>3
  <2>2. ASSUME NEW p \in put[id].prior
        PROVE  put'[p].pc = "ok" /\ put'[p].ver < table'[put'[p].c].version
    <3>1. p \in Ids /\ put[p].pc = "ok" /\ put[p].c = c
      BY <1>1, <1>5 DEF PutsInv, PriorsAcked
    <3>2. put'[p] = put[p] /\ put[p].ver <= table[c].version
      BY <1>1, <1>8, <3>1
    <3>3. put[p].ver < table'[c].version
      BY <1>2, <1>3, <1>4, <3>1, <3>2
    <3> QED BY <3>1, <3>2, <3>3
  <2> QED BY <1>5, <2>1, <2>2 DEF StalesBelow
<1> QED BY <1>7, <1>10, <1>11, <1>12, <1>13 DEF PutsInv

\* Every put step keeps the puts in order, the one that decides included: it
\* has a majority.
LEMMA PutsOrderedNext ==
    ASSUME FewFaults, DataInv, SerialInv, [Next]_vars
    PROVE  PutsInv'
<1>0. TypeOK /\ PutsInv /\ CountersBounded /\ SerialPuts
  BY DEF DataInv, SerialInv, PutsInv
<1>1. ASSUME put' = put, table' = table, stale' = stale PROVE PutsInv'
  BY <1>0, <1>1 DEF PutsInv, SerialPuts, VersionsOrdered, VersionsUnique, PriorsAcked, StalesBelow
<1>2. ASSUME NEW id \in Ids, NEW n \in Storage, PutWrite(id, n) \/ PutWriteLost(id, n)
      PROVE  PutsInv'
  <2>1. PutMoves(id) /\ put[id].pc = "write" /\ put'[id].pc = "write"
    BY <1>0, <1>2, PutWriteMoves, PutWriteLostMoves
  <2>2. table' = table /\ stale' = stale
    BY <1>2 DEF PutWrite, PutWriteLost, tableVars, obsVars
  <2> QED BY <1>0, <2>1, <2>2, MoveSerial
<1>3. ASSUME NEW id \in Ids, PutDecide(id) PROVE PutsInv'
  <2>1. PutMoves(id) /\ put[id].pc = "write" /\ put[id].todo = {}
        /\ put'[id].pc = IF StorageMajority(id) THEN "meta" ELSE "cleanup"
    BY <1>0, <1>3, PutDecideMoves
  <2>2. StorageMajority(id)
    BY <2>1, MajorityWritten
  <2>3. table' = table /\ stale' = stale
    BY <1>3 DEF PutDecide, tableVars, obsVars
  <2> QED BY <1>0, <2>1, <2>2, <2>3, MoveSerial
<1>4. ASSUME NEW id \in Ids, PutCommit(id) PROVE PutsInv'
  BY <1>0, <1>4, CommitSerial
<1>5. ASSUME NEW c \in Chunks, NEW reps \in SUBSET Storage, PutStart(c, reps) PROVE PutsInv'
  BY <1>0, <1>5, StartSerial
<1>6. ASSUME Quiet PROVE PutsInv'
  BY <1>1, <1>6, QuietSame
<1>7. CASE UNCHANGED vars
  BY <1>1, <1>7 DEF vars, tableVars, obsVars
<1>8. CASE Next
  BY <1>0, <1>2, <1>3, <1>4, <1>5, <1>6, <1>8, FewSteps
<1> QED BY <1>7, <1>8

(***************************************************************************)
(* Reads.                                                                  *)
(***************************************************************************)
\* A step either leaves a get alone, ends it, asks the table for the version,
\* or goes on with the version it has.
LEMMA GetMoves ==
    ASSUME DataInv, [Next]_vars, NEW r \in Readers, get'[r].pc # "idle"
    PROVE  \/ /\ get[r].pc # "idle" /\ get'[r].c = get[r].c /\ get'[r].ver = get[r].ver
              /\ get'[r].stale = get[r].stale
           \/ \E c \in Chunks : /\ get'[r].c = c /\ get'[r].ver = table[c].version
                                /\ get'[r].stale = stale
<1> DEFINE Goal ==
        \/ /\ get[r].pc # "idle" /\ get'[r].c = get[r].c /\ get'[r].ver = get[r].ver
           /\ get'[r].stale = get[r].stale
        \/ \E c \in Chunks : /\ get'[r].c = c /\ get'[r].ver = table[c].version
                             /\ get'[r].stale = stale
<1>0. get \in [Readers -> GetState]
  BY TypeParts DEF DataInv
<1>1. ASSUME get'[r] = get[r] PROVE Goal
  BY <1>1
<1>2. ASSUME NEW q \in Readers, NEW c \in Chunks, GetInfo(q, c) PROVE Goal
  <2>1. get' = [get EXCEPT ![q] = [pc |-> "info", c |-> c, ver |-> table[c].version,
                                  from |-> {}, stale |-> stale, passed |-> passed]]
    BY <1>2 DEF GetInfo
  <2>2. CASE q = r
    <3>1. get'[r] = [pc |-> "info", c |-> c, ver |-> table[c].version,
                     from |-> {}, stale |-> stale, passed |-> passed]
      BY <1>0, <2>1, <2>2
    <3>2. get'[r].c = c /\ get'[r].ver = table[c].version /\ get'[r].stale = stale
      BY <3>1
    <3> QED BY <3>2
  <2>3. CASE q # r
    BY <1>0, <1>1, <2>1, <2>3
  <2> QED BY <2>2, <2>3
<1>3. ASSUME NEW q \in Readers, GetReplicas(q) PROVE Goal
  <2> DEFINE g == [get[q] EXCEPT !.pc = "read",
                                 !.from = table[get[q].c].reps \union table[get[q].c].old]
  <2>1. get' = [get EXCEPT ![q] = g] /\ get[q].pc = "info"
    BY <1>0, <1>3 DEF GetReplicas
  <2>2. g.c = get[q].c /\ g.ver = get[q].ver /\ g.stale = get[q].stale
    BY <1>0 DEF GetState
  <2> HIDE DEF g
  <2>3. CASE q = r
    BY <1>0, <2>1, <2>2, <2>3
  <2>4. CASE q # r
    BY <1>0, <1>1, <2>1, <2>4
  <2> QED BY <2>3, <2>4
<1>4. ASSUME NEW q \in Readers, NEW n \in Storage, GetRead(q, n) PROVE Goal
  <2>1. get' = [get EXCEPT ![q] = NoGet] /\ NoGet.pc = "idle"
    BY <1>4 DEF GetRead, NoGet
  <2>2. q # r
    BY <1>0, <2>1
  <2> QED BY <1>0, <1>1, <2>1, <2>2
<1>5. ASSUME NEW q \in Readers, GetFailed(q) PROVE Goal
  <2>1. get' = [get EXCEPT ![q] = NoGet] /\ NoGet.pc = "idle"
    BY <1>5 DEF GetFailed, NoGet
  <2>2. q # r
    BY <1>0, <2>1
  <2> QED BY <1>0, <1>1, <2>1, <2>2
<1>6. ASSUME GetStep PROVE Goal
  BY <1>2, <1>3, <1>4, <1>5, <1>6 DEF GetStep
<1>7. ASSUME LeaderRestart PROVE Goal
  <2>1. get' = [q \in Readers |-> IF get[q].pc = "info" THEN NoGet ELSE get[q]] /\ NoGet.pc = "idle"
    BY <1>7 DEF LeaderRestart, NoGet
  <2> QED BY <1>1, <2>1
<1>8. ASSUME PutStep PROVE get' = get
  BY <1>8 DEF PutStep, PutStart, PutWrite, PutWriteLost, PutCleanup, PutDecide, PutCommit,
              PutUnavailable, PutFailed
<1>9. ASSUME NEW n \in Storage, RepairStep(n) PROVE get' = get
  BY <1>9 DEF RepairStep, RepairBegin, RepairStore, RepairCollect, RepairSkip, RepairInfo, RepairFetch
<1>10. ASSUME NEW n \in Storage,
              Heartbeat(n) \/ HeartbeatRefused(n) \/ NodeCrash(n) \/ NodeRestart(n) \/ Evict(n)
       PROVE  get' = get
  BY <1>10 DEF Heartbeat, HeartbeatRefused, NodeCrash, NodeRestart, Evict
<1>11. ASSUME NEW c \in Chunks, DeleteChunk(c) \/ DeleteUnavailable(c) PROVE get' = get
  BY <1>11 DEF DeleteChunk, DeleteUnavailable
<1>12. ASSUME UNCHANGED vars PROVE get' = get
  BY <1>12 DEF vars
<1>13. Goal
  <2> HIDE DEF Goal
  <2>1. ASSUME get' = get PROVE Goal
    BY <1>1, <2>1
  <2> QED BY <1>6, <1>7, <1>8, <1>9, <1>10, <1>11, <1>12, <2>1 DEF Next
<1> QED BY <1>13

\* A get asks for a version above every put that was stale when it began.
LEMMA GetsAboveNext ==
    ASSUME DataInv, PutsInv, GetsAbove, [Next]_vars
    PROVE  GetsAbove'
<1> SUFFICES ASSUME NEW r \in Readers, get'[r].pc # "idle", NEW p \in get'[r].stale
             PROVE  put'[p].pc # "none" /\ (put'[p].c = get'[r].c => put'[p].ver < get'[r].ver)
  BY DEF GetsAbove
<1>0. TypeOK /\ PutsNumbered /\ stale \in SUBSET Ids /\ get \in [Readers -> GetState]
  BY TypeParts DEF DataInv
<1>1. p \in Ids /\ put[p].pc # "none" /\ (put[p].c = get'[r].c => put[p].ver < get'[r].ver)
  <2>1. CASE /\ get[r].pc # "idle" /\ get'[r].c = get[r].c /\ get'[r].ver = get[r].ver
             /\ get'[r].stale = get[r].stale
    <3>1. get[r].stale \in SUBSET Ids
      BY <1>0 DEF GetState
    <3> QED BY <2>1, <3>1 DEF GetsAbove
  <2>2. ASSUME NEW c \in Chunks, get'[r].c = c, get'[r].ver = table[c].version, get'[r].stale = stale
        PROVE  p \in Ids /\ put[p].pc # "none" /\ (put[p].c = get'[r].c => put[p].ver < get'[r].ver)
    BY <1>0, <2>2 DEF PutsInv, StalesBelow
  <2> QED BY <2>1, <2>2, GetMoves
<1>2. put'[p].pc # "none" /\ put'[p].c = put[p].c /\ put'[p].ver = put[p].ver
  BY <1>0, <1>1, PutsKept
<1> QED BY <1>1, <1>2

\* What a get returns is not stale.
LEMMA ReadsNext ==
    ASSUME DataInv, GetsAbove, NoStaleRead, [Next]_vars
    PROVE  NoStaleRead'
<1>1. ASSUME NEW r \in Readers, NEW n \in Storage, GetRead(r, n) PROVE NoStaleRead'
  <2>1. PICK id \in Ids :
          /\ IsPut(id, get[r].c, LatestVersion(n, get[r].c))
          /\ LatestVersion(n, get[r].c) >= get[r].ver
          /\ get[r].pc = "read" /\ get[r].c \in Chunks
          /\ seen' = seen \union {[id |-> id, stale |-> get[r].stale, passed |-> get[r].passed]}
    BY <1>1, ReadsAPut
  <2>2. put[id].c = get[r].c /\ put[id].ver = LatestVersion(n, get[r].c)
    BY <2>1 DEF IsPut
  <2>3. put[id].ver \in Nat /\ get[r].ver \in Nat
    <3>1. put \in [Ids -> PutState] /\ get \in [Readers -> GetState]
      BY TypeParts DEF DataInv
    <3> QED BY <3>1, Numbers DEF PutState, GetState
  <2>4. ~(put[id].ver < get[r].ver)
    BY <2>1, <2>2, <2>3
  <2>5. id \notin get[r].stale
    BY <2>1, <2>2, <2>4 DEF GetsAbove
  <2> QED BY <2>1, <2>5 DEF NoStaleRead
<1>2. ASSUME seen' = seen PROVE NoStaleRead'
  BY <1>2 DEF NoStaleRead
<1>3. ASSUME NEW r \in Readers, (\E c \in Chunks : GetInfo(r, c)) \/ GetReplicas(r) \/ GetFailed(r)
      PROVE  seen' = seen
  BY <1>3 DEF GetInfo, GetReplicas, GetFailed, obsVars
<1>4. ASSUME PutStep PROVE seen' = seen
  BY <1>4 DEF PutStep, PutStart, PutWrite, PutWriteLost, PutCleanup, PutDecide, PutCommit,
              PutUnavailable, PutFailed, obsVars
<1>5. ASSUME NEW n \in Storage, RepairStep(n) PROVE seen' = seen
  BY <1>5 DEF RepairStep, RepairBegin, RepairStore, RepairCollect, RepairSkip, RepairInfo,
              RepairFetch, obsVars
<1>6. ASSUME NEW n \in Storage,
             Heartbeat(n) \/ HeartbeatRefused(n) \/ NodeCrash(n) \/ NodeRestart(n) \/ Evict(n)
      PROVE  seen' = seen
  BY <1>6 DEF Heartbeat, HeartbeatRefused, NodeCrash, NodeRestart, Evict, obsVars
<1>7. ASSUME LeaderRestart PROVE seen' = seen
  BY <1>7 DEF LeaderRestart, obsVars
<1>8. ASSUME NEW c \in Chunks, DeleteChunk(c) \/ DeleteUnavailable(c) PROVE seen' = seen
  BY <1>8 DEF DeleteChunk, DeleteUnavailable, obsVars
<1>9. CASE UNCHANGED vars
  BY <1>2, <1>9 DEF vars, obsVars
<1> QED BY <1>1, <1>2, <1>3, <1>4, <1>5, <1>6, <1>7, <1>8, <1>9 DEF Next, GetStep

(***************************************************************************)
(* Faults.                                                                 *)
(***************************************************************************)

\* The part of FaultsCounted about the sizes.
Covered(S, T, n) ==
    \/ T \subseteq S
    \/ T \subseteq S \union {n} /\ crashes' + losses' > crashes + losses

\* A smaller set, or one more node for one more fault, stays within the count.
LEMMA FaultsCover ==
    ASSUME CountersBounded, CountersBounded', crashes' >= crashes, losses' >= losses,
           NEW S \in SUBSET Storage, NEW T, NEW n,
           Cardinality(S) <= crashes + losses, Covered(S, T, n)
    PROVE  Cardinality(T) <= crashes' + losses'
<1>0. /\ crashes \in Nat /\ losses \in Nat /\ crashes' \in Nat /\ losses' \in Nat
      /\ Cardinality(S) \in Nat
  BY NodeSets DEF CountersBounded
<1>1. CASE T \subseteq S
  <2>1. Cardinality(T) \in Nat /\ Cardinality(T) <= Cardinality(S)
    BY <1>1, NodeSets
  <2> QED BY <1>0, <2>1
<1>2. CASE T \subseteq S \union {n} /\ crashes' + losses' > crashes + losses
  <2>1. Cardinality(T) \in Nat /\ Cardinality(T) <= Cardinality(S) + 1
    BY <1>2, NodeSets
  <2>2. \A i, j, k, l \in Nat : i <= j + 1 /\ j <= k /\ k < l => i <= l
    OBVIOUS
  <2>3. crashes + losses \in Nat /\ crashes' + losses' \in Nat
    <3>1. \A i, j \in Nat : i + j \in Nat
      OBVIOUS
    <3> QED BY <1>0, <3>1
  <2> QED BY <1>0, <1>2, <2>1, <2>2, <2>3
<1> QED BY <1>1, <1>2 DEF Covered

\* A step that takes away at most one node, and one only for a fault, keeps the
\* count.
LEMMA FaultsKept ==
    ASSUME DataInv, CountersBounded, CountersBounded', crashes' >= crashes, losses' >= losses,
           FaultsCounted, NEW n, Covered(Storage \ up, Storage \ up', n),
           \A j \in Ids : put'[j].pc = "write" =>
               /\ put[j].pc = "write" /\ put'[j].reps = put[j].reps
               /\ put'[j].todo \subseteq put'[j].reps /\ put'[j].oks \subseteq put'[j].reps
               /\ Covered(Gone(j), Gone(j)', n)
    PROVE  FaultsCounted'
<1>1. Cardinality(Storage \ up') <= crashes' + losses'
  BY FaultsCover DEF FaultsCounted
<1>2. ASSUME NEW j \in Ids, put'[j].pc = "write"
      PROVE  /\ put'[j].todo \subseteq put'[j].reps /\ put'[j].oks \subseteq put'[j].reps
             /\ Cardinality(put'[j].reps) = Rf
             /\ Cardinality(Gone(j)') <= crashes' + losses'
  <2>1. /\ put[j].pc = "write" /\ put'[j].reps = put[j].reps
        /\ put'[j].todo \subseteq put'[j].reps /\ put'[j].oks \subseteq put'[j].reps
        /\ Covered(Gone(j), Gone(j)', n)
    BY <1>2
  <2>2. Cardinality(put[j].reps) = Rf /\ Cardinality(Gone(j)) <= crashes + losses
    BY <2>1 DEF FaultsCounted
  <2>3. Gone(j) \in SUBSET Storage
    <3>1. put[j].reps \in SUBSET Storage
      BY TypeParts DEF DataInv, PutState
    <3> QED BY <3>1 DEF Gone
  <2>4. Cardinality(Gone(j)') <= crashes' + losses'
    BY <2>1, <2>2, <2>3, FaultsCover
  <2> QED BY <2>1, <2>2, <2>4
<1> QED BY <1>1, <1>2 DEF FaultsCounted

\* Every step keeps the faults counted.
LEMMA FaultsNext ==
    ASSUME FewFaults, DataInv, CountersBounded, SerialPuts, FaultsCounted, [Next]_vars
    PROVE  FaultsCounted'
<1>0. /\ TypeOK /\ PutsNumbered /\ put \in [Ids -> PutState] /\ up \in SUBSET Storage
      /\ CountersBounded' /\ crashes' >= crashes /\ losses' >= losses
  BY TypeParts, CountersNext DEF DataInv
<1>1. \A j \in Ids : put[j].pc = "write" => put[j].todo \subseteq put[j].reps /\ put[j].oks \subseteq put[j].reps
  BY DEF FaultsCounted
<1>2. ASSUME put' = put, NEW n, up \ {n} \subseteq up',
             up \subseteq up' \/ crashes' + losses' > crashes + losses
      PROVE  FaultsCounted'
  <2>1. Covered(Storage \ up, Storage \ up', n)
    BY <1>2 DEF Covered
  <2>2. \A j \in Ids : Covered(Gone(j), Gone(j)', n)
    BY <1>2 DEF Covered, Gone
  <2> QED BY <1>0, <1>1, <1>2, <2>1, <2>2, FaultsKept
<1>3. ASSUME NEW n \in Storage, NodeCrash(n) PROVE FaultsCounted'
  <2>1. up' = up \ {n} /\ crashes' = crashes + 1 /\ losses' = losses /\ put' = put
    BY <1>3 DEF NodeCrash
  <2>2. crashes' + losses' > crashes + losses
    BY <2>1 DEF CountersBounded
  <2> QED BY <1>2, <2>1, <2>2
<1>4. ASSUME put' = put, up \subseteq up' PROVE FaultsCounted'
  <2>1. PICK n : n = 0
    OBVIOUS
  <2>2. up \ {n} \subseteq up'
    BY <1>4
  <2> QED BY <1>2, <1>4, <2>2
<1>5. ASSUME Quiet, \A n \in Storage : ~NodeCrash(n) PROVE put' = put /\ up \subseteq up'
  <2>1. put' = put
    BY <1>5, QuietSame
  <2>2. ASSUME NEW n \in Storage, Heartbeat(n) \/ NodeRestart(n) \/ Evict(n) PROVE up \subseteq up'
    BY <2>2 DEF Heartbeat, NodeRestart, Evict, nodeVars
  <2>3. ASSUME NEW n \in Storage, RepairStep(n) PROVE up \subseteq up'
    BY <2>3 DEF RepairStep, RepairBegin, RepairStore, RepairCollect, RepairSkip, RepairInfo,
                RepairFetch, nodeVars
  <2>4. ASSUME GetStep PROVE up \subseteq up'
    BY <2>4 DEF GetStep, GetInfo, GetRead, GetReplicas, GetFailed, nodeVars
  <2> QED BY <1>5, <2>1, <2>2, <2>3, <2>4 DEF Quiet
<1>6. ASSUME NEW id \in Ids, NEW n \in Storage, PutWrite(id, n) \/ PutWriteLost(id, n)
      PROVE  FaultsCounted'
  <2>1. /\ PutMoves(id) /\ put[id].pc = "write" /\ put'[id].pc = "write"
        /\ n \in put[id].todo /\ put'[id].todo = put[id].todo \ {n}
        /\ PutWrite(id, n) => put'[id].oks = IF n \in up THEN put[id].oks \union {n} ELSE put[id].oks
        /\ PutWriteLost(id, n) => put'[id].oks = put[id].oks
    BY <1>0, <1>6, PutWriteMoves, PutWriteLostMoves
  <2>2. up' = up /\ put'[id].reps = put[id].reps /\ \A j \in Ids : j # id => put'[j] = put[j]
    BY <1>6, <2>1 DEF PutWrite, PutWriteLost, PutMoves
  <2>3. put'[id].todo \subseteq put'[id].reps /\ put'[id].oks \subseteq put'[id].reps
    BY <1>1, <1>6, <2>1, <2>2
  <2>4. Covered(Gone(id), Gone(id)', n)
    <3>1. CASE PutWrite(id, n)
      BY <2>1, <2>2, <3>1 DEF Gone, Covered
    <3>2. CASE PutWriteLost(id, n)
      <4>1. crashes' + losses' > crashes + losses
        BY <3>2 DEF PutWriteLost, CountersBounded
      <4> QED BY <2>1, <2>2, <3>2, <4>1 DEF Gone, Covered
    <3> QED BY <1>6, <3>1, <3>2
  <2>5. \A j \in Ids : j # id => Covered(Gone(j), Gone(j)', n)
    BY <2>2 DEF Gone, Covered
  <2>6. Covered(Storage \ up, Storage \ up', n)
    BY <2>2 DEF Covered
  <2> QED BY <1>0, <1>1, <2>1, <2>2, <2>3, <2>4, <2>5, <2>6, FaultsKept
<1>7. ASSUME NEW id \in Ids, PutDecide(id) \/ PutCommit(id) PROVE FaultsCounted'
  <2>1. /\ put'[id].pc # "write" /\ \A j \in Ids : j # id => put'[j] = put[j]
        /\ up' = up
    <3>1. up' = up
      BY <1>7 DEF PutDecide, PutCommit, nodeVars
    <3> QED BY <1>0, <1>7, <3>1, PutDecideMoves, PutCommitMoves DEF PutMoves
  <2>2. \A j \in Ids : j # id => Covered(Gone(j), Gone(j)', id)
    BY <2>1 DEF Gone, Covered
  <2>3. Covered(Storage \ up, Storage \ up', id)
    BY <2>1 DEF Covered
  <2> QED BY <1>0, <1>1, <2>1, <2>2, <2>3, FaultsKept
<1>8. ASSUME NEW c \in Chunks, NEW reps \in SUBSET Storage, PutStart(c, reps) PROVE FaultsCounted'
  <2>0. PICK new \in Ids : new = started + 1
    BY <1>0, <1>8, PutStarts
  <2>1. /\ put'[new] = [pc |-> "write", c |-> c, ver |-> table[c].version + 1, reps |-> reps,
                        todo |-> reps, oks |-> {}, prior |-> Ended(c)]
        /\ \A j \in Ids : j # new => put'[j] = put[j]
    BY <1>0, <1>8, <2>0, PutStarts
  <2>2. put'[new].reps = reps /\ put'[new].todo = reps /\ put'[new].oks = {}
    BY <2>1
  <2>3. \A j \in Ids : put[j].pc # "write"
    BY <1>0, <1>8, NoneActive
  <2>4. up' = up /\ crashes' = crashes /\ losses' = losses /\ Cardinality(reps) = Rf
    BY <1>8 DEF PutStart, nodeVars, cntVars
  <2>5. \A j \in Ids : put'[j].pc = "write" => j = new
    BY <2>1, <2>3
  <2>6. Gone(new)' = Storage \ up
    BY <2>2, <2>4 DEF Gone
  <2>7. Cardinality(Storage \ up) <= crashes + losses
    BY DEF FaultsCounted
  <2> QED BY <2>2, <2>4, <2>5, <2>6, <2>7 DEF FaultsCounted
<1>9. CASE UNCHANGED vars
  BY <1>4, <1>9 DEF vars, nodeVars
<1>10. CASE Next
  BY <1>3, <1>4, <1>5, <1>6, <1>7, <1>8, <1>10, FewSteps
<1> QED BY <1>9, <1>10

(***************************************************************************)
(* The theorems.                                                           *)
(***************************************************************************)
\* Initially there is no put and no fault.
LEMMA SerialInit == Init => SerialInv
<1> SUFFICES ASSUME Init PROVE SerialInv
  OBVIOUS
<1>1. /\ \A id \in Ids : put[id].pc = "none"
      /\ \A r \in Readers : get[r].pc = "idle"
      /\ up = Storage /\ stale = {} /\ seen = {} /\ crashes = 0 /\ losses = 0
      /\ deletes = 0 /\ restarts = 0 /\ unavailable = 0
  BY DEF Init, NoPut, NoGet
<1>2. CountersBounded
  BY <1>1, DataPlaneAssumption DEF CountersBounded
<1>3. PutsInv
  BY <1>1 DEF PutsInv, SerialPuts, VersionsOrdered, VersionsUnique, PriorsAcked, StalesBelow
<1>4. FaultsCounted
  <2>1. Cardinality(Storage \ up) = 0
    BY <1>1, FS_EmptySet
  <2> QED BY <1>1, <2>1 DEF FaultsCounted
<1> QED BY <1>1, <1>2, <1>3, <1>4 DEF SerialInv, GetsAbove, NoStaleRead

\* Every step preserves the invariant.
LEMMA SerialNext ==
    ASSUME FewFaults, DataInv, SerialInv, [Next]_vars
    PROVE  SerialInv'
<1>1. CountersBounded /\ SerialPuts /\ PutsInv /\ GetsAbove /\ FaultsCounted /\ NoStaleRead
  BY DEF SerialInv, PutsInv
<1> QED BY <1>1, CountersNext, PutsOrderedNext, GetsAboveNext, FaultsNext, ReadsNext DEF SerialInv

\* With few faults, puts that follow one another are numbered one by one.
THEOREM SerialInvariant == ASSUME FewFaults PROVE Spec => []SerialInv
<1>1. DataInv /\ SerialInv /\ [Next]_vars => SerialInv'
  BY SerialNext
<1> QED BY <1>1, SerialInit, DataInvariant, PTL DEF Spec

\* Strong consistency: a get never returns a put that had ended before a put of
\* the chunk began which was acknowledged before the get began, for any number
\* of nodes, chunks, readers and puts, with crashes, lost RPCs, evictions and
\* repair going on.
THEOREM ReadsNotStale == ASSUME FewFaults PROVE Spec => []NoStaleRead
<1>1. SerialInv => NoStaleRead
  BY DEF SerialInv
<1> QED BY <1>1, SerialInvariant, PTL

\* As no version is given to two puts of a chunk, what is stored under it is one
\* put's data on every node.
LEMMA VersionNamesData == DataInv /\ SerialInv => SameVersionSameData
<1> SUFFICES ASSUME DataInv, SerialInv, NEW m \in Storage, NEW n \in Storage, NEW c \in Chunks,
                    NEW v \in Held(m, c) \intersect Held(n, c)
             PROVE  store[m][c][v] = store[n][c][v]
  BY DEF SameVersionSameData
<1>1. v \in Ids /\ IsPut(store[m][c][v], c, v) /\ IsPut(store[n][c][v], c, v)
  BY DEF Held, DataInv, StoredArePuts
<1> QED BY <1>1 DEF IsPut, SerialInv, PutsInv, VersionsUnique

(***************************************************************************)
(* What is acknowledged stays where it is.                                 *)
(***************************************************************************)
\* The garbage collection of the repair loop has nothing to collect: it does not
\* run, or there is one chunk only, which every nonempty assignment names.
NothingToCollect == Repairers = {} \/ \A c, d \in Chunks : c = d

\* A repair that runs was assigned every chunk.
RepairsWhole == \A n \in Storage : rep[n].pc # "idle" => rep[n].set = Chunks

\* Node n holds version v of chunk c.
Holds(n, c, v) == v \in Held(n, c)

\* The replicas that hold the version the table names.
Current(c) == {n \in table[c].reps : Holds(n, c, table[c].version)}

\* A put has what it counted as written, and a majority before it goes on.
WrittenHeld ==
    \A id \in Ids : put[id].pc \in {"write", "meta"} =>
        /\ put[id].oks \subseteq put[id].reps
        /\ \A n \in put[id].oks : Holds(n, put[id].c, put[id].ver)
        /\ put[id].pc = "meta" => StorageMajority(id)

\* The table's version is on a majority of the table's replicas.
CurrentMajority == \A c \in Chunks : Present(c) => 2 * Cardinality(Current(c)) > Cardinality(table[c].reps)

AckInv == RepairsWhole /\ WrittenHeld /\ CurrentMajority

\* A repair run begins with an assignment that names every chunk.
LEMMA RepairsWholeNext ==
    ASSUME NothingToCollect, DataInv, RepairsWhole, [Next]_vars
    PROVE  RepairsWhole'
<1>0. rep \in [Storage -> RepState] /\ assigned \in [Storage -> SUBSET Chunks]
  BY TypeParts DEF DataInv
<1>1. ASSUME rep' = rep PROVE RepairsWhole'
  BY <1>1 DEF RepairsWhole
<1>2. ASSUME NEW n \in Storage, NEW r, rep' = [rep EXCEPT ![n] = r], r.pc # "idle" => r.set = Chunks
      PROVE  RepairsWhole'
  <2>1. \A m \in Storage : rep'[m] = IF m = n THEN r ELSE rep[m]
    BY <1>0, <1>2
  <2> QED BY <1>2, <2>1 DEF RepairsWhole
<1>3. NoRep.pc = "idle"
  BY DEF NoRep
<1>4. \A s, t : [NoRep EXCEPT !.pc = "scan", !.set = s, !.todo = t].set = s
  BY DEF NoRep
<1>5. ASSUME NEW n \in Storage, RepairBegin(n) PROVE RepairsWhole'
  <2>1. assigned[n] # {} /\ assigned[n] \in SUBSET Chunks /\ Repairers # {}
    BY <1>0, <1>5 DEF RepairBegin
  <2>2. assigned[n] = Chunks
    BY <2>1 DEF NothingToCollect
  <2> QED BY <1>2, <1>4, <1>5, <2>2 DEF RepairBegin
<1>6. ASSUME NEW n \in Storage, RepairStore(n) \/ RepairSkip(n) PROVE RepairsWhole'
  <2>1. rep[n].set = Chunks
    BY <1>6 DEF RepairStore, RepairSkip, RepairsWhole
  <2>2. rep' = [rep EXCEPT ![n] = [NoRep EXCEPT !.pc = "scan", !.set = rep[n].set, !.todo = rep[n].todo]]
    BY <1>6 DEF RepairStore, RepairSkip
  <2> QED BY <1>2, <1>4, <2>1, <2>2
<1>7. ASSUME NEW n \in Storage, RepairCollect(n) \/ NodeCrash(n) PROVE RepairsWhole'
  BY <1>2, <1>3, <1>7 DEF RepairCollect, NodeCrash
<1>8. ASSUME NEW n \in Storage, NEW c \in Chunks, RepairInfo(n, c) PROVE RepairsWhole'
  <2> DEFINE r == IF Present(c)
                  THEN [rep[n] EXCEPT !.pc = "fetch", !.todo = rep[n].todo \ {c}, !.c = c,
                                      !.ver = table[c].version, !.peers = table[c].reps \ {n}]
                  ELSE [rep[n] EXCEPT !.todo = rep[n].todo \ {c}]
  <2>1. rep[n].set = Chunks /\ rep[n] \in RepState
    BY <1>0, <1>8 DEF RepairInfo, RepairsWhole
  <2>2. rep' = [rep EXCEPT ![n] = r]
    BY <1>0, <1>8 DEF RepairInfo
  <2>3. r.set = Chunks
    BY <2>1 DEF RepState
  <2> HIDE DEF r
  <2> QED BY <1>2, <2>2, <2>3
<1>9. ASSUME NEW n \in Storage, NEW p \in Storage, RepairFetch(n, p) PROVE RepairsWhole'
  <2> DEFINE r == [rep[n] EXCEPT !.pc = "store", !.peers = {}, !.ver = LatestVersion(p, rep[n].c),
                                 !.data = store[p][rep[n].c][LatestVersion(p, rep[n].c)]]
  <2>1. rep[n].set = Chunks /\ rep[n] \in RepState
    BY <1>0, <1>9 DEF RepairFetch, RepairsWhole
  <2>2. rep' = [rep EXCEPT ![n] = r]
    BY <1>0, <1>9 DEF RepairFetch
  <2>3. r.set = Chunks
    BY <2>1 DEF RepState
  <2> HIDE DEF r
  <2> QED BY <1>2, <2>2, <2>3
<1>10. ASSUME NEW n \in Storage, RepairStep(n) PROVE RepairsWhole'
  BY <1>5, <1>6, <1>7, <1>8, <1>9, <1>10 DEF RepairStep
<1>11. CASE UNCHANGED vars
  BY <1>1, <1>11 DEF vars
<1>12. ASSUME NEW n \in Storage, Heartbeat(n) \/ HeartbeatRefused(n) \/ NodeRestart(n) \/ Evict(n)
       PROVE  rep' = rep
  BY <1>12 DEF Heartbeat, HeartbeatRefused, NodeRestart, Evict
<1>13. ASSUME PutStep PROVE rep' = rep
  BY <1>13 DEF PutStep, PutStart, PutWrite, PutWriteLost, PutCleanup, PutDecide, PutCommit,
               PutUnavailable, PutFailed
<1>14. ASSUME GetStep PROVE rep' = rep
  BY <1>14 DEF GetStep, GetInfo, GetRead, GetReplicas, GetFailed
<1>15. ASSUME LeaderRestart \/ \E c \in Chunks : DeleteChunk(c) \/ DeleteUnavailable(c)
       PROVE  rep' = rep
  BY <1>15 DEF LeaderRestart, DeleteChunk, DeleteUnavailable
<1> QED BY <1>1, <1>7, <1>10, <1>11, <1>12, <1>13, <1>14, <1>15 DEF Next

\* No step takes a version away from a node.
LEMMA HeldGrows ==
    ASSUME FewFaults, DataInv, SerialInv, RepairsWhole, [Next]_vars
    PROVE  \A n \in Storage, c \in Chunks, v \in Ids : Holds(n, c, v) => Holds(n, c, v)'
<1> DEFINE Goal == \A n \in Storage, c \in Chunks, v \in Ids : Holds(n, c, v) => Holds(n, c, v)'
<1>0. TypeOK /\ CountersBounded /\ SerialPuts
  BY DEF DataInv, SerialInv, PutsInv
<1>1. ASSUME store' = store PROVE Goal
  BY <1>1 DEF Holds, Held
<1>2. ASSUME NEW m \in Storage, NEW b \in Chunks, NEW u \in Ids, NEW d \in Ids, StoreWrite(m, b, u, d)
      PROVE  Goal
  <2>1. d \in Data /\ d # NoData
    BY Numbers
  <2>2. \A n \in Storage, c \in Chunks, v \in Ids :
          store'[n][c][v] = IF n = m /\ c = b /\ v = u THEN d ELSE store[n][c][v]
    BY <1>0, <1>2, <2>1, WriteStored
  <2> QED BY <2>1, <2>2 DEF Holds, Held
<1>3. ASSUME NEW id \in Ids, NEW n \in Storage, PutWrite(id, n) \/ PutWriteLost(id, n) PROVE Goal
  <2>1. put[id].c \in Chunks /\ put[id].ver \in Ids
    BY <1>3 DEF PutWrite, PutWriteLost, DataInv, PutsNumbered
  <2>2. store' = store \/ StoreWrite(n, put[id].c, put[id].ver, id)
    BY <1>3 DEF PutWrite, PutWriteLost
  <2> QED BY <1>1, <1>2, <2>1, <2>2
<1>4. ASSUME NEW n \in Storage, RepairStore(n) PROVE Goal
  <2>1. rep[n].c \in Chunks /\ rep[n].ver \in Ids /\ rep[n].data \in Ids
    BY <1>4 DEF RepairStore, DataInv, RepairsArePuts, IsPut
  <2>2. StoreWrite(n, rep[n].c, rep[n].ver, rep[n].data)
    BY <1>4 DEF RepairStore
  <2> QED BY <1>2, <2>1, <2>2
<1>5. ASSUME NEW n \in Storage, RepairCollect(n) PROVE Goal
  <2>1. StoreRemove(n, Chunks \ rep[n].set) /\ rep[n].set = Chunks
    BY <1>5 DEF RepairCollect, RepairsWhole
  <2>2. \A m \in Storage, c \in Chunks, v \in Ids :
          store'[m][c][v] = IF m = n /\ c \in Chunks \ rep[n].set THEN NoData ELSE store[m][c][v]
    BY <1>0, <2>1, RemoveStored
  <2> QED BY <2>1, <2>2 DEF Holds, Held
<1>6. ASSUME NEW n \in Storage, RepairStep(n) PROVE Goal
  <2> HIDE DEF Goal
  <2> QED BY <1>1, <1>4, <1>5, <1>6, StoreSame DEF RepairStep
<1>7. ASSUME Quiet PROVE Goal
  <2> HIDE DEF Goal
  <2> QED BY <1>1, <1>6, <1>7, StoreSame DEF Quiet
<1>8. ASSUME UNCHANGED vars PROVE Goal
  BY <1>1, <1>8 DEF vars, nodeVars
<1>9. Goal
  <2> HIDE DEF Goal
  <2>1. CASE Next
    BY <1>0, <1>1, <1>3, <1>7, <2>1, StoreSame, FewSteps
  <2> QED BY <1>8, <2>1
<1> QED BY <1>9

\* What a put counted as written is stored, and a put that goes on has a majority.
LEMMA WrittenNext ==
    ASSUME FewFaults, DataInv, SerialInv, RepairsWhole, WrittenHeld, [Next]_vars
    PROVE  WrittenHeld'
<1>0. TypeOK /\ PutsNumbered /\ CountersBounded /\ SerialPuts /\ put \in [Ids -> PutState]
  BY TypeParts DEF DataInv, SerialInv, PutsInv
<1>1. \A id \in Ids : put[id].pc \in {"write", "meta"} =>
        /\ put[id].c \in Chunks /\ put[id].ver \in Ids /\ put[id].oks \in SUBSET Storage
        /\ put[id].oks \subseteq put[id].reps
        /\ \A n \in put[id].oks : Holds(n, put[id].c, put[id].ver)
        /\ put[id].pc = "meta" => StorageMajority(id)
  BY <1>0 DEF WrittenHeld, PutsNumbered, PutState
<1>2. ASSUME NEW id \in Ids, put[id].pc \in {"write", "meta"}, NEW n \in put[id].oks,
             put'[id].c = put[id].c, put'[id].ver = put[id].ver
      PROVE  Holds(n, put[id].c, put[id].ver)'
  <2>1. PICK c \in Chunks, v \in Ids : c = put[id].c /\ v = put[id].ver
    BY <1>1, <1>2
  <2>2. n \in Storage /\ Holds(n, c, v)
    BY <1>1, <1>2, <2>1
  <2>3. Holds(n, c, v)'
    BY <2>2, HeldGrows
  <2> QED BY <1>2, <2>1, <2>3 DEF Holds, Held
<1> DEFINE Sound(id) ==
        put'[id].pc \in {"write", "meta"} =>
            /\ put'[id].oks \subseteq put'[id].reps
            /\ \A n \in put'[id].oks : Holds(n, put[id].c, put[id].ver)'
            /\ put'[id].pc = "meta" => StorageMajority(id)'
<1>3. ASSUME NEW id \in Ids, put'[id] = put[id] PROVE Sound(id)
  BY <1>1, <1>2, <1>3 DEF StorageMajority
<1>4. ASSUME put' = put PROVE \A id \in Ids : Sound(id)
  <2> HIDE DEF Sound
  <2> QED BY <1>3, <1>4
<1>5. ASSUME NEW id \in Ids, PutMoves(id), Sound(id) PROVE \A j \in Ids : Sound(j)
  <2> HIDE DEF Sound
  <2> QED BY <1>3, <1>5 DEF PutMoves
<1>6. ASSUME NEW id \in Ids, NEW n \in Storage, PutWrite(id, n) PROVE \A j \in Ids : Sound(j)
  <2>1. /\ PutMoves(id) /\ put[id].pc = "write" /\ put'[id].pc = "write" /\ n \in put[id].todo
        /\ put'[id].oks = IF n \in up THEN put[id].oks \union {n} ELSE put[id].oks
    BY <1>0, <1>6, PutWriteMoves
  <2>2. put'[id].c = put[id].c /\ put'[id].ver = put[id].ver /\ put'[id].reps = put[id].reps
    BY <2>1 DEF PutMoves
  <2>3. n \in put[id].reps
    BY <2>1 DEF SerialInv, FaultsCounted
  <2>4. put'[id].oks \subseteq put'[id].reps
    BY <1>1, <2>1, <2>2, <2>3
  <2>5. n \in up => Holds(n, put[id].c, put[id].ver)'
    <3> SUFFICES ASSUME n \in up PROVE Holds(n, put[id].c, put[id].ver)'
      OBVIOUS
    <3>1. put[id].c \in Chunks /\ put[id].ver \in Ids /\ id \in Data /\ id # NoData
      BY <1>1, <2>1, Numbers
    <3>2. StoreWrite(n, put[id].c, put[id].ver, id)
      BY <1>6 DEF PutWrite
    <3>3. store'[n][put[id].c][put[id].ver] = id
      BY <1>0, <3>1, <3>2, WriteStored
    <3> QED BY <2>2, <3>1, <3>3 DEF Holds, Held
  <2>6. \A m \in put'[id].oks : Holds(m, put[id].c, put[id].ver)'
    BY <1>2, <2>1, <2>2, <2>5
  <2>7. Sound(id)
    BY <2>1, <2>4, <2>6
  <2> HIDE DEF Sound
  <2> QED BY <1>5, <2>1, <2>7
<1>7. ASSUME NEW id \in Ids, NEW n \in Storage, PutWriteLost(id, n) PROVE \A j \in Ids : Sound(j)
  <2>1. /\ PutMoves(id) /\ put[id].pc = "write" /\ put'[id].pc = "write"
        /\ put'[id].oks = put[id].oks
    BY <1>0, <1>7, PutWriteLostMoves
  <2>2. put'[id].c = put[id].c /\ put'[id].ver = put[id].ver /\ put'[id].reps = put[id].reps
    BY <2>1 DEF PutMoves
  <2>3. Sound(id)
    BY <1>1, <1>2, <2>1, <2>2
  <2> HIDE DEF Sound
  <2> QED BY <1>5, <2>1, <2>3
<1>8. ASSUME NEW id \in Ids, PutDecide(id) PROVE \A j \in Ids : Sound(j)
  <2>1. /\ PutMoves(id) /\ put[id].pc = "write" /\ put[id].todo = {}
        /\ put'[id].oks = put[id].oks
    BY <1>0, <1>8, PutDecideMoves
  <2>2. put'[id].c = put[id].c /\ put'[id].ver = put[id].ver /\ put'[id].reps = put[id].reps
    BY <2>1 DEF PutMoves
  <2>3. StorageMajority(id)'
    BY <2>1, <2>2, MajorityWritten DEF StorageMajority
  <2>4. Sound(id)
    BY <1>1, <1>2, <2>1, <2>2, <2>3
  <2> HIDE DEF Sound
  <2> QED BY <1>5, <2>1, <2>4
<1>9. ASSUME NEW id \in Ids, PutCommit(id) PROVE \A j \in Ids : Sound(j)
  <2>1. PutMoves(id) /\ Sound(id)
    BY <1>0, <1>9, PutCommitMoves
  <2> HIDE DEF Sound
  <2> QED BY <1>5, <2>1
<1>10. ASSUME NEW c \in Chunks, NEW reps \in SUBSET Storage, PutStart(c, reps)
       PROVE  \A j \in Ids : Sound(j)
  <2>0. PICK new \in Ids : new = started + 1
    BY <1>0, <1>10, PutStarts
  <2>1. /\ put'[new] = [pc |-> "write", c |-> c, ver |-> table[c].version + 1, reps |-> reps,
                        todo |-> reps, oks |-> {}, prior |-> Ended(c)]
        /\ \A j \in Ids : j # new => put'[j] = put[j]
    BY <1>0, <1>10, <2>0, PutStarts
  <2>2. put'[new].pc = "write" /\ put'[new].oks = {}
    BY <2>1
  <2>3. Sound(new)
    BY <2>2
  <2> HIDE DEF Sound
  <2> QED BY <1>3, <2>1, <2>3
<1>11. ASSUME Quiet PROVE \A j \in Ids : Sound(j)
  <2> HIDE DEF Sound
  <2> QED BY <1>4, <1>11, QuietSame
<1>12. ASSUME UNCHANGED vars PROVE \A j \in Ids : Sound(j)
  <2> HIDE DEF Sound
  <2> QED BY <1>4, <1>12 DEF vars
<1>13. \A j \in Ids : Sound(j)
  <2> HIDE DEF Sound
  <2>1. CASE Next
    BY <1>0, <1>6, <1>7, <1>8, <1>9, <1>10, <1>11, <2>1, FewSteps
  <2> QED BY <1>12, <2>1
<1> QED BY <1>13 DEF WrittenHeld

\* A larger set of nodes is a majority if a smaller one is.
LEMMA MajorityGrows ==
    ASSUME NEW R \in SUBSET Storage, NEW S, NEW T \in SUBSET R, S \subseteq T,
           2 * Cardinality(S) > Cardinality(R)
    PROVE  2 * Cardinality(T) > Cardinality(R)
<1>1. Cardinality(S) \in Nat /\ Cardinality(S) <= Cardinality(T) /\ Cardinality(T) \in Nat
      /\ Cardinality(R) \in Nat
  BY NodeSets
<1> QED BY <1>1

\* The version in the table stays on a majority of the replicas in the table.
LEMMA CurrentNext ==
    ASSUME FewFaults, DataInv, SerialInv, AckInv, [Next]_vars
    PROVE  CurrentMajority'
<1>0. /\ TypeOK /\ PutsNumbered /\ CountersBounded /\ SerialPuts /\ RepairsWhole
      /\ put \in [Ids -> PutState] /\ table \in [Chunks -> ChunkEntry]
  BY TypeParts DEF DataInv, SerialInv, PutsInv, AckInv, TableTypeOK
<1>1. ASSUME NEW c \in Chunks, table'[c] = table[c], Present(c)'
      PROVE  2 * Cardinality(Current(c)') > Cardinality(table'[c].reps)
  <2>1. Present(c) /\ 2 * Cardinality(Current(c)) > Cardinality(table[c].reps)
    BY <1>1 DEF Present, AckInv, CurrentMajority
  <2>2. Current(c) \subseteq Current(c)'
    <3> SUFFICES ASSUME NEW n \in Current(c) PROVE n \in Current(c)'
      OBVIOUS
    <3>1. n \in table[c].reps /\ n \in Storage /\ Holds(n, c, table[c].version)
      BY <1>0 DEF Current, ChunkEntry
    <3>2. PICK v \in Ids : v = table[c].version
      BY <3>1 DEF Holds, Held
    <3>3. Holds(n, c, v)'
      BY <1>0, <3>1, <3>2, HeldGrows
    <3> QED BY <1>1, <3>1, <3>2, <3>3 DEF Current, Holds, Held
  <2>3. table[c].reps \in SUBSET Storage /\ Current(c)' \in SUBSET table[c].reps
    BY <1>0, <1>1 DEF Current, ChunkEntry
  <2>4. 2 * Cardinality(Current(c)') > Cardinality(table[c].reps)
    BY <2>1, <2>2, <2>3, MajorityGrows
  <2> QED BY <1>1, <2>4
<1>2. ASSUME table' = table PROVE CurrentMajority'
  BY <1>1, <1>2 DEF CurrentMajority
<1>3. ASSUME NEW id \in Ids, PutCommit(id) PROVE CurrentMajority'
  <2>1. PICK c \in Chunks, v \in Ids, reps \in SUBSET Storage :
          c = put[id].c /\ v = put[id].ver /\ reps = put[id].reps
    BY <1>0, <1>3 DEF PutCommit, PutsNumbered, PutState
  <2>2. /\ table'[c] = [version |-> v, state |-> "STABLE", reps |-> reps, old |-> {}]
        /\ \A b \in Chunks : b # c => table'[b] = table[b]
    BY <1>0, <1>3, <2>1 DEF PutCommit, ApplyPutChunk, PutApplied
  <2>3. table'[c].version = v /\ table'[c].reps = reps
    BY <2>2
  <2>4. /\ put[id].oks \subseteq reps /\ \A n \in put[id].oks : Holds(n, c, v)
        /\ StorageMajority(id)
    BY <1>3, <2>1 DEF PutCommit, AckInv, WrittenHeld
  <2>5. put[id].oks \subseteq Current(c)'
    <3> SUFFICES ASSUME NEW n \in put[id].oks PROVE n \in Current(c)'
      OBVIOUS
    <3>1. n \in reps /\ n \in Storage /\ Holds(n, c, v)
      BY <2>1, <2>4
    <3>2. Holds(n, c, v)'
      BY <1>0, <3>1, HeldGrows
    <3> QED BY <2>3, <3>1, <3>2 DEF Current, Holds, Held
  <2>6. 2 * Cardinality(put[id].oks) > Cardinality(reps)
    <3>1. Cardinality(reps) \in Nat /\ Cardinality(put[id].oks) \in Nat
      BY <2>4, NodeSets
    <3>2. Cardinality(put[id].oks) >= Cardinality(reps) \div 2 + 1
      BY <2>1, <2>4 DEF StorageMajority
    <3> QED BY <3>1, <3>2
  <2>7. Current(c)' \in SUBSET reps
    BY <2>3 DEF Current
  <2>8. 2 * Cardinality(Current(c)') > Cardinality(reps)
    BY <2>5, <2>6, <2>7, MajorityGrows
  <2> QED BY <1>1, <2>2, <2>3, <2>8 DEF CurrentMajority
<1>4. ASSUME Quiet PROVE table' = table
  BY <1>4, QuietSame
<1>5. CASE UNCHANGED vars
  BY <1>2, <1>5 DEF vars, tableVars
<1>6. CASE Next
  <2>1. ASSUME NEW id \in Ids, NEW n \in Storage, PutWrite(id, n) \/ PutWriteLost(id, n)
        PROVE  table' = table
    BY <2>1 DEF PutWrite, PutWriteLost, tableVars
  <2>2. ASSUME NEW id \in Ids, PutDecide(id) PROVE table' = table
    BY <2>2 DEF PutDecide, tableVars
  <2>3. ASSUME NEW c \in Chunks, NEW reps \in SUBSET Storage, PutStart(c, reps) PROVE table' = table
    BY <2>3 DEF PutStart, tableVars
  <2> QED BY <1>0, <1>2, <1>3, <1>4, <1>6, <2>1, <2>2, <2>3, FewSteps
<1> QED BY <1>5, <1>6

\* What is acknowledged is on a majority, and what is written stays.
THEOREM AckInvariant == ASSUME FewFaults, NothingToCollect PROVE Spec => []AckInv
<1>1. Init => AckInv
  <2> SUFFICES ASSUME Init PROVE AckInv
    OBVIOUS
  <2>1. /\ \A n \in Storage : rep[n].pc = "idle"
        /\ \A id \in Ids : put[id].pc = "none"
        /\ \A c \in Chunks : ~Present(c)
    BY DEF Init, TableInit, NoRep, NoPut, NoChunk, Present
  <2> QED BY <2>1 DEF AckInv, RepairsWhole, WrittenHeld, CurrentMajority
<1>2. DataInv /\ SerialInv /\ AckInv /\ [Next]_vars => AckInv'
  BY RepairsWholeNext, WrittenNext, CurrentNext DEF AckInv
<1> QED BY <1>1, <1>2, SerialInvariant, DataInvariant, PTL DEF Spec

\* A PutChunk that is answered OK leaves its version on a majority of the replica
\* set, and neither later puts nor repair nor crashes take it away from there.
THEOREM AcknowledgedOnMajority ==
    ASSUME FewFaults, NothingToCollect PROVE Spec => []AckedOnMajority
<1>1. DataInv /\ AckInv => AckedOnMajority
  <2> SUFFICES ASSUME DataInv, AckInv, NEW c \in Chunks, Present(c)
               PROVE  2 * Cardinality({n \in table[c].reps :
                                         Held(n, c) # {} /\ LatestVersion(n, c) >= table[c].version})
                        > Cardinality(table[c].reps)
    BY DEF AckedOnMajority
  <2> DEFINE T == {n \in table[c].reps : Held(n, c) # {} /\ LatestVersion(n, c) >= table[c].version}
  <2>1. table[c].reps \in SUBSET Storage /\ table[c].version \in Nat
    BY TypeParts, Numbers DEF DataInv, TableTypeOK, ChunkEntry
  <2>2. Current(c) \subseteq T
    <3> SUFFICES ASSUME NEW n \in Current(c) PROVE n \in T
      OBVIOUS
    <3>1. n \in table[c].reps /\ n \in Storage /\ table[c].version \in Held(n, c)
      BY <2>1 DEF Current, Holds
    <3>2. LatestVersion(n, c) \in Version /\ LatestVersion(n, c) \in Nat
      BY <3>1, Latest, Numbers
    <3>3. Held(n, c) # {}
      BY <3>1
    <3>4. table[c].version <= LatestVersion(n, c)
      BY <3>1, <3>3, Latest
    <3> QED BY <2>1, <3>1, <3>2, <3>3, <3>4
  <2>3. 2 * Cardinality(Current(c)) > Cardinality(table[c].reps)
    BY DEF AckInv, CurrentMajority
  <2>4. T \in SUBSET table[c].reps
    OBVIOUS
  <2> HIDE DEF T
  <2>5. 2 * Cardinality(T) > Cardinality(table[c].reps)
    BY <2>1, <2>2, <2>3, <2>4, MajorityGrows
  <2> QED BY <2>5 DEF T
<1> QED BY <1>1, AckInvariant, DataInvariant, PTL

\* An acknowledged put can be read from some replica as long as that one runs.
THEOREM AcknowledgedKept ==
    ASSUME FewFaults, NothingToCollect PROVE Spec => []AckedKept
<1>1. DataInv /\ AckedOnMajority => AckedKept
  <2> SUFFICES ASSUME DataInv, AckedOnMajority, NEW c \in Chunks, Present(c),
                      {n \in table[c].reps : Held(n, c) # {} /\ LatestVersion(n, c) >= table[c].version} = {}
               PROVE  FALSE
    BY DEF AckedKept
  <2>1. table[c].reps \in SUBSET Storage
    BY TypeParts DEF DataInv, TableTypeOK, ChunkEntry
  <2>2. Cardinality(table[c].reps) \in Nat
    BY <2>1, NodeSets
  <2>3. 2 * Cardinality({}) > Cardinality(table[c].reps)
    BY DEF AckedOnMajority
  <2>4. Cardinality({}) = 0
    BY FS_EmptySet
  <2> QED BY <2>2, <2>3, <2>4
<1> QED BY <1>1, AcknowledgedOnMajority, DataInvariant, PTL
=============================================================================
