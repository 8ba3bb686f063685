-------------------------- MODULE DataPlaneProofs --------------------------
(***************************************************************************)
(* Proofs about DataPlane that hold whatever fails: the types, and that    *)
(* every stored version comes from a put of that chunk and version.        *)
(***************************************************************************)
EXTENDS DataPlane, FiniteSetTheorems, TLAPS

PutState == [pc : {"none", "write", "meta", "cleanup", "ok", "failed"},
             c : Chunks \union {"-"}, ver : Version, reps : SUBSET Storage,
             todo : SUBSET Storage, oks : SUBSET Storage, prior : SUBSET Ids]
GetState == [pc : {"idle", "info", "read"}, c : Chunks \union {"-"}, ver : Version,
             from : SUBSET Storage, stale : SUBSET Ids, passed : SUBSET Ids]
RepState == [pc : {"idle", "scan", "fetch", "store"}, set : SUBSET Chunks,
             todo : SUBSET Chunks, c : Chunks \union {"-"}, ver : Version,
             peers : SUBSET Storage, data : Data]
SeenState == [id : Ids, stale : SUBSET Ids, passed : SUBSET Ids]

\* d is the identity of a put of chunk c that was given version v.
IsPut(d, c, v) == d \in Ids /\ put[d].pc # "none" /\ put[d].c = c /\ put[d].ver = v

\* A put that was started has a number, a chunk and a version of its own.
PutsNumbered ==
    /\ \A c \in Chunks : /\ table[c].version <= started
                         /\ logged[c].version <= started /\ replayed[c].version <= started
    /\ \A id \in Ids : put[id].pc # "none" =>
          id <= started /\ put[id].c \in Chunks /\ put[id].ver \in Ids /\ put[id].ver <= started

\* Everything in a store, and everything a repair is about to store, is a put.
StoredArePuts ==
    \A n \in Storage, c \in Chunks, v \in Ids :
        store[n][c][v] # NoData => IsPut(store[n][c][v], c, v)

RepairsArePuts ==
    \A n \in Storage :
        /\ rep[n].pc \in {"fetch", "store"} => rep[n].c \in Chunks
        /\ rep[n].pc = "store" => rep[n].ver \in Ids /\ IsPut(rep[n].data, rep[n].c, rep[n].ver)

\* A get that is past its first answer is about a chunk.
GetsNamed == \A r \in Readers : get[r].pc # "idle" => get[r].c \in Chunks

DataInv == TypeOK /\ PutsNumbered /\ StoredArePuts /\ RepairsArePuts /\ GetsNamed

(***************************************************************************)
(* Sets and types.                                                         *)
(***************************************************************************)
\* The parts of TypeOK by name.
LEMMA TypeParts ==
    TypeOK <=> /\ TableTypeOK
               /\ store \in [Storage -> [Chunks -> [Ids -> Data]]]
               /\ up \in SUBSET Storage
               /\ assigned \in [Storage -> SUBSET Chunks]
               /\ put \in [Ids -> PutState]
               /\ get \in [Readers -> GetState]
               /\ rep \in [Storage -> RepState]
               /\ started \in Data
               /\ stale \in SUBSET Ids
               /\ passed \in SUBSET Ids
               /\ seen \subseteq SeenState
  BY DEF TypeOK, PutState, GetState, RepState, SeenState

\* Identities and versions are the numbers from 1 to MaxPuts.
LEMMA Numbers ==
    /\ Ids \subseteq Nat /\ Ids \subseteq Data /\ Ids \subseteq Version /\ Data = Version
    /\ Data = Ids \union {0} /\ 0 \notin Ids /\ NoData = 0
    /\ Data \subseteq Nat /\ MaxPuts \in Nat
    /\ \A i \in Data : i < MaxPuts => i + 1 \in Ids
    /\ \A i \in Nat : i \in Ids <=> 1 <= i /\ i <= MaxPuts
  BY ChunkTableAssumption DEF Ids, Data, Version, NoData

\* The highest of a set of versions.
LEMMA HighestVersion ==
    ASSUME NEW S \in SUBSET Ids, S # {}
    PROVE  \E v \in S : \A u \in S : u <= v
<1> DEFINE T == {x \in Nat : MaxPuts - x \in S}
<1>1. \A u \in S : u \in Nat /\ MaxPuts - u \in Nat /\ MaxPuts - (MaxPuts - u) = u
  BY Numbers
<1>2. \A u \in S : MaxPuts - u \in T
  BY <1>1
<1>3. T \subseteq Nat /\ T # {}
  BY <1>2
<1>4. PICK x \in T : \A y \in T : ~(<<y, x>> \in OpToRel(<, Nat))
  <2> HIDE DEF T
  <2> QED BY <1>3, NatLessThanWellFounded, WFMin
<1>5. \A y \in T : ~(y < x)
  BY <1>3, <1>4 DEF OpToRel
<1>6. MaxPuts - x \in S /\ \A u \in S : ~(MaxPuts - u < x)
  BY <1>2, <1>5
<1>7. \A u \in S : u <= MaxPuts - x
  BY <1>1, <1>6, Numbers
<1> QED BY <1>6, <1>7

\* latest_version() is the highest version held, 0 if there is none.
LEMMA Latest ==
    ASSUME NEW n \in Storage, NEW c \in Chunks
    PROVE  /\ LatestVersion(n, c) \in Version
           /\ Held(n, c) # {} => LatestVersion(n, c) \in Held(n, c)
           /\ Held(n, c) # {} => \A u \in Held(n, c) : u <= LatestVersion(n, c)
           /\ Held(n, c) \subseteq Ids
<1>1. Held(n, c) \subseteq Ids
  BY DEF Held
<1>2. CASE Held(n, c) = {}
  BY <1>1, <1>2, Numbers DEF LatestVersion
<1>3. CASE Held(n, c) # {}
  <2>1. \E v \in Held(n, c) : \A u \in Held(n, c) : u <= v
    BY <1>1, <1>3, HighestVersion
  <2>2. LatestVersion(n, c) \in Held(n, c) /\ \A u \in Held(n, c) : u <= LatestVersion(n, c)
    BY <1>3, <2>1 DEF LatestVersion
  <2> QED BY <1>1, <2>2, Numbers
<1> QED BY <1>2, <1>3

(***************************************************************************)
(* What the operations of a chunk store do.                                *)
(***************************************************************************)
\* ChunkStore::write adds one version and leaves the others alone.
LEMMA WriteStored ==
    ASSUME TypeOK, NEW n \in Storage, NEW c \in Chunks, NEW v \in Ids, NEW d \in Data,
           StoreWrite(n, c, v, d)
    PROVE  /\ store' \in [Storage -> [Chunks -> [Ids -> Data]]]
           /\ \A m \in Storage, b \in Chunks, u \in Ids :
                store'[m][b][u] = IF m = n /\ b = c /\ u = v THEN d ELSE store[m][b][u]
<1>0. store \in [Storage -> [Chunks -> [Ids -> Data]]]
  BY TypeParts
<1>1. store' = [store EXCEPT ![n] = [store[n] EXCEPT ![c] = [store[n][c] EXCEPT ![v] = d]]]
  BY DEF StoreWrite
<1>2. [store[n][c] EXCEPT ![v] = d] \in [Ids -> Data]
  BY <1>0
<1>3. [store[n] EXCEPT ![c] = [store[n][c] EXCEPT ![v] = d]] \in [Chunks -> [Ids -> Data]]
  BY <1>0, <1>2
<1>4. store' \in [Storage -> [Chunks -> [Ids -> Data]]]
  BY <1>0, <1>1, <1>3
<1>5. \A m \in Storage, b \in Chunks, u \in Ids :
        store'[m][b][u] = IF m = n /\ b = c /\ u = v THEN d ELSE store[m][b][u]
  BY <1>0, <1>1
<1> QED BY <1>4, <1>5

\* ChunkStore::remove drops every version of the chunks it is given.
LEMMA RemoveStored ==
    ASSUME TypeOK, NEW n \in Storage, NEW cs, StoreRemove(n, cs)
    PROVE  /\ store' \in [Storage -> [Chunks -> [Ids -> Data]]]
           /\ \A m \in Storage, b \in Chunks, u \in Ids :
                store'[m][b][u] = IF m = n /\ b \in cs THEN NoData ELSE store[m][b][u]
<1> DEFINE left == [c \in Chunks |-> IF c \in cs THEN [v \in Ids |-> NoData] ELSE store[n][c]]
<1>0. store \in [Storage -> [Chunks -> [Ids -> Data]]]
  BY TypeParts
<1>1. store' = [store EXCEPT ![n] = left]
  BY DEF StoreRemove
<1>2. left \in [Chunks -> [Ids -> Data]]
  BY <1>0, Numbers
<1>3. store' \in [Storage -> [Chunks -> [Ids -> Data]]]
  <2> HIDE DEF left
  <2> QED BY <1>0, <1>1, <1>2
<1>4. \A b \in Chunks, u \in Ids : left[b][u] = IF b \in cs THEN NoData ELSE store[n][b][u]
  OBVIOUS
<1>5. \A m \in Storage : store'[m] = IF m = n THEN left ELSE store[m]
  <2> HIDE DEF left
  <2> QED BY <1>0, <1>1
<1>6. \A m \in Storage, b \in Chunks, u \in Ids :
        store'[m][b][u] = IF m = n /\ b \in cs THEN NoData ELSE store[m][b][u]
  <2> HIDE DEF left
  <2> QED BY <1>4, <1>5
<1> QED BY <1>3, <1>6

(***************************************************************************)
(* What a step does to the puts.                                           *)
(***************************************************************************)
\* A step of put id moves its program counter, its work list or its successes.
PutMoves(id) ==
    /\ put' \in [Ids -> PutState]
    /\ \A j \in Ids : j # id => put'[j] = put[j]
    /\ put'[id].c = put[id].c /\ put'[id].ver = put[id].ver
    /\ put'[id].reps = put[id].reps /\ put'[id].prior = put[id].prior
    /\ put[id].pc \in {"write", "meta", "cleanup"} /\ put'[id].pc # "none"

\* The record that is put in place of put[id].
LEMMA PutReplaced ==
    ASSUME TypeOK, NEW id \in Ids, put[id].pc \in {"write", "meta", "cleanup"},
           NEW p \in PutState, put' = [put EXCEPT ![id] = p],
           p.c = put[id].c, p.ver = put[id].ver, p.reps = put[id].reps, p.prior = put[id].prior,
           p.pc # "none"
    PROVE  PutMoves(id) /\ put'[id] = p
<1>1. put \in [Ids -> PutState]
  BY TypeParts
<1> QED BY <1>1 DEF PutMoves

\* What each step of PutChunk does to its put.
LEMMA PutWriteMoves ==
    ASSUME TypeOK, NEW id \in Ids, NEW n \in Storage, PutWrite(id, n)
    PROVE  /\ PutMoves(id) /\ put[id].pc = "write" /\ put'[id].pc = "write"
           /\ n \in put[id].todo /\ put'[id].todo = put[id].todo \ {n}
           /\ put'[id].oks = IF n \in up THEN put[id].oks \union {n} ELSE put[id].oks
<1>0. put[id] \in PutState /\ put[id].pc = "write" /\ n \in put[id].todo
  BY TypeParts DEF PutWrite
<1>1. CASE n \in up
  <2> DEFINE p == [put[id] EXCEPT !.todo = @ \ {n}, !.oks = @ \union {n}]
  <2>1. put' = [put EXCEPT ![id] = p]
    BY <1>1, TypeParts DEF PutWrite
  <2>2. /\ p \in PutState /\ p.c = put[id].c /\ p.ver = put[id].ver /\ p.reps = put[id].reps
        /\ p.prior = put[id].prior /\ p.pc = "write"
        /\ p.todo = put[id].todo \ {n} /\ p.oks = put[id].oks \union {n}
    BY <1>0 DEF PutState
  <2> HIDE DEF p
  <2> QED BY <1>0, <1>1, <2>1, <2>2, PutReplaced
<1>2. CASE n \notin up
  <2> DEFINE p == [put[id] EXCEPT !.todo = @ \ {n}]
  <2>1. put' = [put EXCEPT ![id] = p]
    BY <1>2, TypeParts DEF PutWrite
  <2>2. /\ p \in PutState /\ p.c = put[id].c /\ p.ver = put[id].ver /\ p.reps = put[id].reps
        /\ p.prior = put[id].prior /\ p.pc = "write"
        /\ p.todo = put[id].todo \ {n} /\ p.oks = put[id].oks
    BY <1>0 DEF PutState
  <2> HIDE DEF p
  <2> QED BY <1>0, <1>2, <2>1, <2>2, PutReplaced
<1> QED BY <1>1, <1>2

\* A write whose RPC fails leaves the work list all the same.
LEMMA PutWriteLostMoves ==
    ASSUME TypeOK, NEW id \in Ids, NEW n \in Storage, PutWriteLost(id, n)
    PROVE  /\ PutMoves(id) /\ put[id].pc = "write" /\ put'[id].pc = "write"
           /\ n \in put[id].todo /\ put'[id].todo = put[id].todo \ {n}
           /\ put'[id].oks = put[id].oks
<1>0. put[id] \in PutState /\ put[id].pc = "write" /\ n \in put[id].todo
  BY TypeParts DEF PutWriteLost
<1> DEFINE p == [put[id] EXCEPT !.todo = @ \ {n}]
<1>1. put' = [put EXCEPT ![id] = p]
  BY TypeParts DEF PutWriteLost
<1>2. /\ p \in PutState /\ p.c = put[id].c /\ p.ver = put[id].ver /\ p.reps = put[id].reps
      /\ p.prior = put[id].prior /\ p.pc = "write"
      /\ p.todo = put[id].todo \ {n} /\ p.oks = put[id].oks
  BY <1>0 DEF PutState
<1> HIDE DEF p
<1> QED BY <1>0, <1>1, <1>2, PutReplaced

\* Cleaning up on one node takes it off the list of successes.
LEMMA PutCleanupMoves ==
    ASSUME TypeOK, NEW id \in Ids, NEW n \in Storage, PutCleanup(id, n)
    PROVE  PutMoves(id) /\ put[id].pc = "cleanup"
<1>0. put[id] \in PutState /\ put[id].pc = "cleanup"
  BY TypeParts DEF PutCleanup
<1> DEFINE p == [put[id] EXCEPT !.oks = @ \ {n}]
<1>1. put' = [put EXCEPT ![id] = p]
  BY TypeParts DEF PutCleanup
<1>2. /\ p \in PutState /\ p.c = put[id].c /\ p.ver = put[id].ver /\ p.reps = put[id].reps
      /\ p.prior = put[id].prior /\ p.pc = "cleanup"
  BY <1>0 DEF PutState
<1> HIDE DEF p
<1> QED BY <1>0, <1>1, <1>2, PutReplaced

\* The other steps of PutChunk only move its program counter.
LEMMA PutPcMoves ==
    ASSUME TypeOK, NEW id \in Ids, put[id].pc \in {"write", "meta", "cleanup"},
           NEW l \in {"meta", "cleanup", "ok", "failed"}, put' = [put EXCEPT ![id].pc = l]
    PROVE  /\ PutMoves(id) /\ put'[id].pc = l
           /\ put'[id].todo = put[id].todo /\ put'[id].oks = put[id].oks
<1>0. put[id] \in PutState
  BY TypeParts
<1> DEFINE p == [put[id] EXCEPT !.pc = l]
<1>1. put' = [put EXCEPT ![id] = p]
  BY TypeParts
<1>2. /\ p \in PutState /\ p.c = put[id].c /\ p.ver = put[id].ver /\ p.reps = put[id].reps
      /\ p.prior = put[id].prior /\ p.pc = l /\ p.todo = put[id].todo /\ p.oks = put[id].oks
  BY <1>0 DEF PutState
<1> HIDE DEF p
<1> QED BY <1>0, <1>1, <1>2, PutReplaced

\* PutDecide goes on when a majority of the replicas was written.
LEMMA PutDecideMoves ==
    ASSUME TypeOK, NEW id \in Ids, PutDecide(id)
    PROVE  /\ PutMoves(id) /\ put[id].pc = "write" /\ put[id].todo = {}
           /\ put'[id].pc = IF StorageMajority(id) THEN "meta" ELSE "cleanup"
           /\ put'[id].todo = put[id].todo /\ put'[id].oks = put[id].oks
<1>1. CASE StorageMajority(id)
  <2>1. put' = [put EXCEPT ![id].pc = "meta"] /\ put[id].pc = "write" /\ put[id].todo = {}
    BY <1>1 DEF PutDecide
  <2> QED BY <1>1, <2>1, PutPcMoves
<1>2. CASE ~StorageMajority(id)
  <2>1. put' = [put EXCEPT ![id].pc = "cleanup"] /\ put[id].pc = "write" /\ put[id].todo = {}
    BY <1>2 DEF PutDecide
  <2> QED BY <1>2, <2>1, PutPcMoves
<1> QED BY <1>1, <1>2

\* PutCommit acknowledges the put.
LEMMA PutCommitMoves ==
    ASSUME TypeOK, NEW id \in Ids, PutCommit(id)
    PROVE  PutMoves(id) /\ put[id].pc = "meta" /\ put'[id].pc = "ok"
<1>1. put' = [put EXCEPT ![id].pc = "ok"] /\ put[id].pc = "meta"
  BY DEF PutCommit
<1> QED BY <1>1, PutPcMoves

\* A put that fails is cleaned up and ends.
LEMMA PutEndMoves ==
    ASSUME TypeOK, NEW id \in Ids, PutUnavailable(id) \/ PutFailed(id)
    PROVE  PutMoves(id) /\ put[id].pc \in {"meta", "cleanup"}
<1>1. CASE PutUnavailable(id)
  <2>1. put' = [put EXCEPT ![id].pc = "cleanup"] /\ put[id].pc = "meta"
    BY <1>1 DEF PutUnavailable
  <2> QED BY <2>1, PutPcMoves
<1>2. CASE PutFailed(id)
  <2>1. put' = [put EXCEPT ![id].pc = "failed"] /\ put[id].pc = "cleanup"
    BY <1>2 DEF PutFailed
  <2> QED BY <2>1, PutPcMoves
<1> QED BY <1>1, <1>2

\* PutChunk takes the next identity, which nothing has used.
LEMMA PutStarts ==
    ASSUME TypeOK, PutsNumbered, NEW c \in Chunks, NEW reps \in SUBSET Storage, PutStart(c, reps)
    PROVE  LET new == started + 1
           IN /\ new \in Ids /\ put[new].pc = "none" /\ started' = new
              /\ put' \in [Ids -> PutState]
              /\ put'[new] = [pc |-> "write", c |-> c, ver |-> table[c].version + 1, reps |-> reps,
                              todo |-> reps, oks |-> {}, prior |-> Ended(c)]
              /\ table[c].version + 1 \in Ids /\ table[c].version + 1 <= new
              /\ \A j \in Ids : j # new => put'[j] = put[j]
<1> DEFINE new == started + 1
           p == [pc |-> "write", c |-> c, ver |-> table[c].version + 1, reps |-> reps,
                 todo |-> reps, oks |-> {}, prior |-> Ended(c)]
<1>0. /\ started \in Nat /\ started < MaxPuts /\ put \in [Ids -> PutState]
      /\ table[c].version \in Nat /\ table[c].version <= started
  <2>1. started \in Data /\ started < MaxPuts /\ put \in [Ids -> PutState]
    BY TypeParts DEF PutStart
  <2>2. table[c].version \in Version /\ table[c].version <= started
    BY TypeParts DEF TableTypeOK, ChunkEntry, PutsNumbered
  <2> QED BY <2>1, <2>2, Numbers
<1>1. new \in Ids /\ table[c].version + 1 \in Ids /\ table[c].version + 1 <= new
  BY <1>0, Numbers
<1>2. put[new].pc = "none"
  <2>1. ~(new <= started)
    BY <1>0
  <2> QED BY <1>1, <2>1 DEF PutsNumbered
<1>3. put' = [put EXCEPT ![new] = p] /\ started' = new
  BY DEF PutStart, NextVersion
<1>4. Ended(c) \in SUBSET Ids
  BY DEF Ended
<1>5. p \in PutState
  BY <1>1, <1>4, Numbers DEF PutState
<1> HIDE DEF p
<1>6. put' \in [Ids -> PutState] /\ put'[new] = p /\ \A j \in Ids : j # new => put'[j] = put[j]
  BY <1>0, <1>1, <1>3, <1>5
<1> QED BY <1>1, <1>2, <1>3, <1>6 DEF p

\* A restart of the leader ends the puts in progress and keeps the rest of them.
LEMMA RestartPuts ==
    ASSUME TypeOK, LeaderRestart
    PROVE  /\ put' \in [Ids -> PutState]
           /\ \A id \in Ids : /\ put'[id].c = put[id].c /\ put'[id].ver = put[id].ver
                              /\ put'[id].pc # "none" <=> put[id].pc # "none"
<1>0. put \in [Ids -> PutState]
  BY TypeParts
<1>1. put' = [id \in Ids |-> IF id \in Active
                             THEN [put[id] EXCEPT !.pc = "failed", !.todo = {}, !.oks = {}]
                             ELSE put[id]]
  BY DEF LeaderRestart
<1>2. \A p \in PutState :
        LET q == [p EXCEPT !.pc = "failed", !.todo = {}, !.oks = {}]
        IN q \in PutState /\ q.c = p.c /\ q.ver = p.ver /\ q.pc # "none"
  BY DEF PutState
<1>3. \A id \in Ids : id \in Active => put[id].pc # "none"
  BY DEF Active
<1> QED BY <1>0, <1>1, <1>2, <1>3

(***************************************************************************)
(* The steps that leave a part of the state alone.                         *)
(***************************************************************************)
\* Reads, heartbeats, repair, deletes and storage faults do not touch the puts.
LEMMA PutsSame ==
    ASSUME \/ GetStep
           \/ \E c \in Chunks : DeleteChunk(c) \/ DeleteUnavailable(c)
           \/ \E n \in Storage : \/ Heartbeat(n) \/ HeartbeatRefused(n) \/ RepairStep(n)
                                 \/ NodeCrash(n) \/ NodeRestart(n) \/ Evict(n)
    PROVE  put' = put /\ started' = started
<1>1. ASSUME NEW r \in Readers, NEW c \in Chunks, GetInfo(r, c)
      PROVE  put' = put /\ started' = started
  BY <1>1 DEF GetInfo, obsVars
<1>2. ASSUME NEW r \in Readers, NEW n \in Storage, GetRead(r, n)
      PROVE  put' = put /\ started' = started
  BY <1>2 DEF GetRead
<1>3. ASSUME NEW r \in Readers, GetReplicas(r) \/ GetFailed(r)
      PROVE  put' = put /\ started' = started
  BY <1>3 DEF GetReplicas, GetFailed, obsVars
<1>4. ASSUME NEW c \in Chunks, DeleteChunk(c) \/ DeleteUnavailable(c)
      PROVE  put' = put /\ started' = started
  BY <1>4 DEF DeleteChunk, DeleteUnavailable, obsVars
<1>5. ASSUME NEW n \in Storage, Heartbeat(n) \/ HeartbeatRefused(n)
      PROVE  put' = put /\ started' = started
  BY <1>5 DEF Heartbeat, HeartbeatRefused, obsVars
<1>6. ASSUME NEW n \in Storage, NodeCrash(n) \/ NodeRestart(n) \/ Evict(n)
      PROVE  put' = put /\ started' = started
  BY <1>6 DEF NodeCrash, NodeRestart, Evict, obsVars
<1>7. ASSUME NEW n \in Storage, RepairStep(n) PROVE put' = put /\ started' = started
  BY <1>7 DEF RepairStep, RepairBegin, RepairStore, RepairCollect, RepairSkip, RepairInfo,
              RepairFetch, obsVars
<1> QED BY <1>1, <1>2, <1>3, <1>4, <1>5, <1>6, <1>7 DEF GetStep

\* The steps of a put that was started before.
PutProgress(id) ==
    \/ \E n \in Storage : PutWrite(id, n) \/ PutWriteLost(id, n) \/ PutCleanup(id, n)
    \/ PutDecide(id) \/ PutCommit(id) \/ PutUnavailable(id) \/ PutFailed(id)

\* They are moves of that put.
LEMMA ProgressMoves ==
    ASSUME TypeOK, NEW id \in Ids, PutProgress(id)
    PROVE  PutMoves(id) /\ started' = started
<1>1. PutMoves(id)
  BY PutWriteMoves, PutWriteLostMoves, PutCleanupMoves, PutDecideMoves, PutCommitMoves, PutEndMoves
     DEF PutProgress
<1>2. started' = started
  BY DEF PutProgress, PutWrite, PutWriteLost, PutCleanup, PutDecide, PutCommit, PutUnavailable,
         PutFailed, obsVars
<1> QED BY <1>1, <1>2

\* No step forgets a put, its chunk or its version.
LEMMA PutsKept ==
    ASSUME TypeOK, PutsNumbered, [Next]_vars
    PROVE  /\ put' \in [Ids -> PutState] /\ started' \in Data /\ started' >= started
           /\ \A d \in Ids : put[d].pc # "none" =>
                /\ put'[d].pc # "none" /\ put'[d].c = put[d].c /\ put'[d].ver = put[d].ver
           /\ \A d \in Ids : put[d].pc = "none" /\ put'[d].pc # "none" =>
                /\ d = started' /\ put'[d].c \in Chunks /\ put'[d].ver \in Ids
                /\ put'[d].ver <= started'
<1> DEFINE Goal ==
           /\ put' \in [Ids -> PutState] /\ started' \in Data /\ started' >= started
           /\ \A d \in Ids : put[d].pc # "none" =>
                /\ put'[d].pc # "none" /\ put'[d].c = put[d].c /\ put'[d].ver = put[d].ver
           /\ \A d \in Ids : put[d].pc = "none" /\ put'[d].pc # "none" =>
                /\ d = started' /\ put'[d].c \in Chunks /\ put'[d].ver \in Ids
                /\ put'[d].ver <= started'
<1>0. put \in [Ids -> PutState] /\ started \in Data /\ started \in Nat
  BY TypeParts, Numbers
<1>1. ASSUME put' = put, started' = started PROVE Goal
  BY <1>0, <1>1
<1>2. ASSUME NEW c \in Chunks, NEW reps \in SUBSET Storage, PutStart(c, reps) PROVE Goal
  <2> DEFINE new == started + 1
  <2>1. /\ new \in Ids /\ put[new].pc = "none" /\ started' = new
        /\ put' \in [Ids -> PutState]
        /\ put'[new] = [pc |-> "write", c |-> c, ver |-> table[c].version + 1, reps |-> reps,
                        todo |-> reps, oks |-> {}, prior |-> Ended(c)]
        /\ table[c].version + 1 \in Ids /\ table[c].version + 1 <= new
        /\ \A j \in Ids : j # new => put'[j] = put[j]
    BY <1>2, PutStarts
  <2>2. put'[new].pc # "none" /\ put'[new].c = c /\ put'[new].ver = table[c].version + 1
    BY <2>1
  <2>3. started' \in Data /\ started' >= started
    BY <1>0, <2>1, Numbers
  <2>4. \A d \in Ids : put[d].pc # "none" => d # new
    BY <2>1
  <2>5. \A d \in Ids : put[d].pc = "none" /\ put'[d].pc # "none" => d = new
    BY <2>1
  <2> HIDE DEF new
  <2> QED BY <2>1, <2>2, <2>3, <2>4, <2>5
<1>3. ASSUME NEW id \in Ids, PutProgress(id) PROVE Goal
  <2>1. PutMoves(id) /\ started' = started
    BY <1>3, ProgressMoves
  <2> QED BY <1>0, <2>1 DEF PutMoves
<1>4. ASSUME LeaderRestart PROVE Goal
  <2>1. started' = started
    BY <1>4 DEF LeaderRestart, obsVars
  <2> QED BY <1>0, <1>4, <2>1, RestartPuts
<1>5. CASE UNCHANGED vars
  BY <1>1, <1>5 DEF vars, obsVars
<1>6. ASSUME PutStep PROVE Goal
  BY <1>2, <1>3, <1>6 DEF PutStep, PutProgress
<1> QED BY <1>1, <1>4, <1>5, <1>6, PutsSame DEF Next

\* What was a put stays that put.
LEMMA IsPutKept ==
    ASSUME TypeOK, PutsNumbered, [Next]_vars, NEW d, NEW c, NEW v, IsPut(d, c, v)
    PROVE  IsPut(d, c, v)'
  BY PutsKept DEF IsPut

(***************************************************************************)
(* The table.                                                              *)
(***************************************************************************)
\* Steps that neither write an entry of the log, evict a node nor restart the
\* leader leave its tables and its log alone.
LEMMA TableSame ==
    ASSUME \/ GetStep
           \/ \E c \in Chunks, reps \in SUBSET Storage : PutStart(c, reps)
           \/ \E id \in Ids : PutProgress(id) /\ ~PutCommit(id) /\ ~PutUnavailable(id)
           \/ \E n \in Storage : \/ HeartbeatRefused(n) \/ RepairStep(n)
                                 \/ NodeCrash(n) \/ NodeRestart(n)
    PROVE  UNCHANGED tableVars
<1>1. ASSUME GetStep PROVE UNCHANGED tableVars
  BY <1>1 DEF GetStep, GetInfo, GetRead, GetReplicas, GetFailed
<1>2. ASSUME NEW c \in Chunks, NEW reps \in SUBSET Storage, PutStart(c, reps)
      PROVE  UNCHANGED tableVars
  BY <1>2 DEF PutStart
<1>3. ASSUME NEW id \in Ids, PutProgress(id), ~PutCommit(id), ~PutUnavailable(id)
      PROVE  UNCHANGED tableVars
  BY <1>3 DEF PutProgress, PutWrite, PutWriteLost, PutCleanup, PutDecide, PutFailed
<1>4. ASSUME NEW n \in Storage, RepairStep(n) PROVE UNCHANGED tableVars
  BY <1>4 DEF RepairStep, RepairBegin, RepairStore, RepairCollect, RepairSkip, RepairInfo,
              RepairFetch
<1>5. ASSUME NEW n \in Storage, HeartbeatRefused(n) \/ NodeCrash(n) \/ NodeRestart(n)
      PROVE  UNCHANGED tableVars
  BY <1>5 DEF HeartbeatRefused, NodeCrash, NodeRestart
<1> QED BY <1>1, <1>2, <1>3, <1>4, <1>5

\* A table that is well typed and names no version that was not given out.
Listed(t) == t \in [Chunks -> ChunkEntry] /\ \A c \in Chunks : t[c].version <= started

\* The table in memory and those the log gives are.
LEMMA TablesListed ==
    ASSUME TypeOK, PutsNumbered
    PROVE  /\ Listed(table) /\ Listed(logged) /\ Listed(replayed)
           /\ tail \in SUBSET Ids /\ alive \in SUBSET Storage
  BY TypeParts DEF TableTypeOK, PutsNumbered, Listed, Ids

\* An entry of a started put and one of a delete keep a table so.
LEMMA EntryListed ==
    ASSUME TypeOK, PutsNumbered
    PROVE  /\ \A t, id : Listed(t) /\ id \in Ids /\ put[id].pc # "none" =>
                Listed(PutApplied(t, put[id].c, put[id].ver, put[id].reps))
           /\ \A t, c : Listed(t) /\ c \in Chunks => Listed(DeleteApplied(t, c))
<1>0. started \in Nat
  BY TypeParts, Numbers
<1>1. ASSUME NEW t, Listed(t), NEW c \in Chunks, NEW e \in ChunkEntry, e.version <= started
      PROVE  Listed([t EXCEPT ![c] = e])
  BY <1>1 DEF Listed
<1>2. ASSUME NEW t, Listed(t), NEW id \in Ids, put[id].pc # "none"
      PROVE  Listed(PutApplied(t, put[id].c, put[id].ver, put[id].reps))
  <2> DEFINE e == [version |-> put[id].ver, state |-> "STABLE", reps |-> put[id].reps, old |-> {}]
  <2>1. put[id].ver \in Ids /\ put[id].ver <= started /\ put[id].c \in Chunks /\ put[id] \in PutState
    BY <1>2, TypeParts DEF PutsNumbered
  <2>2. e \in ChunkEntry /\ e.version <= started
    BY <2>1, Numbers DEF ChunkEntry, PutState
  <2>3. PutApplied(t, put[id].c, put[id].ver, put[id].reps) = [t EXCEPT ![put[id].c] = e]
    BY DEF PutApplied
  <2> HIDE DEF e
  <2> QED BY <1>1, <1>2, <2>1, <2>2, <2>3
<1>3. ASSUME NEW t, Listed(t), NEW c \in Chunks PROVE Listed(DeleteApplied(t, c))
  <2>1. NoChunk \in ChunkEntry /\ NoChunk.version <= started
    BY <1>0, Numbers DEF NoChunk, ChunkEntry
  <2> QED BY <1>1, <1>3, <2>1 DEF DeleteApplied
<1> QED BY <1>2, <1>3

\* The tables stay well typed and name no version that was not given out.
LEMMA TableNext ==
    ASSUME TypeOK, PutsNumbered, [Next]_vars
    PROVE  /\ TableTypeOK'
           /\ \A c \in Chunks : /\ table'[c].version <= started'
                                /\ logged'[c].version <= started'
                                /\ replayed'[c].version <= started'
<1> DEFINE Kept == /\ Listed(table') /\ Listed(logged') /\ Listed(replayed')
                   /\ tail' \in SUBSET Ids /\ alive' \in SUBSET Storage
<1>0. /\ Listed(table) /\ Listed(logged) /\ Listed(replayed)
      /\ tail \in SUBSET Ids /\ alive \in SUBSET Storage
  BY TablesListed
<1>1. ASSUME Kept
      PROVE  /\ TableTypeOK'
             /\ \A c \in Chunks : /\ table'[c].version <= started'
                                  /\ logged'[c].version <= started'
                                  /\ replayed'[c].version <= started'
  <2>1. started \in Nat /\ started' \in Nat /\ started' >= started
    BY TypeParts, PutsKept, Numbers
  <2>2. TableTypeOK'
    BY <1>1 DEF TableTypeOK, Listed, Ids
  <2>3. ASSUME NEW t, Listed(t), NEW c \in Chunks PROVE t[c].version <= started'
    <3>1. t[c].version \in Nat /\ t[c].version <= started
      BY <2>3, Numbers DEF Listed, ChunkEntry
    <3> QED BY <2>1, <3>1
  <2> QED BY <1>1, <2>2, <2>3
<1>2. ASSUME UNCHANGED tableVars PROVE Kept
  BY <1>0, <1>2 DEF tableVars
<1>3. ASSUME NEW id \in Ids, PutCommit(id) PROVE Kept
  <2>1. put[id].pc # "none" /\ alive' = alive
    BY <1>3 DEF PutCommit
  <2>2. /\ table' = PutApplied(table, put[id].c, put[id].ver, put[id].reps)
        /\ logged' = PutApplied(logged, put[id].c, put[id].ver, put[id].reps)
        /\ replayed' = logged' /\ tail' = {}
    BY <1>3 DEF PutCommit, ApplyPutChunk, CommitAll
  <2> QED BY <1>0, <2>1, <2>2, EntryListed
<1>4. ASSUME NEW id \in Ids, PutUnavailable(id) PROVE Kept
  <2>1. put[id].pc # "none" /\ UNCHANGED <<table, replayed, alive>>
    BY <1>4 DEF PutUnavailable, LogOnly
  <2>2. /\ logged' = PutApplied(logged, put[id].c, put[id].ver, put[id].reps)
        /\ tail' = tail \union {id}
    BY <1>4 DEF PutUnavailable, LogOnly
  <2> QED BY <1>0, <2>1, <2>2, EntryListed
<1>5. ASSUME NEW c \in Chunks, DeleteChunk(c) PROVE Kept
  <2>1. /\ table' = DeleteApplied(table, c) /\ logged' = DeleteApplied(logged, c)
        /\ replayed' = logged' /\ tail' = {} /\ alive' = alive
    BY <1>5 DEF DeleteChunk, ApplyDeleteChunk, CommitAll
  <2> QED BY <1>0, <2>1, EntryListed
<1>6. ASSUME NEW c \in Chunks, DeleteUnavailable(c) PROVE Kept
  <2>1. /\ logged' = DeleteApplied(logged, c) /\ tail' = tail
        /\ UNCHANGED <<table, replayed, alive>>
    BY <1>6 DEF DeleteUnavailable, LogOnly
  <2> QED BY <1>0, <2>1, EntryListed
<1>7. ASSUME NEW n \in Storage, Heartbeat(n) \/ Evict(n) PROVE Kept
  BY <1>0, <1>7 DEF Heartbeat, ApplyHeartbeat, CommitAll, Evict, EvictStaleNode
<1>8. ASSUME LeaderRestart PROVE Kept
  BY <1>0, <1>8 DEF LeaderRestart, ReplayTable
<1>9. CASE UNCHANGED vars
  BY <1>1, <1>2, <1>9 DEF vars
<1>10. ASSUME PutStep PROVE Kept
  <2>1. ASSUME NEW id \in Ids, PutProgress(id) PROVE Kept
    BY <1>2, <1>3, <1>4, <2>1, TableSame
  <2>2. ASSUME NEW c \in Chunks, NEW reps \in SUBSET Storage, PutStart(c, reps) PROVE Kept
    BY <1>2, <2>2, TableSame
  <2> QED BY <1>10, <2>1, <2>2 DEF PutStep, PutProgress
<1>11. ASSUME GetStep PROVE Kept
  BY <1>2, <1>11, TableSame
<1>12. ASSUME NEW n \in Storage, HeartbeatRefused(n) \/ RepairStep(n) \/ NodeCrash(n) \/ NodeRestart(n)
       PROVE  Kept
  BY <1>2, <1>12, TableSame
<1> HIDE DEF Kept
<1>13. CASE Next
  BY <1>1, <1>5, <1>6, <1>7, <1>8, <1>10, <1>11, <1>12, <1>13 DEF Next
<1> QED BY <1>9, <1>13

(***************************************************************************)
(* The chunk stores.                                                       *)
(***************************************************************************)
\* Steps that write no data.
LEMMA StoreSame ==
    ASSUME \/ GetStep
           \/ \E c \in Chunks, reps \in SUBSET Storage : PutStart(c, reps)
           \/ \E id \in Ids : PutDecide(id) \/ PutCommit(id) \/ PutUnavailable(id) \/ PutFailed(id)
           \/ \E c \in Chunks : DeleteChunk(c) \/ DeleteUnavailable(c)
           \/ \E n \in Storage : \/ Heartbeat(n) \/ HeartbeatRefused(n)
                                 \/ NodeCrash(n) \/ NodeRestart(n) \/ Evict(n)
           \/ \E n \in Storage : RepairBegin(n) \/ RepairSkip(n)
           \/ \E n \in Storage, c \in Chunks : RepairInfo(n, c)
           \/ \E n, p \in Storage : RepairFetch(n, p)
    PROVE  store' = store
<1>1. ASSUME GetStep PROVE store' = store
  BY <1>1 DEF GetStep, GetInfo, GetRead, GetReplicas, GetFailed, nodeVars
<1>2. ASSUME NEW c \in Chunks, NEW reps \in SUBSET Storage, PutStart(c, reps) PROVE store' = store
  BY <1>2 DEF PutStart, nodeVars
<1>3. ASSUME NEW id \in Ids, PutDecide(id) \/ PutCommit(id) \/ PutUnavailable(id) \/ PutFailed(id)
      PROVE  store' = store
  BY <1>3 DEF PutDecide, PutCommit, PutUnavailable, PutFailed, nodeVars
<1>4. ASSUME NEW c \in Chunks, DeleteChunk(c) \/ DeleteUnavailable(c) PROVE store' = store
  BY <1>4 DEF DeleteChunk, DeleteUnavailable, nodeVars
<1>5. ASSUME NEW n \in Storage,
             Heartbeat(n) \/ HeartbeatRefused(n) \/ NodeCrash(n) \/ NodeRestart(n) \/ Evict(n)
      PROVE  store' = store
  BY <1>5 DEF Heartbeat, HeartbeatRefused, NodeCrash, NodeRestart, Evict, nodeVars
<1>6. ASSUME NEW n \in Storage, RepairBegin(n) \/ RepairSkip(n) PROVE store' = store
  BY <1>6 DEF RepairBegin, RepairSkip, nodeVars
<1>7. ASSUME NEW n \in Storage, NEW c \in Chunks, RepairInfo(n, c) PROVE store' = store
  BY <1>7 DEF RepairInfo, nodeVars
<1>8. ASSUME NEW n \in Storage, NEW p \in Storage, RepairFetch(n, p) PROVE store' = store
  BY <1>8 DEF RepairFetch, nodeVars
<1> QED BY <1>1, <1>2, <1>3, <1>4, <1>5, <1>6, <1>7, <1>8

\* The only steps that change what is stored, and what they may leave there.
LEMMA StoreSteps ==
    ASSUME DataInv, [Next]_vars
    PROVE  /\ store' \in [Storage -> [Chunks -> [Ids -> Data]]]
           /\ \A n \in Storage, c \in Chunks, v \in Ids :
                \/ store'[n][c][v] \in {NoData, store[n][c][v]}
                \/ IsPut(store'[n][c][v], c, v)
<1> DEFINE Goal ==
           /\ store' \in [Storage -> [Chunks -> [Ids -> Data]]]
           /\ \A n \in Storage, c \in Chunks, v \in Ids :
                \/ store'[n][c][v] \in {NoData, store[n][c][v]}
                \/ IsPut(store'[n][c][v], c, v)
<1>0. TypeOK /\ store \in [Storage -> [Chunks -> [Ids -> Data]]]
  BY TypeParts DEF DataInv
<1>1. ASSUME store' = store PROVE Goal
  BY <1>0, <1>1
<1>2. ASSUME NEW n \in Storage, NEW c \in Chunks, NEW v \in Ids, NEW d \in Data,
             IsPut(d, c, v), StoreWrite(n, c, v, d)
      PROVE  Goal
  <2>1. /\ store' \in [Storage -> [Chunks -> [Ids -> Data]]]
        /\ \A m \in Storage, b \in Chunks, u \in Ids :
             store'[m][b][u] = IF m = n /\ b = c /\ u = v THEN d ELSE store[m][b][u]
    BY <1>0, <1>2, WriteStored
  <2>2. ASSUME NEW m \in Storage, NEW b \in Chunks, NEW u \in Ids
        PROVE  store'[m][b][u] = store[m][b][u] \/ IsPut(store'[m][b][u], b, u)
    BY <1>2, <2>1, <2>2
  <2> QED BY <2>1, <2>2
<1>3. ASSUME NEW n \in Storage, NEW cs, StoreRemove(n, cs) PROVE Goal
  BY <1>0, <1>3, RemoveStored
<1>4. ASSUME NEW id \in Ids, NEW n \in Storage, PutWrite(id, n) \/ PutWriteLost(id, n) PROVE Goal
  <2>1. put[id].pc # "none" /\ id \in Data
    BY <1>4, Numbers DEF PutWrite, PutWriteLost
  <2>2. put[id].c \in Chunks /\ put[id].ver \in Ids /\ IsPut(id, put[id].c, put[id].ver)
    BY <2>1 DEF DataInv, PutsNumbered, IsPut
  <2>3. store' = store \/ StoreWrite(n, put[id].c, put[id].ver, id)
    BY <1>4 DEF PutWrite, PutWriteLost
  <2> QED BY <1>1, <1>2, <2>1, <2>2, <2>3
<1>5. ASSUME NEW id \in Ids, NEW n \in Storage, PutCleanup(id, n) PROVE Goal
  BY <1>1, <1>3, <1>5 DEF PutCleanup
<1>6. ASSUME NEW n \in Storage, RepairStore(n) PROVE Goal
  <2>1. rep[n].pc = "store" /\ StoreWrite(n, rep[n].c, rep[n].ver, rep[n].data)
    BY <1>6 DEF RepairStore
  <2>2. /\ rep[n].c \in Chunks /\ rep[n].ver \in Ids
        /\ IsPut(rep[n].data, rep[n].c, rep[n].ver)
    BY <2>1 DEF DataInv, RepairsArePuts
  <2>3. rep[n].data \in Data
    BY <2>2, Numbers DEF IsPut
  <2> QED BY <1>2, <2>1, <2>2, <2>3
<1>7. ASSUME NEW n \in Storage, RepairCollect(n) PROVE Goal
  BY <1>3, <1>7 DEF RepairCollect
<1>8. ASSUME LeaderRestart PROVE Goal
  <2>1. store' = [n \in Storage |-> [c \in Chunks |->
                   IF n \in up /\ \E id \in tail : put[id].c = c /\ n \in put[id].reps
                   THEN [v \in Ids |-> NoData] ELSE store[n][c]]]
    BY <1>8 DEF LeaderRestart
  <2>2. \A n \in Storage, c \in Chunks :
          store'[n][c] = [v \in Ids |-> NoData] \/ store'[n][c] = store[n][c]
    BY <2>1
  <2>3. [v \in Ids |-> NoData] \in [Ids -> Data]
    BY Numbers
  <2>4. store' \in [Storage -> [Chunks -> [Ids -> Data]]]
    BY <1>0, <2>1, <2>3
  <2>5. \A n \in Storage, c \in Chunks, v \in Ids : store'[n][c][v] \in {NoData, store[n][c][v]}
    BY <2>2
  <2> QED BY <2>4, <2>5
<1>9. CASE UNCHANGED vars
  BY <1>1, <1>9 DEF vars, nodeVars
<1>10. ASSUME PutStep PROVE Goal
  BY <1>1, <1>4, <1>5, <1>10, StoreSame DEF PutStep
<1>11. ASSUME NEW n \in Storage, RepairStep(n) PROVE Goal
  BY <1>1, <1>6, <1>7, <1>11, StoreSame DEF RepairStep
<1> QED BY <1>1, <1>8, <1>9, <1>10, <1>11, StoreSame DEF Next

\* Every stored version stays, or becomes, one of a put.
LEMMA StoredNext ==
    ASSUME DataInv, [Next]_vars
    PROVE  StoredArePuts'
<1> SUFFICES ASSUME NEW n \in Storage, NEW c \in Chunks, NEW v \in Ids, store'[n][c][v] # NoData
             PROVE  IsPut(store[n][c][v], c, v)'
  BY DEF StoredArePuts
<1>1. IsPut(store'[n][c][v], c, v)
  BY StoreSteps DEF DataInv, StoredArePuts
<1>2. TypeOK /\ PutsNumbered
  BY DEF DataInv
<1>3. \A d : IsPut(d, c, v) => d \in Ids /\ put'[d].pc # "none" /\ put'[d].c = c /\ put'[d].ver = v
  BY <1>2, IsPutKept DEF IsPut
<1> QED BY <1>1, <1>3 DEF IsPut

(***************************************************************************)
(* Replica repair.                                                         *)
(***************************************************************************)
\* What a step of the repair on node n may make of its state.
RepairSound(r) ==
    /\ r \in RepState
    /\ r.pc \in {"fetch", "store"} => r.c \in Chunks
    /\ r.pc = "store" => r.ver \in Ids /\ IsPut(r.data, r.c, r.ver)

\* The repair between two chunks, and the one that is over.
LEMMA RepairRests ==
    /\ RepairSound(NoRep)
    /\ \A s, t \in SUBSET Chunks : RepairSound([NoRep EXCEPT !.pc = "scan", !.set = s, !.todo = t])
<1>1. NoRep \in RepState /\ NoRep.pc = "idle"
  BY Numbers DEF NoRep, RepState
<1>2. ASSUME NEW s \in SUBSET Chunks, NEW t \in SUBSET Chunks
      PROVE  LET r == [NoRep EXCEPT !.pc = "scan", !.set = s, !.todo = t]
             IN r \in RepState /\ r.pc = "scan"
  BY <1>1, <1>2 DEF RepState
<1> QED BY <1>1, <1>2 DEF RepairSound

\* The repair that learned the version and the peers of a chunk.
LEMMA RepairInfoSound ==
    ASSUME DataInv, NEW n \in Storage, NEW c \in Chunks, RepairInfo(n, c)
    PROVE  \E r : RepairSound(r) /\ rep' = [rep EXCEPT ![n] = r]
<1>0. /\ rep[n] \in RepState /\ rep[n].pc = "scan"
      /\ table[c].version \in Version /\ table[c].reps \in SUBSET Storage
  BY TypeParts DEF DataInv, RepairInfo, TableTypeOK, ChunkEntry
<1>1. CASE Present(c)
  <2> DEFINE r == [rep[n] EXCEPT !.pc = "fetch", !.todo = @ \ {c}, !.c = c,
                                 !.ver = table[c].version, !.peers = table[c].reps \ {n}]
  <2>1. rep' = [rep EXCEPT ![n] = r]
    BY <1>1 DEF RepairInfo
  <2>2. r \in RepState /\ r.pc = "fetch" /\ r.c = c
    BY <1>0 DEF RepState
  <2> HIDE DEF r
  <2> QED BY <2>1, <2>2 DEF RepairSound
<1>2. CASE ~Present(c)
  <2> DEFINE r == [rep[n] EXCEPT !.todo = @ \ {c}]
  <2>1. rep' = [rep EXCEPT ![n] = r]
    BY <1>2 DEF RepairInfo
  <2>2. r \in RepState /\ r.pc = "scan"
    BY <1>0 DEF RepState
  <2> HIDE DEF r
  <2> QED BY <2>1, <2>2 DEF RepairSound
<1> QED BY <1>1, <1>2

\* The repair that fetched what a peer holds: a put of the chunk, under its version.
LEMMA RepairFetchSound ==
    ASSUME DataInv, NEW n \in Storage, NEW p \in Storage, RepairFetch(n, p)
    PROVE  \E r : RepairSound(r) /\ rep' = [rep EXCEPT ![n] = r]
<1> DEFINE c == rep[n].c
           v == LatestVersion(p, c)
           r == [rep[n] EXCEPT !.pc = "store", !.peers = {}, !.ver = v, !.data = store[p][c][v]]
<1>0. rep[n] \in RepState /\ rep[n].pc = "fetch" /\ c \in Chunks /\ Serves(p, c, rep[n].ver)
  BY TypeParts DEF DataInv, RepairsArePuts, RepairFetch
<1>1. v \in Held(p, c) /\ v \in Ids
  BY <1>0, Latest DEF Serves
<1>2. store[p][c][v] # NoData /\ IsPut(store[p][c][v], c, v)
  BY <1>0, <1>1 DEF Held, DataInv, StoredArePuts
<1>3. rep' = [rep EXCEPT ![n] = r]
  BY DEF RepairFetch
<1>4. v \in Version /\ store[p][c][v] \in Data
  BY <1>1, <1>2, Numbers DEF IsPut
<1> HIDE DEF v
<1>5. /\ r \in RepState /\ r.pc = "store" /\ r.c = c /\ r.ver = v /\ r.data = store[p][c][v]
  BY <1>0, <1>4 DEF RepState
<1> HIDE DEF r, c
<1> QED BY <1>0, <1>1, <1>2, <1>3, <1>5 DEF RepairSound

\* Steps that are not of a repair, nor a crash of its node.
LEMMA RepairsSame ==
    ASSUME \/ PutStep \/ GetStep \/ LeaderRestart
           \/ \E c \in Chunks : DeleteChunk(c) \/ DeleteUnavailable(c)
           \/ \E n \in Storage : Heartbeat(n) \/ HeartbeatRefused(n) \/ NodeRestart(n) \/ Evict(n)
    PROVE  rep' = rep
<1>1. ASSUME PutStep PROVE rep' = rep
  BY <1>1 DEF PutStep, PutStart, PutWrite, PutWriteLost, PutCleanup, PutDecide, PutCommit,
              PutUnavailable, PutFailed
<1>2. ASSUME GetStep PROVE rep' = rep
  BY <1>2 DEF GetStep, GetInfo, GetRead, GetReplicas, GetFailed
<1>3. ASSUME LeaderRestart PROVE rep' = rep
  BY <1>3 DEF LeaderRestart
<1>4. ASSUME NEW c \in Chunks, DeleteChunk(c) \/ DeleteUnavailable(c) PROVE rep' = rep
  BY <1>4 DEF DeleteChunk, DeleteUnavailable
<1>5. ASSUME NEW n \in Storage, Heartbeat(n) \/ HeartbeatRefused(n) \/ NodeRestart(n) \/ Evict(n)
      PROVE  rep' = rep
  BY <1>5 DEF Heartbeat, HeartbeatRefused, NodeRestart, Evict
<1> QED BY <1>1, <1>2, <1>3, <1>4, <1>5

\* Repairs stay well typed and store puts only.
LEMMA RepairsNext ==
    ASSUME DataInv, [Next]_vars
    PROVE  rep' \in [Storage -> RepState] /\ RepairsArePuts'
<1>0. TypeOK /\ PutsNumbered /\ rep \in [Storage -> RepState] /\ assigned \in [Storage -> SUBSET Chunks]
  BY TypeParts DEF DataInv
<1>1. \A n \in Storage : RepairSound(rep[n])
  BY <1>0 DEF DataInv, RepairsArePuts, RepairSound
<1>2. ASSUME rep' \in [Storage -> RepState], \A n \in Storage : RepairSound(rep'[n])
      PROVE  rep' \in [Storage -> RepState] /\ RepairsArePuts'
  <2>1. \A d, c, v : IsPut(d, c, v) =>
          d \in Ids /\ put'[d].pc # "none" /\ put'[d].c = c /\ put'[d].ver = v
    BY <1>0, IsPutKept DEF IsPut
  <2>2. ASSUME NEW n \in Storage
        PROVE  /\ rep'[n].pc \in {"fetch", "store"} => rep'[n].c \in Chunks
               /\ rep'[n].pc = "store" => rep'[n].ver \in Ids /\ IsPut(rep[n].data, rep[n].c, rep[n].ver)'
    <3>1. RepairSound(rep'[n])
      BY <1>2, <2>2
    <3>2. IsPut(rep'[n].data, rep'[n].c, rep'[n].ver) => IsPut(rep[n].data, rep[n].c, rep[n].ver)'
      BY <2>1 DEF IsPut
    <3> QED BY <3>1, <3>2 DEF RepairSound
  <2> QED BY <1>2, <2>2 DEF RepairsArePuts
<1>3. ASSUME NEW n \in Storage, NEW r, RepairSound(r), rep' = [rep EXCEPT ![n] = r]
      PROVE  rep' \in [Storage -> RepState] /\ RepairsArePuts'
  <2>0. r \in RepState
    BY <1>3 DEF RepairSound
  <2>1. rep' \in [Storage -> RepState] /\ \A m \in Storage : rep'[m] = IF m = n THEN r ELSE rep[m]
    BY <1>0, <1>3, <2>0
  <2>2. \A m \in Storage : RepairSound(rep'[m])
    BY <1>1, <1>3, <2>1
  <2> QED BY <1>2, <2>1, <2>2
<1>4. ASSUME rep' = rep PROVE rep' \in [Storage -> RepState] /\ RepairsArePuts'
  BY <1>0, <1>1, <1>2, <1>4
<1>5. ASSUME NEW n \in Storage, RepairStep(n)
      PROVE  rep' \in [Storage -> RepState] /\ RepairsArePuts'
  <2>1. rep[n].set \in SUBSET Chunks /\ rep[n].todo \in SUBSET Chunks /\ assigned[n] \in SUBSET Chunks
    BY <1>0 DEF RepState
  <2>2. CASE RepairBegin(n)
    BY <1>3, <2>1, <2>2, RepairRests DEF RepairBegin
  <2>3. CASE RepairStore(n)
    BY <1>3, <2>1, <2>3, RepairRests DEF RepairStore
  <2>4. CASE RepairSkip(n)
    BY <1>3, <2>1, <2>4, RepairRests DEF RepairSkip
  <2>5. CASE RepairCollect(n)
    BY <1>3, <2>5, RepairRests DEF RepairCollect
  <2>6. ASSUME NEW c \in Chunks, RepairInfo(n, c)
        PROVE  rep' \in [Storage -> RepState] /\ RepairsArePuts'
    BY <1>3, <2>6, RepairInfoSound
  <2>7. ASSUME NEW p \in Storage, RepairFetch(n, p)
        PROVE  rep' \in [Storage -> RepState] /\ RepairsArePuts'
    BY <1>3, <2>7, RepairFetchSound
  <2> QED BY <1>5, <2>2, <2>3, <2>4, <2>5, <2>6, <2>7 DEF RepairStep
<1>6. ASSUME NEW n \in Storage, NodeCrash(n)
      PROVE  rep' \in [Storage -> RepState] /\ RepairsArePuts'
  BY <1>3, <1>6, RepairRests DEF NodeCrash
<1>7. CASE UNCHANGED vars
  BY <1>4, <1>7 DEF vars
<1> QED BY <1>4, <1>5, <1>6, <1>7, RepairsSame DEF Next

(***************************************************************************)
(* Reads, nodes and what the reads are judged by.                          *)
(***************************************************************************)
\* Gets stay well typed and about a chunk.
LEMMA GetsNext ==
    ASSUME DataInv, [Next]_vars
    PROVE  get' \in [Readers -> GetState] /\ GetsNamed'
<1>0. /\ get \in [Readers -> GetState] /\ stale \in SUBSET Ids /\ passed \in SUBSET Ids
      /\ table \in [Chunks -> ChunkEntry]
  BY TypeParts DEF DataInv, TableTypeOK
<1>1. NoGet \in GetState /\ NoGet.pc = "idle"
  BY Numbers DEF NoGet, GetState
<1>2. ASSUME get' = get PROVE get' \in [Readers -> GetState] /\ GetsNamed'
  BY <1>0, <1>2 DEF DataInv, GetsNamed
<1>3. ASSUME NEW r \in Readers, NEW g \in GetState, g.pc # "idle" => g.c \in Chunks,
             get' = [get EXCEPT ![r] = g]
      PROVE  get' \in [Readers -> GetState] /\ GetsNamed'
  <2>1. get' \in [Readers -> GetState] /\ \A q \in Readers : get'[q] = IF q = r THEN g ELSE get[q]
    BY <1>0, <1>3
  <2> QED BY <1>3, <2>1 DEF DataInv, GetsNamed
<1>4. ASSUME NEW r \in Readers, NEW c \in Chunks, GetInfo(r, c)
      PROVE  get' \in [Readers -> GetState] /\ GetsNamed'
  <2> DEFINE g == [pc |-> "info", c |-> c, ver |-> table[c].version,
                   from |-> {}, stale |-> stale, passed |-> passed]
  <2>1. g \in GetState /\ g.c = c
    BY <1>0 DEF GetState, ChunkEntry
  <2>2. get' = [get EXCEPT ![r] = g]
    BY <1>4 DEF GetInfo
  <2> HIDE DEF g
  <2> QED BY <1>3, <2>1, <2>2
<1>5. ASSUME NEW r \in Readers, GetReplicas(r)
      PROVE  get' \in [Readers -> GetState] /\ GetsNamed'
  <2> DEFINE g == [get[r] EXCEPT !.pc = "read",
                                 !.from = table[get[r].c].reps \union table[get[r].c].old]
  <2>1. get[r].pc = "info" /\ get[r].c \in Chunks
    BY <1>5 DEF GetReplicas, DataInv, GetsNamed
  <2>2. table[get[r].c].reps \union table[get[r].c].old \in SUBSET Storage
    BY <1>0, <2>1 DEF ChunkEntry
  <2>3. g \in GetState /\ g.c = get[r].c
    BY <1>0, <2>2 DEF GetState
  <2>4. get' = [get EXCEPT ![r] = g]
    BY <1>0, <1>5 DEF GetReplicas
  <2> HIDE DEF g
  <2> QED BY <1>3, <2>1, <2>3, <2>4
<1>6. ASSUME NEW r \in Readers, NEW n \in Storage, GetRead(r, n)
      PROVE  get' \in [Readers -> GetState] /\ GetsNamed'
  BY <1>1, <1>3, <1>6 DEF GetRead
<1>7. ASSUME NEW r \in Readers, GetFailed(r) PROVE get' \in [Readers -> GetState] /\ GetsNamed'
  BY <1>1, <1>3, <1>7 DEF GetFailed
<1>8. ASSUME LeaderRestart PROVE get' \in [Readers -> GetState] /\ GetsNamed'
  <2>1. get' = [r \in Readers |-> IF get[r].pc = "info" THEN NoGet ELSE get[r]]
    BY <1>8 DEF LeaderRestart
  <2> QED BY <1>0, <1>1, <2>1 DEF DataInv, GetsNamed
<1>9. ASSUME PutStep PROVE get' = get
  BY <1>9 DEF PutStep, PutStart, PutWrite, PutWriteLost, PutCleanup, PutDecide, PutCommit,
              PutUnavailable, PutFailed
<1>10. ASSUME NEW n \in Storage, RepairStep(n) PROVE get' = get
  BY <1>10 DEF RepairStep, RepairBegin, RepairStore, RepairCollect, RepairSkip, RepairInfo, RepairFetch
<1>11. ASSUME NEW n \in Storage,
              Heartbeat(n) \/ HeartbeatRefused(n) \/ NodeCrash(n) \/ NodeRestart(n) \/ Evict(n)
       PROVE  get' = get
  BY <1>11 DEF Heartbeat, HeartbeatRefused, NodeCrash, NodeRestart, Evict
<1>12. ASSUME NEW c \in Chunks, DeleteChunk(c) \/ DeleteUnavailable(c) PROVE get' = get
  BY <1>12 DEF DeleteChunk, DeleteUnavailable
<1>13. CASE UNCHANGED vars
  BY <1>2, <1>13 DEF vars
<1> QED BY <1>2, <1>4, <1>5, <1>6, <1>7, <1>8, <1>9, <1>10, <1>11, <1>12, <1>13 DEF Next, GetStep

\* A get returns what a put of its chunk stored, at the version it asked for or above.
LEMMA ReadsAPut ==
    ASSUME DataInv, NEW r \in Readers, NEW n \in Storage, GetRead(r, n)
    PROVE  \E id \in Ids :
             /\ IsPut(id, get[r].c, LatestVersion(n, get[r].c))
             /\ LatestVersion(n, get[r].c) >= get[r].ver
             /\ get[r].pc = "read" /\ get[r].c \in Chunks
             /\ seen' = seen \union {[id |-> id, stale |-> get[r].stale, passed |-> get[r].passed]}
             /\ passed' = passed \union put[id].prior
<1> DEFINE c == get[r].c
           v == LatestVersion(n, c)
<1>1. get[r].pc = "read" /\ c \in Chunks /\ Serves(n, c, get[r].ver)
  BY DEF GetRead, DataInv, GetsNamed
<1>2. v \in Held(n, c) /\ v \in Ids /\ v >= get[r].ver
  BY <1>1, Latest DEF Serves
<1>3. IsPut(store[n][c][v], c, v)
  BY <1>1, <1>2 DEF Held, DataInv, StoredArePuts
<1>4. /\ seen' = seen \union {[id |-> store[n][c][v], stale |-> get[r].stale, passed |-> get[r].passed]}
      /\ passed' = passed \union put[store[n][c][v]].prior
  BY DEF GetRead
<1>5. store[n][c][v] \in Ids
  BY <1>3 DEF IsPut
<1> QED BY <1>1, <1>2, <1>3, <1>4, <1>5

\* The history variables stay well typed.
LEMMA ObservedNext ==
    ASSUME DataInv, [Next]_vars
    PROVE  stale' \in SUBSET Ids /\ passed' \in SUBSET Ids /\ seen' \subseteq SeenState
<1>0. /\ stale \in SUBSET Ids /\ passed \in SUBSET Ids /\ seen \subseteq SeenState
      /\ put \in [Ids -> PutState] /\ get \in [Readers -> GetState]
  BY TypeParts DEF DataInv
<1>1. ASSUME NEW id \in Ids, PutCommit(id)
      PROVE  stale' \in SUBSET Ids /\ passed' \in SUBSET Ids /\ seen' \subseteq SeenState
  BY <1>0, <1>1 DEF PutCommit, PutState
<1>2. ASSUME NEW c \in Chunks, DeleteChunk(c)
      PROVE  stale' \in SUBSET Ids /\ passed' \in SUBSET Ids /\ seen' \subseteq SeenState
  BY <1>0, <1>2 DEF DeleteChunk, Ended
<1>3. ASSUME NEW r \in Readers, NEW n \in Storage, GetRead(r, n)
      PROVE  stale' \in SUBSET Ids /\ passed' \in SUBSET Ids /\ seen' \subseteq SeenState
  <2>1. PICK id \in Ids :
          /\ seen' = seen \union {[id |-> id, stale |-> get[r].stale, passed |-> get[r].passed]}
          /\ passed' = passed \union put[id].prior
    BY <1>3, ReadsAPut
  <2>2. [id |-> id, stale |-> get[r].stale, passed |-> get[r].passed] \in SeenState
    BY <1>0 DEF GetState, SeenState
  <2>3. stale' = stale
    BY <1>3 DEF GetRead
  <2>4. put[id].prior \in SUBSET Ids
    BY <1>0 DEF PutState
  <2> QED BY <1>0, <2>1, <2>2, <2>3, <2>4
<1>4. ASSUME UNCHANGED <<stale, passed, seen>>
      PROVE  stale' \in SUBSET Ids /\ passed' \in SUBSET Ids /\ seen' \subseteq SeenState
  BY <1>0, <1>4
<1>5. ASSUME NEW c \in Chunks, NEW reps \in SUBSET Storage, PutStart(c, reps)
      PROVE  UNCHANGED <<stale, passed, seen>>
  BY <1>5 DEF PutStart
<1>6. ASSUME NEW id \in Ids, PutProgress(id), ~PutCommit(id) PROVE UNCHANGED <<stale, passed, seen>>
  BY <1>6 DEF PutProgress, PutWrite, PutWriteLost, PutCleanup, PutDecide, PutUnavailable,
              PutFailed, obsVars
<1>7. ASSUME NEW r \in Readers, (\E c \in Chunks : GetInfo(r, c)) \/ GetReplicas(r) \/ GetFailed(r)
      PROVE  UNCHANGED <<stale, passed, seen>>
  BY <1>7 DEF GetInfo, GetReplicas, GetFailed, obsVars
<1>8. ASSUME NEW n \in Storage, RepairStep(n) PROVE UNCHANGED <<stale, passed, seen>>
  BY <1>8 DEF RepairStep, RepairBegin, RepairStore, RepairCollect, RepairSkip, RepairInfo,
              RepairFetch, obsVars
<1>9. ASSUME NEW n \in Storage,
             Heartbeat(n) \/ HeartbeatRefused(n) \/ NodeCrash(n) \/ NodeRestart(n) \/ Evict(n)
      PROVE  UNCHANGED <<stale, passed, seen>>
  BY <1>9 DEF Heartbeat, HeartbeatRefused, NodeCrash, NodeRestart, Evict, obsVars
<1>10. ASSUME LeaderRestart PROVE UNCHANGED <<stale, passed, seen>>
  BY <1>10 DEF LeaderRestart, obsVars
<1>11. CASE UNCHANGED vars
  BY <1>4, <1>11 DEF vars, obsVars
<1>13. ASSUME NEW c \in Chunks, DeleteUnavailable(c) PROVE UNCHANGED <<stale, passed, seen>>
  BY <1>13 DEF DeleteUnavailable, obsVars
<1>12. ASSUME PutStep
       PROVE  stale' \in SUBSET Ids /\ passed' \in SUBSET Ids /\ seen' \subseteq SeenState
  BY <1>1, <1>4, <1>5, <1>6, <1>12 DEF PutStep, PutProgress
<1> QED BY <1>2, <1>3, <1>4, <1>7, <1>8, <1>9, <1>10, <1>11, <1>12,
          <1>13 DEF Next, GetStep

\* The running nodes and their assignments stay well typed.
LEMMA NodesNext ==
    ASSUME DataInv, [Next]_vars
    PROVE  up' \in SUBSET Storage /\ assigned' \in [Storage -> SUBSET Chunks]
<1>0. up \in SUBSET Storage /\ assigned \in [Storage -> SUBSET Chunks]
  BY TypeParts DEF DataInv
<1>1. ASSUME NEW n \in Storage,
             Heartbeat(n) \/ HeartbeatRefused(n) \/ NodeCrash(n) \/ NodeRestart(n) \/ Evict(n)
      PROVE  up' \in SUBSET Storage /\ assigned' \in [Storage -> SUBSET Chunks]
  <2>1. AssignedTo(n) \in SUBSET Chunks
    BY DEF AssignedTo
  <2> QED BY <1>0, <1>1, <2>1 DEF Heartbeat, HeartbeatRefused, NodeCrash, NodeRestart, Evict, nodeVars
<1>2. ASSUME PutStep PROVE up' = up /\ assigned' = assigned
  BY <1>2 DEF PutStep, PutStart, PutWrite, PutWriteLost, PutCleanup, PutDecide, PutCommit,
              PutUnavailable, PutFailed, nodeVars
<1>3. ASSUME GetStep PROVE up' = up /\ assigned' = assigned
  BY <1>3 DEF GetStep, GetInfo, GetRead, GetReplicas, GetFailed, nodeVars
<1>4. ASSUME NEW n \in Storage, RepairStep(n) PROVE up' = up /\ assigned' = assigned
  BY <1>4 DEF RepairStep, RepairBegin, RepairStore, RepairCollect, RepairSkip, RepairInfo,
              RepairFetch, nodeVars
<1>5. ASSUME LeaderRestart \/ \E c \in Chunks : DeleteChunk(c) \/ DeleteUnavailable(c)
      PROVE  up' = up /\ assigned' = assigned
  BY <1>5 DEF LeaderRestart, DeleteChunk, DeleteUnavailable, nodeVars
<1>6. CASE UNCHANGED vars
  BY <1>0, <1>6 DEF vars, nodeVars
<1> QED BY <1>0, <1>1, <1>2, <1>3, <1>4, <1>5, <1>6 DEF Next

(***************************************************************************)
(* The invariant.                                                          *)
(***************************************************************************)
\* Initially nothing is stored and nothing was put.
LEMMA DataInit == Init => DataInv
<1> SUFFICES ASSUME Init PROVE DataInv
  OBVIOUS
<1>1. /\ NoPut \in PutState /\ NoPut.pc = "none"
      /\ NoGet \in GetState /\ NoGet.pc = "idle"
      /\ NoRep \in RepState /\ NoRep.pc = "idle"
      /\ NoChunk \in ChunkEntry /\ NoChunk.version = 0
  BY Numbers DEF NoPut, PutState, NoGet, GetState, NoRep, RepState, NoChunk, ChunkEntry
<1>2. TableTypeOK
  BY <1>1 DEF Init, TableInit, TableTypeOK
<1>3. TypeOK
  BY <1>1, <1>2, TypeParts, Numbers DEF Init
<1>4. PutsNumbered
  BY <1>1, <1>3, Numbers DEF Init, TableInit, PutsNumbered
<1>5. StoredArePuts
  BY Numbers DEF Init, StoredArePuts
<1>6. RepairsArePuts /\ GetsNamed
  BY <1>1 DEF Init, RepairsArePuts, GetsNamed
<1> QED BY <1>3, <1>4, <1>5, <1>6 DEF DataInv

\* Every step preserves it.
LEMMA DataNext ==
    ASSUME DataInv, [Next]_vars
    PROVE  DataInv'
<1>0. TypeOK /\ PutsNumbered
  BY DEF DataInv
<1>1. TypeOK'
  <2>1. put' \in [Ids -> PutState] /\ started' \in Data
    BY <1>0, PutsKept
  <2>2. TableTypeOK'
    BY <1>0, TableNext
  <2> QED BY <2>1, <2>2, StoreSteps, RepairsNext, GetsNext, ObservedNext, NodesNext
          DEF TypeOK, PutState, GetState, RepState, SeenState
<1>2. PutsNumbered'
  <2>1. \A c \in Chunks : /\ table'[c].version <= started'
                          /\ logged'[c].version <= started' /\ replayed'[c].version <= started'
    BY <1>0, TableNext
  <2>2. ASSUME NEW id \in Ids, put'[id].pc # "none"
        PROVE  /\ id <= started' /\ put'[id].c \in Chunks
               /\ put'[id].ver \in Ids /\ put'[id].ver <= started'
    <3>1. started \in Nat /\ started' \in Nat /\ started' >= started /\ id \in Nat
      BY <1>0, PutsKept, TypeParts, Numbers
    <3>2. CASE put[id].pc # "none"
      <4>1. /\ id <= started /\ put[id].c \in Chunks /\ put[id].ver \in Ids /\ put[id].ver <= started
            /\ put'[id].c = put[id].c /\ put'[id].ver = put[id].ver
        BY <1>0, <3>2, PutsKept DEF PutsNumbered
      <4>2. put[id].ver \in Nat
        BY <4>1, Numbers
      <4>3. id <= started' /\ put[id].ver <= started'
        BY <3>1, <4>1, <4>2
      <4> QED BY <4>1, <4>3
    <3>3. CASE put[id].pc = "none"
      BY <1>0, <2>2, <3>1, <3>3, PutsKept
    <3> QED BY <3>2, <3>3
  <2> QED BY <2>1, <2>2 DEF PutsNumbered
<1> QED BY <1>1, <1>2, StoredNext, RepairsNext, GetsNext DEF DataInv

\* The invariant, for every number of nodes, chunks, readers, puts and faults.
THEOREM DataInvariant == Spec => []DataInv
<1>1. DataInv /\ [Next]_vars => DataInv'
  BY DataNext
<1> QED BY <1>1, DataInit, PTL DEF Spec

\* Every reachable state of the data plane is well typed; in particular no
\* version that next_version() hands out exceeds the number of puts.
THEOREM DataTypeCorrect == Spec => []TypeOK
<1>1. DataInv => TypeOK
  BY DEF DataInv
<1> QED BY <1>1, DataInvariant, PTL

\* What is stored under (chunk, version), on every node and whichever path it
\* took there (put, late write, repair), is a put of that chunk which was given
\* that version, through crashes, restarts, lost RPCs, cleanups and deletes.
THEOREM StoresHoldPuts == Spec => []StoreIntegrity
<1>1. DataInv => StoreIntegrity
  <2> SUFFICES ASSUME DataInv, NEW n \in Storage, NEW c \in Chunks, NEW v \in Held(n, c)
               PROVE  put[store[n][c][v]].c = c /\ put[store[n][c][v]].ver = v
    BY DEF StoreIntegrity
  <2>1. v \in Ids /\ store[n][c][v] # NoData
    BY DEF Held
  <2> QED BY <2>1 DEF DataInv, StoredArePuts, IsPut
<1> QED BY <1>1, DataInvariant, PTL
=============================================================================
