------------------------------ MODULE Reconfig ------------------------------
(***************************************************************************)
(* ReconfigDriver::reconfig() (reconfig_driver.cpp): changing the replica  *)
(* set of a chunk, while puts, gets, repair and crashes of module          *)
(* DataPlane go on.  It is entered by the policy thread of meta_server.cpp *)
(* and by the AddReplica and RemoveReplica handlers of meta_rpc.cpp, so    *)
(* several reconfigurations of one chunk may run at a time.                *)
(***************************************************************************)
EXTENDS DataPlane, Placement

CONSTANTS
    Drivers,        \* threads that may be inside reconfig()
    MaxReconfigs    \* bound

ASSUME ReconfigAssumption ==
    MaxReconfigs \in Nat

VARIABLES
    rc,             \* rc[d]: the reconfig() call of thread d
    reconfigs

rvars == <<vars, rc, reconfigs>>

NoRc == [pc |-> "idle", c |-> "-", ver |-> 0, old |-> {}, new |-> {}, src |-> "-",
         todo |-> {}, data |-> 0]

RInit == Init /\ rc = [d \in Drivers |-> NoRc] /\ reconfigs = 0

-----------------------------------------------------------------------------
\* The sets reconfig() can arrive at from the current one, for the policy, for
\* AddReplica of a node that is alive and for RemoveReplica.  The replication
\* factor asked for may be older than the set, hence any.
Targets(c) ==
    LET Rfs == 1 .. Cardinality(Storage)
    IN UNION ({TargetSets(table[c].reps, rf, incl, NoNode, alive) :
                 rf \in Rfs, incl \in alive \union {NoNode}}
                \union {TargetSets(table[c].reps, rf, NoNode, excl, alive) :
                          rf \in Rfs, excl \in Storage})

\* The checks, and what is remembered until the end: the old set, the version
\* and the target.  src is the first member of the old set.
ReconfigBegin(d, c, new, src) ==
    /\ rc[d].pc = "idle"
    /\ reconfigs < MaxReconfigs
    /\ reconfigs' = reconfigs + 1
    /\ table[c].state = "STABLE"
    /\ src \in table[c].reps
    /\ new \in Targets(c)
    /\ rc' = [rc EXCEPT ![d] = [NoRc EXCEPT !.pc = "start", !.c = c, !.ver = table[c].version,
                                            !.old = table[c].reps, !.new = new, !.src = src]]
    /\ UNCHANGED vars

\* Where the driver goes with the copies in todo still to be made.
CopyOrVerify(r, todo) ==
    IF todo # {} THEN [r EXCEPT !.pc = "fetch", !.todo = todo, !.data = 0]
    ELSE [r EXCEPT !.pc = "verify", !.todo = r.new, !.data = 0]

\* RECONFIGURE_START commits and is applied, whatever happened to the chunk
\* since the checks.  Members of the old set need no copy.
ReconfigStart(d) ==
    /\ rc[d].pc = "start"
    /\ ApplyReconfigStart(rc[d].c, rc[d].old, rc[d].new)
    /\ rc' = [rc EXCEPT ![d] = CopyOrVerify(@, @.new \ @.old)]
    /\ UNCHANGED <<alive, nodeVars, put, get, rep, obsVars, cntVars, reconfigs>>

\* FetchChunk from the source: whatever its latest version is.
ReconfigFetch(d) ==
    LET r == rc[d]
    IN /\ r.pc = "fetch"
       /\ Serves(r.src, r.c, r.ver)
       /\ rc' = [rc EXCEPT ![d] = [@ EXCEPT !.pc = "write",
                                            !.data = store[r.src][r.c][LatestVersion(r.src, r.c)]]]
       /\ UNCHANGED <<vars, reconfigs>>

\* WriteChunk to one new node, under the version read at the beginning.
ReconfigWrite(d, n) ==
    LET r == rc[d]
    IN /\ r.pc = "write"
       /\ n \in r.todo \intersect up
       /\ StoreWrite(n, r.c, r.ver, r.data)
       /\ rc' = [rc EXCEPT ![d] = CopyOrVerify(r, r.todo \ {n})]
       /\ UNCHANGED <<tableVars, up, assigned, put, get, rep, obsVars, cntVars, reconfigs>>

\* Seeded bug: the answers of the replicas are not looked at.
ReconfigVerify_Unchecked(d, n) ==
    LET r == rc[d]
    IN /\ r.pc = "verify"
       /\ n \in r.todo
       /\ rc' = [rc EXCEPT ![d] = [r EXCEPT !.todo = r.todo \ {n},
                                            !.pc = IF r.todo = {n} THEN "commit" ELSE "verify"]]
       /\ UNCHANGED <<vars, reconfigs>>

\* verify_replicas: every member of the new set serves the version.
ReconfigVerify(d, n) ==
    LET r == rc[d]
    IN /\ r.pc = "verify"
       /\ n \in r.todo
       /\ Serves(n, r.c, r.ver)
       /\ rc' = [rc EXCEPT ![d] = [r EXCEPT !.todo = r.todo \ {n},
                                            !.pc = IF r.todo = {n} THEN "commit" ELSE "verify"]]
       /\ UNCHANGED <<vars, reconfigs>>

ReconfigCommit(d) ==
    /\ rc[d].pc = "commit"
    /\ ApplyReconfigCommit(rc[d].c, rc[d].new)
    /\ rc' = [rc EXCEPT ![d] = NoRc]
    /\ UNCHANGED <<alive, nodeVars, put, get, rep, obsVars, cntVars, reconfigs>>

\* reconfig() returns false, leaving the chunk as it is: the node asked is down
\* or lacks the version, ...
ReconfigFailed(d) ==
    LET r == rc[d]
    IN /\ \/ r.pc = "fetch" /\ ~Serves(r.src, r.c, r.ver)
          \/ r.pc = "write" /\ ~(r.todo \subseteq up)
          \/ r.pc = "verify" /\ \E n \in r.todo : ~Serves(n, r.c, r.ver)
       /\ rc' = [rc EXCEPT ![d] = NoRc]
       /\ UNCHANGED <<vars, reconfigs>>

\* ... an RPC to a running node fails, a WriteChunk before or after the node
\* wrote (MaxReconfigs bounds these losses as well), ...
ReconfigLost(d) ==
    LET r == rc[d]
    IN /\ r.pc \in {"fetch", "write", "verify"}
       /\ rc' = [rc EXCEPT ![d] = NoRc]
       /\ \/ UNCHANGED store
          \/ /\ r.pc = "write"
             /\ \E n \in r.todo \intersect up : StoreWrite(n, r.c, r.ver, r.data)
       /\ UNCHANGED <<tableVars, up, assigned, put, get, rep, obsVars, cntVars, reconfigs>>

\* ... or one of its two metadata writes returns UNAVAILABLE; its entry stays in
\* the log.
ReconfigUnavailable(d) ==
    /\ rc[d].pc \in {"start", "commit"}
    /\ unavailable < MaxUnavailable
    /\ unavailable' = unavailable + 1
    /\ LogOnly(IF rc[d].pc = "start" THEN StartedReconfig(logged, rc[d].c, rc[d].old, rc[d].new)
               ELSE CommittedReconfig(logged, rc[d].c, rc[d].new), {})
    /\ rc' = [rc EXCEPT ![d] = NoRc]
    /\ UNCHANGED <<alive, nodeVars, put, get, rep, obsVars, gets, deletes, crashes,
                   restarts, losses, reconfigs>>

ReconfigStep(d) ==
    \/ ReconfigStart(d) \/ ReconfigFetch(d) \/ ReconfigCommit(d)
    \/ \E n \in Storage : ReconfigWrite(d, n) \/ ReconfigVerify(d, n)
    \/ ReconfigFailed(d) \/ ReconfigLost(d) \/ ReconfigUnavailable(d)

\* A step of module DataPlane; a crash of the leader also ends its drivers.
OtherStep ==
    /\ Next
    /\ rc' = IF restarts' # restarts THEN [d \in Drivers |-> NoRc] ELSE rc
    /\ UNCHANGED reconfigs

RNext ==
    \/ OtherStep
    \/ \E d \in Drivers : ReconfigStep(d)
    \/ \E d \in Drivers, c \in Chunks, new \in SUBSET Storage, src \in Storage :
          ReconfigBegin(d, c, new, src)

RSpec == RInit /\ [][RNext]_rvars

\* Schedules in which no put of a chunk overlaps its reconfiguration.  RSpec
\* allows the overlap, as the code does.
Apart ==
    \A c \in Chunks : ~ /\ \E id \in Active : put[id].c = c
                        /\ \E d \in Drivers : rc[d].c = c

ApartSpec == RInit /\ [][RNext /\ Apart']_rvars

\* Schedules in which the repair loops collect only with the assignment of the
\* moment and never what a put is just writing.
Fresh ==
    \A n \in Storage : rep[n].pc = "scan" /\ rep'[n].pc = "idle" =>
        /\ rep[n].set = AssignedTo(n)
        /\ \A id \in Active : put[id].c \in rep[n].set

FreshSpec == RInit /\ [][RNext /\ Apart' /\ Fresh]_rvars

\* Drivers are threads of the leader; nothing else need happen.
FairRSpec == RSpec /\ \A d \in Drivers : WF_rvars(ReconfigStep(d))

-----------------------------------------------------------------------------
\* Reconfiguration never leaves an acknowledged put out of a reader's reach: the
\* nodes GetChunkInfo names, replica_set and old_replica_set, include one that
\* holds the version (running or not), at every point of every reconfiguration,
\* failed and overlapping ones included.
ReadableThroughout ==
    \A c \in Chunks : Present(c) =>
        \E n \in table[c].reps \union table[c].old :
            Held(n, c) # {} /\ LatestVersion(n, c) >= table[c].version

\* An acknowledged put of chunk c was given version v.
Acked(c, v) == \E id \in Ids : put[id].pc = "ok" /\ put[id].c = c /\ put[id].ver = v

\* An acknowledged put stays within a reader's reach whatever fails, a restart
\* that replays the entries of refused writes included: its chunk stays in the
\* table until a delete, and when the table names its version, a node
\* that GetChunkInfo names holds it (running or not).  For a put that was
\* refused, cleaned up and then replayed nothing is promised.
AckedReadable ==
    /\ \A c \in Chunks : Present(c) /\ Acked(c, table[c].version) =>
          \E n \in table[c].reps \union table[c].old :
              Held(n, c) # {} /\ LatestVersion(n, c) >= table[c].version
    /\ deletes = 0 => \A id \in Ids : put[id].pc = "ok" => Present(put[id].c)

\* Once STABLE again after a reconfiguration, every member of the new set has
\* held the version: RECONFIGURE_COMMIT never installs a replica without data.
CommitInstallsData ==
    [][\A c \in Chunks :
         table[c].state = "TRANSITIONING" /\ table'[c].state = "STABLE" =>
           \A n \in table'[c].reps : LatestVersion(n, c) >= table'[c].version]_rvars

\* "State returns to STABLE after completion".
ReturnsToStable ==
    \A c \in Chunks : (table[c].state = "TRANSITIONING") ~> (table[c].state # "TRANSITIONING")
=============================================================================
