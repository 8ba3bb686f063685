----------------------------- MODULE Background -----------------------------
(***************************************************************************)
(* The leader's hb_thread (meta_server.cpp): it declares storage nodes     *)
(* dead that it has not heard of, evaluates the policy of every chunk and  *)
(* runs the reconfigurations the policy asks for, one after the other and  *)
(* in between nothing else.  Around it, storage nodes count accesses and   *)
(* report them with their heartbeats (stats_reporter.cpp, NodeHeartbeat in *)
(* meta_rpc.cpp), clients put and delete chunks, and processes crash.      *)
(*                                                                         *)
(* Of a chunk the table keeps the replication factor and the state here;   *)
(* modules DataPlane and Reconfig have the replica sets and the data.      *)
(* Time is kept as differences to the present, as in FollowerHealth.       *)
(***************************************************************************)
EXTENDS AdaptivePolicy, FiniteSets, FiniteSetsExt, Functions

CONSTANTS
    Storage,        \* the storage nodes
    PutRfs,         \* the factors clients ask for
    PolicyEvery,    \* policy_every
    EvictAfter,     \* follower_timeout_ms * 5
    MaxDelay,       \* bound: how long hb_thread may be held up before the lock
    MaxAge,         \* bound: ages above it are not told apart
    Wrap,           \* 2^w for the unsigned difference
    MaxAccesses,    \* bound: accesses by clients and repair loops
    MaxChanges,     \* bound: puts, deletes and manual replica changes
    MaxFaults       \* bound: crashes, lost RPCs and failed metadata writes

ASSUME BackgroundAssumption ==
    /\ IsFiniteSet(Storage) /\ PutRfs \subseteq Nat /\ "-" \notin Chunks
    /\ PolicyEvery \in Nat /\ EvictAfter \in Nat /\ MaxDelay \in Nat
    /\ MaxAge \in Nat /\ MaxAge > EvictAfter + MaxDelay
    /\ Wrap \in Nat /\ Wrap > MaxAge + MaxDelay
    /\ MaxAccesses \in Nat /\ MaxChanges \in Nat /\ MaxFaults \in Nat

VARIABLES
    ent,        \* ent[c]: replication_factor and config_state of the table's entry
    missed,     \* history: why the factor need not be that of the tier, see RfFollowsTier
    hb,         \* hb_thread
    node,       \* node[n]: running; alive and the time since last_seen_ms in the
                \* leader's table; access_counts_; the counts in a heartbeat under way
    due,        \* history: accesses made that no evaluation has drained yet
    accesses, changes, faults

tabVars == <<ent, missed>>
cntVars == <<accesses, changes, faults>>
vars == <<polVars, tabVars, hb, node, due, cntVars>>

Absent == [rf |-> 0, state |-> "ABSENT"]
Present(c) == ent[c].state # "ABSENT"

None == [c \in Chunks |-> 0]
NoReport == [c \in Chunks |-> -1]

\* hb_thread between two rounds, policy_tick at tick; the other fields are the
\* time since it read the clock, the factors it copied of the chunks that are
\* left of the round, and the reconfiguration it is in: chunk, new factor and
\* how many replicas are new.
Asleep(tick) == [pc |-> "sleep", tick |-> tick, t |-> 0, copy |-> << >>,
                 c |-> "-", rf |-> 0, new |-> 0]

\* Every chunk was put, and all storage nodes have sent a first heartbeat.
Init ==
    /\ PolicyInit
    /\ ent = [c \in Chunks |-> [rf |-> WarmRf, state |-> "STABLE"]]
    /\ missed = [c \in Chunks |-> FALSE]
    /\ hb = Asleep(0)
    /\ node = [n \in Storage |-> [up |-> TRUE, alive |-> TRUE, age |-> 0,
                                  counts |-> None, sent |-> NoReport]]
    /\ due = None
    /\ accesses = 0 /\ changes = 0 /\ faults = 0

Fault == faults < MaxFaults /\ faults' = faults + 1

AtMost(n, max) == IF n > max THEN max ELSE n

\* One heartbeat interval passes.
Tick ==
    /\ hb.pc = "evict" => hb.t < MaxDelay
    /\ node' = [n \in Storage |-> [node[n] EXCEPT !.age = AtMost(@ + 1, MaxAge)]]
    /\ hb' = [hb EXCEPT !.t = IF hb.pc = "evict" THEN @ + 1 ELSE 0]
    /\ UNCHANGED <<polVars, tabVars, due, cntVars>>

-----------------------------------------------------------------------------
(* Storage nodes: StatsReporter                                             *)

\* ReadChunk and FetchChunk count an access, whoever asked.
Access(n, c) ==
    /\ node[n].up
    /\ Present(c)
    /\ accesses < MaxAccesses
    /\ accesses' = accesses + 1
    /\ node' = [node EXCEPT ![n].counts[c] = @ + 1]
    /\ due' = [due EXCEPT ![c] = @ + 1]
    /\ UNCHANGED <<polVars, tabVars, hb, changes, faults>>

\* Seeded bug: access_counts_ is not cleared.
ReportSend_Keeps(n) ==
    /\ node[n].up
    /\ node[n].sent = NoReport
    /\ node' = [node EXCEPT ![n].sent = node[n].counts]
    /\ UNCHANGED <<polVars, tabVars, hb, due, cntVars>>

\* run_once(): the counts move into the request and are cleared at once.
ReportSend(n) ==
    /\ node[n].up
    /\ node[n].sent = NoReport
    /\ node' = [node EXCEPT ![n].sent = node[n].counts, ![n].counts = None]
    /\ UNCHANGED <<polVars, tabVars, hb, due, cntVars>>

\* apply_heartbeat() in the leader's table.
ApplyHeartbeat(n) == [node[n] EXCEPT !.alive = TRUE, !.age = 0, !.sent = NoReport]

\* NodeHeartbeat(): the metadata write commits, then record_accesses() for
\* every chunk of the request.
ReportArrive(n) ==
    /\ node[n].sent # NoReport
    /\ node' = [node EXCEPT ![n] = ApplyHeartbeat(n)]
    /\ RecordAccesses(node[n].sent)
    /\ UNCHANGED <<tabVars, hb, due, cntVars>>

\* The RPC or its metadata write fails: these accesses are never reported.
ReportLost(n) ==
    /\ node[n].sent # NoReport
    /\ Fault
    /\ node' = [node EXCEPT ![n].sent = NoReport]
    /\ due' = [c \in Chunks |-> due[c] - node[n].sent[c]]
    /\ UNCHANGED <<polVars, tabVars, hb, accesses, changes>>

\* The counts live in memory; a heartbeat on its way still arrives.
NodeCrash(n) ==
    /\ node[n].up
    /\ Fault
    /\ node' = [node EXCEPT ![n].up = FALSE, ![n].counts = None]
    /\ due' = [c \in Chunks |-> due[c] - node[n].counts[c]]
    /\ UNCHANGED <<polVars, tabVars, hb, accesses, changes>>

NodeRestart(n) ==
    /\ ~node[n].up
    /\ node' = [node EXCEPT ![n].up = TRUE]
    /\ UNCHANGED <<polVars, tabVars, hb, due, cntVars>>

-----------------------------------------------------------------------------
(* Other threads of the leader                                              *)

\* A put, an AddReplica or a RemoveReplica commits with replication factor rf,
\* in the middle of a reconfiguration too if its checks came before.  A round
\* of hb_thread that has copied the table does not notice.
Assign(c, rf) ==
    /\ changes < MaxChanges
    /\ changes' = changes + 1
    /\ ent' = [ent EXCEPT ![c] = [rf |-> rf, state |-> "STABLE"]]
    /\ missed' = [missed EXCEPT ![c] = rf # RfForTier(pol[c].tier) \/ c \in DOMAIN hb.copy]
    /\ UNCHANGED <<polVars, hb, node, due, accesses, faults>>

\* The policy keeps the state of a deleted chunk.
Delete(c) ==
    /\ changes < MaxChanges
    /\ Present(c)
    /\ changes' = changes + 1
    /\ ent' = [ent EXCEPT ![c] = Absent]
    /\ UNCHANGED <<polVars, missed, hb, node, due, accesses, faults>>

-----------------------------------------------------------------------------
(* hb_thread                                                                *)

\* After the sleep the clock is read ...
HbWake ==
    /\ hb.pc = "sleep"
    /\ hb' = [hb EXCEPT !.pc = "evict", !.t = 0]
    /\ UNCHANGED <<polVars, tabVars, node, due, cntVars>>

\* now_ms_val - n.last_seen_ms
Silence(n) == (node[n].age - hb.t) % Wrap

\* Seeded bug: the difference the wrong way round, signed.
EvictStaleNodes_Swapped ==
    [n \in Storage |-> [node[n] EXCEPT !.alive = @ /\ ~(hb.t - node[n].age > EvictAfter)]]

EvictStaleNodes ==
    [n \in Storage |-> [node[n] EXCEPT !.alive = @ /\ ~(Silence(n) > EvictAfter)]]

\* The rest of a round: the chunks of copy, as get_chunks() returned them.
Round(copy) ==
    IF DOMAIN copy = {} THEN Asleep(0) ELSE [Asleep(0) EXCEPT !.pc = "round", !.copy = copy]

\* Seeded bug: only the chunks with accesses are evaluated.
HbEvict_OnlyReported ==
    /\ hb.pc = "evict"
    /\ node' = EvictStaleNodes
    /\ hb' = IF hb.tick + 1 >= PolicyEvery
             THEN Round([c \in {d \in Chunks : Present(d) /\ pol[d].pending > 0} |-> ent[c].rf])
             ELSE Asleep(hb.tick + 1)
    /\ UNCHANGED <<polVars, tabVars, due, cntVars>>

\* ... evict_stale_nodes() compares with it under the lock, and every
\* policy_every-th time the policy is evaluated for a copy of the table.
HbEvict ==
    /\ hb.pc = "evict"
    /\ node' = EvictStaleNodes
    /\ hb' = IF hb.tick + 1 >= PolicyEvery
             THEN Round([c \in {d \in Chunks : Present(d)} |-> ent[c].rf])
             ELSE Asleep(hb.tick + 1)
    /\ UNCHANGED <<polVars, tabVars, due, cntVars>>

\* Seeded bug: only a larger factor is asked for.
WantsReconfig_Grows(c, gap) ==
    Changed(c, gap) /\ RfForTier(Desired(c, gap)) > hb.copy[c]

\* dec.changed && dec.new_rf != c.replication_factor, of the copy.
WantsReconfig(c, gap) ==
    Changed(c, gap) /\ RfForTier(Desired(c, gap)) # hb.copy[c]

HbEvaluate(c, gap) ==
    /\ hb.pc = "round"
    /\ c \in DOMAIN hb.copy
    /\ Evaluate(c, gap)
    /\ due' = [due EXCEPT ![c] = @ - pol[c].pending]
    /\ LET rest == Restrict(hb.copy, DOMAIN hb.copy \ {c})
       IN hb' = IF WantsReconfig(c, gap)
                THEN [hb EXCEPT !.pc = "begin", !.copy = rest, !.c = c,
                                !.rf = RfForTier(Desired(c, gap))]
                ELSE Round(rest)
    /\ UNCHANGED <<tabVars, node, cntVars>>

-----------------------------------------------------------------------------
(* ReconfigDriver::reconfig(), called by hb_thread                          *)

\* reconfig() returns; nobody looks at its answer.
Return(ok) ==
    /\ hb' = Round(hb.copy)
    /\ missed' = [missed EXCEPT ![hb.c] = ~ok]

\* The checks.  Whether enough nodes are alive to grow depends on the replica
\* sets, which are not here.
ReconfigRefused ==
    /\ hb.pc = "begin"
    /\ ent[hb.c].state # "STABLE" \/ hb.rf > ent[hb.c].rf
    /\ Return(FALSE)
    /\ UNCHANGED <<polVars, ent, node, due, cntVars>>

ReconfigBegin ==
    /\ hb.pc = "begin"
    /\ ent[hb.c].state = "STABLE"
    /\ hb' = [hb EXCEPT !.pc = "start",
                       !.new = IF hb.rf > ent[hb.c].rf THEN hb.rf - ent[hb.c].rf ELSE 0]
    /\ UNCHANGED <<polVars, tabVars, node, due, cntVars>>

\* What committing RECONFIGURE_START or _COMMIT does to an entry that is there.
ApplyReconfig(state) ==
    ent' = [ent EXCEPT ![hb.c] = IF Present(hb.c) THEN [rf |-> hb.rf, state |-> state] ELSE @]

ReconfigStart ==
    /\ hb.pc = "start"
    /\ ApplyReconfig("TRANSITIONING")
    /\ hb' = [hb EXCEPT !.pc = "copy"]
    /\ UNCHANGED <<polVars, missed, node, due, cntVars>>

\* The copies are fetched from one old member and every new member is read
\* once: both count as accesses where they are served.
Copied(members) ==
    \E src \in members \union {"-"} :
        LET served(n) == (IF n \in members THEN 1 ELSE 0) + (IF n = src THEN hb.new ELSE 0)
        IN /\ node' = [n \in Storage |-> [node[n] EXCEPT !.counts[hb.c] = @ + served(n)]]
           /\ due' = [due EXCEPT ![hb.c] = @ + MapThenSumSet(served, Storage)]

\* members: those of the new set among the nodes modelled here.
ReconfigCopy(members) ==
    /\ hb.pc = "copy"
    /\ members \subseteq {n \in Storage : node[n].up}
    /\ Cardinality(members) <= hb.rf
    /\ Copied(members)
    /\ hb' = [hb EXCEPT !.pc = "commit"]
    /\ UNCHANGED <<polVars, tabVars, cntVars>>

ReconfigCommit ==
    /\ hb.pc = "commit"
    /\ ApplyReconfig("STABLE")
    /\ Return(Present(hb.c))
    /\ UNCHANGED <<polVars, node, due, cntVars>>

\* A metadata write is UNAVAILABLE, or copying or verifying fails: after START
\* the chunk stays TRANSITIONING with the new factor.
ReconfigFailed ==
    /\ hb.pc \in {"start", "copy", "commit"}
    /\ Fault
    /\ Return(FALSE)
    /\ UNCHANGED <<polVars, ent, node, due, accesses, changes>>

\* The leader process restarts: the policy starts afresh, the tables are
\* replayed, and every node that ever sent a heartbeat is alive as of now.
LeaderRestart ==
    /\ Fault
    /\ pol' = NoPolicy /\ recent' = NoWindows
    /\ missed' = [c \in Chunks |-> ent[c].rf # WarmRf]
    /\ hb' = Asleep(0)
    /\ node' = [n \in Storage |-> [node[n] EXCEPT !.alive = TRUE, !.age = 0, !.sent = NoReport]]
    /\ due' = [c \in Chunks |-> MapThenSumSet(LAMBDA n : node[n].counts[c], Storage)]
    /\ UNCHANGED <<ent, accesses, changes>>

-----------------------------------------------------------------------------
HbStep ==
    \/ HbWake \/ HbEvict
    \/ \E c \in Chunks, gap \in Gaps : HbEvaluate(c, gap)
    \/ ReconfigRefused \/ ReconfigBegin \/ ReconfigStart
    \/ \E members \in SUBSET Storage : ReconfigCopy(members)
    \/ ReconfigCommit \/ ReconfigFailed

NodeStep(n) ==
    \/ \E c \in Chunks : Access(n, c)
    \/ ReportSend(n) \/ ReportArrive(n) \/ ReportLost(n)
    \/ NodeCrash(n) \/ NodeRestart(n)

Next ==
    \/ Tick \/ HbStep \/ LeaderRestart
    \/ \E n \in Storage : NodeStep(n)
    \/ \E c \in Chunks : Delete(c) \/ \E rf \in PutRfs : Assign(c, rf)

Spec == Init /\ [][Next]_vars

\* Time passes; hb_thread and the reporters are loops with a sleep, and the
\* RPCs they wait for return, which no deadline in the code enforces.
FairSpec ==
    /\ Spec
    /\ WF_vars(Tick) /\ WF_vars(HbStep)
    /\ \A n \in Storage : WF_vars(ReportSend(n)) /\ WF_vars(ReportArrive(n))

-----------------------------------------------------------------------------
\* The inductive invariant of the hysteresis: the counters stay below their
\* limits and count windows that really followed one another.
PolicyInv ==
    \A c \in Chunks :
        /\ pol[c] \in [tier : Tiers, above : 0 .. PromoteWindows - 1,
                       below : 0 .. DemoteWindows - 1, pending : Nat, evaluated : BOOLEAN]
        /\ recent[c] \in [Window -> Tiers]
        /\ \A k \in 1 .. pol[c].above : recent[c][k] > pol[c].tier
        /\ \A k \in 1 .. pol[c].below : recent[c][k] < pol[c].tier

MovesByHysteresis(c) ==
    /\ pol'[c].tier > pol[c].tier =>
          \A k \in 1 .. PromoteWindows : recent'[c][k] > pol[c].tier
    /\ pol'[c].tier < pol[c].tier =>
          \A k \in 1 .. DemoteWindows : recent'[c][k] < pol[c].tier

\* While the leader runs, a tier rises only after promote_windows windows in a
\* row above it and falls only after demote_windows in a row below it, whatever
\* is reported late, lost or measured over a longer window in between.
TierHysteresis == [][recent' # recent => \A c \in Chunks : MovesByHysteresis(c)]_vars

\* evaluate() moves the tier whether or not the reconfiguration succeeds.  The
\* factor in the table is still that of the tier, except after one of: a
\* refused or failed reconfiguration, a restart of the leader, a put or manual
\* change to another factor, or one hb_thread's copy of the table predates.
RfFollowsTier ==
    \A c \in Chunks :
        Present(c) /\ ~missed[c] /\ hb.c # c => ent[c].rf = RfForTier(pol[c].tier)

\* An access is in one place until it is evaluated or lost: in the counts of
\* its node, in one heartbeat, or pending in the policy.
CountedOnce ==
    \A c \in Chunks :
        pol[c].pending + MapThenSumSet(LAMBDA n : node[n].counts[c] +
                                         (IF node[n].sent = NoReport THEN 0 ELSE node[n].sent[c]),
                                       Storage) = due[c]

\* "which allows hot/warm chunks to decay naturally when traffic stops": once
\* nobody reads, every chunk becomes COLD, although each reconfiguration reads
\* the chunk itself and old accesses may be reported late.
IdleDecays == \A c \in Chunks : []<>(Present(c) => pol[c].tier = Cold)

\* The leader's table follows the nodes: one that stays down is declared dead
\* in the end, however long reconfigurations hold hb_thread up, and one that
\* runs is alive again and again, although evict_stale_nodes() may declare it
\* dead right after its heartbeat when the unsigned difference wraps.
AliveTracksNodes == \A n \in Storage : []<>(node[n].alive = node[n].up)

-----------------------------------------------------------------------------
(* What messages and scripts say, and some schedule violates.               *)

\* "declared dead (no heartbeat {}ms)".
EvictedWasSilent ==
    [][\A n \in Storage : node[n].alive /\ ~node'[n].alive => node[n].age > EvictAfter]_vars

\* "Idle files demoted to RF=2  (storage reclaimed)".
IdleDemoted == <>[](\A c \in Chunks : Present(c) => ent[c].rf = ColdRf)
=============================================================================
