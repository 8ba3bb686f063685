--------------------------- MODULE ReplicaChoice ---------------------------
(***************************************************************************)
(* One chunk's replica set while puts, AddReplica, RemoveReplica           *)
(* (meta_rpc.cpp) and the policy's reconfigurations overlap.  AddReplica   *)
(* and RemoveReplica work out the new replication factor from one look at  *)
(* the table, reconfig() the target from a second one.                     *)
(*                                                                         *)
(* Module Reconfig has the same calls with the chunk's data; here the      *)
(* replica set is the sequence it is in the code.                          *)
(***************************************************************************)
EXTENDS Placement

CONSTANTS
    Peers,          \* the storage nodes
    Info,           \* Info[n]: load, free, total and fail of node n
    PutFactors,     \* desired_rf of puts
    TierFactors,    \* cold_rf, warm_rf, hot_rf
    Callers,        \* threads of the leader
    MaxCalls,       \* bound: calls that are made
    MaxFlips        \* bound: times a node is declared dead or heard of again

ASSUME ChoiceAssumption ==
    /\ PutFactors \subseteq Nat \ {0} /\ TierFactors \subseteq Nat \ {0}
    /\ MaxCalls \in Nat /\ MaxFlips \in Nat

VARIABLES
    mode,           \* --mode: "baseline" has neither policy nor driver
    reps, trans,    \* replica_set, and whether the chunk is TRANSITIONING
    live,           \* the nodes with alive = true
    call,           \* call[t]: see NoReq
    calls, flips

chVars == <<mode, reps, trans, live, call, calls, flips>>

\* The factor and the nodes asked for; the target and what it was chosen from.
NoReq == [pc |-> "idle", kind |-> "-", rf |-> 0, incl |-> NoNode, excl |-> NoNode,
          old |-> << >>, nodes |-> {}, new |-> << >>]

ChoiceInit ==
    /\ mode \in {"adaptive", "baseline"}
    /\ reps = << >> /\ trans = FALSE
    /\ live = Peers
    /\ call = [t \in Callers |-> NoReq]
    /\ calls = 0 /\ flips = 0

\* A call of thread t begins as req.
Enter(t, req) ==
    /\ call[t].pc = "idle"
    /\ calls < MaxCalls
    /\ calls' = calls + 1
    /\ call' = [call EXCEPT ![t] = req]
    /\ UNCHANGED <<mode, reps, trans, live, flips>>

\* Thread t installs set and goes to pc.
Becomes(t, set, transitioning, pc) ==
    /\ reps' = set /\ trans' = transitioning
    /\ call' = [call EXCEPT ![t] = IF pc = "idle" THEN NoReq ELSE [@ EXCEPT !.pc = pc]]
    /\ UNCHANGED <<mode, live, calls, flips>>

\* PutChunk: not during a reconfiguration, and only with enough nodes.
PutPlace(t, rf) ==
    /\ ~trans
    /\ \E s \in IF mode = "baseline" THEN SelectRandom(rf, live, {})
              ELSE SelectNodes(rf, live, {}, Info) :
         /\ Len(s) = rf
         /\ Enter(t, [NoReq EXCEPT !.pc = "put", !.kind = "put", !.rf = rf, !.nodes = live,
                                   !.new = s])

PutCommit(t) ==
    /\ call[t].pc = "put"
    /\ Becomes(t, call[t].new, FALSE, "idle")

AddReplica(t, n) ==
    /\ mode = "adaptive" /\ reps # << >> /\ ~Contains(reps, n)
    /\ Enter(t, [NoReq EXCEPT !.pc = "choose", !.kind = "add", !.rf = Len(reps) + 1, !.incl = n])

RemoveReplica(t, n) ==
    /\ mode = "adaptive" /\ Len(reps) > 1 /\ Contains(reps, n)
    /\ Enter(t, [NoReq EXCEPT !.pc = "choose", !.kind = "remove", !.rf = Len(reps) - 1,
                              !.excl = n])

PolicyChange(t, rf) ==
    /\ mode = "adaptive" /\ reps # << >> /\ rf # Len(reps)
    /\ Enter(t, [NoReq EXCEPT !.pc = "choose", !.kind = "policy", !.rf = rf])

\* reconfig() up to RECONFIGURE_START; the empty set if it is refused.
TargetsOf(r) ==
    IF trans \/ (r.incl # NoNode /\ r.incl \notin live) THEN {}
    ELSE {s \in TargetIds(reps, r.rf, r.incl, r.excl, live, Info) : Len(s) = r.rf}

Choose(t) ==
    /\ call[t].pc = "choose"
    /\ \E s \in TargetsOf(call[t]) :
         call' = [call EXCEPT ![t] = [@ EXCEPT !.pc = "start", !.new = s, !.old = reps,
                                               !.nodes = live]]
    /\ UNCHANGED <<mode, reps, trans, live, calls, flips>>

Start(t) ==
    /\ call[t].pc = "start"
    /\ Becomes(t, call[t].new, TRUE, "commit")

\* RECONFIGURE_COMMIT: the caller is told that it worked.
Finish(t) ==
    /\ call[t].pc = "commit"
    /\ Becomes(t, call[t].new, FALSE, "idle")

\* The checks refuse, no majority, or copying fails.
GiveUp(t) ==
    /\ \/ call[t].pc = "choose" /\ TargetsOf(call[t]) = {}
       \/ call[t].pc \in {"put", "start", "commit"}
    /\ call' = [call EXCEPT ![t] = NoReq]
    /\ UNCHANGED <<mode, reps, trans, live, calls, flips>>

Flip(n) ==
    /\ flips < MaxFlips
    /\ flips' = flips + 1
    /\ live' = IF n \in live THEN live \ {n} ELSE live \union {n}
    /\ UNCHANGED <<mode, reps, trans, call, calls>>

ChoiceStep(t) ==
    \/ \E rf \in PutFactors : PutPlace(t, rf)
    \/ \E n \in Peers : AddReplica(t, n) \/ RemoveReplica(t, n)
    \/ \E rf \in TierFactors : PolicyChange(t, rf)
    \/ PutCommit(t) \/ Choose(t) \/ Start(t) \/ Finish(t) \/ GiveUp(t)

ChoiceNext ==
    \/ \E t \in Callers : ChoiceStep(t)
    \/ \E n \in Peers : Flip(n)

-----------------------------------------------------------------------------
\* Every set that is chosen, in whatever race, has the size asked for and no
\* node twice, is one of those module Reconfig works with, and puts no node in
\* that a better one it leaves out was alive instead of.
ChosenSound ==
    \A t \in Callers :
        LET r == call[t]
            added == ToSet(r.new) \ (ToSet(r.old) \union {r.incl})
            better(x, y) == Score(Info[x], FALSE) > Score(Info[y], FALSE)
        IN r.pc \in {"put", "start"} =>
             /\ Len(r.new) = r.rf /\ IsInjective(r.new)
             /\ added \subseteq r.nodes
             /\ r.kind # "put" =>
                  ToSet(r.new) \in TargetSets(ToSet(r.old), r.rf, r.incl, r.excl, r.nodes)
             /\ mode = "adaptive" =>
                  \A x \in r.nodes \ ToSet(r.new), y \in added : ~better(x, y)

\* "Replica added: ", "Replica removed: ": what the CLI prints for any call that
\* ends well.
AnsweredTrue ==
    [][\A t \in Callers :
         LET r == call[t]
         IN r.pc = "commit" /\ call'[t].pc = "idle" /\ trans /\ ~trans' =>
              /\ r.kind = "add" => Contains(reps', r.incl)
              /\ r.kind = "remove" => ~Contains(reps', r.excl)]_chVars
=============================================================================
