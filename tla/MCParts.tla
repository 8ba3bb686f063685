------------------------------ MODULE MCParts ------------------------------
(***************************************************************************)
(* Three parts that do not interact, one at a time: part says which of     *)
(* them takes steps.                                                       *)
(***************************************************************************)
EXTENDS Snapshot, ReplicaChoice, Workload

CONSTANTS
    Parts,              \* the parts that are checked
    n1, n2, n3, n4      \* storage nodes

VARIABLE part

PartsInit ==
    /\ part \in Parts
    /\ SnapInit
    /\ ChoiceInit
    /\ part # "choice" => mode = "adaptive"
    /\ WorkInit

PartsNext ==
    /\ UNCHANGED part
    /\ \/ part = "snapshot" /\ SnapNext /\ UNCHANGED <<chVars, wlVars>>
       \/ part = "choice" /\ ChoiceNext /\ UNCHANGED <<snapVars, wlVars>>
       \/ part = "workload" /\ WorkNext /\ UNCHANGED <<snapVars, chVars>>

PartsSpec == PartsInit /\ [][PartsNext]_<<part, snapVars, chVars, wlVars>>

\* Two equal nodes, one that has not reported its disk, one that fails often.
MCInfo ==
    n1 :> [load |-> 10, free |-> 5, total |-> 10, fail |-> 0] @@
    n2 :> [load |-> 10, free |-> 5, total |-> 10, fail |-> 0] @@
    n3 :> [load |-> 60, free |-> 0, total |-> 0, fail |-> 0] @@
    n4 :> [load |-> 0, free |-> 1, total |-> 10, fail |-> 50]

Conf(chunks, hot, dist, ops, threads) ==
    [chunks |-> chunks, hot |-> hot, dist |-> dist, ops |-> ops, threads |-> threads]

\* With at least one hot and one cold chunk.
MCConfigs == {Conf(2, 34, "hot_cold", 3, 2), Conf(2, 10, "zipfian", 2, 3),
              Conf(2, 50, "uniform", 3, 1)}

\* A single chunk, and all chunks hot.
EdgeConfigs == {Conf(1, 10, "hot_cold", 1, 1), Conf(2, 100, "hot_cold", 1, 1)}
=============================================================================
