----------------------------- MODULE Placement -----------------------------
(***************************************************************************)
(* Which nodes get a chunk: Placement::select_nodes() (placement.cpp) and  *)
(* the choice of the new replica set in ReconfigDriver::reconfig()         *)
(* (reconfig_driver.cpp).  Pure definitions; where the code depends on the *)
(* order of a hash table or on a random shuffle, they give the set of the  *)
(* possible results.                                                       *)
(***************************************************************************)
EXTENDS Integers, FiniteSets, SequencesExt

\* No node: the empty must_include_node_id or must_exclude_node_id.
NoNode == "-"

\* score(), in percent: load, free and fail are hundredths, total is 0 for a node
\* that has not reported its disk.
Score(info, again) ==
    (100 - info.load) * 3
      + (IF info.total > 0 THEN ((100 * info.free) \div info.total) * 3 ELSE 0)
      + (100 - info.fail) * 2
      + (IF again THEN 0 ELSE 100) * 2

\* max_element: any candidate of the highest score.
Best(cands, info, chosen) ==
    LET score(x) == Score(info[x], x \in chosen)
    IN {x \in cands : \A y \in cands : score(y) <= score(x)}

\* Seeded bug: the candidate chosen stays in the list.
SelectNodes_NoErase(n, nodes, exclude, info) ==
    LET cands == nodes \ exclude
        picks[k \in 0 .. n] ==
            IF k = 0 THEN {<< >>}
            ELSE UNION {{Append(s, x) : x \in Best(cands, info, ToSet(s))} : s \in picks[k - 1]}
    IN picks[n]

\* The greedy loop: the candidate chosen is erased from the list.
SelectNodes(n, nodes, exclude, info) ==
    LET cands == nodes \ exclude
        picks[k \in 0 .. n] ==
            IF k = 0 THEN {<< >>}
            ELSE UNION {LET rest == cands \ ToSet(s)
                        IN IF rest = {} THEN {s}
                           ELSE {Append(s, x) : x \in Best(rest, info, ToSet(s))}
                        : s \in picks[k - 1]}
    IN picks[n]

\* random_placement: the beginning of a shuffled list.
SelectRandom(n, nodes, exclude) ==
    LET cands == nodes \ exclude
        len == IF n < Cardinality(cands) THEN n ELSE Cardinality(cands)
    IN {SubSeq(s, 1, len) : s \in SetToSeqs(cands)}

-----------------------------------------------------------------------------
(* target_ids                                                               *)

\* Those members of the old set that may stay, then the node asked for.
BaseIds(old, incl, excl) ==
    LET kept == SelectSeq(old, LAMBDA x : x # excl)
    IN IF incl = NoNode \/ Contains(kept, incl) THEN kept ELSE Append(kept, incl)

\* Too many: the first rf of them, the node asked for last.
TrimIds(ids, rf, incl) ==
    LET others == SelectSeq(ids, LAMBDA x : x # incl)
        first == SubSeq(others, 1, IF rf < Len(others) THEN rf ELSE Len(others))
    IN IF incl # NoNode /\ Len(first) < rf THEN Append(first, incl) ELSE first

\* Too few: nodes that are alive, in Placement's order.  The node to be left
\* out is not in target_set, so it may come back here.
FillIds(ids, rf, nodes, info) ==
    {ids \o s : s \in SelectNodes(rf - Len(ids), nodes, ToSet(ids), info)}

TargetIds(old, rf, incl, excl, nodes, info) ==
    LET base == BaseIds(old, incl, excl)
    IN IF Len(base) > rf THEN {TrimIds(base, rf, incl)}
       ELSE FillIds(base, rf, nodes, info)

\* The same as sets, whatever the order of the members and the scores are.
TargetSets(old, rf, incl, excl, nodes) ==
    LET base == (old \ {excl}) \union ({incl} \ {NoNode})
    IN IF Cardinality(base) > rf
       THEN {new \in SUBSET (base \ {incl}) : Cardinality(new) = rf}
       ELSE {new \in SUBSET (base \union nodes) : base \subseteq new /\ Cardinality(new) = rf}
=============================================================================
