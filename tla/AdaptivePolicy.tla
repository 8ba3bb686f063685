--------------------------- MODULE AdaptivePolicy ---------------------------
(***************************************************************************)
(* The tier of each chunk (policy.cpp): accesses are added up between two  *)
(* evaluations, an evaluation turns them into a rate, and the tier follows *)
(* the rate only after several windows in a row.  The EWMA rate is left    *)
(* out: it is logged and decides nothing.                                  *)
(*                                                                         *)
(* Rates are compared as integers: elapsed is in tenths of a second, the   *)
(* thresholds are in accesses per ten seconds.                             *)
(***************************************************************************)
EXTENDS Integers

CONSTANTS
    Chunks,
    PromoteWindows, DemoteWindows,      \* promote_windows, demote_windows
    HotThreshold, ColdThreshold,
    ColdRf, WarmRf, HotRf,
    Gaps            \* what now - last_eval_ms may be: hb_thread is late after a
                    \* reconfiguration, and the wall clock may be set back

ASSUME PolicyAssumption ==
    /\ PromoteWindows \in Nat \ {0} /\ DemoteWindows \in Nat \ {0}
    /\ HotThreshold \in Nat /\ ColdThreshold \in Nat /\ ColdThreshold <= HotThreshold
    /\ ColdRf \in Nat /\ WarmRf \in Nat /\ HotRf \in Nat
    /\ Gaps \subseteq Nat

\* enum class ChunkTier
Cold == 0
Warm == 1
Hot  == 2
Tiers == {Cold, Warm, Hot}

VARIABLES
    pol,        \* state_: tier, windows_above, windows_below, pending_count, and
                \* whether last_eval_ms is set
    recent      \* history: the tiers of a chunk's last windows, the newest first

polVars == <<pol, recent>>

Window == 1 .. IF PromoteWindows > DemoteWindows THEN PromoteWindows ELSE DemoteWindows

\* The state of a chunk the policy has not heard of.
NewState == [tier |-> Warm, above |-> 0, below |-> 0, pending |-> 0, evaluated |-> FALSE]

NoPolicy  == [c \in Chunks |-> NewState]
NoWindows == [c \in Chunks |-> [k \in Window |-> Warm]]

PolicyInit == pol = NoPolicy /\ recent = NoWindows

-----------------------------------------------------------------------------
\* record_accesses() for every chunk of a report.
RecordAccesses(counts) ==
    /\ pol' = [c \in Chunks |-> [pol[c] EXCEPT !.pending = @ + counts[c]]]
    /\ UNCHANGED recent

\* elapsed_s, at least 0.1 s; two seconds for the first evaluation.
Elapsed(c, gap) ==
    IF ~pol[c].evaluated THEN 20 ELSE IF gap < 1 THEN 1 ELSE gap

\* classify(count / elapsed)
Classify(count, elapsed) ==
    IF 100 * count > HotThreshold * elapsed THEN Hot
    ELSE IF 100 * count >= ColdThreshold * elapsed THEN Warm
    ELSE Cold

Desired(c, gap) == Classify(pol[c].pending, Elapsed(c, gap))

\* Seeded bug: a window at the tier itself leaves the counts alone.
Hysteresis_KeepsCounts(s, desired) ==
    CASE desired > s.tier ->
           IF s.above + 1 >= PromoteWindows
           THEN [s EXCEPT !.tier = desired, !.above = 0, !.below = 0]
           ELSE [s EXCEPT !.above = @ + 1, !.below = 0]
      [] desired < s.tier ->
           IF s.below + 1 >= DemoteWindows
           THEN [s EXCEPT !.tier = desired, !.above = 0, !.below = 0]
           ELSE [s EXCEPT !.above = 0, !.below = @ + 1]
      [] OTHER -> s

\* Seeded bug: a window on the other side leaves the count alone.
Hysteresis_KeepsAbove(s, desired) ==
    CASE desired > s.tier ->
           IF s.above + 1 >= PromoteWindows
           THEN [s EXCEPT !.tier = desired, !.above = 0]
           ELSE [s EXCEPT !.above = @ + 1]
      [] desired < s.tier ->
           IF s.below + 1 >= DemoteWindows
           THEN [s EXCEPT !.tier = desired, !.below = 0]
           ELSE [s EXCEPT !.below = @ + 1]
      [] OTHER -> [s EXCEPT !.above = 0, !.below = 0]

\* What one window at the tier desired makes of the state s.
Hysteresis(s, desired) ==
    CASE desired > s.tier ->
           IF s.above + 1 >= PromoteWindows
           THEN [s EXCEPT !.tier = desired, !.above = 0, !.below = 0]
           ELSE [s EXCEPT !.above = @ + 1, !.below = 0]
      [] desired < s.tier ->
           IF s.below + 1 >= DemoteWindows
           THEN [s EXCEPT !.tier = desired, !.above = 0, !.below = 0]
           ELSE [s EXCEPT !.above = 0, !.below = @ + 1]
      [] OTHER -> [s EXCEPT !.above = 0, !.below = 0]

Drained(s) == [s EXCEPT !.pending = 0, !.evaluated = TRUE]

Evaluate(c, gap) ==
    /\ pol' = [pol EXCEPT ![c] = Hysteresis(Drained(@), Desired(c, gap))]
    /\ recent' = [recent EXCEPT ![c] = [k \in Window |-> IF k = 1 THEN Desired(c, gap)
                                                         ELSE @[k - 1]]]

\* The decision evaluate() returns: changed, and the replication factor.
Changed(c, gap) == Hysteresis(Drained(pol[c]), Desired(c, gap)).tier # pol[c].tier

RfForTier(t) == CASE t = Hot -> HotRf [] t = Warm -> WarmRf [] OTHER -> ColdRf
=============================================================================
