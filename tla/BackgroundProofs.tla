-------------------------- MODULE BackgroundProofs --------------------------
(***************************************************************************)
(* Proofs about Background: the hysteresis of the adaptive policy, and     *)
(* that the replication factors in the table follow the tiers.             *)
(***************************************************************************)
EXTENDS Background, TLAPS

PolState == [tier : Tiers, above : 0 .. PromoteWindows - 1,
             below : 0 .. DemoteWindows - 1, pending : Nat, evaluated : BOOLEAN]
NodeState == [up : BOOLEAN, alive : BOOLEAN, age : Int, counts : [Chunks -> Nat],
              sent : [Chunks -> Nat] \union {NoReport}]
EntState == [rf : Nat, state : {"ABSENT", "STABLE", "TRANSITIONING"}]

\* h has the fields of hb_thread; copy is a function on some of the chunks.
IsHb(h) ==
    /\ h = [pc |-> h.pc, tick |-> h.tick, t |-> h.t, copy |-> h.copy,
            c |-> h.c, rf |-> h.rf, new |-> h.new]
    /\ h.pc \in {"sleep", "evict", "round", "begin", "start", "copy", "commit"}
    /\ DOMAIN h.copy \subseteq Chunks
    /\ h.rf \in Nat /\ h.new \in Nat

BackTypeOK ==
    /\ pol \in [Chunks -> PolState] /\ recent \in [Chunks -> [Window -> Tiers]]
    /\ ent \in [Chunks -> EntState] /\ missed \in [Chunks -> BOOLEAN]
    /\ node \in [Storage -> NodeState]
    /\ IsHb(hb)

\* The reconfiguration hb_thread is in is for the tier that evaluate() moved to,
\* and its copy of the table is right for the chunks that nobody changed since.
HbInv ==
    /\ hb.pc \in {"begin", "start", "copy", "commit"} =>
          hb.c \in Chunks \ DOMAIN hb.copy /\ hb.rf = RfForTier(pol[hb.c].tier)
    /\ hb.pc \in {"sleep", "evict", "round"} => hb.c = "-"
    /\ \A c \in DOMAIN hb.copy : Present(c) /\ ~missed[c] => hb.copy[c] = ent[c].rf

BackInv == BackTypeOK /\ PolicyInv /\ HbInv /\ RfFollowsTier

(***************************************************************************)
(* The policy.                                                             *)
(***************************************************************************)
\* Windows are long enough for both directions.
LEMMA Windows ==
    /\ PromoteWindows \in Nat /\ PromoteWindows >= 1
    /\ DemoteWindows \in Nat /\ DemoteWindows >= 1
    /\ 1 .. PromoteWindows \subseteq Window /\ 1 .. DemoteWindows \subseteq Window
    /\ Window \subseteq Nat /\ 1 \in Window
    /\ \A k \in Window : (k # 1 => k - 1 \in Window) /\ 1 .. k \subseteq Window
  BY PolicyAssumption DEF Window

\* Tiers are numbers, and every rate has one.
LEMMA TierNumbers ==
    /\ Tiers \subseteq Int /\ Tiers = {0, 1, 2}
    /\ \A n, e : Classify(n, e) \in Tiers
    /\ \A c, gap : Desired(c, gap) \in Tiers
    /\ \A t \in Tiers : RfForTier(t) \in Nat
    /\ RfForTier(Warm) = WarmRf /\ Warm \in Tiers
<1>1. \A n, e : Classify(n, e) \in Tiers
  BY DEF Classify, Tiers, Cold, Warm, Hot
<1>2. \A t \in Tiers : RfForTier(t) \in Nat
  BY PolicyAssumption DEF RfForTier, Tiers, Cold, Warm, Hot
<1> QED BY <1>1, <1>2 DEF Desired, Tiers, Cold, Warm, Hot, RfForTier

\* What one window makes of the counters: they grow by one window on their side,
\* start again, or are used up by a move of the tier.
LEMMA HysteresisSteps ==
    ASSUME NEW s \in PolState, NEW d \in Tiers
    PROVE  LET h == Hysteresis(s, d)
           IN /\ h \in PolState
              /\ h.tier # s.tier => h.tier = d /\ h.above = 0 /\ h.below = 0
              /\ h.tier > s.tier => d > s.tier /\ s.above = PromoteWindows - 1
              /\ h.tier < s.tier => d < s.tier /\ s.below = DemoteWindows - 1
              /\ h.tier = s.tier => /\ h.above = 0 \/ (h.above = s.above + 1 /\ d > s.tier)
                                    /\ h.below = 0 \/ (h.below = s.below + 1 /\ d < s.tier)
<1> DEFINE h == Hysteresis(s, d)
<1>0. /\ s.tier \in Int /\ d \in Int
      /\ s.above \in 0 .. PromoteWindows - 1 /\ s.below \in 0 .. DemoteWindows - 1
      /\ s.tier \in Tiers /\ 0 \in 0 .. PromoteWindows - 1 /\ 0 \in 0 .. DemoteWindows - 1
  BY TierNumbers, Windows DEF PolState
<1>1. CASE d > s.tier /\ s.above + 1 >= PromoteWindows
  <2>0. ~(d < s.tier)
    BY <1>0, <1>1
  <2>1. h = [s EXCEPT !.tier = d, !.above = 0, !.below = 0]
    BY <1>1, <2>0 DEF Hysteresis
  <2>2. h \in PolState /\ h.tier = d /\ h.above = 0 /\ h.below = 0
    BY <1>0, <2>1 DEF PolState
  <2>3. s.above = PromoteWindows - 1
    BY <1>0, <1>1, Windows
  <2> HIDE DEF h
  <2> QED BY <1>0, <1>1, <2>2, <2>3 DEF h
<1>2. CASE d > s.tier /\ ~(s.above + 1 >= PromoteWindows)
  <2>0. ~(d < s.tier)
    BY <1>0, <1>2
  <2>1. h = [s EXCEPT !.above = @ + 1, !.below = 0]
    BY <1>2, <2>0 DEF Hysteresis
  <2>2. s.above + 1 \in 0 .. PromoteWindows - 1 /\ 0 \in 0 .. DemoteWindows - 1
    BY <1>0, <1>2, Windows
  <2>3. h \in PolState /\ h.tier = s.tier /\ h.above = s.above + 1 /\ h.below = 0
    BY <2>1, <2>2 DEF PolState
  <2> HIDE DEF h
  <2> QED BY <1>0, <1>2, <2>3 DEF h
<1>3. CASE d < s.tier /\ s.below + 1 >= DemoteWindows
  <2>0. ~(d > s.tier)
    BY <1>0, <1>3
  <2>1. h = [s EXCEPT !.tier = d, !.above = 0, !.below = 0]
    BY <1>3, <2>0 DEF Hysteresis
  <2>2. h \in PolState /\ h.tier = d /\ h.above = 0 /\ h.below = 0
    BY <1>0, <2>1 DEF PolState
  <2>3. s.below = DemoteWindows - 1
    BY <1>0, <1>3, Windows
  <2> HIDE DEF h
  <2> QED BY <1>0, <1>3, <2>2, <2>3 DEF h
<1>4. CASE d < s.tier /\ ~(s.below + 1 >= DemoteWindows)
  <2>0. ~(d > s.tier)
    BY <1>0, <1>4
  <2>1. h = [s EXCEPT !.above = 0, !.below = @ + 1]
    BY <1>4, <2>0 DEF Hysteresis
  <2>2. s.below + 1 \in 0 .. DemoteWindows - 1 /\ 0 \in 0 .. PromoteWindows - 1
    BY <1>0, <1>4, Windows
  <2>3. h \in PolState /\ h.tier = s.tier /\ h.below = s.below + 1 /\ h.above = 0
    BY <2>1, <2>2 DEF PolState
  <2> HIDE DEF h
  <2> QED BY <1>0, <1>4, <2>3 DEF h
<1>5. CASE ~(d > s.tier) /\ ~(d < s.tier)
  <2>1. h = [s EXCEPT !.above = 0, !.below = 0]
    BY <1>5 DEF Hysteresis
  <2>2. h \in PolState /\ h.tier = s.tier /\ h.above = 0 /\ h.below = 0
    BY <1>0, <2>1 DEF PolState
  <2> HIDE DEF h
  <2> QED BY <1>0, <2>2 DEF h
<1> QED BY <1>1, <1>2, <1>3, <1>4, <1>5

\* The counters of state s count windows of r that follow one another.
Counted(s, r) ==
    /\ \A k \in 1 .. s.above : r[k] > s.tier
    /\ \A k \in 1 .. s.below : r[k] < s.tier

\* PolicyInv by its parts.
LEMMA PolicyParts ==
    ASSUME pol \in [Chunks -> PolState], recent \in [Chunks -> [Window -> Tiers]]
    PROVE  PolicyInv <=> \A c \in Chunks : Counted(pol[c], recent[c])
  BY DEF PolicyInv, Counted, PolState

\* One window more.
Shifted(r, d) == [k \in Window |-> IF k = 1 THEN d ELSE r[k - 1]]

\* A window that extends a run on one side of the tier makes it one longer.
LEMMA RunGrows ==
    ASSUME NEW r \in [Window -> Tiers], NEW d \in Tiers, NEW n \in Nat, n + 1 \in Window
    PROVE  /\ Shifted(r, d) \in [Window -> Tiers]
           /\ \A t \in Tiers : d > t /\ (\A k \in 1 .. n : r[k] > t) =>
                \A k \in 1 .. (n + 1) : Shifted(r, d)[k] > t
           /\ \A t \in Tiers : d < t /\ (\A k \in 1 .. n : r[k] < t) =>
                \A k \in 1 .. (n + 1) : Shifted(r, d)[k] < t
<1>1. \A k \in Window : k # 1 => k - 1 \in Window
  BY Windows
<1>2. \A k \in Window : Shifted(r, d)[k] = IF k = 1 THEN d ELSE r[k - 1]
  BY DEF Shifted
<1>3. Shifted(r, d) \in [Window -> Tiers]
  BY <1>1 DEF Shifted
<1>4. \A k \in 1 .. (n + 1) : k \in Window /\ (k # 1 => k - 1 \in 1 .. n)
  BY Windows
<1> QED BY <1>2, <1>3, <1>4

\* An evaluation keeps the counters honest and moves a tier only after its run of
\* windows.
LEMMA EvaluateSteps ==
    ASSUME pol \in [Chunks -> PolState], recent \in [Chunks -> [Window -> Tiers]], PolicyInv,
           NEW c \in Chunks, NEW gap, Evaluate(c, gap)
    PROVE  /\ pol' \in [Chunks -> PolState] /\ recent' \in [Chunks -> [Window -> Tiers]]
           /\ PolicyInv' /\ \A b \in Chunks : MovesByHysteresis(b)
           /\ \A b \in Chunks : b # c => pol'[b] = pol[b]
           /\ pol'[c].tier = IF Changed(c, gap) THEN Desired(c, gap) ELSE pol[c].tier
<1> DEFINE s == Drained(pol[c])
           d == Desired(c, gap)
           h == Hysteresis(s, d)
           r == Shifted(recent[c], d)
<1>0. Counted(pol[c], recent[c]) /\ pol[c] \in PolState /\ recent[c] \in [Window -> Tiers]
  BY PolicyParts
<1>1. /\ s \in PolState /\ s.tier = pol[c].tier /\ s.above = pol[c].above /\ s.below = pol[c].below
  BY <1>0 DEF Drained, PolState
<1>2. d \in Tiers /\ s.tier \in Tiers /\ Tiers \subseteq Int
  BY <1>1, TierNumbers DEF PolState
<1>3. pol' = [pol EXCEPT ![c] = h] /\ recent' = [recent EXCEPT ![c] = r]
  BY DEF Evaluate, Shifted
<1>4. Changed(c, gap) <=> h.tier # s.tier
  BY <1>1 DEF Changed
<1> HIDE DEF s, d
<1>5. /\ h \in PolState
      /\ h.tier # s.tier => h.tier = d /\ h.above = 0 /\ h.below = 0
      /\ h.tier > s.tier => d > s.tier /\ s.above = PromoteWindows - 1
      /\ h.tier < s.tier => d < s.tier /\ s.below = DemoteWindows - 1
      /\ h.tier = s.tier => /\ h.above = 0 \/ (h.above = s.above + 1 /\ d > s.tier)
                            /\ h.below = 0 \/ (h.below = s.below + 1 /\ d < s.tier)
  BY <1>1, <1>2, HysteresisSteps
<1>6. /\ s.above \in Nat /\ s.above + 1 \in Window /\ s.above < PromoteWindows
      /\ s.below \in Nat /\ s.below + 1 \in Window /\ s.below < DemoteWindows
  <2>1. s.above \in 0 .. PromoteWindows - 1 /\ s.below \in 0 .. DemoteWindows - 1
    BY <1>1 DEF PolState
  <2>2. s.above + 1 \in 1 .. PromoteWindows /\ s.below + 1 \in 1 .. DemoteWindows
    BY <2>1, Windows
  <2> QED BY <2>1, <2>2, Windows
<1>7. r \in [Window -> Tiers]
  BY <1>0, <1>2, <1>6, RunGrows
<1>8. d > s.tier => \A k \in 1 .. (s.above + 1) : r[k] > s.tier
  BY <1>0, <1>1, <1>2, <1>6, RunGrows DEF Counted
<1>9. d < s.tier => \A k \in 1 .. (s.below + 1) : r[k] < s.tier
  BY <1>0, <1>1, <1>2, <1>6, RunGrows DEF Counted
<1> HIDE DEF h, r
<1>10. pol' \in [Chunks -> PolState] /\ recent' \in [Chunks -> [Window -> Tiers]]
  BY <1>3, <1>5, <1>7
<1>11. /\ pol'[c] = h /\ recent'[c] = r
       /\ \A b \in Chunks : b # c => pol'[b] = pol[b] /\ recent'[b] = recent[b]
  BY <1>3
<1>12. Counted(h, r)
  <2>1. h.tier \in Int /\ s.tier \in Int
    BY <1>2, <1>5 DEF PolState
  <2>2. \A k \in 1 .. h.above : r[k] > h.tier
    BY <1>5, <1>8, <2>1
  <2>3. \A k \in 1 .. h.below : r[k] < h.tier
    BY <1>5, <1>9, <2>1
  <2> QED BY <2>2, <2>3 DEF Counted
<1>13. \A b \in Chunks : Counted(pol'[b], recent'[b])
  BY <1>11, <1>12, PolicyParts
<1>14. PolicyInv'
  <2>1. \A b \in Chunks : pol'[b] \in PolState /\ recent'[b] \in [Window -> Tiers]
    BY <1>10
  <2> QED BY <1>13, <2>1 DEF PolicyInv, PolState, Counted
<1>15. MovesByHysteresis(c)
  <2>1. pol[c].tier = s.tier /\ PromoteWindows \in Nat /\ DemoteWindows \in Nat
    BY <1>1, Windows
  <2>2. h.tier > s.tier => \A k \in 1 .. PromoteWindows : r[k] > s.tier
    <3>1. s.above = PromoteWindows - 1 => s.above + 1 = PromoteWindows
      BY <2>1
    <3> QED BY <1>5, <1>8, <3>1
  <2>3. h.tier < s.tier => \A k \in 1 .. DemoteWindows : r[k] < s.tier
    <3>1. s.below = DemoteWindows - 1 => s.below + 1 = DemoteWindows
      BY <2>1
    <3> QED BY <1>5, <1>9, <3>1
  <2> QED BY <1>11, <2>1, <2>2, <2>3 DEF MovesByHysteresis
<1>16. ASSUME NEW b \in Chunks, b # c PROVE MovesByHysteresis(b)
  <2>1. pol'[b].tier = pol[b].tier /\ pol[b].tier \in Int
    BY <1>11, <1>16, TierNumbers DEF PolState
  <2> QED BY <2>1 DEF MovesByHysteresis
<1>17. pol'[c].tier = IF Changed(c, gap) THEN d ELSE pol[c].tier
  BY <1>1, <1>4, <1>5, <1>11
<1> QED BY <1>10, <1>11, <1>14, <1>15, <1>16, <1>17 DEF d

(***************************************************************************)
(* hb_thread.                                                              *)
(***************************************************************************)
\* hb_thread between two rounds.
LEMMA AsleepFields ==
    ASSUME NEW k
    PROVE  /\ IsHb(Asleep(k)) /\ Asleep(k).pc = "sleep" /\ Asleep(k).c = "-"
           /\ DOMAIN Asleep(k).copy = {}
<1>1. DOMAIN << >> = {}
  OBVIOUS
<1> QED BY <1>1 DEF Asleep, IsHb

\* hb_thread in the rest of a round.
LEMMA RoundFields ==
    ASSUME NEW f, DOMAIN f \subseteq Chunks
    PROVE  /\ IsHb(Round(f)) /\ Round(f).pc \in {"sleep", "round"} /\ Round(f).c = "-"
           /\ DOMAIN Round(f).copy \subseteq DOMAIN f
           /\ \A c \in DOMAIN Round(f).copy : Round(f).copy[c] = f[c]
<1>1. CASE DOMAIN f = {}
  BY <1>1, AsleepFields DEF Round
<1>2. CASE DOMAIN f # {}
  <2>1. Round(f) = [pc |-> "round", tick |-> 0, t |-> 0, copy |-> f, c |-> "-", rf |-> 0, new |-> 0]
    BY <1>2 DEF Round, Asleep
  <2> QED BY <2>1 DEF IsHb
<1> QED BY <1>1, <1>2

\* Changes of the program counter, the clock or the number of new replicas.
LEMMA HbMoves ==
    ASSUME IsHb(hb), NEW h, NEW t, NEW new \in Nat,
           NEW p \in {"sleep", "evict", "round", "begin", "start", "copy", "commit"},
           \/ h = [hb EXCEPT !.pc = p]
           \/ h = [hb EXCEPT !.pc = p, !.t = t]
           \/ h = [hb EXCEPT !.pc = p, !.new = new]
    PROVE  IsHb(h) /\ h.pc = p /\ h.copy = hb.copy /\ h.c = hb.c /\ h.rf = hb.rf
<1> DEFINE h0(tt, nn) == [pc |-> p, tick |-> hb.tick, t |-> tt, copy |-> hb.copy,
                          c |-> hb.c, rf |-> hb.rf, new |-> nn]
<1>1. CASE h = [hb EXCEPT !.pc = p]
  <2>1. h = h0(hb.t, hb.new) /\ hb.new \in Nat
    BY <1>1 DEF IsHb
  <2> QED BY <2>1 DEF IsHb
<1>2. CASE h = [hb EXCEPT !.pc = p, !.t = t]
  <2>1. h = h0(t, hb.new) /\ hb.new \in Nat
    BY <1>2 DEF IsHb
  <2> QED BY <2>1 DEF IsHb
<1>3. CASE h = [hb EXCEPT !.pc = p, !.new = new]
  <2>1. h = h0(hb.t, new)
    BY <1>3 DEF IsHb
  <2> QED BY <2>1 DEF IsHb
<1> QED BY <1>1, <1>2, <1>3

(***************************************************************************)
(* What a step does to the policy and to the nodes.                        *)
(***************************************************************************)
\* Steps that leave the policy alone.
LEMMA PolicySame ==
    ASSUME \/ Tick
           \/ HbStep /\ ~(\E c \in Chunks, gap \in Gaps : HbEvaluate(c, gap))
           \/ \E n \in Storage : NodeStep(n) /\ ~ReportArrive(n)
           \/ \E c \in Chunks : Delete(c) \/ \E rf \in PutRfs : Assign(c, rf)
    PROVE  pol' = pol /\ recent' = recent
<1>1. ASSUME Tick PROVE pol' = pol /\ recent' = recent
  BY <1>1 DEF Tick, polVars
<1>2. ASSUME HbWake \/ HbEvict \/ ReconfigRefused \/ ReconfigBegin \/ ReconfigStart \/ ReconfigCommit
               \/ ReconfigFailed
      PROVE  pol' = pol /\ recent' = recent
  BY <1>2 DEF HbWake, HbEvict, ReconfigRefused, ReconfigBegin, ReconfigStart, ReconfigCommit,
              ReconfigFailed, polVars
<1>3. ASSUME NEW members, ReconfigCopy(members) PROVE pol' = pol /\ recent' = recent
  BY <1>3 DEF ReconfigCopy, polVars
<1>4. ASSUME NEW n \in Storage, NEW c \in Chunks, Access(n, c) PROVE pol' = pol /\ recent' = recent
  BY <1>4 DEF Access, polVars
<1>5. ASSUME NEW n \in Storage, ReportSend(n) \/ ReportLost(n) \/ NodeCrash(n) \/ NodeRestart(n)
      PROVE  pol' = pol /\ recent' = recent
  BY <1>5 DEF ReportSend, ReportLost, NodeCrash, NodeRestart, polVars
<1>6. ASSUME NEW c \in Chunks, Delete(c) \/ \E rf \in PutRfs : Assign(c, rf)
      PROVE  pol' = pol /\ recent' = recent
  BY <1>6 DEF Delete, Assign, polVars
<1> QED BY <1>1, <1>2, <1>3, <1>4, <1>5, <1>6 DEF HbStep, NodeStep

\* A report adds to the pending counts only.
LEMMA ReportAdds ==
    ASSUME BackTypeOK, PolicyInv, NEW n \in Storage, ReportArrive(n)
    PROVE  /\ pol' \in [Chunks -> PolState] /\ recent' = recent /\ PolicyInv'
           /\ \A c \in Chunks : pol'[c].tier = pol[c].tier
<1>0. /\ pol \in [Chunks -> PolState] /\ recent \in [Chunks -> [Window -> Tiers]]
      /\ node[n].sent \in [Chunks -> Nat]
  BY DEF BackTypeOK, NodeState, ReportArrive
<1>1. /\ pol' = [c \in Chunks |-> [pol[c] EXCEPT !.pending = @ + node[n].sent[c]]]
      /\ recent' = recent
  BY DEF ReportArrive, RecordAccesses
<1>2. ASSUME NEW c \in Chunks
      PROVE  /\ pol'[c] \in PolState /\ pol'[c].tier = pol[c].tier
             /\ pol'[c].above = pol[c].above /\ pol'[c].below = pol[c].below
  <2>1. pol'[c] = [pol[c] EXCEPT !.pending = @ + node[n].sent[c]] /\ pol[c] \in PolState
        /\ node[n].sent[c] \in Nat
    BY <1>0, <1>1
  <2> QED BY <2>1 DEF PolState
<1>3. pol' \in [Chunks -> PolState]
  BY <1>1, <1>2
<1>4. \A c \in Chunks : Counted(pol[c], recent[c])
  BY <1>0, PolicyParts
<1>5. PolicyInv'
  BY <1>0, <1>1, <1>2, <1>4 DEF PolicyInv, PolState, Counted
<1> QED BY <1>1, <1>2, <1>3, <1>5

\* A leader that starts again knows nothing of the chunks.
LEMMA RestartForgets ==
    ASSUME BackTypeOK, LeaderRestart
    PROVE  /\ pol' \in [Chunks -> PolState] /\ recent' \in [Chunks -> [Window -> Tiers]]
           /\ PolicyInv' /\ \A c \in Chunks : MovesByHysteresis(c)
           /\ \A c \in Chunks : pol'[c].tier = Warm
<1>1. pol' = NoPolicy /\ recent' = NoWindows
  BY DEF LeaderRestart
<1>2. NewState \in PolState /\ NewState.tier = Warm /\ NewState.above = 0 /\ NewState.below = 0
  BY Windows, TierNumbers DEF NewState, PolState
<1>3. /\ pol' \in [Chunks -> PolState] /\ recent' \in [Chunks -> [Window -> Tiers]]
      /\ \A c \in Chunks : pol'[c] = NewState /\ \A k \in Window : recent'[c][k] = Warm
  BY <1>1, <1>2, TierNumbers DEF NoPolicy, NoWindows
<1>4. PolicyInv'
  BY <1>2, <1>3 DEF PolicyInv, PolState
<1>5. ASSUME NEW c \in Chunks PROVE MovesByHysteresis(c)
  <2>1. pol'[c].tier = Warm /\ pol[c].tier \in Int /\ Warm \in Int
    BY <1>2, <1>3, TierNumbers DEF BackTypeOK, PolState
  <2> QED BY <1>3, <2>1, Windows DEF MovesByHysteresis
<1> QED BY <1>2, <1>3, <1>4, <1>5

\* Every step keeps the policy's invariant and moves tiers by hysteresis only.
LEMMA PolicyNext ==
    ASSUME BackTypeOK, PolicyInv, [Next]_vars
    PROVE  /\ pol' \in [Chunks -> PolState] /\ recent' \in [Chunks -> [Window -> Tiers]]
           /\ PolicyInv' /\ (recent' # recent => \A c \in Chunks : MovesByHysteresis(c))
<1> DEFINE Goal == /\ pol' \in [Chunks -> PolState] /\ recent' \in [Chunks -> [Window -> Tiers]]
                   /\ PolicyInv' /\ (recent' # recent => \A c \in Chunks : MovesByHysteresis(c))
<1>0. pol \in [Chunks -> PolState] /\ recent \in [Chunks -> [Window -> Tiers]]
  BY DEF BackTypeOK
<1>1. ASSUME pol' = pol, recent' = recent PROVE Goal
  BY <1>0, <1>1 DEF PolicyInv
<1>2. ASSUME NEW c \in Chunks, NEW gap \in Gaps, HbEvaluate(c, gap) PROVE Goal
  BY <1>0, <1>2, EvaluateSteps DEF HbEvaluate
<1>3. ASSUME NEW n \in Storage, ReportArrive(n) PROVE Goal
  BY <1>0, <1>3, ReportAdds
<1>4. ASSUME LeaderRestart PROVE Goal
  BY <1>4, RestartForgets
<1>5. ASSUME UNCHANGED vars PROVE Goal
  BY <1>1, <1>5 DEF vars, polVars
<1> HIDE DEF Goal
<1>6. Goal
  BY <1>1, <1>2, <1>3, <1>4, <1>5, PolicySame DEF Next
<1> QED BY <1>6 DEF Goal

\* The nodes stay well typed; a report on its way carries counts.
LEMMA NodesNext ==
    ASSUME BackTypeOK, HbInv, [Next]_vars
    PROVE  node' \in [Storage -> NodeState]
<1>0. node \in [Storage -> NodeState]
  BY DEF BackTypeOK
<1>1. None \in [Chunks -> Nat]
  BY DEF None
<1>2. ASSUME NEW n \in Storage, NEW x \in NodeState, node' = [node EXCEPT ![n] = x]
      PROVE  node' \in [Storage -> NodeState]
  BY <1>0, <1>2
<1>3. ASSUME NEW y \in NodeState, NEW b \in BOOLEAN, NEW a \in Int
       PROVE  [y EXCEPT !.alive = b, !.age = a, !.sent = NoReport] \in NodeState
  <2>1. NoReport \in [Chunks -> Nat] \union {NoReport}
    OBVIOUS
  <2> QED BY <1>3, <2>1 DEF NodeState
<1>4. \A n \in Storage : [node[n] EXCEPT !.alive = TRUE, !.age = 0, !.sent = NoReport] \in NodeState
  <2>1. TRUE \in BOOLEAN /\ 0 \in Int
    OBVIOUS
  <2>2. \A n \in Storage : node[n] \in NodeState
    BY <1>0
  <2> QED BY <1>3, <2>1, <2>2, Zenon
<1>5. ASSUME Tick PROVE node' \in [Storage -> NodeState]
  <2>1. node' = [n \in Storage |-> [node[n] EXCEPT !.age = AtMost(@ + 1, MaxAge)]]
    BY <1>5 DEF Tick
  <2>2. \A a \in Int : AtMost(a + 1, MaxAge) \in Int
    BY BackgroundAssumption DEF AtMost
  <2>3. ASSUME NEW n \in Storage
        PROVE  [node[n] EXCEPT !.age = AtMost(@ + 1, MaxAge)] \in NodeState
    <3>1. node[n] \in NodeState /\ AtMost(node[n].age + 1, MaxAge) \in Int
      BY <1>0, <2>2 DEF NodeState
    <3> QED BY <3>1 DEF NodeState
  <2> QED BY <2>1, <2>3
<1>6. ASSUME NEW n \in Storage, NEW c \in Chunks, Access(n, c) PROVE node' \in [Storage -> NodeState]
  <2> DEFINE f == [node[n].counts EXCEPT ![c] = @ + 1]
             x == [node[n] EXCEPT !.counts = f]
  <2>1. node' = [node EXCEPT ![n] = x]
    BY <1>0, <1>6 DEF Access
  <2>2. f \in [Chunks -> Nat]
    BY <1>0 DEF NodeState
  <2> HIDE DEF f
  <2>3. x \in NodeState
    BY <1>0, <2>2 DEF NodeState
  <2> HIDE DEF x
  <2> QED BY <1>2, <2>1, <2>3
<1>7. ASSUME NEW n \in Storage, ReportSend(n) PROVE node' \in [Storage -> NodeState]
  <2> DEFINE x == [node[n] EXCEPT !.sent = node[n].counts, !.counts = None]
  <2>1. node' = [node EXCEPT ![n] = x]
    BY <1>0, <1>7 DEF ReportSend
  <2>2. x \in NodeState
    BY <1>0, <1>1 DEF NodeState
  <2> HIDE DEF x
  <2> QED BY <1>2, <2>1, <2>2
<1>8. ASSUME NEW n \in Storage, ReportArrive(n) PROVE node' \in [Storage -> NodeState]
  <2> DEFINE x == [node[n] EXCEPT !.alive = TRUE, !.age = 0, !.sent = NoReport]
  <2>1. node' = [node EXCEPT ![n] = x]
    BY <1>8 DEF ReportArrive, ApplyHeartbeat
  <2>2. x \in NodeState
    BY <1>4
  <2> HIDE DEF x
  <2> QED BY <1>2, <2>1, <2>2
<1>9. ASSUME NEW n \in Storage, ReportLost(n) PROVE node' \in [Storage -> NodeState]
  <2> DEFINE x == [node[n] EXCEPT !.sent = NoReport]
  <2>1. node' = [node EXCEPT ![n] = x]
    BY <1>0, <1>9 DEF ReportLost
  <2>2. x \in NodeState
    BY <1>0 DEF NodeState
  <2> HIDE DEF x
  <2> QED BY <1>2, <2>1, <2>2
<1>10. ASSUME NEW n \in Storage, NodeCrash(n) PROVE node' \in [Storage -> NodeState]
  <2> DEFINE x == [node[n] EXCEPT !.up = FALSE, !.counts = None]
  <2>1. node' = [node EXCEPT ![n] = x]
    BY <1>0, <1>10 DEF NodeCrash
  <2>2. x \in NodeState
    BY <1>0, <1>1 DEF NodeState
  <2> HIDE DEF x
  <2> QED BY <1>2, <2>1, <2>2
<1>11. ASSUME NEW n \in Storage, NodeRestart(n) PROVE node' \in [Storage -> NodeState]
  <2> DEFINE x == [node[n] EXCEPT !.up = TRUE]
  <2>1. node' = [node EXCEPT ![n] = x]
    BY <1>0, <1>11 DEF NodeRestart
  <2>2. x \in NodeState
    BY <1>0 DEF NodeState
  <2> HIDE DEF x
  <2> QED BY <1>2, <2>1, <2>2
<1>12. ASSUME HbEvict PROVE node' \in [Storage -> NodeState]
  <2>1. node' = [n \in Storage |-> [node[n] EXCEPT !.alive = @ /\ ~(Silence(n) > EvictAfter)]]
    BY <1>12 DEF HbEvict, EvictStaleNodes
  <2>2. ASSUME NEW n \in Storage, NEW b \in BOOLEAN PROVE [node[n] EXCEPT !.alive = b] \in NodeState
    BY <1>0 DEF NodeState
  <2>3. ASSUME NEW n \in Storage
        PROVE  [node[n] EXCEPT !.alive = @ /\ ~(Silence(n) > EvictAfter)] \in NodeState
    <3> DEFINE b == node[n].alive /\ ~(Silence(n) > EvictAfter)
    <3>1. b \in BOOLEAN
      OBVIOUS
    <3>2. [node[n] EXCEPT !.alive = @ /\ ~(Silence(n) > EvictAfter)] = [node[n] EXCEPT !.alive = b]
      OBVIOUS
    <3> HIDE DEF b
    <3>3. [node[n] EXCEPT !.alive = b] \in NodeState
      BY <2>2, <3>1
    <3> QED BY <3>2, <3>3
  <2> QED BY <2>1, <2>3
<1>13. ASSUME NEW members, ReconfigCopy(members) PROVE node' \in [Storage -> NodeState]
  <2>0. hb.pc = "copy" /\ Copied(members)
    BY <1>13 DEF ReconfigCopy
  <2>1. hb.c \in Chunks /\ hb.new \in Nat
    BY <2>0 DEF HbInv, BackTypeOK, IsHb
  <2>2. PICK src : LET served(n) == (IF n \in members THEN 1 ELSE 0) + (IF n = src THEN hb.new ELSE 0)
                   IN node' = [n \in Storage |-> [node[n] EXCEPT !.counts[hb.c] = @ + served(n)]]
    BY <2>0 DEF Copied
  <2> DEFINE served(n) == (IF n \in members THEN 1 ELSE 0) + (IF n = src THEN hb.new ELSE 0)
             f(n) == [node[n].counts EXCEPT ![hb.c] = @ + served(n)]
  <2>3. \A n : served(n) \in Nat
    BY <2>1
  <2>4. node' = [n \in Storage |-> [node[n] EXCEPT !.counts = f(n)]]
    BY <2>2
  <2> HIDE DEF served
  <2>5. \A n \in Storage : f(n) \in [Chunks -> Nat]
    BY <1>0, <2>1, <2>3 DEF NodeState
  <2> HIDE DEF f
  <2>6. ASSUME NEW n \in Storage PROVE [node[n] EXCEPT !.counts = f(n)] \in NodeState
    BY <1>0, <2>5 DEF NodeState
  <2> QED BY <2>4, <2>6
<1>14. ASSUME LeaderRestart PROVE node' \in [Storage -> NodeState]
  <2>1. node' = [n \in Storage |-> [node[n] EXCEPT !.alive = TRUE, !.age = 0, !.sent = NoReport]]
    BY <1>14 DEF LeaderRestart
  <2> QED BY <1>4, <2>1
<1>15. ASSUME NEW c \in Chunks, Delete(c) \/ \E rf \in PutRfs : Assign(c, rf) PROVE node' = node
  BY <1>15 DEF Delete, Assign
<1>16. ASSUME NEW c \in Chunks, NEW gap \in Gaps, HbEvaluate(c, gap) PROVE node' = node
  BY <1>16 DEF HbEvaluate
<1>17. ASSUME HbWake \/ ReconfigRefused \/ ReconfigBegin \/ ReconfigStart \/ ReconfigCommit \/ ReconfigFailed
       PROVE  node' = node
  BY <1>17 DEF HbWake, ReconfigRefused, ReconfigBegin, ReconfigStart, ReconfigCommit, ReconfigFailed
<1>18. CASE UNCHANGED vars
  BY <1>0, <1>18 DEF vars
<1>19. ASSUME HbStep PROVE node' \in [Storage -> NodeState]
  BY <1>0, <1>12, <1>13, <1>16, <1>17, <1>19 DEF HbStep
<1>20. ASSUME NEW n \in Storage, NodeStep(n) PROVE node' \in [Storage -> NodeState]
  BY <1>6, <1>7, <1>8, <1>9, <1>10, <1>11, <1>20 DEF NodeStep
<1> QED BY <1>0, <1>5, <1>14, <1>15, <1>18, <1>19, <1>20 DEF Next

(***************************************************************************)
(* The factors in the table.                                               *)
(***************************************************************************)
\* The table, hb_thread and how they go together.
FollowInv ==
    /\ ent \in [Chunks -> EntState] /\ missed \in [Chunks -> BOOLEAN]
    /\ IsHb(hb) /\ HbInv /\ RfFollowsTier

Reconfiguring == {"begin", "start", "copy", "commit"}

\* Steps that change no entry, no tier and not what hb_thread works on.
LEMMA FollowSame ==
    ASSUME BackInv, ent' = ent, missed' = missed, \A c \in Chunks : pol'[c].tier = pol[c].tier,
           IsHb(hb'), hb'.copy = hb.copy, hb'.c = hb.c, hb'.rf = hb.rf,
           hb'.pc \in Reconfiguring <=> hb.pc \in Reconfiguring
    PROVE  FollowInv'
<1>1. ent \in [Chunks -> EntState] /\ missed \in [Chunks -> BOOLEAN] /\ IsHb(hb) /\ HbInv /\ RfFollowsTier
  BY DEF BackInv, BackTypeOK
<1>2. HbInv'
  <2>1. \A c \in Chunks : Present(c)' <=> Present(c)
    BY DEF Present
  <2>2. DOMAIN hb.copy \subseteq Chunks
    BY <1>1 DEF IsHb
  <2>3. /\ hb'.pc \in {"begin", "start", "copy", "commit"} <=> hb.pc \in {"begin", "start", "copy", "commit"}
        /\ hb'.pc \in {"sleep", "evict", "round"} => hb.pc \in {"sleep", "evict", "round"}
    BY <1>1 DEF Reconfiguring, IsHb
  <2>4. hb.pc \in {"begin", "start", "copy", "commit"} =>
          hb.c \in Chunks /\ pol'[hb.c].tier = pol[hb.c].tier
    BY <1>1 DEF HbInv
  <2> QED BY <1>1, <2>1, <2>2, <2>3, <2>4 DEF HbInv
<1>3. RfFollowsTier'
  BY <1>1 DEF RfFollowsTier, Present
<1> QED BY <1>1, <1>2, <1>3 DEF FollowInv

\* hb_thread starts or goes on with a round for the chunks of f.
LEMMA FollowRound ==
    ASSUME ent' \in [Chunks -> EntState], missed' \in [Chunks -> BOOLEAN],
           NEW f, DOMAIN f \subseteq Chunks, hb' = Round(f),
           \A c \in DOMAIN f : Present(c)' /\ ~missed'[c] => f[c] = ent'[c].rf,
           \A c \in Chunks : Present(c)' /\ ~missed'[c] => ent'[c].rf = RfForTier(pol'[c].tier)
    PROVE  FollowInv'
<1>1. /\ IsHb(hb') /\ hb'.pc \in {"sleep", "round"} /\ hb'.c = "-"
      /\ DOMAIN hb'.copy \subseteq DOMAIN f
      /\ \A c \in DOMAIN hb'.copy : hb'.copy[c] = f[c]
  BY RoundFields
<1>2. HbInv'
  BY <1>1 DEF HbInv
<1>3. RfFollowsTier'
  BY DEF RfFollowsTier
<1> QED BY <1>1, <1>2, <1>3 DEF FollowInv

\* reconfig() returns: the factor is that of the tier, or the chunk is noted.
LEMMA FollowReturn ==
    ASSUME BackInv, hb.pc \in Reconfiguring, NEW ok \in BOOLEAN, Return(ok), pol' = pol,
           ent' \in [Chunks -> EntState], NEW b, b = hb.c,
           \A c \in Chunks : c # b => ent'[c] = ent[c], ok /\ Present(b)' => ent'[b].rf = hb.rf
    PROVE  FollowInv'
<1>1. /\ missed \in [Chunks -> BOOLEAN] /\ HbInv /\ RfFollowsTier /\ DOMAIN hb.copy \subseteq Chunks
      /\ b \in Chunks /\ b \notin DOMAIN hb.copy /\ hb.rf = RfForTier(pol[b].tier)
  BY DEF BackInv, BackTypeOK, IsHb, HbInv, Reconfiguring
<1>2. hb' = Round(hb.copy) /\ missed' = [missed EXCEPT ![b] = ~ok]
  BY DEF Return
<1>3. missed' \in [Chunks -> BOOLEAN] /\ \A c \in Chunks : c # b => missed'[c] = missed[c]
  BY <1>1, <1>2
<1>4. missed'[b] <=> ~ok
  BY <1>1, <1>2
<1>5. \A c \in Chunks : c # b => (Present(c)' <=> Present(c))
  BY DEF Present
<1>6. \A c \in DOMAIN hb.copy : Present(c)' /\ ~missed'[c] => hb.copy[c] = ent'[c].rf
  BY <1>1, <1>3, <1>5 DEF HbInv
<1>7. ASSUME NEW c \in Chunks, Present(c)', ~missed'[c]
      PROVE  ent'[c].rf = RfForTier(pol'[c].tier)
  <2>1. CASE c = b
    BY <1>1, <1>4, <1>7, <2>1
  <2>2. CASE c # b
    BY <1>3, <1>5, <1>7, <2>2 DEF BackInv, RfFollowsTier
  <2> QED BY <2>1, <2>2
<1> QED BY <1>1, <1>2, <1>3, <1>6, <1>7, FollowRound

\* What committing an entry of a reconfiguration does to the table.
LEMMA ReconfigApplies ==
    ASSUME BackInv, hb.pc \in Reconfiguring, NEW state \in {"STABLE", "TRANSITIONING"},
           ApplyReconfig(state), NEW b, b = hb.c
    PROVE  /\ ent' \in [Chunks -> EntState] /\ b \in Chunks
           /\ \A c \in Chunks : c # b => ent'[c] = ent[c]
           /\ Present(b)' <=> Present(b)
           /\ Present(b) => ent'[b].rf = hb.rf
<1>1. ent \in [Chunks -> EntState] /\ b \in Chunks /\ hb.rf \in Nat
  BY DEF BackInv, BackTypeOK, IsHb, HbInv, Reconfiguring
<1> DEFINE e == IF Present(b) THEN [rf |-> hb.rf, state |-> state] ELSE ent[b]
<1>2. ent' = [ent EXCEPT ![b] = e]
  BY <1>1 DEF ApplyReconfig
<1>3. e \in EntState /\ (Present(b) => e.rf = hb.rf) /\ (e.state # "ABSENT" <=> Present(b))
  BY <1>1 DEF EntState, Present
<1> HIDE DEF e
<1>4. ent' \in [Chunks -> EntState] /\ ent'[b] = e /\ \A c \in Chunks : c # b => ent'[c] = ent[c]
  BY <1>1, <1>2, <1>3
<1> QED BY <1>1, <1>3, <1>4 DEF Present

\* The steps of reconfig().
LEMMA FollowReconfig ==
    ASSUME BackInv, \/ ReconfigRefused \/ ReconfigBegin \/ ReconfigStart \/ ReconfigCommit
                    \/ ReconfigFailed \/ \E members \in SUBSET Storage : ReconfigCopy(members)
    PROVE  FollowInv'
<1>0. ent \in [Chunks -> EntState] /\ IsHb(hb) /\ HbInv /\ BackTypeOK
  BY DEF BackInv, BackTypeOK
<1>1. CASE ReconfigRefused \/ ReconfigFailed
  <2>1. hb.pc \in Reconfiguring /\ Return(FALSE) /\ pol' = pol /\ ent' = ent
    BY <1>1 DEF ReconfigRefused, ReconfigFailed, Reconfiguring, polVars
  <2> QED BY <1>0, <2>1, FollowReturn
<1>2. CASE ReconfigCommit
  <2>0. PICK b : b = hb.c
    OBVIOUS
  <2>1. hb.pc \in Reconfiguring /\ ApplyReconfig("STABLE") /\ Return(Present(hb.c)) /\ pol' = pol
    BY <1>2 DEF ReconfigCommit, Reconfiguring, polVars
  <2>2. /\ ent' \in [Chunks -> EntState] /\ \A c \in Chunks : c # b => ent'[c] = ent[c]
        /\ Present(b) => ent'[b].rf = hb.rf
    BY <2>0, <2>1, ReconfigApplies
  <2>3. Present(hb.c) \in BOOLEAN
    BY DEF Present
  <2> QED BY <2>0, <2>1, <2>2, <2>3, FollowReturn
<1>3. CASE ReconfigBegin
  <2> DEFINE new == IF hb.rf > ent[hb.c].rf THEN hb.rf - ent[hb.c].rf ELSE 0
  <2>1. hb.pc = "begin" /\ hb' = [hb EXCEPT !.pc = "start", !.new = new]
        /\ ent' = ent /\ missed' = missed /\ pol' = pol
    BY <1>3 DEF ReconfigBegin, tabVars, polVars
  <2>2. new \in Nat
    <3>1. hb.c \in Chunks /\ hb.rf \in Nat
      BY <1>0, <2>1 DEF HbInv, IsHb
    <3>2. ent[hb.c].rf \in Nat
      BY <1>0, <3>1 DEF EntState
    <3> QED BY <3>1, <3>2
  <2> HIDE DEF new
  <2>3. IsHb(hb') /\ hb'.pc = "start" /\ hb'.copy = hb.copy /\ hb'.c = hb.c /\ hb'.rf = hb.rf
    BY <1>0, <2>1, <2>2, HbMoves
  <2> QED BY <2>1, <2>3, FollowSame DEF Reconfiguring
<1>4. ASSUME NEW members \in SUBSET Storage, ReconfigCopy(members) PROVE FollowInv'
  <2>1. hb.pc = "copy" /\ hb' = [hb EXCEPT !.pc = "commit"]
        /\ ent' = ent /\ missed' = missed /\ pol' = pol
    BY <1>4 DEF ReconfigCopy, tabVars, polVars
  <2>2. IsHb(hb') /\ hb'.pc = "commit" /\ hb'.copy = hb.copy /\ hb'.c = hb.c /\ hb'.rf = hb.rf
    BY <1>0, <2>1, HbMoves
  <2> QED BY <2>1, <2>2, FollowSame DEF Reconfiguring
<1>5. CASE ReconfigStart
  <2>0. PICK b : b = hb.c
    OBVIOUS
  <2>1. hb.pc = "start" /\ hb.pc \in Reconfiguring /\ ApplyReconfig("TRANSITIONING")
        /\ hb' = [hb EXCEPT !.pc = "copy"] /\ missed' = missed /\ pol' = pol
    BY <1>5 DEF ReconfigStart, Reconfiguring, polVars
  <2>2. /\ ent' \in [Chunks -> EntState] /\ b \in Chunks
        /\ \A c \in Chunks : c # b => ent'[c] = ent[c]
    BY <2>0, <2>1, ReconfigApplies
  <2>3. IsHb(hb') /\ hb'.pc = "copy" /\ hb'.copy = hb.copy /\ hb'.c = hb.c /\ hb'.rf = hb.rf
    BY <1>0, <2>1, HbMoves
  <2>4. b \notin DOMAIN hb.copy /\ hb.rf = RfForTier(pol[b].tier) /\ DOMAIN hb.copy \subseteq Chunks
    BY <1>0, <2>0, <2>1 DEF HbInv, IsHb
  <2>5. HbInv'
    <3>1. \A c \in DOMAIN hb.copy : Present(c)' /\ ~missed'[c] => hb.copy[c] = ent'[c].rf
      BY <1>0, <2>1, <2>2, <2>4 DEF HbInv, Present
    <3>2. hb'.c \in Chunks \ DOMAIN hb'.copy /\ hb'.rf = RfForTier(pol'[hb'.c].tier)
      BY <2>0, <2>1, <2>2, <2>3, <2>4
    <3>3. ~(hb'.pc \in {"sleep", "evict", "round"})
      BY <2>3
    <3> QED BY <2>3, <3>1, <3>2, <3>3 DEF HbInv
  <2>6. RfFollowsTier'
    BY <2>0, <2>1, <2>2, <2>3 DEF BackInv, RfFollowsTier, Present
  <2>7. missed' \in [Chunks -> BOOLEAN]
    BY <1>0, <2>1 DEF BackTypeOK
  <2> QED BY <2>2, <2>3, <2>5, <2>6, <2>7 DEF FollowInv
<1> QED BY <1>1, <1>2, <1>3, <1>4, <1>5

\* hb_thread goes to sleep.
LEMMA FollowAsleep ==
    ASSUME ent' \in [Chunks -> EntState], missed' \in [Chunks -> BOOLEAN], NEW k, hb' = Asleep(k),
           \A c \in Chunks : Present(c)' /\ ~missed'[c] => ent'[c].rf = RfForTier(pol'[c].tier)
    PROVE  FollowInv'
<1>1. IsHb(hb') /\ hb'.pc = "sleep" /\ hb'.c = "-" /\ DOMAIN hb'.copy = {}
  BY AsleepFields
<1>2. HbInv'
  BY <1>1 DEF HbInv
<1>3. RfFollowsTier'
  BY DEF RfFollowsTier
<1> QED BY <1>1, <1>2, <1>3 DEF FollowInv

\* Between reconfigurations the factors of all chunks follow their tiers.
LEMMA AllFollow ==
    ASSUME BackInv, hb.pc \in {"sleep", "evict", "round"}
    PROVE  \A c \in Chunks : Present(c) /\ ~missed[c] => ent[c].rf = RfForTier(pol[c].tier)
<1>1. \A c \in Chunks : hb.c # c
  BY BackgroundAssumption DEF BackInv, HbInv
<1> QED BY <1>1 DEF BackInv, RfFollowsTier

\* The copy of the table that a round works on is right when it is made.
LEMMA FollowEvict ==
    ASSUME BackInv, HbEvict
    PROVE  FollowInv'
<1> DEFINE f == [c \in {d \in Chunks : Present(d)} |-> ent[c].rf]
<1>0. /\ ent' \in [Chunks -> EntState] /\ missed' \in [Chunks -> BOOLEAN]
      /\ ent' = ent /\ missed' = missed /\ pol' = pol
  BY DEF HbEvict, tabVars, polVars, BackInv, BackTypeOK
<1>1. \A c \in Chunks : Present(c)' /\ ~missed'[c] => ent'[c].rf = RfForTier(pol'[c].tier)
  <2>1. hb.pc \in {"sleep", "evict", "round"}
    BY DEF HbEvict
  <2> QED BY <1>0, <2>1, AllFollow DEF Present
<1>2. CASE hb.tick + 1 >= PolicyEvery
  <2>1. hb' = Round(f)
    BY <1>2 DEF HbEvict
  <2>2. DOMAIN f \subseteq Chunks /\ \A c \in DOMAIN f : f[c] = ent'[c].rf
    BY <1>0
  <2> HIDE DEF f
  <2> QED BY <1>0, <1>1, <2>1, <2>2, FollowRound
<1>3. CASE ~(hb.tick + 1 >= PolicyEvery)
  <2>1. hb' = Asleep(hb.tick + 1)
    BY <1>3 DEF HbEvict
  <2> QED BY <1>0, <1>1, <2>1, FollowAsleep
<1> QED BY <1>2, <1>3

\* An evaluation that moves a tier asks for its factor, unless the copy has it.
LEMMA FollowEvaluate ==
    ASSUME BackInv, NEW c \in Chunks, NEW gap \in Gaps, HbEvaluate(c, gap)
    PROVE  FollowInv'
<1> DEFINE d == Desired(c, gap)
           rest == Restrict(hb.copy, DOMAIN hb.copy \ {c})
<1>0. /\ pol \in [Chunks -> PolState] /\ recent \in [Chunks -> [Window -> Tiers]] /\ PolicyInv
      /\ ent' \in [Chunks -> EntState] /\ missed' \in [Chunks -> BOOLEAN] /\ ent' = ent /\ missed' = missed
      /\ IsHb(hb) /\ HbInv /\ hb.pc = "round" /\ c \in DOMAIN hb.copy /\ DOMAIN hb.copy \subseteq Chunks
  BY DEF HbEvaluate, tabVars, BackInv, BackTypeOK, IsHb
<1>1. /\ \A b \in Chunks : b # c => pol'[b] = pol[b]
      /\ pol'[c].tier = IF Changed(c, gap) THEN d ELSE pol[c].tier
  BY <1>0, EvaluateSteps DEF HbEvaluate
<1>2. \A b \in Chunks : Present(b) /\ ~missed[b] => ent[b].rf = RfForTier(pol[b].tier)
  BY <1>0, AllFollow
<1>3. /\ DOMAIN rest = DOMAIN hb.copy \ {c} /\ \A b \in DOMAIN rest : rest[b] = hb.copy[b]
  BY DEF Restrict
<1>4. \A b \in DOMAIN rest : Present(b)' /\ ~missed'[b] => rest[b] = ent'[b].rf
  BY <1>0, <1>3 DEF HbInv, Present
<1>5. \A b \in Chunks : b # c /\ Present(b)' /\ ~missed'[b] => ent'[b].rf = RfForTier(pol'[b].tier)
  BY <1>0, <1>1, <1>2 DEF Present
<1>6. DOMAIN rest \subseteq Chunks /\ c \notin DOMAIN rest
  BY <1>0, <1>3
<1> HIDE DEF d, rest
<1>7. CASE WantsReconfig(c, gap)
  <2>1. hb' = [hb EXCEPT !.pc = "begin", !.copy = rest, !.c = c, !.rf = RfForTier(d)]
    BY <1>7 DEF HbEvaluate, d, rest
  <2>2. hb' = [pc |-> "begin", tick |-> hb.tick, t |-> hb.t, copy |-> rest,
               c |-> c, rf |-> RfForTier(d), new |-> hb.new]
    BY <1>0, <2>1 DEF IsHb
  <2>3. hb'.pc = "begin" /\ hb'.copy = rest /\ hb'.c = c /\ hb'.rf = RfForTier(d)
    BY <2>2
  <2>4. RfForTier(d) \in Nat /\ hb.new \in Nat
    BY <1>0, TierNumbers DEF d, IsHb
  <2>5. IsHb(hb')
    BY <1>6, <2>2, <2>4 DEF IsHb
  <2>6. pol'[c].tier = d
    BY <1>1, <1>7 DEF WantsReconfig
  <2>7. HbInv'
    BY <1>4, <1>6, <2>3, <2>6 DEF HbInv
  <2>8. RfFollowsTier'
    BY <1>5, <2>3 DEF RfFollowsTier
  <2> QED BY <1>0, <2>5, <2>7, <2>8 DEF FollowInv
<1>8. CASE ~WantsReconfig(c, gap)
  <2>1. hb' = Round(rest)
    BY <1>8 DEF HbEvaluate, rest
  <2>2. Present(c)' /\ ~missed'[c] => ent'[c].rf = RfForTier(pol'[c].tier)
    <3> SUFFICES ASSUME Present(c)', ~missed'[c] PROVE ent'[c].rf = RfForTier(pol'[c].tier)
      OBVIOUS
    <3>1. Present(c) /\ ~missed[c]
      BY <1>0 DEF Present
    <3>2. CASE Changed(c, gap)
      <4>1. RfForTier(d) = hb.copy[c] /\ hb.copy[c] = ent[c].rf
        BY <1>0, <1>8, <3>1, <3>2 DEF WantsReconfig, d, HbInv
      <4> QED BY <1>0, <1>1, <3>2, <4>1
    <3>3. CASE ~Changed(c, gap)
      BY <1>0, <1>1, <1>2, <3>1, <3>3
    <3> QED BY <3>2, <3>3
  <2> QED BY <1>0, <1>4, <1>5, <1>6, <2>1, <2>2, FollowRound
<1> QED BY <1>7, <1>8

\* A put or a manual change that sets another factor, or that hb_thread's copy of
\* the table predates, is noted; a delete leaves nothing to follow.
LEMMA FollowChange ==
    ASSUME BackInv, NEW c \in Chunks, Delete(c) \/ \E rf \in PutRfs : Assign(c, rf)
    PROVE  FollowInv'
<1>0. /\ ent \in [Chunks -> EntState] /\ missed \in [Chunks -> BOOLEAN] /\ IsHb(hb) /\ HbInv
      /\ hb' = hb /\ pol' = pol /\ DOMAIN hb.copy \subseteq Chunks
  <2>1. hb' = hb /\ pol' = pol
    BY DEF Delete, Assign, polVars
  <2> QED BY <2>1 DEF BackInv, BackTypeOK, IsHb
<1>1. ASSUME ent' \in [Chunks -> EntState], missed' \in [Chunks -> BOOLEAN],
             \A b \in Chunks : b # c => ent'[b] = ent[b] /\ missed'[b] = missed[b],
             Present(c)' /\ ~missed'[c] =>
                 c \notin DOMAIN hb.copy /\ ent'[c].rf = RfForTier(pol[c].tier)
      PROVE  FollowInv'
  <2>1. HbInv'
    <3>1. \A b \in DOMAIN hb.copy : Present(b)' /\ ~missed'[b] => hb.copy[b] = ent'[b].rf
      BY <1>0, <1>1 DEF HbInv, Present
    <3> QED BY <1>0, <3>1 DEF HbInv
  <2>2. RfFollowsTier'
    BY <1>0, <1>1 DEF BackInv, RfFollowsTier, Present
  <2> QED BY <1>0, <1>1, <2>1, <2>2 DEF FollowInv
<1>2. CASE Delete(c)
  <2>1. ent' = [ent EXCEPT ![c] = Absent] /\ missed' = missed
    BY <1>2 DEF Delete
  <2>2. Absent \in EntState /\ Absent.state = "ABSENT"
    BY DEF Absent, EntState
  <2>3. /\ ent' \in [Chunks -> EntState] /\ ~Present(c)'
        /\ \A b \in Chunks : b # c => ent'[b] = ent[b]
    BY <1>0, <2>1, <2>2 DEF Present
  <2> QED BY <1>0, <1>1, <2>1, <2>3
<1>3. ASSUME NEW rf \in PutRfs, Assign(c, rf) PROVE FollowInv'
  <2> DEFINE e == [rf |-> rf, state |-> "STABLE"]
             m == rf # RfForTier(pol[c].tier) \/ c \in DOMAIN hb.copy
  <2>1. ent' = [ent EXCEPT ![c] = e] /\ missed' = [missed EXCEPT ![c] = m]
    BY <1>3 DEF Assign
  <2>2. e \in EntState /\ e.rf = rf
    BY BackgroundAssumption DEF EntState
  <2>3. m \in BOOLEAN
    OBVIOUS
  <2>4. ~m => c \notin DOMAIN hb.copy /\ rf = RfForTier(pol[c].tier)
    OBVIOUS
  <2> HIDE DEF e, m
  <2>5. /\ ent' \in [Chunks -> EntState] /\ ent'[c] = e
        /\ \A b \in Chunks : b # c => ent'[b] = ent[b]
    BY <1>0, <2>1, <2>2
  <2>6. /\ missed' \in [Chunks -> BOOLEAN] /\ missed'[c] = m
        /\ \A b \in Chunks : b # c => missed'[b] = missed[b]
    BY <1>0, <2>1, <2>3
  <2>7. Present(c)' /\ ~missed'[c] => c \notin DOMAIN hb.copy /\ ent'[c].rf = RfForTier(pol[c].tier)
    BY <2>2, <2>4, <2>5, <2>6
  <2> QED BY <1>1, <2>5, <2>6, <2>7
<1> QED BY <1>2, <1>3

\* A restart of the leader makes every tier WARM and notes the other factors.
LEMMA FollowRestart ==
    ASSUME BackInv, LeaderRestart
    PROVE  FollowInv'
<1>1. ent' = ent /\ missed' = [c \in Chunks |-> ent[c].rf # WarmRf] /\ hb' = Asleep(0)
  BY DEF LeaderRestart
<1>2. ent' \in [Chunks -> EntState] /\ missed' \in [Chunks -> BOOLEAN]
  BY <1>1 DEF BackInv, BackTypeOK
<1>3. \A c \in Chunks : pol'[c].tier = Warm
  BY RestartForgets DEF BackInv
<1>4. \A c \in Chunks : ~missed'[c] => ent'[c].rf = RfForTier(pol'[c].tier)
  BY <1>1, <1>3, TierNumbers
<1> QED BY <1>1, <1>2, <1>4, FollowAsleep

\* Steps of the storage nodes and the clock.
LEMMA FollowNodes ==
    ASSUME BackInv, Tick \/ HbWake \/ (\E n \in Storage : NodeStep(n)) \/ UNCHANGED vars
    PROVE  FollowInv'
<1>0. IsHb(hb) /\ BackTypeOK /\ PolicyInv
  BY DEF BackInv, BackTypeOK
<1>1. ASSUME pol' = pol, ent' = ent, missed' = missed, hb' = hb PROVE FollowInv'
  BY <1>0, <1>1, FollowSame
<1>2. CASE Tick
  <2> DEFINE t == IF hb.pc = "evict" THEN hb.t + 1 ELSE 0
  <2>1. hb' = [hb EXCEPT !.t = t] /\ pol' = pol /\ ent' = ent /\ missed' = missed
    BY <1>2 DEF Tick, tabVars, polVars
  <2> HIDE DEF t
  <2>2. hb' = [pc |-> hb.pc, tick |-> hb.tick, t |-> t, copy |-> hb.copy,
               c |-> hb.c, rf |-> hb.rf, new |-> hb.new]
    BY <1>0, <2>1 DEF IsHb
  <2>3. IsHb(hb') /\ hb'.pc = hb.pc /\ hb'.copy = hb.copy /\ hb'.c = hb.c /\ hb'.rf = hb.rf
    BY <1>0, <2>2 DEF IsHb
  <2> QED BY <2>1, <2>3, FollowSame
<1>3. CASE HbWake
  <2>1. hb.pc = "sleep" /\ hb' = [hb EXCEPT !.pc = "evict", !.t = 0]
        /\ pol' = pol /\ ent' = ent /\ missed' = missed
    BY <1>3 DEF HbWake, tabVars, polVars
  <2>a. hb' = [pc |-> "evict", tick |-> hb.tick, t |-> 0, copy |-> hb.copy,
               c |-> hb.c, rf |-> hb.rf, new |-> hb.new]
    BY <1>0, <2>1 DEF IsHb
  <2>2. IsHb(hb') /\ hb'.pc = "evict" /\ hb'.copy = hb.copy /\ hb'.c = hb.c /\ hb'.rf = hb.rf
    BY <1>0, <2>a DEF IsHb
  <2> QED BY <2>1, <2>2, FollowSame DEF Reconfiguring
<1>4. ASSUME NEW n \in Storage, ReportArrive(n) PROVE FollowInv'
  <2>1. ent' = ent /\ missed' = missed /\ hb' = hb
    BY <1>4 DEF ReportArrive, tabVars
  <2>2. \A c \in Chunks : pol'[c].tier = pol[c].tier
    BY <1>0, <1>4, ReportAdds
  <2> QED BY <1>0, <2>1, <2>2, FollowSame
<1>5. ASSUME NEW n \in Storage, NEW c \in Chunks, Access(n, c) PROVE FollowInv'
  BY <1>1, <1>5 DEF Access, tabVars, polVars
<1>6. ASSUME NEW n \in Storage, ReportSend(n) \/ ReportLost(n) \/ NodeCrash(n) \/ NodeRestart(n)
      PROVE  FollowInv'
  BY <1>1, <1>6 DEF ReportSend, ReportLost, NodeCrash, NodeRestart, tabVars, polVars
<1>7. CASE UNCHANGED vars
  BY <1>1, <1>7 DEF vars, tabVars, polVars
<1> QED BY <1>2, <1>3, <1>4, <1>5, <1>6, <1>7 DEF NodeStep

(***************************************************************************)
(* The theorems.                                                           *)
(***************************************************************************)
\* Initially every chunk is WARM, with the factor of that tier.
LEMMA BackInit == Init => BackInv
<1> SUFFICES ASSUME Init PROVE BackInv
  OBVIOUS
<1>1. NewState \in PolState /\ NewState.tier = Warm /\ NewState.above = 0 /\ NewState.below = 0
  BY Windows, TierNumbers DEF NewState, PolState
<1>2. /\ pol \in [Chunks -> PolState] /\ recent \in [Chunks -> [Window -> Tiers]]
      /\ \A c \in Chunks : pol[c] = NewState
  BY <1>1, TierNumbers DEF Init, PolicyInit, NoPolicy, NoWindows
<1>3. PolicyInv
  <2>1. \A c \in Chunks : Counted(pol[c], recent[c])
    <3> TAKE c \in Chunks
    <3>1. pol[c].above = 0 /\ pol[c].below = 0
      BY <1>1, <1>2
    <3>2. \A i \in 1 .. 0 : FALSE
      OBVIOUS
    <3> QED BY <3>1, <3>2 DEF Counted
  <2> QED BY <1>2, <2>1, PolicyParts
<1>4. /\ ent \in [Chunks -> EntState] /\ \A c \in Chunks : ent[c].rf = WarmRf
  BY PolicyAssumption DEF Init, EntState
<1>5. missed \in [Chunks -> BOOLEAN]
  BY DEF Init
<1>6. node \in [Storage -> NodeState]
  <2>1. None \in [Chunks -> Nat]
    BY DEF None
  <2>2. ASSUME NEW b \in BOOLEAN, NEW f \in [Chunks -> Nat]
        PROVE  [up |-> b, alive |-> b, age |-> 0, counts |-> f, sent |-> NoReport] \in NodeState
    BY <2>2 DEF NodeState
  <2>3. TRUE \in BOOLEAN
    OBVIOUS
  <2>4. [up |-> TRUE, alive |-> TRUE, age |-> 0, counts |-> None, sent |-> NoReport] \in NodeState
    BY <2>1, <2>2, <2>3, Zenon
  <2> QED BY <2>4 DEF Init
<1>7. IsHb(hb) /\ hb.pc = "sleep" /\ hb.c = "-" /\ DOMAIN hb.copy = {}
  BY AsleepFields DEF Init
<1>8. HbInv
  BY <1>7 DEF HbInv
<1>9. RfFollowsTier
  BY <1>1, <1>2, <1>4, TierNumbers DEF RfFollowsTier
<1> QED BY <1>2, <1>3, <1>4, <1>5, <1>6, <1>7, <1>8, <1>9 DEF BackInv, BackTypeOK

\* Every step preserves the invariant.
LEMMA BackNext ==
    ASSUME BackInv, [Next]_vars
    PROVE  BackInv'
<1>0. BackTypeOK /\ PolicyInv /\ HbInv
  BY DEF BackInv
<1>1. FollowInv'
  <2>1. CASE HbStep
    BY <2>1, FollowNodes, FollowEvict, FollowEvaluate, FollowReconfig DEF HbStep
  <2> QED BY <2>1, FollowNodes, FollowChange, FollowRestart DEF Next
<1>2. BackTypeOK'
  BY <1>0, <1>1, PolicyNext, NodesNext DEF BackTypeOK, FollowInv
<1> QED BY <1>0, <1>1, <1>2, PolicyNext DEF BackInv, FollowInv

\* The invariant, for any thresholds, factors, windows and numbers of chunks,
\* nodes, accesses, changes and faults.
THEOREM BackInvariant == Spec => []BackInv
<1>1. BackInv /\ [Next]_vars => BackInv'
  BY BackNext
<1> QED BY <1>1, BackInit, PTL DEF Spec

\* The policy's counters stay below promote_windows and demote_windows and count
\* windows that really followed one another, all above or all below the tier.
THEOREM PolicyCountersHonest == Spec => []PolicyInv
<1>1. BackInv => PolicyInv
  BY DEF BackInv
<1> QED BY <1>1, BackInvariant, PTL

\* A tier rises only after promote_windows windows in a row above it and falls only
\* after demote_windows in a row below it.
THEOREM TiersMoveByHysteresis == Spec => TierHysteresis
<1>1. BackInv /\ [Next]_vars => [recent' # recent => \A c \in Chunks : MovesByHysteresis(c)]_vars
  BY PolicyNext DEF BackInv
<1> QED BY <1>1, BackInvariant, PTL DEF Spec, TierHysteresis

\* The factor in the table is that of the chunk's tier, except for the reasons the
\* history variable records, whatever is put, deleted, lost or restarted meanwhile.
THEOREM FactorsFollowTiers == Spec => []RfFollowsTier
<1>1. BackInv => RfFollowsTier
  BY DEF BackInv
<1> QED BY <1>1, BackInvariant, PTL
=============================================================================
