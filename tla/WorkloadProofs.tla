--------------------------- MODULE WorkloadProofs ---------------------------
(***************************************************************************)
(* What the workload generator picks, for every configuration that leaves  *)
(* it a cold chunk, any number of threads and operations and any schedule. *)
(***************************************************************************)
EXTENDS Workload, TLAPS

Conf == [chunks : Nat, hot : Nat, dist : STRING, ops : Nat, threads : Nat]
Dists == {conf.dist : conf \in Configs} \union {"-"}
Running == [pc : {"none", "run", "done"}, chunks : Nat, hot : Nat, dist : Dists,
            ops : Nat, threads : Nat]
Op == [on : BOOLEAN, chunk : Nat, tier : {"hot", "cold", "-"}, start : Nat]
Record == [type : {"PUT", "GET"}, ok : BOOLEAN, chunk : Nat, tier : {"hot", "cold", "-"},
           start : Nat, latency : Int]

Even == {"zipfian", "uniform"}

\* The configurations the generator is meant for: when it draws the hot and the
\* cold chunks apart, not all chunks are hot.
ConfigsSound ==
    \A conf \in Configs :
        /\ conf \in Conf
        /\ conf.dist \in Even \/ AtLeast((conf.chunks * conf.hot) \div 100, 1) < conf.chunks

WorkSpec == WorkInit /\ [][WorkNext]_wlVars

-----------------------------------------------------------------------------
Tier(i) == IF i < HotCount THEN "hot" ELSE "cold"

ColdLeft == run.dist \in Even \/ HotCount < run.chunks

WorkType ==
    /\ run \in Running
    /\ DOMAIN left = 1 .. run.threads
    /\ cur \in [1 .. run.threads -> Op]
    /\ records \in Seq(Record)
    /\ now \in Nat

\* Between its choice and its record an operation keeps a chunk that exists and
\* the label the chunk has by its index.
WorkInv ==
    /\ WorkType
    /\ run.pc = "none" => records = << >> /\ run.threads = 0
    /\ run.pc # "none" => ColdLeft
    /\ \A t \in DOMAIN cur : cur[t].on => cur[t].chunk < run.chunks /\ cur[t].tier = Tier(cur[t].chunk)
    /\ \A i \in DOMAIN records : records[i].tier = Tier(records[i].chunk)

\* The number of hot chunks is positive whatever hot_fraction says.
LEMMA HotPositive ==
    ASSUME NEW c \in Nat, NEW h \in Nat
    PROVE  /\ AtLeast((c * h) \div 100, 1) \in Nat
           /\ AtLeast((c * h) \div 100, 1) >= 1
<1>1. c * h \in Nat
  OBVIOUS
<1>2. \A n \in Nat : n \div 100 \in Nat
  OBVIOUS
<1>3. (c * h) \div 100 \in Nat
  BY <1>1, <1>2
<1>4. \A n \in Nat : AtLeast(n, 1) \in Nat /\ AtLeast(n, 1) >= 1
  BY DEF AtLeast
<1> QED BY <1>3, <1>4

\* pick_chunk() returns a chunk that exists, with the label of its index.
LEMMA PicksSound ==
    ASSUME run \in Running, ColdLeft, NEW p \in Picks
    PROVE  /\ p[1] \in Nat /\ p[1] < run.chunks
           /\ p[2] = Tier(p[1]) /\ p[2] \in {"hot", "cold"}
<1> run.chunks \in Nat /\ run.hot \in Nat
  BY DEF Running
<1>1. HotCount \in Nat /\ HotCount >= 1
  BY HotPositive DEF HotCount
<1>2. CASE run.dist \in Even
  <2>1. PICK i \in 0 .. run.chunks - 1 : p = <<i, Tier(i)>>
    BY <1>2 DEF Picks, Even, Tier
  <2> QED BY <2>1 DEF Tier
<1>3. CASE run.dist \notin Even
  <2>1. HotCount < run.chunks
    BY <1>3 DEF ColdLeft
  <2>2. ColdCount = run.chunks - HotCount
    BY <1>1, <2>1 DEF ColdCount, AtLeast
  <2>3. p \in {<<i, "hot">> : i \in 0 .. HotCount - 1}
             \union {<<HotCount + d, "cold">> : d \in 0 .. ColdCount - 1}
    BY <1>3 DEF Picks, Even
  <2>4. CASE p \in {<<i, "hot">> : i \in 0 .. HotCount - 1}
    <3>1. PICK i \in 0 .. HotCount - 1 : p = <<i, "hot">>
      BY <2>4
    <3> QED BY <3>1, <1>1, <2>1 DEF Tier
  <2>5. CASE p \in {<<HotCount + d, "cold">> : d \in 0 .. ColdCount - 1}
    <3>1. PICK d \in 0 .. ColdCount - 1 : p = <<HotCount + d, "cold">>
      BY <2>5
    <3> QED BY <3>1, <1>1, <2>1, <2>2 DEF Tier
  <2> QED BY <2>3, <2>4, <2>5
<1> QED BY <1>2, <1>3

-----------------------------------------------------------------------------
\* A step that leaves the configuration's numbers alone leaves the labels alone.
LEMMA SameTiers ==
    ASSUME run'.chunks = run.chunks, run'.hot = run.hot, run'.dist = run.dist
    PROVE  /\ HotCount' = HotCount
           /\ \A i : Tier(i)' = Tier(i)
           /\ ColdLeft' <=> ColdLeft
<1>1. HotCount' = HotCount
  BY DEF HotCount
<1> QED BY <1>1 DEF Tier, ColdLeft

\* The generator before it has begun.
LEMMA WorkStarts == WorkInit => WorkInv
<1> SUFFICES ASSUME WorkInit PROVE WorkInv
  OBVIOUS
<1>1. run \in Running /\ run.threads = 0 /\ run.pc = "none"
  BY DEF WorkInit, NoRun, Running, Dists
<1>2. DOMAIN left = 1 .. run.threads /\ cur \in [1 .. run.threads -> Op] /\ DOMAIN cur = {}
  <2>1. left = << >> /\ cur = << >>
    BY DEF WorkInit
  <2>2. DOMAIN << >> = 1 .. 0
    OBVIOUS
  <2>3. << >> = [i \in 1 .. 0 |-> NoOp]
    OBVIOUS
  <2>4. << >> \in [1 .. 0 -> Op]
    BY <2>3
  <2> QED BY <1>1, <2>1, <2>2, <2>4
<1>3. records \in Seq(Record) /\ now \in Nat /\ records = << >>
  BY DEF WorkInit
<1> QED BY <1>1, <1>2, <1>3 DEF WorkInv, WorkType

\* run() starts its threads on a sound configuration.
LEMMA BeginSound ==
    ASSUME ConfigsSound, WorkInv, NEW conf \in Configs, RunBegin(conf)
    PROVE  WorkInv'
<1>1. conf \in Conf
  BY DEF ConfigsSound
<1>2. /\ run' \in Running /\ run'.pc = "run"
      /\ run'.chunks = conf.chunks /\ run'.hot = conf.hot
      /\ run'.dist = conf.dist /\ run'.threads = conf.threads
  BY <1>1 DEF RunBegin, Conf, Running, Dists
<1>3. records' = << >> /\ records' \in Seq(Record) /\ now' \in Nat
  BY DEF RunBegin, WorkInv, WorkType
<1>4. NoOp \in Op /\ ~NoOp.on
  BY DEF NoOp, Op
<1>5. DOMAIN left' = 1 .. run'.threads
  BY <1>2 DEF RunBegin
<1>6. cur' = [t \in 1 .. run'.threads |-> NoOp]
  BY <1>2 DEF RunBegin
<1>7. ColdLeft'
  BY <1>2 DEF ConfigsSound, ColdLeft, HotCount
<1>8. cur' \in [1 .. run'.threads -> Op]
  BY <1>4, <1>6
<1>9. \A t \in DOMAIN cur' : ~cur'[t].on
  BY <1>4, <1>6
<1> QED BY <1>2, <1>3, <1>5, <1>7, <1>8, <1>9 DEF WorkInv, WorkType

\* A thread chooses.
LEMMA OpBeginSound ==
    ASSUME WorkInv, NEW t \in DOMAIN left, OpBegin(t)
    PROVE  WorkInv'
<1>0. run \in Running /\ run.threads \in Nat /\ now \in Nat
  BY DEF WorkInv, WorkType, Running
<1>1. run.pc # "none"
  BY <1>0 DEF WorkInv, WorkType, OpBegin
<1>2. PICK p \in Picks :
         cur' = [cur EXCEPT ![t] = [on |-> TRUE, chunk |-> p[1], tier |-> p[2], start |-> now]]
  BY DEF OpBegin
<1>3. UNCHANGED <<run, left, records, now>>
  BY DEF OpBegin
<1> DEFINE op == [on |-> TRUE, chunk |-> p[1], tier |-> p[2], start |-> now]
<1>4. p[1] \in Nat /\ p[1] < run.chunks /\ p[2] = Tier(p[1]) /\ p[2] \in {"hot", "cold"}
  BY <1>0, <1>1, PicksSound DEF WorkInv
<1>5. op \in Op /\ op.chunk = p[1] /\ op.tier = p[2]
  BY <1>0, <1>4 DEF Op
<1> HIDE DEF op
<1>6. cur \in [1 .. run.threads -> Op] /\ t \in 1 .. run.threads
  BY DEF WorkInv, WorkType
<1>7. cur' = [cur EXCEPT ![t] = op]
  BY <1>2 DEF op
<1>8. WorkType'
  BY <1>3, <1>5, <1>6, <1>7 DEF WorkInv, WorkType
<1>9. HotCount' = HotCount /\ (ColdLeft' <=> ColdLeft)
  BY <1>3, SameTiers
<1>10. \A u \in DOMAIN cur' : cur'[u].on =>
          cur'[u].chunk < run.chunks /\ cur'[u].tier = Tier(cur'[u].chunk)
  <2> SUFFICES ASSUME NEW u \in DOMAIN cur', cur'[u].on
               PROVE  cur'[u].chunk < run.chunks /\ cur'[u].tier = Tier(cur'[u].chunk)
    OBVIOUS
  <2>1. CASE u = t
    BY <2>1, <1>4, <1>5, <1>6, <1>7
  <2>2. CASE u # t
    <3>1. u \in DOMAIN cur /\ cur'[u] = cur[u]
      BY <2>2, <1>6, <1>7
    <3> QED BY <3>1 DEF WorkInv
  <2> QED BY <2>1, <2>2
<1>11. \A i \in DOMAIN records : records[i].tier = Tier(records[i].chunk)
  BY DEF WorkInv
<1> QED BY <1>1, <1>3, <1>8, <1>9, <1>10, <1>11 DEF WorkInv, Tier

\* A thread's operation is recorded with what it chose.
LEMMA OpEndSound ==
    ASSUME WorkInv, NEW t \in DOMAIN left, NEW type \in {"PUT", "GET"}, NEW ok \in BOOLEAN,
           OpEnd(t, type, ok)
    PROVE  WorkInv'
<1>1. /\ cur \in [1 .. run.threads -> Op] /\ t \in 1 .. run.threads
      /\ now \in Nat /\ records \in Seq(Record)
  BY DEF WorkInv, WorkType
<1>2. /\ cur[t] \in Op /\ cur[t].on
      /\ cur[t].tier = Tier(cur[t].chunk)
  BY <1>1 DEF WorkInv, OpEnd
<1>3. /\ cur[t].chunk \in Nat /\ cur[t].start \in Nat /\ cur[t].tier \in {"hot", "cold", "-"}
      /\ NoOp \in Op /\ ~NoOp.on
  BY <1>2 DEF Op, NoOp
<1>4. UNCHANGED <<run, now>>
  BY DEF OpEnd
<1> DEFINE r == [type |-> type, ok |-> ok, chunk |-> cur[t].chunk, tier |-> cur[t].tier,
                 start |-> cur[t].start, latency |-> now - cur[t].start]
<1>5. records' = Append(records, r)
  BY DEF OpEnd
<1>6. r \in Record /\ r.tier = Tier(r.chunk)
  BY <1>1, <1>2, <1>3 DEF Record
<1> HIDE DEF r
<1>7. cur' = [cur EXCEPT ![t] = NoOp] /\ DOMAIN left' = DOMAIN left
  BY DEF OpEnd
<1>8. WorkType'
  BY <1>1, <1>3, <1>4, <1>5, <1>6, <1>7 DEF WorkInv, WorkType
<1>9. HotCount' = HotCount /\ (ColdLeft' <=> ColdLeft)
  BY <1>4, SameTiers
<1>10. \A u \in DOMAIN cur' : cur'[u].on =>
          cur'[u].chunk < run.chunks /\ cur'[u].tier = Tier(cur'[u].chunk)
  <2> SUFFICES ASSUME NEW u \in DOMAIN cur', cur'[u].on
               PROVE  cur'[u].chunk < run.chunks /\ cur'[u].tier = Tier(cur'[u].chunk)
    OBVIOUS
  <2>1. u # t /\ u \in DOMAIN cur /\ cur'[u] = cur[u]
    BY <1>1, <1>3, <1>7
  <2> QED BY <2>1 DEF WorkInv
<1>11. \A i \in DOMAIN records' : records'[i].tier = Tier(records'[i].chunk)
  <2> SUFFICES ASSUME NEW i \in DOMAIN records' PROVE records'[i].tier = Tier(records'[i].chunk)
    OBVIOUS
  <2>1. CASE i \in DOMAIN records
    <3>1. records'[i] = records[i]
      BY <1>1, <1>5, <1>6, <2>1
    <3> QED BY <2>1, <3>1 DEF WorkInv
  <2>2. CASE i \notin DOMAIN records
    <3>1. records'[i] = r
      BY <1>1, <1>5, <1>6, <2>2
    <3> QED BY <3>1, <1>6
  <2> QED BY <2>1, <2>2
<1>12. run.pc # "none"
  BY <1>1 DEF WorkInv
<1> QED BY <1>4, <1>8, <1>9, <1>10, <1>11, <1>12 DEF WorkInv, Tier

\* Time and the end of the run touch neither choices nor records.
LEMMA RestSound ==
    ASSUME WorkInv, Pass \/ RunEnd \/ UNCHANGED wlVars
    PROVE  WorkInv'
<1>1. UNCHANGED <<cur, left, records>>
  BY DEF Pass, RunEnd, wlVars
<1>2. now' \in Nat
  BY DEF WorkInv, WorkType, Pass, RunEnd, wlVars
<1>3. /\ run' \in Running /\ run'.chunks = run.chunks /\ run'.hot = run.hot
      /\ run'.dist = run.dist /\ run'.threads = run.threads
      /\ run'.pc = "none" <=> run.pc = "none"
  BY DEF WorkInv, WorkType, Running, Pass, RunEnd, wlVars
<1>4. HotCount' = HotCount /\ (ColdLeft' <=> ColdLeft)
  BY <1>3, SameTiers
<1>5. WorkType'
  BY <1>1, <1>2, <1>3 DEF WorkInv, WorkType
<1> QED BY <1>1, <1>3, <1>4, <1>5 DEF WorkInv, Tier

\* Whatever the configuration, as long as a hot/cold workload has a cold chunk,
\* and however the threads interleave: every operation is on a chunk that exists,
\* and a chunk is hot or cold in the whole history of the tracer.
THEOREM PickedChunksSound ==
    ASSUME ConfigsSound
    PROVE  WorkSpec => []PickedSound
<1>1. WorkInv /\ [WorkNext]_wlVars => WorkInv'
  BY BeginSound, OpBeginSound, OpEndSound, RestSound DEF WorkNext
<1>2. WorkInv => PickedSound
  BY DEF WorkInv, PickedSound, Tier
<1> QED BY <1>1, <1>2, WorkStarts, PTL DEF WorkSpec
=============================================================================
