------------------------------ MODULE Workload ------------------------------
(***************************************************************************)
(* The workload generator (workload_gen.cpp) and the history tracer its    *)
(* threads share (history_tracer.cpp).  Time is in units of which          *)
(* UnitsPerSecond make a second; a payload is one byte.                    *)
(***************************************************************************)
EXTENDS Integers, FiniteSets, SequencesExt

CONSTANTS
    Configs,        \* the configurations: chunks, hot (hot_fraction in percent),
                    \* dist, ops and threads
    UnitsPerSecond,
    MaxTime         \* bound: how long a run takes

ASSUME WorkloadAssumption == UnitsPerSecond \in Nat \ {0} /\ MaxTime \in Nat

VARIABLES
    run,            \* the configuration, with pc
    left,           \* left[t]: the operations thread t has still to do
    cur,            \* cur[t]: the operation it is in
    records,        \* records_
    stats,          \* what get_stats() returned
    now

wlVars == <<run, left, cur, records, stats, now>>

NoRun == [pc |-> "none", chunks |-> 0, hot |-> 0, dist |-> "-", ops |-> 0, threads |-> 0]
NoOp == [on |-> FALSE, chunk |-> 0, tier |-> "-", start |-> 0]
NoStats == [total |-> 0, errors |-> 0, puts |-> 0, gets |-> 0, dur |-> 0,
            p50 |-> 0, p95 |-> 0, p99 |-> 0]

WorkInit ==
    /\ run = NoRun /\ left = << >> /\ cur = << >>
    /\ records = << >> /\ stats = NoStats /\ now = 1

-----------------------------------------------------------------------------
AtLeast(n, min) == IF n < min THEN min ELSE n

HotCount == AtLeast((run.chunks * run.hot) \div 100, 1)
ColdCount == AtLeast(run.chunks - HotCount, 1)

\* base + (t < rem ? 1 : 0), threads counted from 1 here
Share(conf, t) ==
    conf.ops \div conf.threads + IF t <= conf.ops % conf.threads THEN 1 ELSE 0

\* Seeded bug: the cold chunks begin at the first one.
Picks_ColdFromZero ==
    {<<i, "hot">> : i \in 0 .. HotCount - 1} \union {<<d, "cold">> : d \in 0 .. ColdCount - 1}

\* pick_chunk(): index and label.
Picks ==
    IF run.dist \in {"zipfian", "uniform"}
    THEN {<<i, IF i < HotCount THEN "hot" ELSE "cold">> : i \in 0 .. run.chunks - 1}
    ELSE {<<i, "hot">> : i \in 0 .. HotCount - 1}
           \union {<<HotCount + d, "cold">> : d \in 0 .. ColdCount - 1}

\* The constructor, and run() up to the threads.  The puts that fill the chunks
\* are not recorded.
RunBegin(conf) ==
    /\ run.pc = "none"
    /\ run' = [pc |-> "run", chunks |-> conf.chunks, hot |-> conf.hot, dist |-> conf.dist,
               ops |-> conf.ops, threads |-> conf.threads]
    /\ left' = [t \in 1 .. conf.threads |-> Share(conf, t)]
    /\ cur' = [t \in 1 .. conf.threads |-> NoOp]
    /\ UNCHANGED <<records, stats, now>>

OpBegin(t) ==
    /\ left[t] > 0 /\ ~cur[t].on
    /\ \E p \in Picks :
         cur' = [cur EXCEPT ![t] = [on |-> TRUE, chunk |-> p[1], tier |-> p[2], start |-> now]]
    /\ UNCHANGED <<run, left, records, stats, now>>

\* The put or get returns and record() adds it, under the tracer's lock.
OpEnd(t, type, ok) ==
    /\ cur[t].on
    /\ records' = Append(records, [type |-> type, ok |-> ok, chunk |-> cur[t].chunk,
                                   tier |-> cur[t].tier, start |-> cur[t].start,
                                   latency |-> now - cur[t].start])
    /\ left' = [left EXCEPT ![t] = @ - 1]
    /\ cur' = [cur EXCEPT ![t] = NoOp]
    /\ UNCHANGED <<run, stats, now>>

Pass ==
    /\ run.pc = "run" /\ now < MaxTime
    /\ now' = now + 1
    /\ UNCHANGED <<run, left, cur, records, stats>>

-----------------------------------------------------------------------------
(* get_stats()                                                              *)

Count(P(_)) == Cardinality({i \in DOMAIN records : P(records[i])})

\* Seeded bug: rounded down.
Pct_Floor(sorted, p) ==
    LET idx == (p * Len(sorted)) \div 100
    IN sorted[AtLeast(IF idx > Len(sorted) THEN Len(sorted) ELSE idx, 1)]

\* pct(p): the ceil(p / 100 * size)-th of the sorted latencies.
Pct(sorted, p) ==
    LET idx == (p * Len(sorted) + 99) \div 100
    IN sorted[AtLeast(IF idx > Len(sorted) THEN Len(sorted) ELSE idx, 1)]

\* Earliest start to latest end, at least a second.
Duration ==
    LET starts == {records[i].start : i \in DOMAIN records}
        ends == {records[i].start + records[i].latency : i \in DOMAIN records}
    IN AtLeast(Max(ends) - Min(starts), UnitsPerSecond)

GetStats ==
    IF records = << >> THEN NoStats
    ELSE LET lat == SortSeq([i \in DOMAIN records |-> records[i].latency], <)
         IN [total |-> Len(records), errors |-> Count(LAMBDA r : ~r.ok),
             puts |-> Count(LAMBDA r : r.type = "PUT"), gets |-> Count(LAMBDA r : r.type = "GET"),
             dur |-> Duration, p50 |-> Pct(lat, 50), p95 |-> Pct(lat, 95), p99 |-> Pct(lat, 99)]

\* The threads are joined, then the summary is printed.
RunEnd ==
    /\ run.pc = "run"
    /\ \A t \in DOMAIN left : left[t] = 0
    /\ run' = [run EXCEPT !.pc = "done"]
    /\ stats' = GetStats
    /\ UNCHANGED <<left, cur, records, now>>

WorkNext ==
    \/ \E conf \in Configs : RunBegin(conf)
    \/ \E t \in DOMAIN left : \/ OpBegin(t)
                              \/ \E type \in {"PUT", "GET"}, ok \in BOOLEAN : OpEnd(t, type, ok)
    \/ Pass
    \/ RunEnd

-----------------------------------------------------------------------------
\* However num_ops divides among the threads, all of it is done and counted once.
\* The number the summary calls p-th percentile is the least latency that p
\* percent of the operations do not exceed, and all operations lie within the
\* duration the rates are computed with, in whatever order threads finish.
StatsMatchHistory ==
    run.pc = "done" /\ run.ops > 0 =>
        /\ stats.total = run.ops /\ stats.puts + stats.gets = run.ops
        /\ \A q \in {<<50, stats.p50>>, <<95, stats.p95>>, <<99, stats.p99>>} :
              /\ 100 * Count(LAMBDA r : r.latency <= q[2]) >= q[1] * stats.total
              /\ 100 * Count(LAMBDA r : r.latency < q[2]) < q[1] * stats.total
        /\ \A i, j \in DOMAIN records :
              records[i].start + records[i].latency - records[j].start <= stats.dur

\* Every operation is on a chunk that exists, and a chunk is hot or cold in the
\* whole history.
PickedSound ==
    /\ \A t \in DOMAIN cur : cur[t].on => cur[t].chunk < run.chunks
    /\ \A i, j \in DOMAIN records :
          records[i].chunk = records[j].chunk => records[i].tier = records[j].tier
=============================================================================
