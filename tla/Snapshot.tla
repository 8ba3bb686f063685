------------------------------ MODULE Snapshot ------------------------------
(***************************************************************************)
(* How a restarted follower gets the leader's tables (meta_snapshot.cpp,   *)
(* bootstrap_follower_from_leader() in meta_server.cpp): the leader writes *)
(* them into a byte string while it goes on committing entries, streams it *)
(* in pieces, and the follower parses it, replaces its tables and applies  *)
(* the log entries after the snapshot's index.                             *)
(*                                                                         *)
(* MetaReplication has the same bootstrap under every race of the log and  *)
(* with tables of one put.  Here the tables have their real contents;      *)
(* entries commit in any order, each as its own write() finds a majority   *)
(* for it, or never.  A byte string is a sequence of numbers and fields;   *)
(* a ';'-separated body is the sequence of its fields.                     *)
(* Of a node's fields load stands for all that a heartbeat sets.           *)
(***************************************************************************)
EXTENDS Integers, FiniteSets, SequencesExt, TLC

CONSTANTS
    Ids,            \* chunk_id
    Hosts,          \* node_id
    ReplicaSets,    \* the replica sets that placement may choose
    PieceSize,      \* CHUNK_SIZE
    MaxEntries,     \* bound: entries of the leader's log
    MaxBoots,       \* bound: restarts of the follower
    Overlap         \* whether the leader's own RPCs reach a bootstrapping follower

ASSUME SnapshotAssumption ==
    /\ PieceSize \in Nat \ {0}
    /\ MaxEntries \in Nat /\ MaxBoots \in Nat
    /\ Overlap \in BOOLEAN

VARIABLES
    log,        \* the leader's log
    mark,       \* its committed_index()
    ldr,        \* its tables
    done,       \* the entries applied to them, in the order of application
    pend,       \* the entry whose write() has called commit() and is about to
                \* apply it, or 0; write() holds mu_ meanwhile
    fol,        \* the follower: length and committed index of its log, tables
    boot,       \* its bootstrap: see NoBoot
    boots

ldrVars == <<log, mark, ldr, done, pend>>
snapVars == <<ldrVars, fol, boot, boots>>

EmptyMap == [x \in {} |-> 0]
Empty == [nodes |-> EmptyMap, chunks |-> EmptyMap]

\* lsn, nodes and chunks as take_snapshot() reads them; upto: the entries that
\* chunks has the effects of, in their order; bytes still to be streamed, bytes received; the entry to
\* fetch next and the last one to fetch.
NoBoot == [pc |-> "none", lsn |-> 0, nodes |-> EmptyMap, upto |-> << >>, chunks |-> EmptyMap,
           bytes |-> << >>, got |-> << >>, next |-> 0, last |-> 0]

SnapInit ==
    /\ log = << >> /\ mark = 0 /\ ldr = Empty /\ done = << >> /\ pend = 0
    /\ fol = [len |-> 0, com |-> 0, tab |-> Empty]
    /\ boot = NoBoot
    /\ boots = 0

-----------------------------------------------------------------------------
(* The tables                                                               *)

Chunk(version, state, reps, old) ==
    [version |-> version, state |-> state, reps |-> reps, old |-> old]

\* e.c is the chunk or node, e.val the version or load.
ApplyEntry(tab, e) ==
    LET there == e.c \in DOMAIN tab.chunks
        become(chunk) == [tab EXCEPT !.chunks = (e.c :> chunk) @@ @]
    IN CASE e.op = "PUT_CHUNK" -> become(Chunk(e.val, "STABLE", e.new, << >>))
         [] e.op = "DELETE_CHUNK" ->
              [tab EXCEPT !.chunks = Restrict(@, DOMAIN @ \ {e.c})]
         [] e.op = "RECONFIGURE_START" /\ there ->
              become(Chunk(tab.chunks[e.c].version, "TRANSITIONING", e.new, e.old))
         [] e.op = "RECONFIGURE_COMMIT" /\ there ->
              become(Chunk(tab.chunks[e.c].version, "STABLE", e.new, << >>))
         [] e.op = "NODE_HEARTBEAT" ->
              [tab EXCEPT !.nodes = (e.c :> [load |-> e.val, alive |-> TRUE]) @@ @]
         [] OTHER -> tab

\* What replaying the first n entries gives.
TablesAfter(n) == FoldLeft(ApplyEntry, Empty, SubSeq(log, 1, n))

\* What the leader's handlers may write, given its tables.
Proposals ==
    LET entry(op, c, val, old, new) ==
            [op |-> op, c |-> c, val |-> val, old |-> old, new |-> new]
        state(c) == IF c \in DOMAIN ldr.chunks THEN ldr.chunks[c].state ELSE "ABSENT"
        at(s) == {c \in Ids : state(c) = s}
        version(c) == IF state(c) = "ABSENT" THEN 1 ELSE ldr.chunks[c].version + 1
    IN {entry("PUT_CHUNK", c, version(c), << >>, new) :
            c \in at("ABSENT") \union at("STABLE"), new \in ReplicaSets}
       \union {entry("DELETE_CHUNK", c, 0, << >>, << >>) : c \in DOMAIN ldr.chunks}
       \union {entry("RECONFIGURE_START", c, 0, ldr.chunks[c].reps, new) :
                  c \in at("STABLE"), new \in ReplicaSets}
       \union {entry("RECONFIGURE_COMMIT", c, 0, << >>, ldr.chunks[c].reps) :
                  c \in at("TRANSITIONING")}
       \union {entry("NODE_HEARTBEAT", h, Len(log), << >>, << >>) : h \in Hosts}

-----------------------------------------------------------------------------
(* The byte string                                                          *)

Magic == "NMVS"

\* write_lp()
WriteLp(body) == <<Len(body)>> \o body

SerializeNode(h, n) == <<h, n.load, IF n.alive THEN 1 ELSE 0>>

\* Seeded bug: old_replica_set is left out.
SerializeChunk_NoOld(c, e) ==
    <<c, e.version, IF e.state = "STABLE" THEN 0 ELSE 1, e.reps, << >>>>

SerializeChunk(c, e) ==
    <<c, e.version, IF e.state = "STABLE" THEN 0 ELSE 1, e.reps, e.old>>

\* One length-prefixed record per key, in the order of the hash table.
Records(f, Body(_, _)) ==
    LET keys == SetToSeq(DOMAIN f)
    IN FlattenSeq([k \in DOMAIN keys |-> WriteLp(Body(keys[k], f[keys[k]]))])

TakeSnapshot(lsn, nodes, chunks) ==
    <<Magic, lsn, Cardinality(DOMAIN nodes)>> \o Records(nodes, SerializeNode)
      \o <<Cardinality(DOMAIN chunks)>> \o Records(chunks, SerializeChunk)

\* read_lp() at offset off; an exception is ok = FALSE.
ReadLp(bytes, off) ==
    IF off + 1 > Len(bytes) THEN [ok |-> FALSE, off |-> off, body |-> << >>]
    ELSE LET end == off + 1 + bytes[off + 1]
         IN IF end > Len(bytes) THEN [ok |-> FALSE, off |-> off, body |-> << >>]
            ELSE [ok |-> TRUE, off |-> end, body |-> SubSeq(bytes, off + 2, end)]

\* The alive flag of the record is not looked at.
ParseNode(body) == [load |-> body[2], alive |-> TRUE]

ParseChunk(body) ==
    Chunk(body[2], IF body[3] = 0 THEN "STABLE" ELSE "TRANSITIONING", body[4], body[5])

\* count records from offset off on, into a map.
ReadRecords(bytes, off, count, Parse(_)) ==
    LET read(acc, k) ==
            LET r == ReadLp(bytes, acc.off)
            IN IF acc.ok /\ r.ok
               THEN [ok |-> TRUE, off |-> r.off, map |-> (r.body[1] :> Parse(r.body)) @@ acc.map]
               ELSE [acc EXCEPT !.ok = FALSE]
    IN FoldLeft(read, [ok |-> TRUE, off |-> off, map |-> EmptyMap], [k \in 1 .. count |-> k])

\* install_snapshot(): everything is parsed before the tables are replaced.  The
\* chunk count is read without a look at the length: past the end it is whatever
\* lies there, so that either no record follows or reading the first one fails.
InstallSnapshot(bytes) ==
    LET bad == [ok |-> FALSE, lsn |-> 0, tab |-> Empty]
        installed(nodes, chunks) ==
            [ok |-> TRUE, lsn |-> bytes[2], tab |-> [nodes |-> nodes, chunks |-> chunks]]
    IN IF Len(bytes) < 3 \/ Head(bytes) # Magic THEN {bad}
       ELSE LET n == ReadRecords(bytes, 3, bytes[3], ParseNode)
            IN IF ~n.ok THEN {bad}
               ELSE IF n.off = Len(bytes) THEN {bad, installed(n.map, EmptyMap)}
               ELSE LET c == ReadRecords(bytes, n.off + 1, bytes[n.off + 1], ParseChunk)
                    IN {IF c.ok THEN installed(n.map, c.map) ELSE bad}

-----------------------------------------------------------------------------
(* The leader                                                               *)

LeaderAppend(e) ==
    /\ Len(log) < MaxEntries
    /\ log' = Append(log, e)
    /\ UNCHANGED <<mark, ldr, done, pend, fol, boot, boots>>

\* write() of entry i finds a majority: wal_.commit() and on_commit_() under mu_,
\* which take_snapshot() does not hold.  Entries below i may be waiting still, or
\* their writes have timed out and never apply them.
LeaderMark(i) ==
    /\ pend = 0
    /\ i \in DOMAIN log \ ToSet(done)
    /\ mark' = IF i > mark THEN i ELSE mark
    /\ pend' = i
    /\ UNCHANGED <<log, ldr, done, fol, boot, boots>>

LeaderApply ==
    /\ pend # 0
    /\ ldr' = ApplyEntry(ldr, log[pend])
    /\ done' = Append(done, pend)
    /\ pend' = 0
    /\ UNCHANGED <<log, mark, fol, boot, boots>>

\* evict_stale_nodes(): not in the log.
LeaderEvict(h) ==
    /\ h \in DOMAIN ldr.nodes
    /\ ldr' = [ldr EXCEPT !.nodes[h].alive = FALSE]
    /\ UNCHANGED <<log, mark, done, pend, fol, boot, boots>>

-----------------------------------------------------------------------------
(* The follower                                                             *)

Reachable == boot.pc = "none" \/ Overlap

\* handle_append() of the next entry, handle_commit() of one it has.
FollowerAppend ==
    /\ Reachable
    /\ fol.len < Len(log)
    /\ fol' = [fol EXCEPT !.len = @ + 1]
    /\ UNCHANGED <<ldrVars, boot, boots>>

HandleCommit(i) ==
    [fol EXCEPT !.len = IF i > @ THEN i ELSE @, !.com = IF i > @ THEN i ELSE @,
                !.tab = ApplyEntry(@, log[i])]

FollowerCommit(i) ==
    /\ Reachable
    /\ i \in fol.com + 1 .. fol.len
    /\ fol' = HandleCommit(i)
    /\ UNCHANGED <<ldrVars, boot, boots>>

\* Down and up again: main() replays the committed entries.
FollowerRestart ==
    /\ boots < MaxBoots
    /\ boots' = boots + 1
    /\ fol' = [fol EXCEPT !.tab = TablesAfter(fol.com)]
    /\ boot' = [NoBoot EXCEPT !.pc = "lsn"]
    /\ UNCHANGED ldrVars

\* take_snapshot() reads three things one after the other.
ReadLsn ==
    /\ boot.pc = "lsn"
    /\ boot' = [boot EXCEPT !.pc = "nodes", !.lsn = mark]
    /\ UNCHANGED <<ldrVars, fol, boots>>

ReadNodes ==
    /\ boot.pc = "nodes"
    /\ boot' = [boot EXCEPT !.pc = "chunks", !.nodes = ldr.nodes]
    /\ UNCHANGED <<ldrVars, fol, boots>>

ReadChunks ==
    /\ boot.pc = "chunks"
    /\ boot' = [boot EXCEPT !.pc = "stream", !.chunks = ldr.chunks, !.upto = done,
                            !.bytes = TakeSnapshot(boot.lsn, boot.nodes, ldr.chunks)]
    /\ UNCHANGED <<ldrVars, fol, boots>>

\* InstallSnapshot(), the RPC: one piece.
StreamPiece ==
    /\ boot.pc = "stream" /\ boot.bytes # << >>
    /\ LET n == IF Len(boot.bytes) < PieceSize THEN Len(boot.bytes) ELSE PieceSize
       IN boot' = [boot EXCEPT !.got = @ \o SubSeq(boot.bytes, 1, n),
                               !.bytes = SubSeq(@, n + 1, Len(@))]
    /\ UNCHANGED <<ldrVars, fol, boots>>

\* All pieces are there: parse, replace the tables.
Install ==
    /\ boot.pc = "stream" /\ boot.bytes = << >>
    /\ \E snap \in InstallSnapshot(boot.got) :
          IF snap.ok
          THEN /\ fol' = [fol EXCEPT !.tab = snap.tab]
               /\ boot' = [boot EXCEPT !.pc = "fetch", !.lsn = snap.lsn]
          ELSE boot' = NoBoot /\ UNCHANGED fol
    /\ UNCHANGED <<ldrVars, boots>>

\* Seeded bug: the log is asked for from the leader's present committed index.
FetchLog_FromNow ==
    /\ boot.pc = "fetch"
    /\ boot' = [boot EXCEPT !.pc = "replay", !.next = mark + 1, !.last = Len(log)]
    /\ UNCHANGED <<ldrVars, fol, boots>>

\* FetchLogEntries from snapshot_lsn + 1 up to last_log_index() of this moment.
FetchLog ==
    /\ boot.pc = "fetch"
    /\ boot' = [boot EXCEPT !.pc = "replay", !.next = boot.lsn + 1, !.last = Len(log)]
    /\ UNCHANGED <<ldrVars, fol, boots>>

\* handle_append() takes an entry the follower has or the next one, and
\* handle_commit() applies it; a gap ends the loop.
Replay ==
    /\ boot.pc = "replay" /\ boot.next <= boot.last
    /\ IF boot.next <= fol.len + 1
       THEN /\ fol' = HandleCommit(boot.next)
            /\ boot' = [boot EXCEPT !.next = @ + 1]
       ELSE boot' = NoBoot /\ UNCHANGED fol
    /\ UNCHANGED <<ldrVars, boots>>

BootDone ==
    /\ boot.pc = "replay" /\ boot.next > boot.last
    /\ boot' = NoBoot
    /\ UNCHANGED <<ldrVars, fol, boots>>

\* The leader goes away or a stream breaks; main() ignores it.
BootFailed ==
    /\ boot.pc # "none"
    /\ boot' = NoBoot
    /\ UNCHANGED <<ldrVars, fol, boots>>

-----------------------------------------------------------------------------
BootStep ==
    \/ FollowerRestart \/ ReadLsn \/ ReadNodes \/ ReadChunks \/ StreamPiece
    \/ Install \/ FetchLog \/ Replay \/ BootDone \/ BootFailed

SnapNext ==
    \/ LeaderApply
    \/ \E e \in Proposals : LeaderAppend(e)
    \/ \E h \in Hosts : LeaderEvict(h)
    \/ FollowerAppend
    \/ \E i \in 1 .. MaxEntries : LeaderMark(i) \/ FollowerCommit(i)
    \/ BootStep

-----------------------------------------------------------------------------
Before == 1 .. boot.lsn

\* The chunks of entries that the snapshot's index covers and its tables lack:
\* the one being applied, those that wait or have timed out below the index ...
Missed == {log[i].c : i \in Before \ ToSet(boot.upto)}

\* ... and those of entries it has, but applied in another order than the log's.
Reordered ==
    {log[boot.upto[k]].c : k \in {m \in DOMAIN boot.upto :
        \E l \in 1 .. m - 1 : /\ boot.upto[m] < boot.upto[l]
                              /\ boot.upto[l] \in Before
                              /\ log[boot.upto[l]].c = log[boot.upto[m]].c}}

\* The tables are read while entries commit, so they may be ahead of the index
\* they are labelled with, and the entries in between are applied again on top
\* of their own effects.  When the log is replayed, each chunk is nevertheless
\* what the leader's log makes of it, unless an entry up to the index is missing
\* from the tables or was applied to them out of order.
BootstrapCatchesUp ==
    boot.pc = "replay" /\ boot.next > boot.last =>
        \A c \in Ids \ (Missed \union Reordered) :
            LET all == TablesAfter(boot.last).chunks
            IN Restrict(fol.tab.chunks, {c} \intersect DOMAIN fol.tab.chunks)
                 = Restrict(all, {c} \intersect DOMAIN all)

\* Whatever breaks, a bootstrap replaces the follower's tables all at once or
\* not at all, by what the leader read: serialising, cutting into pieces and
\* parsing lose nothing but the liveness of nodes.
InstalledWhole ==
    [][boot.pc = "stream" /\ fol'.tab # fol.tab /\ ~Overlap =>
         /\ fol'.tab.chunks = boot.chunks
         /\ fol'.tab.nodes = [h \in DOMAIN boot.nodes |-> [boot.nodes[h] EXCEPT !.alive = TRUE]]]_snapVars

\* "installed snapshot lsn={} and replayed logs from {}": the snapshot has the
\* effect of every entry up to its index.
SnapshotHoldsLsn == boot.pc = "stream" => 1 .. boot.lsn \subseteq ToSet(boot.upto)
=============================================================================
