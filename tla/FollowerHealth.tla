--------------------------- MODULE FollowerHealth ---------------------------
(***************************************************************************)
(* The status the leader keeps of each follower (FollowerState in          *)
(* meta_replication.h): record_ack() in the replication threads sets       *)
(* last_ack_ms, send_heartbeats() in the leader's hb_thread compares it    *)
(* with a time it read before it took the lock.                            *)
(*                                                                         *)
(* Time is kept as differences to the present, in units of the heartbeat   *)
(* interval: health[f].age is now - last_ack_ms, hb.t is now - t.  Their   *)
(* difference is the code's uint64_t elapsed = t - last_ack_ms, which      *)
(* wraps when an acknowledgement came in after t was read.                 *)
(***************************************************************************)
EXTENDS MetaReplication

CONSTANTS
    SilentAfter,    \* heartbeat_interval_ms * 3
    MaxPings,       \* missed_pings that make a follower LAGGING
    MaxDelay,       \* bound: how long hb_thread may be held up before the lock
    MaxAge,         \* bound: ages above it are not told apart
    Wrap            \* 2^w for the unsigned difference

ASSUME HealthAssumption ==
    /\ SilentAfter \in Nat /\ MaxPings \in Nat \ {0} /\ MaxDelay \in Nat \ {0}
    /\ MaxAge \in Nat /\ MaxAge > SilentAfter + MaxDelay
    /\ Wrap \in Nat /\ Wrap > MaxAge + MaxDelay

VARIABLES
    health,     \* health[f]: time since last_ack_ms, missed_pings, and
                \* whether the status is LAGGING
    hb          \* hb_thread: asleep for t, or t after it read the clock and
                \* leader_last

hvars == <<vars, health, hb>>

Fresh  == [age |-> 0, pings |-> 0, lagging |-> FALSE]
Asleep == [pc |-> "sleep", t |-> 0, last |-> 0]

\* add_follower() and the start of hb_thread.
HInit ==
    /\ Init
    /\ health = [f \in Followers |-> Fresh]
    /\ hb = Asleep

AtMost(n, max) == IF n > max THEN max ELSE n

\* One unit of time passes.
Tick ==
    /\ hb.pc = "lock" => hb.t < MaxDelay
    /\ health' = [f \in Followers |-> [health[f] EXCEPT !.age = AtMost(@ + 1, MaxAge)]]
    /\ hb' = [hb EXCEPT !.t = AtMost(@ + 1, MaxDelay)]
    /\ UNCHANGED vars

\* After the sleep, send_heartbeats() reads the clock and last_log_index().
HbSample ==
    /\ hb.pc = "sleep"
    /\ hb.t >= 1
    /\ hb' = [pc |-> "lock", t |-> 0, last |-> last[Leader]]
    /\ UNCHANGED <<vars, health>>

Elapsed(f) == (health[f].age - hb.t) % Wrap

Missed(f) == AtMost(health[f].pings + 1, MaxPings)

\* Seeded bug: match_index is not looked at.
HbMark_IgnoresMatch ==
    /\ hb.pc = "lock"
    /\ health' = [f \in Followers |->
         IF Elapsed(f) > SilentAfter
         THEN [health[f] EXCEPT !.pings = Missed(f), !.lagging = @ \/ Missed(f) = MaxPings]
         ELSE health[f]]
    /\ hb' = Asleep
    /\ UNCHANGED vars

\* ... and then, under mu_, goes over the followers.
HbMark ==
    /\ hb.pc = "lock"
    /\ health' = [f \in Followers |->
         CASE match[f] >= hb.last -> [health[f] EXCEPT !.pings = 0, !.lagging = FALSE]
           [] match[f] < hb.last /\ Elapsed(f) > SilentAfter ->
                [health[f] EXCEPT !.pings = Missed(f), !.lagging = @ \/ Missed(f) = MaxPings]
           [] OTHER -> health[f]]
    /\ hb' = Asleep
    /\ UNCHANGED vars

\* The step counts an acknowledgement of follower f.
Acked(f) ==
    \E x \in Threads : /\ x[1] = f /\ x[2] # 0
                       /\ thr[x].pc = "rpc" /\ thr'[x].pc = "commit"

\* Seeded bug: missed_pings is not reset.
AckHealth_KeepsPings(f) ==
    IF Acked(f) THEN [health[f] EXCEPT !.age = 0, !.lagging = FALSE] ELSE health[f]

\* What record_ack() makes of the status of follower f.
AckHealth(f) == IF Acked(f) THEN Fresh ELSE health[f]

\* A step of the replication protocol; a restart of the leader starts afresh.
ReplStep ==
    /\ Next /\ Serial
    /\ health' = [f \in Followers |-> IF leaderCrashes' # leaderCrashes THEN Fresh ELSE AckHealth(f)]
    /\ hb' = IF leaderCrashes' # leaderCrashes THEN Asleep ELSE hb

HNext == Tick \/ HbSample \/ HbMark \/ ReplStep

\* Time passes, hb_thread is a loop with a sleep, and the threads of the
\* replication protocol run as they can.
FairHealthSpec ==
    /\ HInit /\ [][HNext]_hvars
    /\ WF_hvars(Tick) /\ WF_hvars(HbSample) /\ WF_hvars(HbMark) /\ WF_hvars(ReplStep)

-----------------------------------------------------------------------------
\* A follower is reported LAGGING only while it has been silent for longer
\* than three heartbeat intervals, although a single ping may be counted as
\* missed right after an acknowledgement when t - last_ack_ms wraps.
LaggingMeansSilent ==
    \A f \in Followers : health[f].lagging => health[f].age > SilentAfter

\* With reliable RPCs a follower that is reported LAGGING is HEALTHY again
\* in the end: an acknowledgement or the next round of hb_thread clears it.
LaggingRecovers == \A f \in Followers : health[f].lagging ~> ~health[f].lagging
=============================================================================
