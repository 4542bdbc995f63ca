----------------------------- MODULE Observatory -----------------------------
(***************************************************************************)
(* The panel's history and alerts (c/src/observability.c): telemetry       *)
(* samples and status reports of one device, the configuration offered to  *)
(* it, probes of one proxy node, and the monitor that opens and resolves   *)
(* alerts and drops what is past its retention.  Times are kept as ages    *)
(* (now minus the stored time): they grow together with the clock and      *)
(* shrink together when the clock is set back.                             *)
(***************************************************************************)
EXTENDS Integers, FiniteSetsExt

CONSTANTS OfflineAge, DriftAge, ProbeAge, RetentionAge,   \* the settings
          MaxTraffic,                                     \* bound on a device's counter
          ClockSteps                                      \* how often the clock is set back

ASSUME ObservatoryAssumption ==
    /\ OfflineAge \in 1..RetentionAge /\ DriftAge \in 1..RetentionAge /\ ProbeAge \in 1..RetentionAge
    /\ MaxTraffic \in Nat /\ ClockSteps \in Nat

VARIABLES device,       \* what is true of the device
          obs,          \* its row
          buckets,      \* its samples: bytes by age; and the bytes dropped with old ones
          probed,       \* the node and its last probe
          alerts,       \* per kind that is followed: the latest alert
          jumps

obsVars == <<device, obs, buckets, probed, alerts, jumps>>

Never  == -9            \* a time that was not stored yet (0 in the row)
HostKinds == {"device_offline", "config_drift", "config_failure"}
NodeKinds == {"node_unreachable", "node_slow", "node_probe_stale"}
Kinds     == HostKinds \cup NodeKinds

Oldest == RetentionAge + 1 + ClockSteps     \* an age past every limit, whatever the clock does
Ages   == (0 - ClockSteps)..Oldest
Older(age)   == IF age = Never THEN Never ELSE IF age = Oldest THEN age ELSE age + 1
Younger(age) == IF age = Never THEN Never ELSE age - 1

\* The kinds are evaluated one after the other and independently: followed is the
\* set of those a behaviour keeps.
ObsInit(followed) ==
    /\ device = [total |-> 0, counter |-> 0, enabled |-> TRUE, error |-> FALSE]
    /\ obs = [sampled |-> Never, counter |-> 0, observed |-> 0, seen |-> 0, reported |-> FALSE,
              target |-> 0, since |-> Never, applied |-> 0]
    /\ buckets = [held |-> [a \in Ages |-> 0], dropped |-> 0]
    /\ probed = [exists |-> TRUE, enabled |-> TRUE, tested |-> Never, latency |-> "ok"]
    /\ alerts = [k \in followed |-> [id |-> 0, open |-> FALSE, acked |-> FALSE]]
    /\ jumps = 0
-----------------------------------------------------------------------------
(***************************************************************************)
(* The device, the node and the clock.                                     *)
(***************************************************************************)
Traffic ==
    /\ device.total < MaxTraffic
    /\ device' = [device EXCEPT !.total = @ + 1, !.counter = @ + 1]
    /\ UNCHANGED <<obs, buckets, probed, alerts, jumps>>

\* The device's core restarts and counts from zero.
CounterReset ==
    /\ device.counter > 0 /\ device' = [device EXCEPT !.counter = 0]
    /\ UNCHANGED <<obs, buckets, probed, alerts, jumps>>

Bytes(ages) == MapThenSumSet(LAMBDA a : buckets.held[a], ages)

Shifted(F(_)) ==
    /\ obs' = [obs EXCEPT !.sampled = F(@), !.seen = F(@), !.since = F(@)]
    /\ buckets' = [buckets EXCEPT !.held = [a \in Ages |-> Bytes({b \in Ages : F(b) = a})]]
    /\ probed' = [probed EXCEPT !.tested = F(@)]
    /\ UNCHANGED <<device, alerts>>

ClockAdvances == Shifted(Older) /\ UNCHANGED jumps

ClockSetBack == jumps < ClockSteps /\ jumps' = jumps + 1 /\ Shifted(Younger)

ToggleHost ==
    /\ device' = [device EXCEPT !.enabled = ~@]
    /\ UNCHANGED <<obs, buckets, probed, alerts, jumps>>

\* A probe result is stored with the time of the test.
ProbeNode ==
    /\ probed.exists
    /\ \E l \in {"ok", "slow", "failed"} : probed' = [probed EXCEPT !.tested = 0, !.latency = l]
    /\ UNCHANGED <<device, obs, buckets, alerts, jumps>>

DropNode ==
    /\ probed.exists /\ probed' = [probed EXCEPT !.exists = FALSE]
    /\ UNCHANGED <<device, obs, buckets, alerts, jumps>>
-----------------------------------------------------------------------------
(***************************************************************************)
(* Reports.                                                                *)
(***************************************************************************)
\* The bytes a sample adds: none for the first, the whole counter after a reset.
Delta(counter) ==
    CASE obs.sampled = Never        -> 0
      [] counter >= obs.counter     -> counter - obs.counter
      [] OTHER                      -> counter

SampleKeepsBaseline ==
    /\ IF obs.sampled # Never /\ obs.sampled < 0
       THEN UNCHANGED <<obs, buckets>>
       ELSE LET n == Delta(device.counter) IN
            /\ obs' = [obs EXCEPT !.sampled = 0, !.observed = @ + n]
            /\ buckets' = [buckets EXCEPT !.held[0] = @ + n]
    /\ UNCHANGED <<device, probed, alerts, jumps>>

\* sb_observability_sample: a sample older than the last one, by the panel's
\* clock, changes nothing at all.
Sample ==
    /\ IF obs.sampled # Never /\ obs.sampled < 0
       THEN UNCHANGED <<obs, buckets>>
       ELSE LET n == Delta(device.counter) IN
            /\ obs' = [obs EXCEPT !.sampled = 0, !.counter = device.counter, !.observed = @ + n]
            /\ buckets' = [buckets EXCEPT !.held[0] = @ + n]
    /\ UNCHANGED <<device, probed, alerts, jumps>>

\* sb_observability_target: the time moves only when the configuration does.
Target(etag) ==
    /\ obs' = [obs EXCEPT !.since = IF obs.target # etag THEN 0 ELSE @, !.target = etag]
    /\ UNCHANGED <<device, buckets, probed, alerts, jumps>>

\* sb_observability_status: MAX keeps a report time that lies in the future, and
\* a failed or stopped core reports no applied configuration.
Status(etag, running, error) ==
    /\ device' = [device EXCEPT !.error = error]
    /\ obs' = [obs EXCEPT !.reported = TRUE, !.seen = IF obs.reported /\ @ < 0 THEN @ ELSE 0,
                          !.applied = IF running /\ ~error /\ etag # 0 THEN etag ELSE @]
    /\ UNCHANGED <<buckets, probed, alerts, jumps>>
-----------------------------------------------------------------------------
(***************************************************************************)
(* The monitor.                                                            *)
(***************************************************************************)
\* The row's creation stands for a report until the first one.
Missing  == obs.seen >= OfflineAge
Mismatch == obs.target # 0 /\ obs.target # obs.applied /\ obs.since >= DriftAge
Tested   == probed.enabled /\ probed.tested # Never
Fresh    == Tested /\ probed.tested >= 0 /\ probed.tested <= ProbeAge

Condition(k) ==
    CASE k = "device_offline"   -> device.enabled /\ Missing
      [] k = "config_drift"     -> device.enabled /\ Mismatch
      [] k = "config_failure"   -> device.enabled /\ device.error
      [] k = "node_unreachable" -> probed.exists /\ Fresh /\ probed.latency = "failed"
      [] k = "node_slow"        -> probed.exists /\ Fresh /\ probed.latency = "slow"
      [] k = "node_probe_stale" -> probed.exists /\ Tested /\ probed.tested > ProbeAge

\* alert_locked for a condition that holds: the active alert is kept, else one is
\* inserted under an id that the one before it did not have.
Opened(a) == IF a.open THEN a ELSE [id |-> 1 + (a.id % 2), open |-> TRUE, acked |-> FALSE]

\* ... and for one that does not.
Closed(a) == [a EXCEPT !.open = FALSE]

\* Only nodes that still exist are looked at row by row.
EvaluatedRows == [k \in DOMAIN alerts |-> IF k \in NodeKinds /\ ~probed.exists THEN alerts[k]
                                  ELSE IF Condition(k) THEN Opened(alerts[k]) ELSE Closed(alerts[k])]

\* Alerts of a node that was removed are resolved by a statement of their own.
Evaluated == [k \in DOMAIN alerts |-> IF k \in NodeKinds /\ ~probed.exists THEN Closed(alerts[k])
                              ELSE EvaluatedRows[k]]

\* sb_observability_evaluate, one transaction.
Evaluate ==
    /\ alerts' = Evaluated
    /\ buckets' = [held |-> [a \in Ages |-> IF a > RetentionAge THEN 0 ELSE buckets.held[a]],
                   dropped |-> buckets.dropped + Bytes({a \in Ages : a > RetentionAge})]
    /\ UNCHANGED <<device, obs, probed, jumps>>

\* sb_observability_ack finds active alerts only.
Acknowledge(k) ==
    /\ alerts[k].open /\ ~alerts[k].acked /\ alerts' = [alerts EXCEPT ![k].acked = TRUE]
    /\ UNCHANGED <<device, obs, buckets, probed, jumps>>

MonitorStep == ClockAdvances \/ ClockSetBack \/ Evaluate
HistoryStep == Traffic \/ CounterReset \/ Sample
WatchStep   == \/ ToggleHost
               \/ \E etag \in {1, 2} : Target(etag) \/ \E error \in BOOLEAN : Status(etag, ~error, error)
               \/ \E k \in HostKinds \cap DOMAIN alerts : Acknowledge(k)
ProbeStep   == ProbeNode \/ DropNode \/ \E k \in NodeKinds \cap DOMAIN alerts : Acknowledge(k)

ObsNext == MonitorStep \/ HistoryStep \/ WatchStep \/ ProbeStep

\* monitor_loop comes round every thirty seconds.
ObsSpec == ObsInit(Kinds) /\ [][ObsNext]_obsVars /\ WF_obsVars(Evaluate)
-----------------------------------------------------------------------------
(***************************************************************************)
(* Properties.                                                             *)
(***************************************************************************)
\* The buckets kept and the bytes dropped with expired ones add up to the total shown for
\* the device, and that is never more than the device had: across counter resets, clocks
\* set back and retention, no sample is added twice (sb_observability_sample).
HistoryIsReal ==
    /\ Bytes(Ages) + buckets.dropped = obs.observed
    /\ obs.observed <= device.total

\* Every alert follows its condition once that stays as it is, also for a node
\* that was removed while its alert was open and for a clock that was set back
\* (monitor_loop, sb_observability_evaluate).
AlertsSettle ==
    \A k \in Kinds :
        /\ <>[](k \in DOMAIN alerts /\ Condition(k)) => <>[](k \in DOMAIN alerts => alerts[k].open)
        /\ <>[]~Condition(k) => <>[](k \in DOMAIN alerts => ~alerts[k].open)
=============================================================================
