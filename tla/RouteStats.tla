----------------------------- MODULE RouteStats -----------------------------
(***************************************************************************)
(* The device's telemetry sampler (c/src/agent_clash.c): each sample reads *)
(* the core's list of connections and keeps, per route, how many there     *)
(* were and how much they sent, in a table of bounded size.  The core is   *)
(* read from outside: connections open, send, change their route (the      *)
(* destination is sniffed late) and close between samples, and the core    *)
(* may restart.  Uplink stands for both directions.  The core's list is    *)
(* taken to be complete whenever it answers 200.                           *)
(***************************************************************************)
EXTENDS Integers, FiniteSets, FiniteSetsExt, Functions, TLC

CONSTANTS Flows,       \* identifiers of connections; the core never uses one twice
          FlowRoutes,  \* identities domain_route_identity can make
          StatLimits,  \* rows the table may have (1000), one of several small numbers
          MaxSent,     \* bound: bytes of a connection
          SampleCount  \* bound: samples

VARIABLES limit,     \* the one of StatLimits of this behaviour
          core,      \* live connections: their route and bytes; the total since the core started
          fresh,     \* identifiers not yet used
          observed,  \* connections of the last sample (observed_connection)
          stats,     \* the table (domain_stat); `at` is last_seen
          baseline,  \* the last total sampled, or "none"
          rated,     \* bytes of the last reported rate
          truth,     \* what every connection ever sampled had when last sampled
          evicted,   \* a row was ever dropped for room
          samples    \* samples left; also the clock of last_seen

statVars == <<limit, core, fresh, observed, stats, baseline, rated, truth, evicted, samples>>

NoRows == [x \in {} |-> 0]
Max0(n) == IF n < 0 THEN 0 ELSE n

StatsInit ==
  /\ limit \in StatLimits
  /\ \E total \in {0, 1} : core = [live |-> NoRows, total |-> total]
  /\ fresh = Flows /\ observed = NoRows /\ stats = NoRows /\ baseline = -1 /\ rated = 0
  /\ truth = NoRows /\ evicted = FALSE /\ samples = SampleCount

(***************************************************************************)
(* The core, between samples.                                              *)
(***************************************************************************)
SamplerIdle == UNCHANGED <<limit, observed, stats, baseline, rated, truth, evicted, samples>>

FlowOpens ==
  /\ fresh # {} /\ samples > 0 /\ SamplerIdle
  /\ LET c == Min(fresh) IN
     \E r \in FlowRoutes :
       /\ fresh' = fresh \ {c}
       /\ core' = [core EXCEPT !.live = (c :> [route |-> r, sent |-> 0]) @@ @]

FlowSends ==
  /\ samples > 0 /\ SamplerIdle /\ UNCHANGED fresh
  /\ \E c \in DOMAIN core.live :
       /\ core.live[c].sent < MaxSent
       /\ core' = [live |-> [core.live EXCEPT ![c].sent = @ + 1], total |-> core.total + 1]

FlowRerouted ==
  /\ samples > 0 /\ SamplerIdle /\ UNCHANGED fresh
  /\ \E c \in DOMAIN core.live : \E r \in FlowRoutes \ {core.live[c].route} :
       core' = [core EXCEPT !.live[c].route = r]

FlowCloses ==
  /\ samples > 0 /\ SamplerIdle /\ UNCHANGED fresh
  /\ \E c \in DOMAIN core.live :
       core' = [core EXCEPT !.live = Restrict(@, DOMAIN @ \ {c})]

CoreRestarts ==
  /\ samples > 0 /\ core.total > 0 /\ SamplerIdle /\ UNCHANGED fresh
  /\ core' = [live |-> NoRows, total |-> 0]

(* add_domain_route(): the row seen longest ago makes room for a new one. *)
Added(t, r, n, up, now) ==
  LET full == r \notin DOMAIN t.rows /\ Cardinality(DOMAIN t.rows) >= limit
      oldest == CHOOSE x \in DOMAIN t.rows : \A y \in DOMAIN t.rows : t.rows[x].at <= t.rows[y].at
      kept == IF full THEN Restrict(t.rows, DOMAIN t.rows \ {oldest}) ELSE t.rows
      old == IF r \in DOMAIN kept THEN kept[r] ELSE [count |-> 0, sent |-> 0, at |-> now]
  IN [rows |-> (r :> [count |-> old.count + n, sent |-> old.sent + Max0(up), at |-> now]) @@ kept,
      dropped |-> t.dropped \/ full]

(* subtract_domain_route(): a row with nothing left is dropped. *)
Subtracted(t, o) ==
  IF o.route \notin DOMAIN t.rows THEN t
  ELSE LET row == t.rows[o.route]
           less == [row EXCEPT !.count = Max0(@ - 1), !.sent = Max0(@ - o.sent)]
       IN [t EXCEPT !.rows = IF less.count = 0 /\ less.sent = 0
                               THEN Restrict(@, DOMAIN @ \ {o.route})
                               ELSE (o.route :> less) @@ @]

MovedOnly(t, o, c, now) == Added(t, c.route, 1, c.sent, now)

(* A connection whose route changed takes its count and its bytes along. *)
Moved(t, o, c, now) == Added(Subtracted(t, o), c.route, 1, c.sent, now)

(* One connection of the answer against the table. *)
Counted(t, id, now) ==
  LET c == core.live[id] IN
  IF id \notin DOMAIN observed THEN Added(t, c.route, 1, c.sent, now)
  ELSE IF observed[id].route # c.route THEN Moved(t, observed[id], c, now)
  ELSE Added(t, c.route, 0, c.sent - observed[id].sent, now)

(* update_domain_route_stats() over the connections up to the n-th of the list. *)
Tables(n, now) ==
  LET ids == {i \in DOMAIN core.live : Cardinality({j \in DOMAIN core.live : j <= i}) <= n}
      t[i \in 0..Max(Flows)] == IF i = 0 THEN [rows |-> stats, dropped |-> evicted]
                                ELSE IF i \in ids THEN Counted(t[i - 1], i, now) ELSE t[i - 1]
  IN <<t[Max(Flows)], ids>>

(* The difference of two totals; none for the first sample, none when the core was
   restarted below the last one. *)
Rate == IF baseline = -1 THEN 0 ELSE Max0(core.total - baseline)

(* sb_agent_clash_sample_telemetry(): the totals, then the table.  An identity that
   cannot be written ends the sample after n connections, without the sweep of those
   that closed. *)
SampleTelemetry(n) ==
  /\ samples > 0 /\ samples' = samples - 1
  /\ n <= Cardinality(DOMAIN core.live)
  /\ rated' = Rate /\ baseline' = core.total
  /\ LET table == Tables(n, SampleCount - samples)
         seen == Restrict(core.live, table[2])
     IN /\ stats' = table[1].rows /\ evicted' = table[1].dropped
        /\ observed' = IF n = Cardinality(DOMAIN core.live) THEN seen ELSE seen @@ observed
        /\ truth' = seen @@ truth
  /\ UNCHANGED <<limit, core, fresh>>

(* No controller, no answer or an answer other than 2xx: nothing is kept of it. *)
SampleFails ==
  /\ samples > 0 /\ samples' = samples - 1
  /\ UNCHANGED <<limit, core, fresh, observed, stats, baseline, rated, truth, evicted>>

StatsDone == samples = 0 /\ UNCHANGED statVars

StatsNext == \/ FlowOpens \/ FlowSends \/ FlowRerouted \/ FlowCloses \/ CoreRestarts
             \/ (\E n \in 0..Cardinality(Flows) : SampleTelemetry(n)) \/ SampleFails \/ StatsDone

StatsSpec == StatsInit /\ [][StatsNext]_statVars

(***************************************************************************)
(* Properties.                                                             *)
(***************************************************************************)
Those(r) == {c \in DOMAIN truth : truth[c].route = r}
TrueSent(r) == MapThenSumSet(LAMBDA c : truth[c].sent, Those(r))

(* The table keeps its bound, and a row never says more than was seen on its route: dropping
   rows loses counts and invents none.  As long as no row was dropped, it holds exactly the
   connections last seen on it and what they had sent, through changes of route, closings,
   restarts of the core, and samples that failed half way. *)
CountedOnce ==
  /\ Cardinality(DOMAIN stats) <= limit
  /\ \A r \in DOMAIN stats : stats[r].count <= Cardinality(Those(r)) /\ stats[r].sent <= TrueSent(r)
  /\ ~evicted => \A r \in FlowRoutes :
       IF r \in DOMAIN stats THEN stats[r].count = Cardinality(Those(r)) /\ stats[r].sent = TrueSent(r)
                             ELSE Those(r) = {}

=============================================================================
