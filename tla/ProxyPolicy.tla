---------------------------- MODULE ProxyPolicy ----------------------------
(***************************************************************************)
(* The authorization state of one node, between the lease exchange and the *)
(* traffic: the request side of c/src/proxy_runtime.c and proxyManager of  *)
(* singbox-bridge/proxy_policy.go.  A node is a record, and each operator  *)
(* is what one call does to it while it holds the manager's mutex.  Time   *)
(* is the node's boot-time clock in ticks, -1 when it cannot be read.      *)
(***************************************************************************)
EXTENDS Integers, FiniteSets

CONSTANTS Lease,        \* lease ids; a lease belongs to one user and epoch
          Device,       \* device ids, each with the key it was created with
          Boot,         \* boot ids
          None,         \* an absent request, policy, budget or device
          SECOND,       \* ticks in one second
          MaxBudgets    \* 4096 in the code

ASSUME PolicyAssumption ==
    /\ SECOND \in Nat \ {0} /\ MaxBudgets \in Nat
    /\ None \notin Boot

(***************************************************************************)
(* seq, request, begun belong to the C runtime (sequence, pending, begun); *)
(* the rest to the engine: applied is the sequence number and the hash of  *)
(* the last policy, asked and start what RequestBegin recorded.            *)
(***************************************************************************)
NewNode(boot) ==
    [boot |-> boot, seq |-> 1, request |-> None, begun |-> FALSE,
     engineBoot |-> None, asked |-> None, start |-> 0,
     engineSeq |-> 0, applied |-> None,
     budgets |-> [k \in Lease |-> None], devices |-> [d \in Device |-> None]]
-----------------------------------------------------------------------------
(***************************************************************************)
(* Requests.                                                               *)
(***************************************************************************)
Held(n) == {k \in Lease : n.budgets[k] # None}

\* Faulty: a budget that was stopped is reported as unused.
StatsActive(n) ==
    {[lease |-> k, used |-> IF n.budgets[k].active THEN n.budgets[k].used ELSE 0] : k \in Held(n)}

\* stats, and the request that pending_request makes of them.
Stats(n) == {[lease |-> k, used |-> n.budgets[k].used] : k \in Held(n)}

WithRequest(n) ==
    IF n.request # None THEN n
    ELSE [n EXCEPT !.request = [boot |-> n.boot, seq |-> n.seq, reports |-> Stats(n)]]

\* stop, under the mutex: nothing is authorized, the counters stay.
Stopped(n) ==
    [n EXCEPT !.devices = [d \in Device |-> None],
              !.budgets = [k \in Lease |-> IF n.budgets[k] = None THEN None
                                           ELSE [n.budgets[k] EXCEPT !.active = FALSE]]]

(***************************************************************************)
(* begin: the first transmission of a request dates it; begin itself keeps *)
(* the date when it sees the request again.  A request out of sequence, or *)
(* changed, stops the engine.                                              *)
(***************************************************************************)
Known(n) == n.asked # None /\ n.asked.seq = n.request.seq

Began(n, now) ==
    IF \/ n.engineBoot \notin {None, n.request.boot}
       \/ n.request.seq # n.engineSeq + 1
       \/ Known(n) /\ n.asked # n.request
       \/ ~Known(n) /\ now < 0
    THEN Stopped(n)
    ELSE [n EXCEPT !.engineBoot = n.request.boot, !.asked = n.request,
                   !.start = IF Known(n) THEN @ ELSE now,
                   !.begun = TRUE]

\* Faulty: every transmission of a request dates it again.
CalledRedated(n, now) ==
    LET r == WithRequest(n)
    IN  IF now < 0 THEN Stopped(r)
        ELSE [r EXCEPT !.engineBoot = r.request.boot, !.asked = r.request, !.start = now,
                       !.begun = TRUE]

\* sb_proxy_runtime_step up to the transmission; without a clock it stops the engine.
Called(n, now) ==
    LET r == WithRequest(n)
    IN  IF r.begun THEN r ELSE IF now < 0 THEN Stopped(r) ELSE Began(r, now)
-----------------------------------------------------------------------------
(***************************************************************************)
(* Policies.                                                               *)
(***************************************************************************)
\* Faulty: the second that generated_at was rounded down by is not subtracted.
DeadlineUnrounded(start, expires, generated) == start + (expires - generated) * SECOND

\* proxyDeadline
Deadline(start, expires, generated) == start + (expires - generated - 1) * SECOND

\* apply's comparison with what begin recorded.
Answers(n, p) == /\ p.boot = n.engineBoot
                 /\ n.asked # None /\ p.seq = n.asked.seq
                 /\ n.start > 0

\* A lease the node holds comes back smaller, or with more used than it counted.
Contradicts(n, p) == \E g \in p.users : LET b == n.budgets[g.lease] IN
                        b # None /\ (g.grant < b.grant \/ g.used > b.used)

Crowded(n, p) == Cardinality(Held(n) \union {g.lease : g \in p.users}) > MaxBudgets

Expired(n, p, now) == now < n.start \/ now >= Deadline(n.start, p.expires, p.generated)

\* What the policy enables: nothing when it comes too late or without a node.
Enabled(n, p, now) == IF Expired(n, p, now) \/ p.node = None THEN {} ELSE p.users

BudgetsAfter(n, p, now) ==
    [k \in Lease |->
        IF \E g \in Enabled(n, p, now) : g.lease = k
        THEN LET g == CHOOSE x \in Enabled(n, p, now) : x.lease = k
             IN  IF n.budgets[k] = None
                 THEN [grant |-> g.grant, used |-> g.used, reserved |-> 0, active |-> TRUE]
                 ELSE [n.budgets[k] EXCEPT !.grant = g.grant, !.active = TRUE]
        ELSE IF n.budgets[k] = None THEN None ELSE [n.budgets[k] EXCEPT !.active = FALSE]]

\* The earlier of the lease's and the device's own expiry; 0 = the device never expires.
DeviceExpiry(g, x) == IF x.expires # 0 /\ x.expires < g.expires THEN x.expires ELSE g.expires

DevicesAfter(n, p, now) ==
    [d \in Device |->
        IF \E g \in Enabled(n, p, now) : \E x \in g.devices : x.id = d
        THEN LET g == CHOOSE y \in Enabled(n, p, now) : \E x \in y.devices : x.id = d
                 x == CHOOSE y \in g.devices : y.id = d
                 deadline == Deadline(n.start, DeviceExpiry(g, x), p.generated)
                 b == BudgetsAfter(n, p, now)[g.lease]
             IN  [lease |-> g.lease, deadline |-> deadline,
                  active |-> now < deadline /\ b.used < b.grant]
        ELSE None]

(***************************************************************************)
(* apply, under the mutex.  A matching policy has consumed its sequence    *)
(* number at the center, so the engine advances whatever it then makes of  *)
(* the policy; a repetition changes nothing.                               *)
(***************************************************************************)
Taken(n, p) == /\ Answers(n, p) /\ p.seq = n.engineSeq + 1
               /\ ~Contradicts(n, p) /\ ~Crowded(n, p)

Repeated(n, p) == Answers(n, p) /\ p.seq = n.engineSeq /\ p = n.applied

Applied(n, p, now) ==
    LET a == [n EXCEPT !.engineSeq = p.seq, !.applied = p]
    IN  IF Taken(n, p)
        THEN [a EXCEPT !.budgets = BudgetsAfter(n, p, now), !.devices = DevicesAfter(n, p, now)]
        ELSE IF Repeated(n, p) THEN n
        ELSE IF Answers(n, p) /\ p.seq = n.engineSeq + 1 THEN Stopped(a)
        ELSE Stopped(n)

\* apply goes on to the listener: the policy was taken and enables something.
Served(n, p, now) == Taken(n, p) /\ ~Expired(n, p, now) /\ p.node # None

(***************************************************************************)
(* acknowledge, and the end of sb_proxy_runtime_step: counters that the    *)
(* center has seen exactly are dropped, once nothing can add to them; busy *)
(* are the leases with open connections.  The request is done.             *)
(***************************************************************************)
Acknowledged(n, busy) ==
    [n EXCEPT !.budgets = [k \in Lease |->
                  IF /\ n.budgets[k] # None /\ ~n.budgets[k].active /\ k \notin busy
                     /\ n.budgets[k].reserved = 0
                     /\ [lease |-> k, used |-> n.budgets[k].used] \in n.request.reports
                  THEN None ELSE n.budgets[k]],
              !.seq = @ + 1, !.request = None, !.begun = FALSE]
-----------------------------------------------------------------------------
(***************************************************************************)
(* Traffic.                                                                *)
(***************************************************************************)
\* What attach, reserve and authorized ask of a device's entry.
Authorized(n, d, now) ==
    /\ now >= 0
    /\ n.devices[d] # None
    /\ n.devices[d].active /\ n.budgets[n.devices[d].lease].active
    /\ now < n.devices[d].deadline

Left(b) == b.grant - b.used - b.reserved

\* reserve: how much of the wanted bytes; a datagram goes whole or not at all.
Reservable(b, want, whole) ==
    IF want > Left(b) THEN (IF whole THEN 0 ELSE Left(b)) ELSE want

Reserved(n, k, bytes) == [n EXCEPT !.budgets[k].reserved = @ + bytes]

\* finish: the reservation becomes use; an exhausted budget shuts its devices.
Finished(n, k, reserved, used) ==
    LET b == [n.budgets[k] EXCEPT !.reserved = @ - reserved, !.used = @ + used]
    IN  [n EXCEPT !.budgets[k] = b,
                  !.devices = [d \in Device |->
                      IF b.used >= b.grant /\ n.devices[d] # None /\ n.devices[d].lease = k
                      THEN [n.devices[d] EXCEPT !.active = FALSE] ELSE n.devices[d]]]

\* expire, under the mutex
Overdue(n, now) == {d \in Device : /\ n.devices[d] # None /\ n.devices[d].active
                                   /\ now < 0 \/ now >= n.devices[d].deadline}
Lapsed(n, now)  == [n EXCEPT !.devices = [d \in Device |->
                       IF d \in Overdue(n, now) THEN [n.devices[d] EXCEPT !.active = FALSE]
                                                ELSE n.devices[d]]]
=============================================================================
