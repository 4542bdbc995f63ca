----------------------------- MODULE ProxyNode -----------------------------
(***************************************************************************)
(* One node of the lease protocol at the granularity of its mutexes: the   *)
(* C runtime's worker (c/src/proxy_runtime.c), the engine's manager        *)
(* (singbox-bridge/proxy_policy.go) with its expiry timer, the ingress and *)
(* its connections (singbox-bridge/proxy_ingress.go), and the core that    *)
(* can be stopped under it (singbox-bridge/main.go).  Each action is one   *)
(* section under the manager's mutex; everything else interleaves with it. *)
(* The center is its ledger of this boot's leases and its stored answer.   *)
(***************************************************************************)
EXTENDS ProxyPolicy, FiniteSetsExt

CONSTANTS Conn,             \* connections that may exist at a time
          Node,             \* ingress configurations of a policy
          TtlInput,         \* seconds a policy is valid
          UntilInput,       \* expiries of devices, 0 for none; policies are generated at 10
          MaxGrant, TopUp,  \* bound of the grants; what an answer may add to one
          Want,             \* sizes of the payloads
          MaxPerDevice, MaxConnections,   \* 256 and 4096 in the code
          MaxNow, MaxSeq    \* bounds of the clock and of the exchanges

ASSUME NodeAssumption ==
    /\ IsFiniteSet(Conn) /\ None \notin Node
    /\ TtlInput \subseteq Nat /\ UntilInput \subseteq Nat /\ Want \subseteq Nat \ {0} /\ MaxGrant \in Nat
    /\ TopUp \subseteq Nat
    /\ MaxNow \in Nat /\ MaxSeq \in Nat

VARIABLES
    now, broken,    \* the boot-time clock; whether reading it fails
    node,           \* the record of ProxyPolicy
    worker,         \* "on", "stopping" (request_stop), "off" (stop)
    pc,             \* of the call in progress
    resume,         \* where the call goes on once its connections are closed
    closeList,      \* connections that call has still to close
    closing,        \* connections that timers, finishers and core stops have to close
    conn,           \* the connections
    ingress, table, \* m.ingress by its configuration; the devices it authenticates
    timer,          \* whether m.timer is set
    core,           \* runtimeState.instance # nil
    center, answer, \* the center's ledger, and its stored answer to the request
    sent            \* history: payload bytes that left for a router or a client

clocks  == <<now, broken>>
control == <<worker, pc, resume, closeList>>
traffic == <<conn, closing>>
outside == <<center, answer>>
vars    == <<clocks, node, control, traffic, ingress, table, timer, core, outside, sent>>

T == IF broken THEN -1 ELSE now

NoConn == [st |-> "free", device |-> None, lease |-> None, attached |-> FALSE,
           current |-> FALSE, reserved |-> 0, io |-> "none", count |-> 0]

NodeInit ==
    /\ now = 1 /\ broken = FALSE
    /\ node \in {NewNode(b) : b \in Boot}
    /\ worker = "on" /\ pc = "idle" /\ resume = "idle" /\ closeList = {} /\ closing = {}
    /\ conn = [c \in Conn |-> NoConn]
    /\ ingress = None /\ table = {} /\ timer = FALSE /\ core = TRUE
    /\ center = [k \in Lease |-> [grant |-> 0, used |-> 0]] /\ answer = None
    /\ sent = [k \in Lease |-> 0]

Open(c)     == conn[c].st = "open"
\* d.connections of the objects in m.devices
Attached    == {c \in Conn : Open(c) /\ conn[c].attached}
ActiveIn(n) == {d \in Device : n.devices[d] # None /\ n.devices[d].active}
-----------------------------------------------------------------------------
(***************************************************************************)
(* stop(), under the mutex; its connections are closed before the call it  *)
(* is part of goes on to `next'.                                           *)
(***************************************************************************)
Detached == [c \in Conn |-> [conn[c] EXCEPT !.attached = FALSE, !.current = FALSE]]

StopThen(n, next) ==
    /\ node' = Stopped(n)
    /\ ingress' = None /\ table' = {} /\ timer' = FALSE
    /\ conn' = Detached
    /\ pc' = "closing" /\ resume' = next /\ closeList' = Attached
    /\ UNCHANGED <<clocks, worker, closing, core, outside, sent>>

CallReturns ==
    /\ pc = "closing" /\ closeList = {}
    /\ pc' = resume /\ resume' = "idle"
    /\ UNCHANGED <<clocks, node, worker, closeList, traffic, ingress, table, timer, core,
                   outside, sent>>
-----------------------------------------------------------------------------
(***************************************************************************)
(* The C runtime.                                                          *)
(***************************************************************************)
\* sb_proxy_runtime_step up to the exchange.
Step ==
    /\ worker = "on" /\ pc = "idle"
    /\ node.seq <= MaxSeq
    /\ LET n == Called(node, T) IN
          IF n.begun
          THEN /\ node' = n /\ pc' = "calling"
               /\ UNCHANGED <<clocks, worker, resume, closeList, traffic, ingress, table, timer,
                              core, outside, sent>>
          ELSE StopThen(n, "idle")

\* The exchange fails, or ends while the worker is stopping: the request is kept.
ExchangeFails ==
    /\ pc = "calling"
    /\ pc' = "idle"
    /\ UNCHANGED <<clocks, node, worker, resume, closeList, traffic, ingress, table, timer, core,
                   outside, sent>>

\* The response is not a valid policy, or the clock fails: the engine is stopped.
ResponseRejected ==
    /\ pc = "calling" /\ worker = "on"
    /\ StopThen(node, "idle")

\* Device objects that survive the policy: the same device on the same budget.
Kept(n) == {d \in Device : /\ node.devices[d] # None /\ n.devices[d] # None
                           /\ node.devices[d].lease = n.devices[d].lease}

\* Faulty: a device that moves to another lease keeps its connections.
CloseAfterMove(n, replace) ==
    {c \in Attached : replace \/ conn[c].device \notin ActiveIn(n)}

\* The connections that apply closes.
CloseAfter(n, replace) ==
    {c \in Attached : \/ replace
                      \/ conn[c].device \notin Kept(n)
                      \/ conn[c].device \notin ActiveIn(n)}

\* Faulty: one inactive device is enough to leave the watchdog off.
ArmedFully(n) == ActiveIn(n) # {} /\ \A d \in Device : n.devices[d] # None => n.devices[d].active

\* scheduleLocked: a watchdog while any device is active.
Armed(n) == ActiveIn(n) # {}

(***************************************************************************)
(* apply, its first locked section: a new device table, and the ingress    *)
(* dropped when its configuration changes.  A policy that comes while the  *)
(* worker is stopping is discarded.                                        *)
(***************************************************************************)
Apply ==
    /\ pc = "calling" /\ answer # None /\ worker = "on"
    /\ LET p == answer
           n == Applied(node, p, T)
           replace == Expired(node, p, T) \/ p.node = None \/ ingress # p.node
       IN  IF Taken(node, p)
           THEN /\ node' = n
                /\ closeList' = CloseAfter(n, replace)
                /\ conn' = [c \in Conn |-> [conn[c] EXCEPT
                               !.attached = @ /\ conn[c].device \in Kept(n),
                               !.current = @ /\ ~replace]]
                /\ ingress' = IF replace THEN None ELSE ingress
                /\ table' = IF replace THEN {} ELSE table
                /\ timer' = Armed(n)
                /\ pc' = "closing"
                /\ resume' = IF Served(node, p, T) THEN "listen" ELSE "ack"
                /\ UNCHANGED <<clocks, worker, closing, core, outside, sent>>
           ELSE IF Repeated(node, p)
           THEN /\ pc' = "ack"
                /\ UNCHANGED <<clocks, node, worker, resume, closeList, traffic, ingress, table,
                               timer, core, outside, sent>>
           ELSE StopThen(n, "ack")

(***************************************************************************)
(* apply, once the connections are closed: the ingress authenticates the   *)
(* devices that are still active.  Without a core, or when the listener    *)
(* fails, the engine is stopped.                                           *)
(***************************************************************************)
Listen ==
    /\ pc = "listen" /\ core
    /\ table' = {d \in ActiveIn(node) : \E g \in answer.users : \E x \in g.devices : x.id = d}
    /\ ingress' = answer.node
    /\ pc' = "ack"
    /\ UNCHANGED <<clocks, node, worker, resume, closeList, traffic, timer, core, outside, sent>>

ListenFails ==
    /\ pc = "listen"
    /\ StopThen(node, "ack")

\* acknowledge, and the next exchange.
Acknowledge ==
    /\ pc = "ack"
    /\ node' = Acknowledged(node, {conn[c].lease : c \in {x \in Conn : Open(x)}})
    /\ pc' = "idle" /\ answer' = None
    /\ UNCHANGED <<clocks, worker, resume, closeList, traffic, ingress, table, timer, core,
                   center, sent>>

\* sb_proxy_runtime_request_stop, sb_proxy_runtime_stop, sb_proxy_runtime_start
RequestStop ==
    /\ worker = "on"
    /\ worker' = "stopping"
    /\ UNCHANGED <<clocks, node, pc, resume, closeList, traffic, ingress, table, timer, core,
                   outside, sent>>

Stop ==
    /\ worker = "stopping" /\ pc = "idle"
    /\ worker' = "off"
    /\ node' = Stopped(node)
    /\ ingress' = None /\ table' = {} /\ timer' = FALSE
    /\ conn' = Detached
    /\ pc' = "closing" /\ resume' = "idle" /\ closeList' = Attached
    /\ UNCHANGED <<clocks, closing, core, outside, sent>>

Start ==
    /\ worker = "off" /\ pc = "idle"
    /\ worker' = "on"
    /\ UNCHANGED <<clocks, node, pc, resume, closeList, traffic, ingress, table, timer, core,
                   outside, sent>>

(***************************************************************************)
(* sb_proxy_runtime_free and sb_proxy_runtime_new: a new owner resets the  *)
(* engine once no connection and no reservation is left, else fails.  Its  *)
(* leases are those of a new boot id, so the ledgers start again.          *)
(***************************************************************************)
Drained == /\ \A c \in Conn : ~Open(c)
           /\ \A k \in Held(node) : node.budgets[k].reserved = 0

NewOwner(b) ==
    /\ worker = "off" /\ pc = "idle" /\ Drained
    /\ b # node.boot
    /\ node' = NewNode(b)
    /\ worker' = "on" /\ answer' = None
    /\ center' = [k \in Lease |-> [grant |-> 0, used |-> 0]]
    /\ sent' = [k \in Lease |-> 0]
    /\ UNCHANGED <<clocks, pc, resume, closeList, traffic, ingress, table, timer, core>>
-----------------------------------------------------------------------------
(***************************************************************************)
(* The core, under runtimeState, which apply and stop hold too; and the    *)
(* clock.                                                                  *)
(***************************************************************************)
Unlocked == pc \notin {"closing", "listen"}

\* stopRuntime, and reloadRuntime, whose replacement may fail to start.
CoreGoes(up) ==
    /\ core /\ Unlocked
    /\ node' = Stopped(node)
    /\ ingress' = None /\ table' = {} /\ timer' = FALSE
    /\ conn' = Detached /\ closing' = closing \union Attached
    /\ core' = up
    /\ UNCHANGED <<clocks, control, outside, sent>>

CoreStarts ==
    /\ ~core /\ Unlocked
    /\ core' = TRUE
    /\ UNCHANGED <<clocks, node, control, traffic, ingress, table, timer, outside, sent>>

Tick ==
    /\ now < MaxNow
    /\ now' = now + 1
    /\ UNCHANGED <<broken, node, control, traffic, ingress, table, timer, core, outside, sent>>

ClockBreaks ==
    /\ broken' = ~broken
    /\ UNCHANGED <<now, node, control, traffic, ingress, table, timer, core, outside, sent>>

\* expire
Expire ==
    /\ timer
    /\ LET late == Overdue(node, T)
           n == Lapsed(node, T)
       IN  /\ late # {}
           /\ node' = n
           /\ closing' = closing \union {c \in Attached : conn[c].device \in late}
           /\ timer' = Armed(n)
    /\ UNCHANGED <<clocks, control, conn, ingress, table, core, outside, sent>>
-----------------------------------------------------------------------------
(***************************************************************************)
(* Connections.  A connection has one transfer at a time: it reserves,     *)
(* transfers, and finishes; it can be closed anywhere in between.          *)
(***************************************************************************)
\* The listener authenticates a device; the handshake is on its way to attach.
Accept(c, d) ==
    /\ ingress # None /\ d \in table
    /\ conn[c].st = "free"
    /\ conn' = [conn EXCEPT ![c] = [NoConn EXCEPT !.st = "handshake", !.device = d,
                                                  !.current = TRUE]]
    /\ UNCHANGED <<clocks, node, control, closing, ingress, table, timer, core, outside, sent>>

Usable(d) ==
    /\ Authorized(node, d, T)
    /\ Left(node.budgets[node.devices[d].lease]) > 0

\* attach
Attach(c) ==
    LET d == conn[c].device
    IN  /\ conn[c].st = "handshake"
        /\ conn' = [conn EXCEPT ![c] =
              IF /\ conn[c].current /\ Usable(d)
                 /\ Cardinality({x \in Attached : conn[x].device = d}) < MaxPerDevice
                 /\ Cardinality({x \in Conn : Open(x)}) < MaxConnections
              THEN [@ EXCEPT !.st = "open", !.lease = node.devices[d].lease, !.attached = TRUE]
              ELSE NoConn]
        /\ UNCHANGED <<clocks, node, control, closing, ingress, table, timer, core, outside, sent>>

\* reserve; a connection whose device object has left the table gets nothing.
Reserve(c, want, whole) ==
    LET k == conn[c].lease
        bytes == Reservable(node.budgets[k], want, whole)
    IN  /\ Open(c) /\ conn[c].io = "none"
        /\ conn[c].attached /\ Authorized(node, conn[c].device, T)
        /\ bytes > 0
        /\ node' = Reserved(node, k, bytes)
        /\ conn' = [conn EXCEPT ![c].reserved = bytes, ![c].io = "reserved"]
        /\ UNCHANGED <<clocks, control, closing, ingress, table, timer, core, outside, sent>>

(***************************************************************************)
(* The transfer that a reservation pays for: it reports `count' bytes, and *)
(* a write that fails or is short may have delivered more than it reports. *)
(***************************************************************************)
Transfer(c, delivered, count) ==
    /\ conn[c].io = "reserved"
    /\ count <= delivered /\ delivered <= conn[c].reserved
    /\ conn' = [conn EXCEPT ![c].count = count,
                            ![c].io = IF count = conn[c].reserved THEN "whole" ELSE "uncertain"]
    /\ sent' = [sent EXCEPT ![conn[c].lease] = @ + delivered]
    /\ UNCHANGED <<clocks, node, control, closing, ingress, table, timer, core, outside>>

\* Faulty: what an uncertain write does not report is refunded.
ChargeReported(x) == x.count

\* proxyTCPConn.Write: never refund an uncertain write.
Charge(x) == IF x.io = "uncertain" THEN x.reserved ELSE x.count

\* A closed connection is gone once its transfer is over.
Idle(x) == IF x.st = "closed" THEN NoConn
           ELSE [x EXCEPT !.reserved = 0, !.io = "none", !.count = 0]

\* finish
Finish(c) ==
    LET x == conn[c]
        n == Finished(node, x.lease, x.reserved, Charge(x))
        shut == n.budgets[x.lease].used >= n.budgets[x.lease].grant
    IN  /\ x.io \in {"whole", "uncertain"}
        /\ node' = n
        /\ conn' = [conn EXCEPT ![c] = Idle(x)]
        /\ closing' = closing \union
              {y \in Attached : shut /\ node.devices[conn[y].device].lease = x.lease}
        /\ UNCHANGED <<clocks, control, ingress, table, timer, core, outside, sent>>

\* proxyConnection.Close, by the router or the peer
Close(c) ==
    /\ Open(c)
    /\ conn' = [conn EXCEPT ![c] = IF @.io = "none" THEN NoConn ELSE [@ EXCEPT !.st = "closed"]]
    /\ closeList' = closeList \ {c} /\ closing' = closing \ {c}
    /\ UNCHANGED <<clocks, node, worker, pc, resume, ingress, table, timer, core, outside, sent>>

\* the same, by the call, timer or finisher that listed it
CloseListed(c) == c \in closeList \union closing /\ Close(c)
-----------------------------------------------------------------------------
(***************************************************************************)
(* The center, as far as this node's leases go: it records the reports of  *)
(* a request and stores its answer, for the request or for a repetition.   *)
(* It raises grants and never lowers them; a device is in one lease.       *)
(***************************************************************************)
Ledger(k) == [center[k] EXCEPT !.used =
                 IF \E r \in node.request.reports : r.lease = k
                 THEN (CHOOSE r \in node.request.reports : r.lease = k).used ELSE @]

PolicyOf(config, ttl, owner, until, extra) ==
    [boot |-> node.request.boot, seq |-> node.request.seq,
     generated |-> 10, expires |-> 10 + ttl, node |-> config,
     users |-> {[lease |-> k, grant |-> center[k].grant + extra[k], used |-> Ledger(k).used,
                 expires |-> 10 + ttl,
                 devices |-> {[id |-> d, expires |-> until[d]] : d \in {x \in Device : owner[x] = k}}]
                : k \in {owner[d] : d \in Device} \ {None}}]

Answer(config, ttl, owner, until, extra) ==
    LET p == PolicyOf(config, ttl, owner, until, extra)
        granted == {g.lease : g \in p.users}
    IN  /\ node.request # None /\ node.begun /\ answer = None
        /\ \A r \in node.request.reports : center[r.lease].used <= r.used
                                           /\ r.used <= center[r.lease].grant
        /\ config = None => granted = {}
        /\ \A g \in p.users : g.used <= g.grant /\ 0 < g.grant /\ g.grant <= MaxGrant
        /\ center' = [k \in Lease |->
               [Ledger(k) EXCEPT !.grant = IF k \in granted THEN @ + extra[k] ELSE @]]
        /\ answer' = p
        /\ UNCHANGED <<clocks, node, control, traffic, ingress, table, timer, core, sent>>
-----------------------------------------------------------------------------
\* What the protocol does when nothing goes wrong ...
Exchanging == Step \/ Apply \/ CallReturns \/ Listen \/ Acknowledge

Traffic ==
    \E c \in Conn :
        \/ \E d \in Device : Accept(c, d)
        \/ Attach(c)
        \/ \E want \in Want, whole \in BOOLEAN : Reserve(c, want, whole)
        \/ \E delivered, count \in 0..MaxGrant : Transfer(c, delivered, count)
        \/ Finish(c)
        \/ Close(c)

CenterAnswers ==
    \E config \in Node \union {None}, ttl \in TtlInput,
       owner \in [Device -> Lease \union {None}], until \in [Device -> UntilInput],
       extra \in [Lease -> TopUp] : Answer(config, ttl, owner, until, extra)

Ordinary == \/ Exchanging \/ Traffic \/ CenterAnswers \/ Tick \/ Expire
            \/ CoreStarts \/ Start \/ Stop \/ \E b \in Boot : NewOwner(b)

\* ... and what disturbs it.
Disturbance ==
    \/ ExchangeFails \/ ResponseRejected \/ ListenFails
    \/ RequestStop
    \/ \E up \in BOOLEAN : CoreGoes(up)
    \/ ClockBreaks

NodeNext == Ordinary \/ Disturbance

NodeSpec == NodeInit /\ [][NodeNext]_vars

\* The watchdog fires, and whoever listed a connection closes it.
Fairness == WF_vars(Expire) /\ \A c \in Conn : WF_vars(CloseListed(c))

-----------------------------------------------------------------------------
(***************************************************************************)
(* What a node lets through is paid for: the bytes that really left are    *)
(* covered by what it counts as used or reserved, or, once it dropped the  *)
(* counter, by what it reported; and none of it exceeds the grant.  This   *)
(* is what makes the center's sum of grants a bound on traffic: uncertain  *)
(* writes stay charged, a reservation is never spent twice, an acknowledge *)
(* drops only counters that nothing can add to, and a lease that comes     *)
(* back continues where it was.                                            *)
(***************************************************************************)
Charged(k) == IF k \in Held(node) THEN node.budgets[k].used + node.budgets[k].reserved
              ELSE center[k].used

SentIsCharged == \A k \in Lease : sent[k] <= Charged(k) /\ Charged(k) <= center[k].grant

(***************************************************************************)
(* A connection that policy, expiry, exhaustion or a stop has cut off is   *)
(* in somebody's list to be closed: none outlives its authorization        *)
(* unobserved.                                                             *)
(***************************************************************************)
NoStrayConnection ==
    \A c \in Conn : Open(c) =>
        \/ /\ conn[c].attached /\ conn[c].current
           /\ conn[c].device \in ActiveIn(node)
           /\ node.devices[conn[c].device].lease = conn[c].lease
        \/ c \in closeList \union closing

(***************************************************************************)
(* What a node asks next, the center can take: between calls the worker    *)
(* and the engine agree on the next sequence number, also after a policy   *)
(* that was refused half way; and the counters of a waiting request are    *)
(* neither below what the center has recorded nor above what it granted    *)
(* (lease_counter_update refuses both, and the request would be repeated   *)
(* for ever).                                                              *)
(***************************************************************************)
RequestAcceptable ==
    /\ pc \in {"idle", "calling"} => node.seq = node.engineSeq + 1
    /\ node.request # None => \A r \in node.request.reports :
           center[r.lease].used <= r.used /\ r.used <= center[r.lease].grant

(***************************************************************************)
(* A connection does not stay open past its device's deadline: the engine  *)
(* closes it by itself, with no word from the center.                      *)
(***************************************************************************)
PastDeadline(c) == /\ Open(c) /\ conn[c].attached
                   /\ now >= node.devices[conn[c].device].deadline

ExpiredIsClosed == \A c \in Conn : PastDeadline(c) ~> ~PastDeadline(c)
=============================================================================
