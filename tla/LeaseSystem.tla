---------------------------- MODULE LeaseSystem ----------------------------
(***************************************************************************)
(* The center and its nodes, and the calls between them, which are lost,   *)
(* delayed, repeated and answered too late.  The center is LeaseCenter; a  *)
(* node is the record of ProxyPolicy, at the granularity of its exchange   *)
(* and of a forwarded byte (ProxyNode shows the sections in between).  All *)
(* monotonic clocks run at the same rate.                                  *)
(***************************************************************************)
EXTENDS LeaseCenter, FiniteSetsExt

CONSTANT MaxBudgets     \* leases a node can hold

P == INSTANCE ProxyPolicy WITH Lease <- LeaseKey

VARIABLES
    node,        \* the state of every node
    calling,     \* hosts whose exchange is in progress
    reply,       \* the answer on its way to a host that is calling
    late,        \* requests whose call was given up, still in the network
    forwarded,   \* history: bytes forwarded under a lease
    revokedAt    \* history: when a device was revoked, -1 if it was not

network == <<calling, reply, late>>
history == <<forwarded, revokedAt>>
nodes   == <<node, network, forwarded>>
system  == <<center, node, network, history>>

\* The node's boot-time clock; it is never zero.
NodeNow == mono + 1

NodesInit ==
    /\ node \in [Host -> {P!NewNode(b) : b \in Boot}]
    /\ calling = {} /\ reply = [h \in Host |-> None] /\ late = {}
    /\ forwarded = [k \in LeaseKey |-> 0]
    /\ revokedAt = [d \in Device |-> -1]

SystemInit == CenterInit /\ NodesInit
-----------------------------------------------------------------------------
(***************************************************************************)
(* Exchanges.                                                              *)
(***************************************************************************)
\* sb_proxy_runtime_step up to the transmission.
Send(h) ==
    /\ h \notin calling
    /\ node' = [node EXCEPT ![h] = P!Called(@, NodeNow)]
    /\ calling' = IF node'[h].begun THEN calling \union {h} ELSE calling
    /\ UNCHANGED <<center, reply, late, history>>

\* The exchange fails for the node, whether or not it reached the center.
CallFails(h) ==
    /\ h \in calling
    /\ calling' = calling \ {h} /\ reply' = [reply EXCEPT ![h] = None]
    /\ late' = IF reply[h] = None THEN late \union {<<h, node[h].request>>} ELSE late
    /\ UNCHANGED <<center, node, history>>

\* The answer as the node sees it.
PolicyFrom(h, boot, r) ==
    [boot |-> boot, seq |-> r.seq, generated |-> r.generated, expires |-> r.expires,
     node |-> IF r.node THEN TRUE ELSE None,
     users |-> {[lease |-> <<g.id, h, boot, g.epoch>>, grant |-> g.grant, used |-> g.used,
                 expires |-> g.expires, devices |-> g.devices] : g \in r.users}]

Answered(h) ==
    reply' = [reply EXCEPT ![h] =
        PolicyFrom(h, node[h].boot, session'[<<h, node[h].boot>>].response)]

\* A call reaches a center process, which answers it or repeats the stored answer.
Arrive(p, h) ==
    /\ h \in calling /\ reply[h] = None
    /\ LeaseExchange(p, h, node[h].request)
    /\ Answered(h)
    /\ UNCHANGED <<node, calling, late, history>>

ArriveAgain(p, h) ==
    /\ h \in calling /\ reply[h] = None
    /\ Serving(p) /\ Now >= 1 /\ HostOn(h)
    /\ Replay(h, node[h].request)
    /\ UNCHANGED center
    /\ Answered(h)
    /\ UNCHANGED <<node, calling, late, history>>

\* A call that nobody waits for any more; a repetition of it has no effect.
ArriveLate(p, h, req) ==
    /\ <<h, req>> \in late
    /\ LeaseExchange(p, h, req)
    /\ late' = late \ {<<h, req>>}
    /\ UNCHANGED <<node, calling, reply, history>>

\* Faulty: a policy that comes too late leaves the request pending.
ReceiveUnexpired(h) ==
    /\ reply[h] # None
    /\ node' = [node EXCEPT ![h] = IF P!Expired(@, reply[h], NodeNow) THEN @
                                  ELSE P!Acknowledged(P!Applied(@, reply[h], NodeNow), {})]
    /\ calling' = calling \ {h} /\ reply' = [reply EXCEPT ![h] = None]
    /\ UNCHANGED <<center, late, history>>

\* The rest of sb_proxy_runtime_step: apply and acknowledge.
Receive(h) ==
    /\ reply[h] # None
    /\ node' = [node EXCEPT ![h] = P!Acknowledged(P!Applied(@, reply[h], NodeNow), {})]
    /\ calling' = calling \ {h} /\ reply' = [reply EXCEPT ![h] = None]
    /\ UNCHANGED <<center, late, history>>
-----------------------------------------------------------------------------
(***************************************************************************)
(* What else nodes do.                                                     *)
(***************************************************************************)
\* A device's connection forwards a byte: reserve, transfer, finish.
Forward(h, d) ==
    LET k == node[h].devices[d].lease
    IN  /\ P!Authorized(node[h], d, NodeNow)
        /\ P!Reservable(node[h].budgets[k], 1, FALSE) = 1
        /\ node' = [node EXCEPT ![h] = P!Finished(P!Reserved(@, k, 1), k, 1, 1)]
        /\ forwarded' = [forwarded EXCEPT ![k] = @ + 1]
        /\ UNCHANGED <<center, network, revokedAt>>

\* The core or the worker stops; the exchanges go on.
StopEngine(h) ==
    /\ node' = [node EXCEPT ![h] = P!Stopped(@)]
    /\ UNCHANGED <<center, network, history>>

\* The node's process starts again, with a new boot id and without its counters.
Restart(h, b) ==
    /\ session[<<h, b>>] = NoSession /\ node[h].boot # b
    /\ \A m \in late : m # <<h, [boot |-> b, seq |-> 1, reports |-> {}]>>
    /\ node' = [node EXCEPT ![h] = P!NewNode(b)]
    /\ calling' = calling \ {h} /\ reply' = [reply EXCEPT ![h] = None]
    /\ late' = IF h \in calling /\ reply[h] = None
               THEN late \union {<<h, node[h].request>>} ELSE late
    /\ UNCHANGED <<center, history>>

\* DeviceRevoke of the center, dated.
Revoke(d) ==
    /\ DeviceRevoke(d)
    /\ revokedAt' = [revokedAt EXCEPT ![d] = IF device[d].enabled THEN mono ELSE @]
    /\ UNCHANGED nodes
-----------------------------------------------------------------------------
ExchangeNext ==
    \E h \in Host : \/ Send(h) \/ Receive(h)
                    \/ \E p \in Process : Arrive(p, h) \/ ArriveAgain(p, h)

NetworkNext == \/ \E h \in Host : CallFails(h)
               \/ \E p \in Process, m \in late : ArriveLate(p, m[1], m[2])

NodeNext == \E h \in Host : \/ \E d \in Device : Forward(h, d)
                            \/ StopEngine(h)
                            \/ \E b \in Boot : Restart(h, b)

\* Every step of the center but its exchanges, which the nodes drive.
CenterSteps == /\ TimeStep \/ ProcessStep \/ HostStep \/ UserStep
               /\ UNCHANGED <<nodes, revokedAt>>

SystemNext == ExchangeNext \/ NetworkNext \/ NodeNext \/ CenterSteps
              \/ \E d \in Device : Revoke(d)

SystemSpec == SystemInit /\ [][SystemNext]_system
-----------------------------------------------------------------------------
(***************************************************************************)
(* Properties.                                                             *)
(***************************************************************************)
SpentIn(u, e) == Cardinality(UNION {{k} \X (1..forwarded[k]) : k \in RowsOf(u, e)})

(***************************************************************************)
(* The leases implement the quota they promise: granted before spent,      *)
(* granted within the quota, and no byte of an old period after the first  *)
(* of a new one, whichever nodes, boots, calls and center processes are    *)
(* involved (proxy_users.c, proxy_clock.c, proxy_runtime.c and             *)
(* proxy_policy.go together).                                              *)
(***************************************************************************)
Quota == INSTANCE QuotaService WITH
            limit   <- [u \in User |-> Limit(u)],
            period  <- [u \in User |-> user[u].epoch],
            granted <- [u \in User |-> [e \in Epoch |-> Allocated(u, e)]],
            spent   <- [u \in User |-> [e \in Epoch |-> SpentIn(u, e)]]

QuotaKept == Quota!QuotaSpec

(***************************************************************************)
(* A device whose access has ended is served nowhere: from the second it   *)
(* expires by the center's clock (deviceExpiry: the center's seconds are   *)
(* rounded down), and one lease time after it was revoked, even on a node  *)
(* that hears nothing, repeats a request or gets an old answer             *)
(* (Deadline counts from the first attempt).                               *)
(***************************************************************************)
EndedIsCut ==
    \A h \in Host, d \in Device :
        \/ device[d].expires # 0 /\ mono + skew >= device[d].expires * SECOND
        \/ revokedAt[d] >= 0 /\ mono >= revokedAt[d] + LEASE_SECONDS * SECOND
        => ~P!Authorized(node[h], d, NodeNow)

\* The worker keeps calling, calls reach a center that is up, and centers come up.
SystemFairness ==
    /\ \A h \in Host : WF_system(Send(h)) /\ WF_system(Receive(h))
    /\ \A h \in Host : WF_system(\E p \in Process : Arrive(p, h) \/ ArriveAgain(p, h))
    /\ \A p \in Process : WF_system(AttachSnapshot(p) /\ UNCHANGED <<nodes, revokedAt>>)
                          /\ WF_system(AttachPublish(p) /\ UNCHANGED <<nodes, revokedAt>>)

(***************************************************************************)
(* A node that has a request pending is eventually done with it, although  *)
(* calls get lost and the center restarts, as long as these come to an     *)
(* end.                                                                    *)
(***************************************************************************)
ExchangesComplete == \A h \in Host : (node[h].request # None) ~> (node[h].request = None)
=============================================================================
