----------------------------- MODULE ProxyClaims -----------------------------
(***************************************************************************)
(* Self-service of proxy users: the claim link, the devices created with   *)
(* it, the subscription a device fetches, and the policy that must honour  *)
(* it at the node (proxy_users.c, http_routes_proxy_users.c and the        *)
(* validation of proxy_runtime.c).  Quota and leases are in LeaseCenter; a *)
(* user is taken to have quota left here.                                  *)
(***************************************************************************)
EXTENDS Integers, FiniteSets

CONSTANTS Clients,        \* proxy users that may be created
          Entry,          \* ingress nodes
          Gadgets,        \* devices that may be created
          MaxUsers,       \* users the panel keeps, and a policy may hold
          MaxPerUser,     \* devices a user may have, and a policy may hold
          Instants,       \* bound: seconds of a behaviour
          Rotations,      \* bound: claim links, and server keys drawn
          ClaimEdits      \* bound: changes of a behaviour

VARIABLES who,      \* proxy_users
          gadget,   \* proxy_devices
          entry,    \* proxy_ingress_nodes, hosts and proxy_runtime_reports
          drawn,    \* secrets drawn so far
          inside,   \* self-service requests between their two transactions
          handed,   \* subscriptions devices hold: <<device, node, server key>>
          cnow, edits

claimVars == <<who, gadget, entry, drawn, inside, handed, cnow, edits>>

Never == 0
Fresh(r) == r.seen # Never /\ r.seen >= cnow - 1 /\ r.seen <= cnow    \* runtime_ready
Valid(expires) == expires = 0 \/ expires > cnow

ClaimInit ==
    /\ \E known \in SUBSET Clients :
          /\ Cardinality(known) <= MaxUsers
          /\ who = [u \in Clients |-> IF u \in known THEN [state |-> "live", on |-> TRUE, expires |-> 0, max |-> MaxPerUser, claim |-> 1, nodes |-> Entry]
                                     ELSE [state |-> "none", on |-> FALSE, expires |-> 0, max |-> 1, claim |-> 0, nodes |-> {}]]
    /\ gadget = [d \in Gadgets |-> [owner |-> 0, on |-> FALSE, expires |-> 0]]
    /\ entry = [h \in Entry |-> [on |-> TRUE, key |-> 1, host |-> TRUE, seen |-> 1]]
    /\ drawn = 1 /\ inside = {} /\ handed = {} /\ cnow = 1 /\ edits = ClaimEdits
-----------------------------------------------------------------------------
Live == {u \in Clients : who[u].state = "live"}
Usable(u) == u \in Live /\ who[u].on /\ Valid(who[u].expires)
Active(u) == {d \in Gadgets : gadget[d].owner = u /\ gadget[d].on /\ Valid(gadget[d].expires)}

\* sb_proxy_user_save
SaveUser(u, on, expires, max, nodes) ==
    /\ IF u \in Live THEN Cardinality(Active(u)) <= max ELSE who[u].state = "none" /\ Cardinality(Live) < MaxUsers
    /\ \A h \in nodes : entry[h].key # 0
    /\ who' = [who EXCEPT ![u] = [@ EXCEPT !.state = "live", !.on = on, !.expires = expires, !.max = max, !.nodes = nodes]]
    /\ UNCHANGED <<gadget, entry, drawn, inside, handed, cnow>>

\* sb_proxy_user_remove: the link and every device go with the user.
RemoveUser(u) ==
    /\ u \in Live /\ who' = [who EXCEPT ![u].state = "deleted", ![u].on = FALSE, ![u].claim = 0]
    /\ gadget' = [d \in Gadgets |-> IF gadget[d].owner = u THEN [gadget[d] EXCEPT !.on = FALSE] ELSE gadget[d]]
    /\ UNCHANGED <<entry, drawn, inside, handed, cnow>>

\* sb_proxy_claim_rotate
RotateClaim(u) ==
    /\ u \in Live /\ drawn < Rotations /\ drawn' = drawn + 1 /\ who' = [who EXCEPT ![u].claim = drawn + 1]
    /\ UNCHANGED <<gadget, entry, inside, handed, cnow>>

\* sb_proxy_claim_resolve: the first transaction of self_service.
ResolveClaim(u) ==
    /\ Usable(u) /\ who[u].claim # 0 /\ inside' = inside \union {u}
    /\ UNCHANGED <<who, gadget, entry, drawn, handed, cnow>>

RoomAtMost(u) == Cardinality(Active(u)) <= who[u].max
Room(u) == Cardinality(Active(u)) < who[u].max

Created(d, u, expires) == gadget' = [gadget EXCEPT ![d] = [owner |-> u, on |-> TRUE, expires |-> expires]]

\* sb_proxy_device_create, by an administrator or as the second transaction: the user is
\* looked up again and the devices counted.
CreateDevice(d, u, expires) ==
    /\ Usable(u) /\ Room(u) /\ Created(d, u, expires)
    /\ UNCHANGED <<who, entry, drawn, handed, cnow>>

AddDevice(d, u, expires) ==
    /\ gadget[d].owner = 0 /\ (expires # 0 => expires > cnow)
    /\ CreateDevice(d, u, expires)

SelfAddDevice(d, u, expires) == u \in inside /\ AddDevice(d, u, expires) /\ inside' = inside \ {u}
AdminAddDevice(d, u, expires) == u \in Live /\ AddDevice(d, u, expires) /\ UNCHANGED inside

\* sb_proxy_device_revoke
RevokeDevice(d) ==
    /\ gadget[d].on /\ gadget' = [gadget EXCEPT ![d].on = FALSE]
    /\ UNCHANGED <<who, entry, drawn, inside, handed, cnow>>
-----------------------------------------------------------------------------
\* sb_proxy_ingress_save: the key is drawn anew, and used only when there is none.
KeyAfter(h) == IF entry[h].key = 0 THEN drawn + 1 ELSE entry[h].key

SaveEntry(h, on) ==
    /\ entry[h].host /\ (on => Fresh(entry[h])) /\ drawn < Rotations /\ drawn' = drawn + 1
    /\ entry' = [entry EXCEPT ![h].on = on, ![h].key = KeyAfter(h)]
    /\ UNCHANGED <<who, gadget, inside, handed, cnow>>

\* sb_proxy_runtime_report; and the host is switched on or off.
EntryReports(h) ==
    /\ entry[h].host /\ entry' = [entry EXCEPT ![h].seen = cnow]
    /\ UNCHANGED <<who, gadget, drawn, inside, handed, cnow>>

EntrySwitched(h) ==
    entry' = [entry EXCEPT ![h].host = ~@] /\ UNCHANGED <<who, gadget, drawn, inside, handed, cnow>>

\* sb_proxy_subscription: what a device is given.
Subscribes(d) == d \in UNION {Active(u) : u \in {v \in Clients : Usable(v)}}
Listed(u) == {h \in Entry : h \in who[u].nodes /\ entry[h].on /\ entry[h].host /\ Fresh(entry[h])}

Subscribe(d) ==
    /\ Subscribes(d) /\ handed' = handed \union {<<d, h, entry[h].key>> : h \in Listed(gadget[d].owner)}
    /\ UNCHANGED <<who, gadget, entry, drawn, inside, cnow>>

ClaimTick == cnow < Instants /\ cnow' = cnow + 1 /\ UNCHANGED <<who, gadget, entry, drawn, inside, handed>>
-----------------------------------------------------------------------------
\* The policy sb_proxy_lease_exchange answers a host with: its key, and the devices of its users.
Served(h) == entry[h].host /\ entry[h].on /\ Fresh(entry[h])
PolicyUsers(h) == IF Served(h) THEN {u \in Clients : Usable(u) /\ h \in who[u].nodes /\ Active(u) # {}} ELSE {}

InPolicy(h) == UNION {Active(u) : u \in PolicyUsers(h)}

\* policy_valid of the node: one entry out of bounds refuses the whole policy.
PolicyValid(h) ==
    /\ Cardinality(PolicyUsers(h)) <= MaxUsers
    /\ \A u \in PolicyUsers(h) :
          Cardinality(Active(u)) \in 1 .. MaxPerUser /\ \A d \in Active(u) : gadget[d].expires = 0 \/ gadget[d].expires > cnow

ClaimNext ==
    \/ /\ edits > 0 /\ edits' = edits - 1
       /\ \/ \E u \in Clients : \/ \E on \in BOOLEAN, e \in {0, 2}, n \in 1 .. MaxPerUser, nodes \in SUBSET Entry : SaveUser(u, on, e, n, nodes)
                                \/ RemoveUser(u) \/ RotateClaim(u) \/ ResolveClaim(u)
                                \/ \E d \in Gadgets, e \in {0, 2} : SelfAddDevice(d, u, e) \/ AdminAddDevice(d, u, e)
          \/ \E d \in Gadgets : RevokeDevice(d) \/ Subscribe(d)
          \/ \E h \in Entry : EntryReports(h) \/ EntrySwitched(h) \/ \E on \in BOOLEAN : SaveEntry(h, on)
    \/ ClaimTick /\ UNCHANGED edits

ClaimSpec == ClaimInit /\ [][ClaimNext]_claimVars
-----------------------------------------------------------------------------
\* A subscription works.  No sequence of edits, device creations and expiries makes a policy the
\* node refuses, which would cut off every user of the node; every node in the subscription a
\* device would be given now has the device in the policy it would be given now; and while a node
\* serves an active device, the server key the device fetched is the key in the policy; and
\* a link that was resolved before its user was removed creates nothing after: a removed user has
\* no device that works.
SubscriptionWorks ==
    /\ \A h \in Entry : PolicyValid(h)
    /\ \A d \in Gadgets : Subscribes(d) => \A h \in Listed(gadget[d].owner) : d \in InPolicy(h)
    /\ \A s \in handed : s[1] \in InPolicy(s[2]) => s[3] = entry[s[2]].key
    /\ \A u \in Clients : who[u].state = "deleted" => Active(u) = {}

=============================================================================
