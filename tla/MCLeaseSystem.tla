--------------------------- MODULE MCLeaseSystem ---------------------------
(***************************************************************************)
(* Instances of LeaseSystem for TLC, from a configured center that has     *)
(* just started.  Exchanges, traffic and time are free; everything else    *)
(* takes one of MaxOps operations.                                         *)
(***************************************************************************)
EXTENDS LeaseSystem, MCLeaseCenter

still == <<nodes, revokedAt>>

Running ==
    \/ Tick /\ UNCHANGED still
    \/ \E h \in Host : \/ node[h].seq <= MaxSeq /\ Send(h)
                       \/ Receive(h)
                       \/ \E p \in Process : Arrive(p, h) \/ ArriveAgain(p, h)
                       \/ \E d \in Device : Forward(h, d)
    \/ \E p \in Process, m \in late : ArriveLate(p, m[1], m[2])

Calm == Running /\ UNCHANGED ops

NodeTrouble ==
    \E h \in Host : CallFails(h) \/ StopEngine(h) \/ \E b \in Boot : Restart(h, b)

\* Accounting: periods and quotas change while nodes forward.
AccountingNext ==
    \/ Calm
    \/ Budget /\ \E h \in Host : CallFails(h) \/ \E b \in Boot : Restart(h, b)
    \/ Budget /\ (\E p \in Process, u \in User :
                     UserReset(p, u) \/ \E body \in UserBody : UserUpdate(p, u, body))
              /\ UNCHANGED still

\* Authorization: devices expire and are revoked.
DeviceNext ==
    \/ Calm
    \/ Budget /\ NodeTrouble
    \/ Budget /\ \E d \in Device : Revoke(d)
    \/ Budget /\ HostStep /\ UNCHANGED still

\* Delivery: calls fail, centers and nodes restart.
DeliveryNext ==
    \/ Calm
    \/ Budget /\ NodeTrouble
    \/ Budget /\ (\E p \in Process : Detach(p)) /\ UNCHANGED still
    \/ (\E p \in Process : AttachSnapshot(p) \/ AttachPublish(p)) /\ UNCHANGED <<still, ops>>

\* Boot ids of different hosts never meet, so all hosts may start with the same one.
MCInit == /\ ReadyInit(ExpiryInput) /\ NodesInit
          /\ \A h, g \in Host : node[h].boot = node[g].boot

Var == <<system, ops>>
AccountingSpec == MCInit /\ [][AccountingNext]_Var
DeviceSpec     == MCInit /\ [][DeviceNext]_Var
DeliverySpec   == MCInit /\ [][DeliveryNext]_Var /\ SystemFairness
=============================================================================
