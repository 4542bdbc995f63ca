---------------------------- MODULE MCProxyNode ----------------------------
(***************************************************************************)
(* ProxyNode for TLC, with a bound on the number of disturbances.          *)
(***************************************************************************)
EXTENDS ProxyNode, TLC

CONSTANT MaxFaults

VARIABLE faults

Init == NodeInit /\ faults = 0

Next == \/ Ordinary /\ UNCHANGED faults
        \/ faults < MaxFaults /\ Disturbance /\ faults' = faults + 1

Spec == Init /\ [][Next]_<<vars, faults>>

LiveSpec == Spec /\ Fairness

\* Nothing tells the members of these sets apart.
Symmetric == UNION {Permutations(S) : S \in {Conn, Lease, Device, Boot, Node}}
=============================================================================
