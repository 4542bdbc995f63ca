--------------------------- MODULE MCLeaseCenter ---------------------------
(***************************************************************************)
(* Instances of LeaseCenter for TLC.  Exchanges and the passing of time    *)
(* are free; what administrators, the wall clock and the processes do is   *)
(* bounded by MaxOps operations, in any order and at any point.            *)
(***************************************************************************)
EXTENDS LeaseCenter, TLC

CONSTANTS MaxSeq, MaxUsed,     \* bounds of the requests that are enumerated
          MaxOps, ColdOps      \* operations on a configured and on an empty database

VARIABLE ops                   \* operations left

\* Requests with at most one report, of any lease and any counter.
MCRequests ==
    {[boot |-> b, seq |-> n, reports |-> rs] :
        b \in Boot, n \in 1..MaxSeq,
        rs \in {{}} \union {{r} : r \in [lease : LeaseKey, used : 0..MaxUsed]}}

\* The nodes are interchangeable, and so are boots and processes.
Symmetry == UNION {Permutations(S) : S \in {Host, Boot, Process}}

Budget == ops > 0 /\ ops' = ops - 1
Free   == UNCHANGED ops /\ (Tick \/ ExchangeStep)
End    == mono = MaxMono /\ UNCHANGED <<center, ops>>   \* of the instance

\* Administrators at work on processes that stay up, with a wall clock nobody sets.
BooksNext == \/ Free
             \/ End
             \/ Budget /\ AdminStep
             \/ Budget /\ \E p \in Process : AttachSnapshot(p) \/ AttachPublish(p)
             \/ Budget /\ FailedReset

\* Resets, restarts, clock faults and a wall clock that is set.
FenceNext == \/ Free
             \/ End
             \/ Budget /\ ProcessStep
             \/ Budget /\ \E s \in SkewInput : SetWallClock(s)
             \/ Budget /\ \E p \in Process, u \in User :
                   UserReset(p, u) \/ UserGet(p, u)

\* The same, with resets that are rolled back.
RollbackNext == FenceNext \/ (Budget /\ FailedReset)

\* An empty database, and the processes that open it.
ColdInit == CenterInit /\ ops = ColdOps

\* Every user configured on every node, and one process that has started.
ReadyInit(expiries) ==
    /\ mono = 0 /\ skew = SECOND /\ ops = MaxOps
    /\ \E started \in Process :
          clock = [p \in Process |-> IF p # started THEN NoClock
                   ELSE [NoClock EXCEPT !.phase = "up", !.epoch = [u \in User |-> 1]]]
    /\ user \in [User -> [state : {"live"}, enabled : {TRUE}, quota : QuotaInput,
                          expires : {0}, max_devices : DeviceLimitInput, epoch : {1}, not_before : {0}]]
    /\ device \in [Device -> [owner : User, enabled : {TRUE}, expires : expiries]]
    /\ \A u \in User : Cardinality(PolicyDevices(u)) \in 1..user[u].max_devices
    /\ bound = User \X Host
    /\ host = [h \in Host |-> [state |-> "on", ingress |-> "on",
                               supported |-> TRUE, observed |-> 1]]
    /\ lease = [k \in LeaseKey |-> NoLease]
    /\ session = [s \in Session |-> NoSession]
    /\ issuedAt = [u \in User |-> [e \in Epoch |-> -1]]

BooksSpec == (ColdInit \/ ReadyInit({0})) /\ [][BooksNext]_<<center, ops>>
FenceSpec == ReadyInit({0}) /\ [][FenceNext]_<<center, ops>>
RollbackSpec == ReadyInit({0}) /\ [][RollbackNext]_<<center, ops>>
=============================================================================
