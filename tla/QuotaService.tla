---------------------------- MODULE QuotaService ----------------------------
(***************************************************************************)
(* What proxy-user leases promise (docs/proxy-user-leases-v1.md), without  *)
(* nodes, messages or clocks: a user's traffic is granted before it is     *)
(* spent, the grants of an accounting period stay within the quota, and    *)
(* once a new period carries traffic the old ones carry none.              *)
(***************************************************************************)
EXTENDS Integers

CONSTANTS User, Epoch

VARIABLES limit,      \* the quota in force, per user
          period,     \* the current epoch, per user
          granted,    \* bytes granted, per user and epoch
          spent       \* bytes forwarded, per user and epoch

quota == <<limit, period, granted, spent>>

QuotaInit ==
    /\ limit \in [User -> Nat]
    /\ period \in [User -> Epoch]
    /\ granted = [u \in User |-> [e \in Epoch |-> 0]]
    /\ spent = [u \in User |-> [e \in Epoch |-> 0]]

\* Some users are granted more, in their current period, within their quota.
Grant ==
    /\ \A u \in User : /\ \A e \in Epoch \ {period[u]} : granted'[u][e] = granted[u][e]
                       /\ granted'[u][period[u]] >= granted[u][period[u]]
                       /\ granted'[u][period[u]] <= limit[u]
    /\ UNCHANGED <<limit, period, spent>>

\* A byte of a period is forwarded: it was granted, and no later period has begun to flow.
Spend(u, e) ==
    /\ spent[u][e] < granted[u][e]
    /\ \A f \in Epoch : f > e => spent[u][f] = 0
    /\ spent' = [spent EXCEPT ![u][e] = @ + 1]
    /\ UNCHANGED <<limit, period, granted>>

\* The quota is changed, though not below what is granted.
SetLimit(u) ==
    /\ limit'[u] >= granted[u][period[u]]
    /\ limit' = [limit EXCEPT ![u] = limit'[u]]
    /\ UNCHANGED <<period, granted, spent>>

\* A new period begins with nothing granted.
Reset(u) ==
    /\ period' = [period EXCEPT ![u] = @ + 1]
    /\ granted[u][period[u] + 1] = 0
    /\ UNCHANGED <<limit, granted, spent>>

QuotaNext == Grant \/ \E u \in User : SetLimit(u) \/ Reset(u) \/ \E e \in Epoch : Spend(u, e)

QuotaSpec == QuotaInit /\ [][QuotaNext]_quota
=============================================================================
