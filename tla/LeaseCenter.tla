---------------------------- MODULE LeaseCenter ----------------------------
(***************************************************************************)
(* The control plane's side of proxy-user leases (c/src/proxy_users.c over *)
(* migrations/018_proxy_users.sql).  Several center processes serve one    *)
(* database; every operation is one transaction (BEGIN IMMEDIATE), so it   *)
(* is one action here, together with what it does to the process-local     *)
(* fence of ProxyClock, which a rollback does NOT undo.                    *)
(*                                                                         *)
(* Time: `mono' is the monotonic time, SECOND ticks to a second; the wall  *)
(* clock is (mono + skew) in whole seconds, and skew changes when somebody *)
(* sets the wall clock.                                                    *)
(***************************************************************************)
EXTENDS ProxyClock, FiniteSets

CONSTANTS Host, Boot, Device, Process,
          None,            \* an absent owner, request or response
          QuotaInput,      \* quota_bytes an administrator may enter, 0 = unlimited
          ExpiryInput,     \* expires_at of users and devices, 0 = never
          DeviceLimitInput,\* max_devices an administrator may enter
          RequestInput,    \* exchange requests, when the nodes are not modelled
          SkewInput,       \* positions the wall clock may be set to
          SAFE_INTEGER, GRANT_CHUNK, LEASE_SECONDS, RUNTIME_FRESH_SECONDS,
          MaxUsers,        \* 256 in the code
          MaxEpoch,        \* epoch < 2^53 - 1 in the code
          SECOND,          \* ticks in one second
          MaxMono          \* bound of the monotonic clock, for model checking

ASSUME CenterAssumption ==
    /\ IsFiniteSet(User) /\ IsFiniteSet(Host) /\ IsFiniteSet(Boot)
    /\ None \notin User
    /\ SAFE_INTEGER \in Nat /\ GRANT_CHUNK \in Nat \ {0}
    /\ QuotaInput \subseteq 0..SAFE_INTEGER
    /\ ExpiryInput \subseteq Nat /\ DeviceLimitInput \subseteq Nat /\ SkewInput \subseteq Nat
    /\ LEASE_SECONDS \in Nat /\ RUNTIME_FRESH_SECONDS \in Nat
    /\ MaxUsers \in Nat /\ MaxEpoch \in Nat \ {0}
    /\ SECOND \in Nat \ {0} /\ MaxMono \in Nat

VARIABLES
    mono, skew,  \* monotonic clock; offset of the wall clock
    clock,       \* [Process -> Clock]: the fence of every center process
    user,        \* table proxy_users
    device,      \* table proxy_devices
    bound,       \* table proxy_user_nodes
    host,        \* hosts.enabled, proxy_ingress_nodes and proxy_runtime_reports
    lease,       \* table proxy_leases, keyed by its UNIQUE columns
    session,     \* table proxy_lease_sessions
    issuedAt     \* history: monotonic time of the latest lease of a user's epoch

time    == <<mono, skew>>
admin   == <<user, device, bound, host>>
ledger  == <<lease, session, issuedAt>>
center  == <<time, clock, admin, ledger>>

Epoch    == 1..MaxEpoch
LeaseKey == User \X Host \X Boot \X Epoch      \* user_id, host_id, boot_id, epoch
Session  == Host \X Boot

UserRow == [state : {"none", "live", "deleted"}, enabled : BOOLEAN,
            quota : 0..SAFE_INTEGER, expires : Nat, max_devices : Nat,
            epoch : Epoch, not_before : Nat]
DeviceRow == [owner : User \union {None}, enabled : BOOLEAN, expires : Nat]
HostRow   == [state : {"on", "off", "deleted"}, ingress : {"none", "off", "on"},
              supported : BOOLEAN, observed : Nat]
\* The body of sb_proxy_user_save.
UserBody  == [enabled : BOOLEAN, quota : QuotaInput, expires : ExpiryInput,
              max_devices : DeviceLimitInput, host_ids : SUBSET Host]
\* The body of an exchange, and the policy that answers it.
Report    == [lease : LeaseKey, used : Nat]
Request   == [boot : Boot, seq : Nat, reports : SUBSET Report]
Granted   == [id : User, epoch : Epoch, grant : Nat, used : Nat, expires : Nat,
              devices : SUBSET [id : Device, expires : Nat]]
Response  == [seq : Nat, generated : Nat, expires : Nat, node : BOOLEAN,
              users : SUBSET Granted]

ASSUME RequestAssumption == RequestInput \subseteq Request

SessionRow == [seq : Nat, request : Request \union {None},
               response : Response \union {None}]
LeaseRow  == [grant : Nat, used : Nat, expires : Nat]

\* A row with grant 0 is a row that has not been inserted yet.
NoLease == [grant |-> 0, used |-> 0, expires |-> 0]
\* request_seq 0: the session has no row.
NoSession == [seq |-> 0, request |-> None, response |-> None]

Now == (mono + skew) \div SECOND

CenterInit ==
    /\ mono = 0 /\ skew = SECOND
    /\ clock = [p \in Process |-> NoClock]
    /\ user = [u \in User |-> [state |-> "none", enabled |-> FALSE, quota |-> 0,
                               expires |-> 0, max_devices |-> 0, epoch |-> 1,
                               not_before |-> 0]]
    /\ device = [d \in Device |-> [owner |-> None, enabled |-> FALSE, expires |-> 0]]
    /\ bound = {}
    /\ host = [h \in Host |-> [state |-> "on", ingress |-> "none",
                               supported |-> FALSE, observed |-> 0]]
    /\ lease = [k \in LeaseKey |-> NoLease]
    /\ session = [s \in Session |-> NoSession]
    /\ issuedAt = [u \in User |-> [e \in Epoch |-> -1]]
-----------------------------------------------------------------------------
(***************************************************************************)
(* Helpers shared by the operations.                                       *)
(***************************************************************************)
Live(u)        == user[u].state = "live"
Unexpired(t)   == t = 0 \/ t > Now
HostOn(h)      == host[h].state = "on"
Serving(p)     == clock[p].phase = "up"
Up             == \E p \in Process : Serving(p)
RowsOf(u, e)   == {k \in LeaseKey : k[1] = u /\ k[4] = e}

(***************************************************************************)
(* SUM(grant_bytes) of a user's epoch, as the number of granted bytes: a   *)
(* byte is a lease and an offset below its grant.                          *)
(***************************************************************************)
BytesIn(rows, u, e) == UNION {{k} \X (1..rows[k].grant) : k \in RowsOf(u, e)}
Allocated(u, e)     == Cardinality(BytesIn(lease, u, e))
Limit(u)            == IF user[u].quota = 0 THEN SAFE_INTEGER ELSE user[u].quota

\* devices_locked with policy = true
PolicyDevices(u) == {d \in Device : device[d].owner = u /\ device[d].enabled
                                    /\ Unexpired(device[d].expires)}

RuntimeReady(h) == /\ host[h].supported
                   /\ host[h].observed \in (Now - RUNTIME_FRESH_SECONDS)..Now

\* user_locked observes the epoch it reads, in the clock of its process.
Observed(p, us) ==
    [clock EXCEPT ![p] = Observe(@, us, [u \in User |-> user[u].epoch], mono)]
-----------------------------------------------------------------------------
(***************************************************************************)
(* Processes and time.                                                     *)
(***************************************************************************)
Tick == /\ mono < MaxMono
        /\ mono' = mono + 1
        /\ UNCHANGED <<skew, clock, admin, ledger>>

SetWallClock(s) == /\ s # skew
                   /\ skew' = s
                   /\ UNCHANGED <<mono, clock, admin, ledger>>

\* initialize_snapshot up to its commit.
AttachSnapshot(p) ==
    /\ clock[p].phase = "down" /\ ~clock[p].broken
    /\ clock' = [clock EXCEPT ![p] =
          Snapshot(@, [u \in User |-> IF Live(u) THEN user[u].epoch ELSE 0],
                   \E k \in LeaseKey : lease[k].grant > lease[k].used)]
    /\ UNCHANGED <<time, admin, ledger>>

\* The rest of initialize_snapshot and of attach; an unreadable clock fails it.
AttachPublish(p) ==
    /\ clock[p].phase = "snapshot"
    /\ clock' = [clock EXCEPT ![p] = IF @.broken THEN [NoClock EXCEPT !.broken = TRUE]
                                                 ELSE Publish(@, mono)]
    /\ UNCHANGED <<time, admin, ledger>>

\* The last detach, or the end of the process.
Detach(p) ==
    /\ clock[p].phase # "down"
    /\ clock' = [clock EXCEPT ![p] = [NoClock EXCEPT !.broken = clock[p].broken]]
    /\ UNCHANGED <<time, admin, ledger>>

\* The monotonic clock of a process becomes unreadable, or readable again.
ClockFault(p) ==
    /\ clock' = [clock EXCEPT ![p].broken = ~@]
    /\ UNCHANGED <<time, admin, ledger>>
-----------------------------------------------------------------------------
(***************************************************************************)
(* Hosts, runtime reports and ingress nodes.                               *)
(***************************************************************************)
\* sb_store_update_host, as far as the leases depend on it.
HostSwitch(h, state) ==
    /\ Up
    /\ host[h].state # "deleted"
    /\ host' = [host EXCEPT ![h].state = state]
    /\ UNCHANGED <<time, clock, user, device, bound, ledger>>

\* sb_store_delete_host; leases and sessions do not reference the host's row.
HostDelete(h) ==
    /\ Up
    /\ host[h].state # "deleted"
    /\ host' = [host EXCEPT ![h] = [@ EXCEPT !.state = "deleted", !.ingress = "none",
                                             !.supported = FALSE]]
    /\ bound' = {b \in bound : b[2] # h}
    /\ UNCHANGED <<time, clock, user, device, ledger>>

\* sb_proxy_runtime_report: an upsert guarded by hosts.enabled.
RuntimeReport(h, supported) ==
    /\ Up /\ HostOn(h)
    /\ host' = [host EXCEPT ![h] = [@ EXCEPT !.supported = supported, !.observed = Now]]
    /\ UNCHANGED <<time, clock, user, device, bound, ledger>>

\* sb_proxy_ingress_save: switching on needs a fresh, capable runtime.
IngressSave(h, on) ==
    /\ Up /\ HostOn(h)
    /\ on => RuntimeReady(h)
    /\ host' = [host EXCEPT ![h].ingress = IF on THEN "on" ELSE "off"]
    /\ UNCHANGED <<time, clock, user, device, bound, ledger>>
-----------------------------------------------------------------------------
(***************************************************************************)
(* Users and devices.                                                      *)
(***************************************************************************)
\* The upsert and the rewritten bindings that creation and update share.
UserWrite(u, body) ==
    /\ \A h \in body.host_ids : host[h].ingress # "none"
    /\ user' = [user EXCEPT ![u] =
          [@ EXCEPT !.state = "live", !.enabled = body.enabled, !.quota = body.quota,
                    !.expires = body.expires, !.max_devices = body.max_devices]]
    /\ bound' = {b \in bound : b[1] # u} \union ({u} \X body.host_ids)
    /\ UNCHANGED <<time, device, host, ledger>>

\* sb_proxy_user_save without an id: a new row, of epoch 1.
UserCreate(p, u, body) ==
    /\ Serving(p)
    /\ user[u].state = "none"
    /\ Cardinality({v \in User : Live(v)}) < MaxUsers
    /\ UserWrite(u, body)
    /\ clock' = Observed(p, {u})

(***************************************************************************)
(* sb_proxy_user_save of an existing user.  The quota must cover what the  *)
(* epoch has been granted, and the limit the devices that are active.      *)
(***************************************************************************)
UserUpdate(p, u, body) ==
    /\ Serving(p)
    /\ Live(u)
    /\ body.quota = 0 \/ body.quota >= Allocated(u, user[u].epoch)
    /\ Cardinality(PolicyDevices(u)) <= body.max_devices
    /\ UserWrite(u, body)
    /\ clock' = Observed(p, {u})

\* sb_proxy_user_get and sb_proxy_users_list: a read that observes the epoch.
UserGet(p, u) ==
    /\ Serving(p)
    /\ Live(u)
    /\ clock' = Observed(p, {u})
    /\ UNCHANGED <<time, admin, ledger>>

\* sb_proxy_user_remove
UserRemove(u) ==
    /\ Up /\ Live(u)
    /\ user' = [user EXCEPT ![u].enabled = FALSE, ![u].state = "deleted"]
    /\ device' = [d \in Device |-> IF device[d].owner = u
                                   THEN [device[d] EXCEPT !.enabled = FALSE] ELSE device[d]]
    /\ UNCHANGED <<time, clock, bound, host, ledger>>

\* The candidates of MAX(now + LEASE_SECONDS, MAX(expires_at) of the user's leases)
NotBefore(u) == {Now + LEASE_SECONDS} \union
                {lease[k].expires : k \in {j \in LeaseKey : j[1] = u}}

(***************************************************************************)
(* sb_proxy_user_reset: a new accounting period.  The clock of the process *)
(* keeps what it observed when the transaction is rolled back.             *)
(***************************************************************************)
ResetClock(p, u) ==
    [clock EXCEPT ![p] = ResetEpoch(@, u, user[u].epoch + 1, mono)]

UserReset(p, u) ==
    /\ Serving(p)
    /\ Live(u) /\ user[u].epoch < MaxEpoch
    /\ \E t \in NotBefore(u) :
          /\ \A x \in NotBefore(u) : x <= t
          /\ user' = [user EXCEPT ![u].epoch = @ + 1, ![u].not_before = t]
    /\ clock' = ResetClock(p, u)
    /\ UNCHANGED <<time, device, bound, host, ledger>>

UserResetRollback(p, u) ==
    /\ Serving(p)
    /\ Live(u) /\ user[u].epoch < MaxEpoch
    /\ clock' = ResetClock(p, u)
    /\ UNCHANGED <<time, admin, ledger>>

\* sb_proxy_device_create
DeviceCreate(u, d, expires) ==
    /\ Up
    /\ device[d].owner = None
    /\ Unexpired(expires)
    /\ Live(u) /\ user[u].enabled /\ Unexpired(user[u].expires)
    /\ Cardinality(PolicyDevices(u)) < user[u].max_devices
    /\ device' = [device EXCEPT ![d] = [owner |-> u, enabled |-> TRUE, expires |-> expires]]
    /\ UNCHANGED <<time, clock, user, bound, host, ledger>>

\* sb_proxy_device_revoke
DeviceRevoke(d) ==
    /\ Up
    /\ device[d].owner # None
    /\ device' = [device EXCEPT ![d].enabled = FALSE]
    /\ UNCHANGED <<time, clock, user, bound, host, ledger>>
-----------------------------------------------------------------------------
(***************************************************************************)
(* sb_proxy_lease_exchange.                                                *)
(***************************************************************************)
\* The request has not been answered: the next sequence number of its boot.
Fresh(h, req)  == req.seq = session[<<h, req.boot>>].seq + 1

\* A retry of the latest request, hash and all: the stored response again.
Replay(h, req) == LET s == session[<<h, req.boot>>]
                  IN  s.seq = req.seq /\ s.request = req

\* report_locked accepts the report.
ReportValid(h, b, r) ==
    /\ r.lease[2] = h /\ r.lease[3] = b
    /\ lease[r.lease].grant > 0
    /\ r.used \in lease[r.lease].used..lease[r.lease].grant

ReportsValid(h, req) ==
    /\ \A r, q \in req.reports : r.lease = q.lease => r = q
    /\ \A r \in req.reports : ReportValid(h, req.boot, r)

\* used_bytes of a lease once the reports of the request are applied.
UsedAfter(req, k) ==
    IF \E r \in req.reports : r.lease = k
    THEN (CHOOSE r \in req.reports : r.lease = k).used
    ELSE lease[k].used

NodeServed(h) == host[h].ingress = "on" /\ RuntimeReady(h)

\* The rows of the query over the users bound to an enabled, ready node.
UsersOf(h) == IF NodeServed(h)
              THEN {u \in User : /\ <<u, h>> \in bound
                                 /\ Live(u) /\ user[u].enabled
                                 /\ Unexpired(user[u].expires)}
              ELSE {}

\* The nodes that share what is left of the quota.
SharingHosts(u) == {h \in Host : <<u, h>> \in bound /\ HostOn(h) /\ NodeServed(h)}

\* a / b + (a % b ? 1 : 0)
CeilDiv(a, b) == a \div b + (IF a % b = 0 THEN 0 ELSE 1)
AtMost(a, b)  == IF a > b THEN b ELSE a

\* Faulty: a whole chunk, whatever is left of the quota.
NewGrantWholeChunk(req, k) ==
    IF lease[k].grant - UsedAfter(req, k) <= GRANT_CHUNK \div 2
    THEN lease[k].grant + GRANT_CHUNK ELSE lease[k].grant

(***************************************************************************)
(* lease_locked: the grant after the exchange.  It grows, by at most one   *)
(* chunk and a fair share of what is available, once half of it (or half a *)
(* chunk) is used up.                                                      *)
(***************************************************************************)
NewGrant(req, k) ==
    LET u == k[1]
        grant == lease[k].grant
        available == Limit(u) - Allocated(u, k[4])
        threshold == AtMost(grant \div 2, GRANT_CHUNK \div 2)
    IN  IF /\ grant = 0 \/ grant - UsedAfter(req, k) <= threshold
           /\ available > 0
        THEN grant + AtMost(CeilDiv(available, Cardinality(SharingHosts(u))), GRANT_CHUNK)
        ELSE grant

KeyOf(u, h, b) == <<u, h, b, user[u].epoch>>

\* The users that get a lease; c is the clock after the observations.
Leased(c, h, req) ==
    {u \in UsersOf(h) :
        /\ MayIssue(c, u, mono)
        /\ user[u].not_before <= Now
        /\ PolicyDevices(u) # {}
        /\ LET k == KeyOf(u, h, req.boot) IN NewGrant(req, k) > UsedAfter(req, k)}

LeaseUntil(u) == IF user[u].expires # 0 THEN AtMost(Now + LEASE_SECONDS, user[u].expires)
                                        ELSE Now + LEASE_SECONDS

LeaseAfter(c, h, req) ==
    [k \in LeaseKey |->
        IF k[1] \in Leased(c, h, req) /\ k = KeyOf(k[1], h, req.boot)
        THEN [grant |-> NewGrant(req, k), used |-> UsedAfter(req, k),
              expires |-> LeaseUntil(k[1])]
        ELSE [lease[k] EXCEPT !.used = UsedAfter(req, k)]]

GrantOf(u, h, req) ==
    LET k == KeyOf(u, h, req.boot)
    IN  [id |-> u, epoch |-> user[u].epoch, grant |-> NewGrant(req, k),
         used |-> UsedAfter(req, k), expires |-> LeaseUntil(u),
         devices |-> {[id |-> d, expires |-> device[d].expires] : d \in PolicyDevices(u)}]

ResponseTo(c, h, req) ==
    [seq |-> req.seq, generated |-> Now, expires |-> Now + LEASE_SECONDS,
     node |-> NodeServed(h), users |-> {GrantOf(u, h, req) : u \in Leased(c, h, req)}]

\* A request the transaction works on: everything before it reads the users.
Admitted(p, h, req) ==
    /\ Serving(p)
    /\ Now >= 1
    /\ HostOn(h)
    /\ Fresh(h, req)
    /\ ReportsValid(h, req)

LeaseExchange(p, h, req) ==
    /\ Admitted(p, h, req)
    /\ clock' = Observed(p, UsersOf(h))
    /\ LET c == clock'[p] IN
          /\ lease' = LeaseAfter(c, h, req)
          /\ session' = [session EXCEPT ![<<h, req.boot>>] =
                [seq |-> req.seq, request |-> req, response |-> ResponseTo(c, h, req)]]
          /\ issuedAt' = [u \in User |-> [e \in Epoch |->
                IF u \in Leased(c, h, req) /\ e = user[u].epoch THEN mono
                ELSE issuedAt[u][e]]]
    /\ UNCHANGED <<time, admin>>

\* A database error part of the way: the observations made so far remain.
LeaseExchangeRollback(p, h, req) ==
    /\ Admitted(p, h, req)
    /\ \E us \in SUBSET UsersOf(h) : clock' = Observed(p, us)
    /\ UNCHANGED <<time, admin, ledger>>
-----------------------------------------------------------------------------
TimeStep    == Tick \/ \E s \in SkewInput : SetWallClock(s)

ProcessStep == \E p \in Process : \/ AttachSnapshot(p) \/ AttachPublish(p)
                                  \/ Detach(p) \/ ClockFault(p)

HostStep    == \E h \in Host :
                  \/ \E st \in {"on", "off"} : HostSwitch(h, st)
                  \/ HostDelete(h)
                  \/ \E on \in BOOLEAN : RuntimeReport(h, on) \/ IngressSave(h, on)

UserStep    == \E u \in User :
                  \/ UserRemove(u)
                  \/ \E d \in Device, expires \in ExpiryInput : DeviceCreate(u, d, expires)
                  \/ \E p \in Process :
                        \/ \E body \in UserBody : UserCreate(p, u, body) \/ UserUpdate(p, u, body)
                        \/ UserGet(p, u)
                        \/ UserReset(p, u)

AdminStep   == HostStep \/ UserStep \/ \E d \in Device : DeviceRevoke(d)

ExchangeStep == \E p \in Process, h \in Host, req \in RequestInput :
                  LeaseExchange(p, h, req) \/ LeaseExchangeRollback(p, h, req)

FailedReset == \E p \in Process, u \in User : UserResetRollback(p, u)

CommittedNext == TimeStep \/ ProcessStep \/ AdminStep \/ ExchangeStep
CenterNext    == CommittedNext \/ FailedReset

CenterSpec    == CenterInit /\ [][CenterNext]_center
\* The center when no reset fails after it has touched the fence.
CommittedSpec == CenterInit /\ [][CommittedNext]_center
-----------------------------------------------------------------------------
(***************************************************************************)
(* The types of the clocks and of the tables.                              *)
(***************************************************************************)
CenterTypeOK ==
    /\ mono \in Nat /\ skew \in Nat
    /\ clock \in [Process -> Clock]
    /\ user \in [User -> UserRow]
    /\ device \in [Device -> DeviceRow]
    /\ bound \subseteq User \X Host
    /\ host \in [Host -> HostRow]
    /\ lease \in [LeaseKey -> LeaseRow]
    /\ session \in [Session -> SessionRow]
    /\ issuedAt \in [User -> [Epoch -> Int]]

(***************************************************************************)
(* The grants of a user's current epoch, summed over every node and every  *)
(* boot of a node, stay within the quota (lease_locked adds to a grant;    *)
(* sb_proxy_user_save lowers the quota; sb_proxy_user_reset starts a new   *)
(* sum), and within 2^53-1 when the user has no quota.                     *)
(***************************************************************************)
QuotaRespected == \A u \in User : Allocated(u, user[u].epoch) <= Limit(u)

(***************************************************************************)
(* What a node was granted is never taken back, what it reported is never  *)
(* forgotten (report_locked, the upsert of lease_locked), and an answered  *)
(* sequence number keeps its answer (proxy_lease_sessions).                *)
(***************************************************************************)
LedgerStep ==
    /\ \A k \in LeaseKey : /\ lease'[k].grant >= lease[k].grant
                          /\ lease'[k].used >= lease[k].used
                          /\ lease'[k].used <= lease'[k].grant
    /\ \A s \in Session : \/ session'[s].seq = session[s].seq + 1
                         \/ session'[s] = session[s]

LedgerMonotone == [][LedgerStep]_center

(***************************************************************************)
(* A lease of one epoch is issued at least a fence after the last lease of *)
(* every other epoch of that user, by whichever process, whatever happens  *)
(* to the wall clock and to the readability of the monotonic one           *)
(* (proxy_clock.c and the wait in sb_proxy_lease_exchange).                *)
(***************************************************************************)
EpochStep ==
    \A u \in User, e, f \in Epoch :
        /\ issuedAt'[u][e] # issuedAt[u][e]
        /\ e # f /\ issuedAt[u][f] >= 0
        => mono >= issuedAt[u][f] + FENCE

EpochsKeptApart == [][EpochStep]_center

\* No counter exceeds its grant (the CHECK of proxy_leases).
UsedWithinGrant == \A k \in LeaseKey : lease[k].used <= lease[k].grant
\* No lease belongs to an epoch that has not begun: users and resets start from nothing.
NoFutureGrant == \A k \in LeaseKey :
                    \/ k[4] > user[k[1]].epoch
                    \/ user[k[1]].state = "none"
                    => lease[k].grant = 0
\* The granted bytes can be counted.
GrantsFinite == \A u \in User, e \in Epoch : IsFiniteSet(BytesIn(lease, u, e))

\* The inductive invariant behind QuotaRespected and LedgerMonotone.
CenterInv == /\ CenterTypeOK
             /\ UsedWithinGrant
             /\ NoFutureGrant
             /\ GrantsFinite
             /\ QuotaRespected

\* Leases were issued in the past.
IssuedInPast == \A u \in User, e \in Epoch : issuedAt[u][e] <= mono
\* Leases were issued for epochs that have begun.
IssuedBegun == \A u \in User, e \in Epoch : issuedAt[u][e] >= 0 => e <= user[u].epoch
\* No process has seen an epoch that the database has not reached.
NoClockAhead == \A p \in Process, u \in User : clock[p].epoch[u] <= user[u].epoch
(***************************************************************************)
(* A process that has seen the current epoch fences it until the leases of *)
(* all other epochs have run out.                                          *)
(***************************************************************************)
CurrentEpochFenced ==
    \A p \in Process, u \in User, f \in Epoch :
        /\ clock[p].phase = "up" /\ clock[p].epoch[u] = user[u].epoch
        /\ f # user[u].epoch /\ issuedAt[u][f] >= 0
        => clock[p].until[u] >= issuedAt[u][f] + FENCE

\* The inductive invariant behind EpochsKeptApart.
FenceInv == IssuedInPast /\ IssuedBegun /\ NoClockAhead /\ CurrentEpochFenced

=============================================================================
