------------------------- MODULE LeaseCenterProofs -------------------------
(***************************************************************************)
(* The control plane never grants more than the quota, for any number of   *)
(* users, nodes, boots and processes and any constants.                    *)
(***************************************************************************)
EXTENDS LeaseCenter, FiniteSetTheorems, TLAPS

-----------------------------------------------------------------------------
(***************************************************************************)
(* What one lease exchange grants: the bytes of an epoch, the share of a   *)
(* node, the lease row and the response of an exchange.                    *)
(***************************************************************************)

(***************************************************************************)
(* The bytes of a lease, between two offsets, are as many as the offsets.  *)
(***************************************************************************)
LEMMA BytesOfLease ==
    ASSUME NEW k, NEW a \in Nat, NEW b \in Nat, a <= b
    PROVE  /\ IsFiniteSet({k} \X ((a+1)..b))
           /\ Cardinality({k} \X ((a+1)..b)) = b - a
<1>1. IsFiniteSet((a+1)..b) /\ Cardinality((a+1)..b) = b - a
  <2>1. a + 1 \in Int /\ b \in Int
    OBVIOUS
  <2>2. /\ IsFiniteSet((a+1)..b)
        /\ Cardinality((a+1)..b) = IF a + 1 > b THEN 0 ELSE b - (a + 1) + 1
    BY ONLY <2>1, FS_Interval
  <2> QED
    BY <2>2
<1>2. IsFiniteSet({k}) /\ Cardinality({k}) = 1
  BY FS_Singleton
<1>3. /\ IsFiniteSet({k} \X ((a+1)..b))
      /\ Cardinality({k} \X ((a+1)..b)) = Cardinality({k}) * Cardinality((a+1)..b)
  BY <1>1, <1>2, FS_Product
<1> QED
  BY <1>1, <1>2, <1>3

(***************************************************************************)
(* Tables that agree on the grants of an epoch have granted the same bytes.*)
(***************************************************************************)
LEMMA BytesSame ==
    ASSUME NEW L, NEW M, NEW u, NEW e,
           \A k \in RowsOf(u, e) : M[k].grant = L[k].grant
    PROVE  BytesIn(M, u, e) = BytesIn(L, u, e)
  BY DEF BytesIn

(***************************************************************************)
(* When one lease of an epoch grows, the epoch grows by as many bytes.     *)
(***************************************************************************)
LEMMA BytesGrow ==
    ASSUME NEW L, NEW M, NEW u, NEW e, NEW k0 \in RowsOf(u, e),
           L[k0].grant \in Nat, M[k0].grant \in Nat, L[k0].grant <= M[k0].grant,
           \A k \in RowsOf(u, e) : k # k0 => M[k].grant = L[k].grant,
           IsFiniteSet(BytesIn(L, u, e))
    PROVE  /\ IsFiniteSet(BytesIn(M, u, e))
           /\ Cardinality(BytesIn(M, u, e))
                <= Cardinality(BytesIn(L, u, e)) + (M[k0].grant - L[k0].grant)
<1> DEFINE new == {k0} \X ((L[k0].grant + 1)..M[k0].grant)
<1>1. IsFiniteSet(new) /\ Cardinality(new) = M[k0].grant - L[k0].grant
  BY Zenon, BytesOfLease
<1>2. BytesIn(M, u, e) = BytesIn(L, u, e) \union new
  <2>1. ASSUME NEW x PROVE x \in BytesIn(M, u, e) <=> x \in BytesIn(L, u, e) \union new
    <3>1. x \in BytesIn(M, u, e) <=> \E k \in RowsOf(u, e) : x \in {k} \X (1..M[k].grant)
      BY DEF BytesIn
    <3>2. x \in BytesIn(L, u, e) <=> \E k \in RowsOf(u, e) : x \in {k} \X (1..L[k].grant)
      BY DEF BytesIn
    <3>3. {k0} \X (1..M[k0].grant) = ({k0} \X (1..L[k0].grant)) \union new
      BY SMT
    <3> QED
      BY <3>1, <3>2, <3>3
  <2> QED
    BY <2>1
<1>3. /\ IsFiniteSet(BytesIn(L, u, e) \union new)
      /\ Cardinality(BytesIn(L, u, e) \union new) =
            Cardinality(BytesIn(L, u, e)) + Cardinality(new)
              - Cardinality(BytesIn(L, u, e) \cap new)
  BY <1>1, FS_Union
<1>4. Cardinality(BytesIn(L, u, e) \cap new) \in Nat
  BY Zenon, <1>1, FS_Intersection, FS_CardinalityType
<1>5. Cardinality(BytesIn(L, u, e)) \in Nat
  BY FS_CardinalityType
<1> HIDE DEF new
<1> QED
  BY <1>1, <1>2, <1>3, <1>4, <1>5
(***************************************************************************)
(* An epoch without grants has granted no byte.                            *)
(***************************************************************************)
LEMMA NothingGranted ==
    ASSUME NEW L, NEW u, NEW e, \A k \in RowsOf(u, e) : L[k].grant = 0
    PROVE  IsFiniteSet(BytesIn(L, u, e)) /\ Cardinality(BytesIn(L, u, e)) = 0
<1>1. \A k : {k} \X (1..0) = {}
  OBVIOUS
<1>2. BytesIn(L, u, e) = {}
  BY <1>1 DEF BytesIn
<1> QED
  BY <1>2, FS_EmptySet

-----------------------------------------------------------------------------
(***************************************************************************)
(* The wall clock counts whole seconds.                                    *)
(***************************************************************************)
LEMMA NowNat == mono \in Nat /\ skew \in Nat => Now \in Nat
<1>1. ASSUME NEW n \in Nat, NEW s \in Nat \ {0} PROVE n \div s \in Nat
  OBVIOUS
<1> QED
  BY <1>1, CenterAssumption DEF Now

(***************************************************************************)
(* A share of what is available is at least one byte and no more than it.  *)
(***************************************************************************)
LEMMA ShareBounds ==
    ASSUME NEW a \in Nat \ {0}, NEW b \in Nat \ {0}
    PROVE  CeilDiv(a, b) \in Nat /\ CeilDiv(a, b) <= a
<1>1. PICK q \in Int, r \in 0..(b-1) : a = b * q + r /\ q = a \div b /\ r = a % b
  OBVIOUS
<1>2. q >= 0
  BY <1>1
<1> QED
  BY <1>1, <1>2 DEF CeilDiv
-----------------------------------------------------------------------------
(***************************************************************************)
(* The operations on a clock yield a clock (proxy_clock.c).                *)
(***************************************************************************)
LEMMA ObserveType ==
    ASSUME NEW c \in Clock, NEW us, NEW epochs \in [User -> Nat], NEW now \in Nat
    PROVE  Observe(c, us, epochs, now) \in Clock
<1>1. \A u \in User : FenceOf(c, u, epochs[u], now) \in Nat
  BY FenceAssumption DEF FenceOf, Clock
<1> QED
  BY Zenon, <1>1 DEF Observe, Clock

LEMMA PublishType ==
    ASSUME NEW c \in Clock, NEW now \in Nat
    PROVE  Publish(c, now) \in Clock
<1>1. now + FENCE \in Nat
  BY FenceAssumption
<1> DEFINE until == [u \in User |-> IF c.epoch[u] > 1 THEN now + FENCE ELSE 0]
           startup == IF c.outstanding THEN now + FENCE ELSE 0
<1>2. until \in [User -> Nat] /\ startup \in Nat
  BY <1>1
<1>3. Publish(c, now) = [c EXCEPT !.phase = "up", !.startup = startup, !.until = until]
  BY DEF Publish
<1> HIDE DEF until, startup
<1> QED
  BY Zenon, <1>2, <1>3 DEF Clock

LEMMA ResetEpochType ==
    ASSUME NEW c \in Clock, NEW u \in User, NEW e \in Nat, NEW now \in Nat
    PROVE  ResetEpoch(c, u, e, now) \in Clock
<1>1. now + FENCE \in Nat
  BY FenceAssumption
<1>2. /\ [c.epoch EXCEPT ![u] = e] \in [User -> Nat]
      /\ [c.until EXCEPT ![u] = now + FENCE] \in [User -> Nat]
  BY <1>1 DEF Clock
<1> QED
  BY Zenon, <1>2 DEF ResetEpoch, Clock

LEMMA NoClockType == NoClock \in Clock
  BY DEF NoClock, Clock

(***************************************************************************)
(* A process that reads user rows keeps a well-formed clock.               *)
(***************************************************************************)
LEMMA ObservedType ==
    ASSUME CenterTypeOK, NEW p \in Process, NEW us
    PROVE  Observed(p, us) \in [Process -> Clock]
<1>1. [u \in User |-> user[u].epoch] \in [User -> Nat]
  BY DEF CenterTypeOK, UserRow, Epoch
<1>2. Observe(clock[p], us, [u \in User |-> user[u].epoch], mono) \in Clock
  BY <1>1, ObserveType DEF CenterTypeOK
<1> QED
  BY <1>2 DEF Observed, CenterTypeOK

(***************************************************************************)
(* Accepted reports move a counter up, within its grant (report_locked).   *)
(***************************************************************************)
LEMMA UsedAfterBounds ==
    ASSUME CenterInv, NEW h \in Host, NEW req \in Request, ReportsValid(h, req),
           NEW k \in LeaseKey
    PROVE  UsedAfter(req, k) \in lease[k].used..lease[k].grant
<1>0. lease[k] \in LeaseRow /\ lease[k].used <= lease[k].grant
  <2>1. lease \in [LeaseKey -> LeaseRow]
    BY DEF CenterInv, CenterTypeOK
  <2>2. lease[k] \in LeaseRow
    BY <2>1
  <2> QED
    BY <2>2 DEF CenterInv, UsedWithinGrant
<1>1. CASE \E r \in req.reports : r.lease = k
  <2> DEFINE r == CHOOSE r \in req.reports : r.lease = k
  <2>1. r \in req.reports /\ r.lease = k
    BY <1>1
  <2>2. r.used \in lease[k].used..lease[k].grant
    BY <2>1 DEF ReportsValid, ReportValid
  <2> QED
    BY <1>1, <2>2 DEF UsedAfter
<1>2. CASE ~ \E r \in req.reports : r.lease = k
  BY <1>0, <1>2 DEF UsedAfter, LeaseRow
<1> QED
  BY <1>1, <1>2

(***************************************************************************)
(* A node that is served counts among the nodes that share the quota, so   *)
(* that the share is a division by at least one (hosts < 1 in the code).   *)
(***************************************************************************)
LEMMA SharingHostsPositive ==
    ASSUME NEW h \in Host, HostOn(h), NEW u \in UsersOf(h)
    PROVE  Cardinality(SharingHosts(u)) \in Nat \ {0}
<1>1. h \in SharingHosts(u)
  BY DEF UsersOf, SharingHosts
<1>2. IsFiniteSet(SharingHosts(u))
  <2>1. SharingHosts(u) \in SUBSET Host
    BY DEF SharingHosts
  <2> QED
    BY <2>1, CenterAssumption, FS_Subset
<1>3. Cardinality(SharingHosts(u)) \in Nat
  BY <1>2, FS_CardinalityType
<1>4. Cardinality(SharingHosts(u)) # 0
  BY <1>1, <1>2, FS_EmptySet
<1> QED
  BY <1>3, <1>4

(***************************************************************************)
(* lease_locked only adds to a grant, and no more than what is available.  *)
(***************************************************************************)
LEMMA NewGrantBounds ==
    ASSUME CenterInv, NEW h \in Host, HostOn(h), NEW req \in Request,
           ReportsValid(h, req), NEW u \in UsersOf(h), u \in User,
           NEW k \in LeaseKey, k[1] = u, k[4] = user[u].epoch
    PROVE  /\ NewGrant(req, k) \in Nat
           /\ lease[k].grant <= NewGrant(req, k)
           /\ Allocated(u, user[u].epoch) + (NewGrant(req, k) - lease[k].grant) <= Limit(u)
<1> DEFINE available == Limit(u) - Allocated(u, k[4])
           hosts == Cardinality(SharingHosts(u))
           add == AtMost(CeilDiv(available, hosts), GRANT_CHUNK)
<1>1. lease[k].grant \in Nat
  BY DEF CenterInv, CenterTypeOK, LeaseRow
<1>2. hosts \in Nat \ {0}
  BY SharingHostsPositive
<1>3. Allocated(u, user[u].epoch) \in Nat /\ Allocated(u, user[u].epoch) <= Limit(u)
  <2>1. user[u].epoch \in Epoch
    BY DEF CenterInv, CenterTypeOK, UserRow
  <2>2. IsFiniteSet(BytesIn(lease, u, user[u].epoch))
    BY <2>1 DEF CenterInv, GrantsFinite
  <2> QED
    BY <2>2, FS_CardinalityType DEF CenterInv, QuotaRespected, Allocated
<1>4. Limit(u) \in Nat
  BY CenterAssumption DEF CenterInv, CenterTypeOK, UserRow, Limit
<1>5. CASE NewGrant(req, k) = lease[k].grant
  BY <1>1, <1>3, <1>4, <1>5
<1>6. CASE NewGrant(req, k) # lease[k].grant
  <2>1. NewGrant(req, k) = lease[k].grant + add /\ available > 0
    BY <1>6 DEF NewGrant
  <2>2. available \in Nat \ {0}
    BY <1>3, <1>4, <2>1
  <2>3. CeilDiv(available, hosts) \in Nat /\ CeilDiv(available, hosts) <= available
    BY <1>2, <2>2, ShareBounds
  <2>4. add \in Nat /\ add <= available
    BY <2>2, <2>3, CenterAssumption DEF AtMost
  <2>5. available = Limit(u) - Allocated(u, user[u].epoch)
    OBVIOUS
  <2> HIDE DEF add, available
  <2> QED
    BY <1>1, <1>3, <1>4, <2>1, <2>4, <2>5
<1> QED
  BY <1>5, <1>6
-----------------------------------------------------------------------------
(***************************************************************************)
(* A lease runs to a point of time, and the policy that carries it is one. *)
(***************************************************************************)
LEMMA LeaseUntilType ==
    ASSUME CenterTypeOK, NEW u \in User
    PROVE  LeaseUntil(u) \in Nat
  BY NowNat, CenterAssumption DEF CenterTypeOK, UserRow, LeaseUntil, AtMost

LEMMA ResponseType ==
    ASSUME CenterInv, NEW h \in Host, HostOn(h), NEW req \in Request,
           ReportsValid(h, req), NEW c
    PROVE  ResponseTo(c, h, req) \in Response
<1>1. \A u \in Leased(c, h, req) : GrantOf(u, h, req) \in Granted
  <2> SUFFICES ASSUME NEW u \in Leased(c, h, req) PROVE GrantOf(u, h, req) \in Granted
    OBVIOUS
  <2> DEFINE k == KeyOf(u, h, req.boot)
  <2>1. u \in UsersOf(h) /\ u \in User
    BY DEF Leased, UsersOf
  <2>2. user[u].epoch \in Epoch
    BY <2>1 DEF CenterInv, CenterTypeOK, UserRow
  <2>3. k \in LeaseKey /\ k[1] = u /\ k[4] = user[u].epoch
    BY <2>1, <2>2 DEF LeaseKey, KeyOf, Request
  <2>4. NewGrant(req, k) \in Nat
    BY <2>1, <2>3, NewGrantBounds
  <2>5. UsedAfter(req, k) \in Nat
    <3>1. lease[k] \in LeaseRow
      BY <2>3 DEF CenterInv, CenterTypeOK
    <3> QED
      BY <2>3, <3>1, UsedAfterBounds DEF LeaseRow
  <2>6. LeaseUntil(u) \in Nat
    BY <2>1, LeaseUntilType DEF CenterInv
  <2>7. {[id |-> d, expires |-> device[d].expires] : d \in PolicyDevices(u)}
           \in SUBSET [id : Device, expires : Nat]
    BY DEF CenterInv, CenterTypeOK, DeviceRow, PolicyDevices
  <2> HIDE DEF k
  <2>8. GrantOf(u, h, req) =
          [id |-> u, epoch |-> user[u].epoch, grant |-> NewGrant(req, k),
           used |-> UsedAfter(req, k), expires |-> LeaseUntil(u),
           devices |-> {[id |-> d, expires |-> device[d].expires] : d \in PolicyDevices(u)}]
    BY DEF GrantOf, k
  <2> QED
    BY <2>1, <2>2, <2>4, <2>5, <2>6, <2>7, <2>8 DEF Granted
<1>2. Now \in Nat /\ Now + LEASE_SECONDS \in Nat
  BY NowNat, CenterAssumption DEF CenterInv, CenterTypeOK
<1>3. NodeServed(h) \in BOOLEAN
  BY DEF NodeServed
<1>4. req.seq \in Nat
  BY Zenon DEF Request
<1> QED
  BY <1>1, <1>2, <1>3, <1>4 DEF ResponseTo, Response

(***************************************************************************)
(* What an accepted exchange does to a lease: the grant and the counter go *)
(* up, the counter stays within the grant.                                 *)
(***************************************************************************)
LEMMA LeaseAfterBounds ==
    ASSUME CenterInv, NEW h \in Host, HostOn(h), NEW req \in Request,
           ReportsValid(h, req), NEW c, NEW k \in LeaseKey
    PROVE  LET row == LeaseAfter(c, h, req)[k]
           IN  /\ row \in LeaseRow
               /\ lease[k].grant <= row.grant
               /\ lease[k].used <= row.used
               /\ row.used <= row.grant
<1>1. lease[k] \in LeaseRow
  BY DEF CenterInv, CenterTypeOK
<1>2. UsedAfter(req, k) \in lease[k].used..lease[k].grant
  BY UsedAfterBounds
<1>3. CASE k[1] \in Leased(c, h, req) /\ k = KeyOf(k[1], h, req.boot)
  <2>1. k[1] \in UsersOf(h) /\ k[1] \in User
    BY <1>3 DEF Leased, UsersOf
  <2>2. k[4] = user[k[1]].epoch
    BY <1>3 DEF KeyOf
  <2>3. NewGrant(req, k) \in Nat /\ lease[k].grant <= NewGrant(req, k)
    BY <2>1, <2>2, NewGrantBounds
  <2>4. LeaseUntil(k[1]) \in Nat
    BY <2>1, LeaseUntilType DEF CenterInv
  <2>5. LeaseAfter(c, h, req)[k] = [grant |-> NewGrant(req, k), used |-> UsedAfter(req, k),
                                    expires |-> LeaseUntil(k[1])]
    BY <1>3 DEF LeaseAfter
  <2> QED
    BY ONLY CenterInv, <1>1, <1>2, <2>3, <2>4, <2>5 DEF LeaseRow
<1>4. CASE ~(k[1] \in Leased(c, h, req) /\ k = KeyOf(k[1], h, req.boot))
  <2>1. LeaseAfter(c, h, req)[k] = [lease[k] EXCEPT !.used = UsedAfter(req, k)]
    BY <1>4 DEF LeaseAfter
  <2> QED
    BY <1>1, <1>2, <2>1 DEF LeaseRow
<1> QED
  BY <1>3, <1>4

(***************************************************************************)
(* The lease of a user that is served is the only one of its epoch whose   *)
(* grant an exchange changes.                                              *)
(***************************************************************************)
LEMMA OtherGrantsKept ==
    ASSUME CenterInv, NEW h \in Host, NEW req \in Request, NEW c, NEW k \in LeaseKey,
           ~(k[1] \in Leased(c, h, req) /\ k = KeyOf(k[1], h, req.boot))
    PROVE  LeaseAfter(c, h, req)[k].grant = lease[k].grant
<1>1. lease[k] \in LeaseRow
  BY DEF CenterInv, CenterTypeOK
<1> QED
  BY <1>1 DEF LeaseAfter, LeaseRow

-----------------------------------------------------------------------------
(***************************************************************************)
(* Every step keeps the invariant.                                         *)
(***************************************************************************)

(***************************************************************************)
(* sb_proxy_lease_exchange keeps the invariant.                            *)
(***************************************************************************)
LEMMA ExchangeKeepsInv ==
    ASSUME CenterInv, NEW p \in Process, NEW h \in Host, NEW req \in Request,
           LeaseExchange(p, h, req)
    PROVE  CenterInv'
<1> DEFINE c == clock'[p]
<1>1. HostOn(h) /\ ReportsValid(h, req)
  BY Zenon DEF LeaseExchange, Admitted
<1>2. /\ clock' = Observed(p, UsersOf(h))
      /\ lease' = LeaseAfter(c, h, req)
      /\ session' = [session EXCEPT ![<<h, req.boot>>] =
            [seq |-> req.seq, request |-> req, response |-> ResponseTo(c, h, req)]]
      /\ issuedAt' = [u \in User |-> [e \in Epoch |->
            IF u \in Leased(c, h, req) /\ e = user[u].epoch THEN mono ELSE issuedAt[u][e]]]
      /\ UNCHANGED <<mono, skew, user, device, bound, host>>
  BY DEF LeaseExchange, time, admin
<1> HIDE DEF c
<1>3. \A k \in LeaseKey : /\ lease'[k] \in LeaseRow
                         /\ lease'[k].used <= lease'[k].grant
  BY Zenon, <1>1, <1>2, LeaseAfterBounds
<1>4. CenterTypeOK'
  <2>1. lease' \in [LeaseKey -> LeaseRow]
    BY <1>2, <1>3 DEF LeaseAfter
  <2>2. session' \in [Session -> SessionRow]
    <3>1. ResponseTo(c, h, req) \in Response
      BY <1>1, ResponseType
    <3>2. [seq |-> req.seq, request |-> req, response |-> ResponseTo(c, h, req)] \in SessionRow
      BY <3>1 DEF SessionRow, Request
    <3> QED
      BY Zenon, <1>2, <3>2 DEF CenterInv, CenterTypeOK
  <2>3. issuedAt' \in [User -> [Epoch -> Int]]
    BY ONLY CenterInv, <1>2 DEF CenterInv, CenterTypeOK
  <2>4. clock' \in [Process -> Clock]
    BY <1>2, ObservedType DEF CenterInv
  <2> QED
    BY <1>2, <2>1, <2>2, <2>3, <2>4 DEF CenterInv, CenterTypeOK
<1>5. UsedWithinGrant'
  BY <1>3 DEF UsedWithinGrant
<1>6. NoFutureGrant'
  <2> SUFFICES ASSUME NEW k \in LeaseKey,
                      k[4] > user'[k[1]].epoch \/ user'[k[1]].state = "none"
               PROVE  lease'[k].grant = 0
    BY Zenon DEF NoFutureGrant
  <2>1. k[1] \in User /\ user[k[1]].epoch \in Nat
    BY ONLY CenterInv DEF LeaseKey, CenterInv, CenterTypeOK, UserRow, Epoch
  <2>2. ~(k[1] \in Leased(c, h, req) /\ k = KeyOf(k[1], h, req.boot))
    BY <1>2, <2>1 DEF KeyOf, Leased, UsersOf, Live
  <2> QED
    BY ZenonT(40), <1>2, <2>2, OtherGrantsKept DEF CenterInv, NoFutureGrant
<1>7. ASSUME NEW u \in User, NEW e \in Epoch
      PROVE  /\ IsFiniteSet(BytesIn(lease', u, e))
             /\ e = user[u].epoch => Cardinality(BytesIn(lease', u, e)) <= Limit(u)
  <2>0. /\ IsFiniteSet(BytesIn(lease, u, e))
        /\ e = user[u].epoch => Cardinality(BytesIn(lease, u, e)) <= Limit(u)
    BY ONLY CenterInv DEF CenterInv, GrantsFinite, QuotaRespected, Allocated
  <2>1. CASE u \in Leased(c, h, req) /\ e = user[u].epoch
    <3> DEFINE k == KeyOf(u, h, req.boot)
    <3>1. k \in RowsOf(u, e) /\ k \in LeaseKey /\ k[1] = u /\ k[4] = e
      BY ONLY <2>1 DEF KeyOf, RowsOf, LeaseKey, Request
    <3>2. u \in UsersOf(h)
      BY <2>1 DEF Leased
    <3>3. lease[k].grant \in Nat
      BY <3>1 DEF CenterInv, CenterTypeOK, LeaseRow
    <3>4. lease'[k].grant = NewGrant(req, k)
      BY ONLY <1>2, <2>1, <3>1 DEF LeaseAfter
    <3>5. /\ NewGrant(req, k) \in Nat /\ lease[k].grant <= NewGrant(req, k)
          /\ Allocated(u, e) + (NewGrant(req, k) - lease[k].grant) <= Limit(u)
      BY ONLY CenterInv, <1>1, <2>1, <3>1, <3>2, NewGrantBounds
    <3>6. \A j \in RowsOf(u, e) : j # k => lease'[j].grant = lease[j].grant
      BY ZenonT(40), <1>2, OtherGrantsKept DEF RowsOf
    <3> HIDE DEF k
    <3>7. /\ IsFiniteSet(BytesIn(lease', u, e))
          /\ Cardinality(BytesIn(lease', u, e))
               <= Cardinality(BytesIn(lease, u, e)) + (lease'[k].grant - lease[k].grant)
      BY Zenon, <2>0, <3>1, <3>3, <3>4, <3>5, <3>6, BytesGrow
    <3>8. /\ Cardinality(BytesIn(lease', u, e)) \in Nat
          /\ Allocated(u, e) = Cardinality(BytesIn(lease, u, e))
          /\ Allocated(u, e) \in Nat /\ Limit(u) \in Nat
      BY <2>0, <3>7, FS_CardinalityType, CenterAssumption
         DEF Allocated, Limit, CenterInv, CenterTypeOK, UserRow
    <3> QED
      BY ONLY <3>3, <3>4, <3>5, <3>7, <3>8
  <2>2. CASE ~(u \in Leased(c, h, req) /\ e = user[u].epoch)
    <3>1. \A k \in RowsOf(u, e) : lease'[k].grant = lease[k].grant
      <4> SUFFICES ASSUME NEW k \in RowsOf(u, e) PROVE lease'[k].grant = lease[k].grant
        BY Zenon
      <4>1. k \in LeaseKey /\ k[1] = u /\ k[4] = e
        BY DEF RowsOf
      <4>2. ~(k[1] \in Leased(c, h, req) /\ k = KeyOf(k[1], h, req.boot))
        BY <2>2, <4>1 DEF KeyOf
      <4> QED
        BY Zenon, <1>2, <4>1, <4>2, OtherGrantsKept
    <3>2. BytesIn(lease', u, e) = BytesIn(lease, u, e)
      BY <3>1, BytesSame
    <3> QED
      BY <2>0, <3>2
  <2> QED
    BY <2>1, <2>2
<1>8. GrantsFinite'
  BY ONLY <1>7 DEF GrantsFinite, BytesIn, RowsOf
<1>9. QuotaRespected'
  <2> SUFFICES ASSUME NEW u \in User PROVE (Allocated(u, user[u].epoch) <= Limit(u))'
    BY DEF QuotaRespected
  <2>1. user[u].epoch \in Epoch
    BY DEF CenterInv, CenterTypeOK, UserRow
  <2>2. Cardinality(BytesIn(lease', u, user[u].epoch)) <= Limit(u)
    BY ONLY <1>7, <2>1
  <2> QED
    BY ONLY <1>2, <2>2 DEF Allocated, Limit, BytesIn, RowsOf
<1> QED
  BY ONLY <1>4, <1>5, <1>6, <1>8, <1>9 DEF CenterInv

(***************************************************************************)
(* An operation that leaves the leases and the epochs alone keeps the      *)
(* invariant, if it keeps the types and the quota covers what is allocated.*)
(***************************************************************************)
LEMMA LeasesUntouched ==
    ASSUME CenterInv, CenterTypeOK', lease' = lease,
           \A u \in User : user'[u].epoch = user[u].epoch,
           \A u \in User : user'[u].state = "none" => user[u].state = "none",
           \A u \in User : \/ user'[u].quota = user[u].quota
                          \/ user'[u].quota = 0
                          \/ user'[u].quota >= Allocated(u, user[u].epoch)
    PROVE  CenterInv'
<1>1. \A u \in User, e \in Epoch : BytesIn(lease, u, e)' = BytesIn(lease, u, e)
  BY Zenon DEF BytesIn, RowsOf
<1>2. UsedWithinGrant' /\ GrantsFinite'
  BY <1>1 DEF CenterInv, UsedWithinGrant, GrantsFinite
<1>3. NoFutureGrant'
  <2> SUFFICES ASSUME NEW k \in LeaseKey,
                      k[4] > user'[k[1]].epoch \/ user'[k[1]].state = "none"
               PROVE  lease[k].grant = 0
    BY DEF NoFutureGrant
  <2>1. k[1] \in User
    BY DEF LeaseKey
  <2>2. k[4] > user[k[1]].epoch \/ user[k[1]].state = "none"
    BY Zenon, <2>1
  <2> QED
    BY <2>2 DEF CenterInv, NoFutureGrant
<1>4. QuotaRespected'
  <2> SUFFICES ASSUME NEW u \in User PROVE (Allocated(u, user[u].epoch) <= Limit(u))'
    BY DEF QuotaRespected
  <2> DEFINE a == Cardinality(BytesIn(lease, u, user[u].epoch))
  <2>1. /\ user[u].epoch \in Epoch /\ user[u].quota \in 0..SAFE_INTEGER
        /\ user'[u].quota \in 0..SAFE_INTEGER
    BY Zenon DEF CenterInv, CenterTypeOK, UserRow
  <2>2. a \in Nat
    BY ONLY CenterInv, <2>1, FS_CardinalityType DEF CenterInv, GrantsFinite
  <2>3. a <= (IF user[u].quota = 0 THEN SAFE_INTEGER ELSE user[u].quota)
    <3>1. Allocated(u, user[u].epoch) <= Limit(u)
      BY Zenon DEF CenterInv, QuotaRespected
    <3> QED
      BY <3>1 DEF Allocated, Limit
  <2>4. a <= (IF user'[u].quota = 0 THEN SAFE_INTEGER ELSE user'[u].quota)
    <3>1. \/ user'[u].quota = user[u].quota
          \/ user'[u].quota = 0
          \/ user'[u].quota >= a
      BY DEF Allocated
    <3> HIDE DEF a
    <3> QED
      BY <2>1, <2>2, <2>3, <3>1, CenterAssumption
  <2>5. Allocated(u, user[u].epoch)' = a
    <3>1. user'[u].epoch = user[u].epoch
      BY ZenonT(40)
    <3>2. Allocated(u, user[u].epoch)' = Cardinality(BytesIn(lease', u, user'[u].epoch))
      BY DEF Allocated, BytesIn, RowsOf
    <3> QED
      BY <3>1, <3>2
  <2> QED
    BY ONLY <2>4, <2>5 DEF Limit
<1> QED
  BY <1>2, <1>3, <1>4 DEF CenterInv

(***************************************************************************)
(* Time, processes and hosts do not touch users and leases.                *)
(***************************************************************************)
LEMMA QuietStepsKeepInv ==
    ASSUME CenterInv, TimeStep \/ ProcessStep \/ HostStep
    PROVE  CenterInv'
<1>0. CenterTypeOK
  BY DEF CenterInv
<1>1. lease' = lease /\ user' = user /\ session' = session /\ issuedAt' = issuedAt
      /\ device' = device
  BY Zenon DEF TimeStep, Tick, SetWallClock, ProcessStep, AttachSnapshot, AttachPublish, Detach,
         ClockFault, HostStep, HostSwitch, HostDelete, RuntimeReport, IngressSave,
         time, admin, ledger
<1>2. CenterTypeOK'
  <2>1. CASE TimeStep
    BY <1>0, <1>1, <2>1, CenterAssumption
       DEF TimeStep, Tick, SetWallClock, CenterTypeOK, admin, ledger
  <2>2. CASE ProcessStep
    <3>1. PICK p \in Process : \/ AttachSnapshot(p) \/ AttachPublish(p)
                               \/ Detach(p) \/ ClockFault(p)
      BY <2>2 DEF ProcessStep
    <3>2. clock[p] \in Clock /\ mono \in Nat
      BY <1>0 DEF CenterTypeOK
    <3>3. [NoClock EXCEPT !.broken = TRUE] \in Clock
          /\ [NoClock EXCEPT !.broken = clock[p].broken] \in Clock
          /\ [clock[p] EXCEPT !.broken = ~clock[p].broken] \in Clock
      BY Zenon, <3>2, NoClockType DEF Clock
    <3>4. Publish(clock[p], mono) \in Clock
      BY <3>2, PublishType
    <3>5. ASSUME NEW o \in BOOLEAN
          PROVE  Snapshot(clock[p], [u \in User |-> IF Live(u) THEN user[u].epoch ELSE 0], o)
                    \in Clock
      <4>1. [u \in User |-> IF Live(u) THEN user[u].epoch ELSE 0] \in [User -> Nat]
        BY <1>0 DEF CenterTypeOK, UserRow, Epoch
      <4> QED
        BY Zenon, <3>2, <4>1 DEF Snapshot, Clock
    <3>6. clock' \in [Process -> Clock]
      BY Zenon, <1>0, <3>1, <3>3, <3>4, <3>5
         DEF AttachSnapshot, AttachPublish, Detach, ClockFault, CenterTypeOK
    <3>7. UNCHANGED <<mono, skew, user, device, bound, host>>
      BY Zenon, <3>1 DEF AttachSnapshot, AttachPublish, Detach, ClockFault, time, admin
    <3> QED
      BY <1>0, <1>1, <3>6, <3>7 DEF CenterTypeOK
  <2>3. CASE HostStep
    <3>1. host' \in [Host -> HostRow]
      <4>1. PICK h \in Host : \/ \E st \in {"on", "off"} : HostSwitch(h, st)
                              \/ HostDelete(h)
                              \/ \E on \in BOOLEAN : RuntimeReport(h, on) \/ IngressSave(h, on)
        BY <2>3 DEF HostStep
      <4>2. host \in [Host -> HostRow] /\ Now \in Nat
        BY <1>0, NowNat DEF CenterTypeOK
      <4>3. CASE \E st \in {"on", "off"} : HostSwitch(h, st)
        BY <4>2, <4>3 DEF HostSwitch, HostRow
      <4>4. CASE HostDelete(h)
        BY ZenonT(40), <4>2, <4>4 DEF HostDelete, HostRow
      <4>5. CASE \E on \in BOOLEAN : RuntimeReport(h, on)
        <5>1. PICK on \in BOOLEAN :
                host' = [host EXCEPT ![h] = [@ EXCEPT !.supported = on, !.observed = Now]]
          BY Zenon, <4>5 DEF RuntimeReport
        <5>2. [host[h] EXCEPT !.supported = on, !.observed = Now] \in HostRow
          BY Zenon, <4>2 DEF HostRow
        <5> QED
          BY <4>2, <5>1, <5>2
      <4>6. CASE \E on \in BOOLEAN : IngressSave(h, on)
        BY <4>2, <4>6 DEF IngressSave, HostRow
      <4> QED
        BY <4>1, <4>3, <4>4, <4>5, <4>6
    <3>2. bound' \subseteq User \X Host
      BY Zenon, <1>0, <2>3 DEF HostStep, HostSwitch, HostDelete, RuntimeReport, IngressSave,
                        CenterTypeOK
    <3>3. UNCHANGED <<mono, skew, clock>>
      BY Zenon, <2>3 DEF HostStep, HostSwitch, HostDelete, RuntimeReport, IngressSave, time
    <3> QED
      BY <1>0, <1>1, <3>1, <3>2, <3>3 DEF CenterTypeOK
  <2> QED
    BY <2>1, <2>2, <2>3
<1> QED
  BY <1>1, <1>2, LeasesUntouched

(***************************************************************************)
(* sb_proxy_user_save: the body is well formed, and UserUpdate checks the  *)
(* quota; a new user has been granted nothing.                             *)
(***************************************************************************)
LEMMA UserSaveKeepsInv ==
    ASSUME CenterInv, NEW p \in Process, NEW u \in User, NEW body \in UserBody,
           UserCreate(p, u, body) \/ UserUpdate(p, u, body)
    PROVE  CenterInv'
<1>1. UserWrite(u, body) /\ clock' = Observed(p, {u})
  BY DEF UserCreate, UserUpdate
<1>2. /\ user' = [user EXCEPT ![u] =
            [@ EXCEPT !.state = "live", !.enabled = body.enabled, !.quota = body.quota,
                      !.expires = body.expires, !.max_devices = body.max_devices]]
      /\ UNCHANGED <<mono, skew, device, host, lease, session, issuedAt>>
  BY <1>1 DEF UserWrite, time, ledger
<1>3. user[u] \in UserRow /\ user \in [User -> UserRow]
  BY DEF CenterInv, CenterTypeOK
<1>4. /\ body.enabled \in BOOLEAN /\ body.quota \in 0..SAFE_INTEGER /\ body.expires \in Nat
      /\ body.max_devices \in Nat /\ body.host_ids \subseteq Host
  BY Zenon, CenterAssumption DEF UserBody
<1>5. user' \in [User -> UserRow]
  BY Zenon, <1>2, <1>3, <1>4 DEF UserRow
<1>6. bound' \subseteq User \X Host
  BY <1>1, <1>4 DEF UserWrite, CenterInv, CenterTypeOK
<1>7. clock' \in [Process -> Clock]
  BY <1>1, ObservedType DEF CenterInv
<1>8. CenterTypeOK'
  BY <1>2, <1>5, <1>6, <1>7 DEF CenterInv, CenterTypeOK
<1>9. \A v \in User : /\ user'[v].epoch = user[v].epoch
                     /\ user'[v].state = "none" => user[v].state = "none"
  BY <1>2, <1>3 DEF UserRow
<1>10. \A v \in User : v # u => user'[v].quota = user[v].quota
  BY <1>2, <1>3
<1>11. user'[u].quota = body.quota
  BY <1>2, <1>3 DEF UserRow
<1>12. body.quota = 0 \/ body.quota >= Allocated(u, user[u].epoch)
  <2>1. CASE UserCreate(p, u, body)
    <3>1. Allocated(u, user[u].epoch) = 0
      BY <2>1, NothingGranted DEF UserCreate, CenterInv, NoFutureGrant, RowsOf, Allocated
    <3> QED
      BY ONLY <1>4, <3>1
  <2>2. CASE UserUpdate(p, u, body)
    BY <2>2 DEF UserUpdate
  <2> QED
    BY <2>1, <2>2
<1> QED
  BY ONLY CenterInv, <1>2, <1>8, <1>9, <1>10, <1>11, <1>12, LeasesUntouched

(***************************************************************************)
(* sb_proxy_user_reset: the next epoch has been granted nothing yet.       *)
(***************************************************************************)
LEMMA UserResetKeepsInv ==
    ASSUME CenterInv, NEW p \in Process, NEW u \in User, UserReset(p, u)
    PROVE  CenterInv'
<1>0. CenterTypeOK /\ user \in [User -> UserRow] /\ user[u].epoch \in Epoch
  BY DEF CenterInv, CenterTypeOK, UserRow
<1>1. /\ UNCHANGED <<mono, skew, device, bound, host, lease, session, issuedAt>>
      /\ clock' = [clock EXCEPT ![p] = ResetEpoch(@, u, user[u].epoch + 1, mono)]
      /\ user[u].epoch < MaxEpoch
  BY DEF UserReset, ResetClock, time, ledger
<1>2. PICK t \in NotBefore(u) :
         user' = [user EXCEPT ![u].epoch = @ + 1, ![u].not_before = t]
  BY Zenon DEF UserReset
<1>3. t \in Nat
  <2>1. Now + LEASE_SECONDS \in Nat
    BY <1>0, NowNat, CenterAssumption DEF CenterTypeOK
  <2>2. \A k \in LeaseKey : lease[k].expires \in Nat
    BY <1>0 DEF CenterTypeOK, LeaseRow
  <2> QED
    BY <2>1, <2>2 DEF NotBefore
<1>4. user[u].epoch + 1 \in Epoch
  BY <1>0, <1>1, CenterAssumption DEF Epoch
<1>5. /\ user' \in [User -> UserRow]
      /\ user'[u].epoch = user[u].epoch + 1 /\ user'[u].quota = user[u].quota
      /\ user'[u].state = user[u].state
      /\ \A v \in User : v # u => user'[v] = user[v]
  BY ZenonT(40), <1>0, <1>2, <1>3, <1>4 DEF UserRow
<1>6. clock' \in [Process -> Clock]
  <2>1. user[u].epoch + 1 \in Nat
    BY <1>4 DEF Epoch
  <2>2. ResetEpoch(clock[p], u, user[u].epoch + 1, mono) \in Clock
    BY <1>0, <2>1, ResetEpochType DEF CenterTypeOK
  <2> QED
    BY <1>0, <1>1, <2>2 DEF CenterTypeOK
<1>7. CenterTypeOK'
  BY <1>0, <1>1, <1>5, <1>6 DEF CenterTypeOK
<1>8. UsedWithinGrant' /\ GrantsFinite'
  <2>1. UsedWithinGrant'
    BY ZenonT(40), <1>1 DEF CenterInv, UsedWithinGrant
  <2>2. lease' = lease
    BY ONLY <1>1
  <2>3. GrantsFinite
    BY ONLY CenterInv DEF CenterInv
  <2>4. GrantsFinite'
    BY ONLY <2>2, <2>3 DEF GrantsFinite, BytesIn, RowsOf
  <2> QED
    BY <2>1, <2>4
<1>9. NoFutureGrant'
  <2> SUFFICES ASSUME NEW k \in LeaseKey,
                      k[4] > user'[k[1]].epoch \/ user'[k[1]].state = "none"
               PROVE  lease[k].grant = 0
    BY Zenon, <1>1 DEF NoFutureGrant
  <2>1. k[1] \in User /\ k[4] \in Nat /\ user[u].epoch \in Nat
    BY <1>0 DEF LeaseKey, Epoch
  <2>2. CASE k[1] # u
    <3>1. user'[k[1]] = user[k[1]]
      BY ONLY <1>5, <2>1, <2>2
    <3> QED
      BY Zenon, <3>1 DEF CenterInv, NoFutureGrant
  <2>3. CASE k[1] = u /\ user[u].state = "none"
    BY Zenon, <2>3 DEF CenterInv, NoFutureGrant
  <2>4. CASE k[1] = u /\ k[4] > user[u].epoch + 1
    <3>1. k[4] > user[u].epoch
      BY ONLY <2>1, <2>4
    <3> QED
      BY <2>4, <3>1 DEF CenterInv, NoFutureGrant
  <2> QED
    BY <1>5, <2>2, <2>3, <2>4
<1>10. QuotaRespected'
  <2> SUFFICES ASSUME NEW v \in User
               PROVE  Cardinality(BytesIn(lease, v, user'[v].epoch))
                        <= (IF user'[v].quota = 0 THEN SAFE_INTEGER ELSE user'[v].quota)
    BY Zenon, <1>1 DEF QuotaRespected, Allocated, Limit, BytesIn, RowsOf
  <2>1. CASE v = u
    <3>1. \A k \in RowsOf(u, user[u].epoch + 1) : lease[k].grant = 0
      <4> SUFFICES ASSUME NEW k \in RowsOf(u, user[u].epoch + 1) PROVE lease[k].grant = 0
        OBVIOUS
      <4>1. k \in LeaseKey /\ k[1] = u /\ k[4] = user[u].epoch + 1
        BY Zenon DEF RowsOf
      <4>2. k[4] > user[k[1]].epoch
        BY ONLY <1>0, <4>1 DEF Epoch
      <4> QED
        BY Zenon, <4>1, <4>2 DEF CenterInv, NoFutureGrant
    <3>2. Cardinality(BytesIn(lease, u, user[u].epoch + 1)) = 0
      BY ONLY <3>1, NothingGranted
    <3> QED
      BY ONLY <1>0, <1>5, <2>1, <3>2, CenterAssumption DEF UserRow
  <2>2. CASE v # u
    BY <1>5, <2>2 DEF CenterInv, QuotaRespected, Allocated, Limit
  <2> QED
    BY ONLY <2>1, <2>2
<1> QED
  BY <1>7, <1>8, <1>9, <1>10 DEF CenterInv

(***************************************************************************)
(* The operations that only read users, or only write devices, and the     *)
(* transactions that are rolled back.                                      *)
(***************************************************************************)
LEMMA OtherStepsKeepInv ==
    ASSUME CenterInv,
           \/ \E p \in Process, u \in User : UserGet(p, u) \/ UserResetRollback(p, u)
           \/ \E p \in Process, h \in Host, req \in Request : LeaseExchangeRollback(p, h, req)
           \/ \E u \in User, d \in Device, expires \in ExpiryInput : DeviceCreate(u, d, expires)
           \/ \E d \in Device : DeviceRevoke(d)
    PROVE  CenterInv'
<1>0. CenterTypeOK
  BY DEF CenterInv
<1>1. UNCHANGED <<mono, skew, user, bound, host, lease, session, issuedAt>>
  BY Zenon DEF UserGet, UserResetRollback, LeaseExchangeRollback, DeviceCreate, DeviceRevoke,
         time, admin, ledger
<1>2. clock' \in [Process -> Clock]
  <2>1. CASE clock' = clock
    BY <1>0, <2>1 DEF CenterTypeOK
  <2>2. CASE \E p \in Process, us \in SUBSET User : clock' = Observed(p, us)
    BY <1>0, <2>2, ObservedType
  <2>3. CASE \E p \in Process, u \in User : clock' = ResetClock(p, u)
    <3>1. PICK p \in Process, u \in User : clock' = ResetClock(p, u)
      BY <2>3
    <3>2. user[u].epoch + 1 \in Nat
      BY ONLY <1>0 DEF CenterTypeOK, UserRow, Epoch
    <3>3. ResetEpoch(clock[p], u, user[u].epoch + 1, mono) \in Clock
      BY <1>0, <3>2, ResetEpochType DEF CenterTypeOK
    <3> QED
      BY <1>0, <3>1, <3>3 DEF CenterTypeOK, ResetClock
  <2> QED
    BY Zenon, <2>1, <2>2, <2>3
       DEF UserGet, UserResetRollback, LeaseExchangeRollback, DeviceCreate, DeviceRevoke, UsersOf
<1>3. device' \in [Device -> DeviceRow]
  <2>1. device \in [Device -> DeviceRow]
    BY <1>0 DEF CenterTypeOK
  <2>2. CASE \E u \in User, d \in Device, expires \in ExpiryInput : DeviceCreate(u, d, expires)
    <3>1. PICK u \in User, d \in Device, expires \in ExpiryInput : DeviceCreate(u, d, expires)
      BY ONLY <2>2
    <3>2. [owner |-> u, enabled |-> TRUE, expires |-> expires] \in DeviceRow
      BY CenterAssumption DEF DeviceRow
    <3>3. device' = [device EXCEPT ![d] = [owner |-> u, enabled |-> TRUE, expires |-> expires]]
      BY Zenon, <3>1 DEF DeviceCreate
    <3> QED
      BY <2>1, <3>2, <3>3
  <2>3. CASE \E d \in Device : DeviceRevoke(d)
    BY ZenonT(40), <2>1, <2>3 DEF DeviceRevoke, DeviceRow
  <2>4. CASE device' = device
    BY <2>1, <2>4
  <2> QED
    BY Zenon, <2>2, <2>3, <2>4 DEF UserGet, UserResetRollback, LeaseExchangeRollback, admin
<1>4. CenterTypeOK'
  BY <1>0, <1>1, <1>2, <1>3 DEF CenterTypeOK
<1> QED
  BY Zenon, <1>1, <1>4, LeasesUntouched

\* sb_proxy_user_remove
LEMMA UserRemoveKeepsInv ==
    ASSUME CenterInv, NEW u \in User, UserRemove(u)
    PROVE  CenterInv'
<1>1. /\ UNCHANGED <<mono, skew, clock, bound, host, lease, session, issuedAt>>
      /\ user' = [user EXCEPT ![u].enabled = FALSE, ![u].state = "deleted"]
      /\ device' = [d \in Device |-> IF device[d].owner = u
                        THEN [device[d] EXCEPT !.enabled = FALSE] ELSE device[d]]
  BY DEF UserRemove, time, ledger
<1>2. user \in [User -> UserRow] /\ device \in [Device -> DeviceRow]
  BY DEF CenterInv, CenterTypeOK
<1>3. /\ user' \in [User -> UserRow]
      /\ \A v \in User : /\ user'[v].epoch = user[v].epoch
                         /\ user'[v].quota = user[v].quota
                         /\ user'[v].state = "none" => user[v].state = "none"
  BY ZenonT(40), <1>1, <1>2 DEF UserRow
<1>4. device' \in [Device -> DeviceRow]
  BY Zenon, <1>1, <1>2 DEF DeviceRow
<1>5. CenterTypeOK'
  BY <1>1, <1>3, <1>4 DEF CenterInv, CenterTypeOK
<1> QED
  BY <1>1, <1>3, <1>5, LeasesUntouched

\* The empty database.
LEMMA InitInv == CenterInit => CenterInv
<1> SUFFICES ASSUME CenterInit PROVE CenterInv
  OBVIOUS
<1>1. 1 \in Epoch
  BY CenterAssumption DEF Epoch
<1>2. CenterTypeOK
  <2> DEFINE u0 == [state |-> "none", enabled |-> FALSE, quota |-> 0, expires |-> 0,
                    max_devices |-> 0, epoch |-> 1, not_before |-> 0]
             d0 == [owner |-> None, enabled |-> FALSE, expires |-> 0]
             h0 == [state |-> "on", ingress |-> "none", supported |-> FALSE, observed |-> 0]
  <2>0. /\ mono = 0 /\ skew = SECOND /\ bound = {}
        /\ clock = [p \in Process |-> NoClock]
        /\ user = [u \in User |-> u0]
        /\ device = [d \in Device |-> d0]
        /\ host = [h \in Host |-> h0]
        /\ lease = [k \in LeaseKey |-> NoLease]
        /\ session = [s \in Session |-> NoSession]
        /\ issuedAt = [u \in User |-> [e \in Epoch |-> -1]]
    BY Zenon DEF CenterInit
  <2>1. u0 \in UserRow
    BY <1>1, CenterAssumption DEF UserRow
  <2>2. d0 \in DeviceRow
    BY DEF DeviceRow
  <2>3. h0 \in HostRow
    BY DEF HostRow
  <2>4. NoLease \in LeaseRow
    BY DEF LeaseRow, NoLease
  <2>5. NoSession \in SessionRow
    BY DEF SessionRow, NoSession
  <2> HIDE DEF u0, d0, h0
  <2>6. user \in [User -> UserRow] /\ device \in [Device -> DeviceRow] /\ host \in [Host -> HostRow]
    BY Zenon, <2>0, <2>1, <2>2, <2>3
  <2>7. /\ clock \in [Process -> Clock] /\ lease \in [LeaseKey -> LeaseRow]
        /\ session \in [Session -> SessionRow]
    BY ZenonT(40), <2>0, <2>4, <2>5, NoClockType
  <2>8. /\ mono \in Nat /\ skew \in Nat /\ bound \subseteq User \X Host
        /\ issuedAt \in [User -> [Epoch -> Int]]
    BY <2>0, CenterAssumption
  <2> QED
    BY Zenon, <2>6, <2>7, <2>8 DEF CenterTypeOK
<1>3. \A k \in LeaseKey : lease[k].grant = 0 /\ lease[k].used = 0
  <2>1. lease = [k \in LeaseKey |-> NoLease]
    BY Zenon DEF CenterInit
  <2> QED
    BY <2>1 DEF NoLease
<1>4. UsedWithinGrant /\ NoFutureGrant
  BY ONLY <1>3 DEF UsedWithinGrant, NoFutureGrant
<1>5. \A u \in User, e \in Epoch : /\ IsFiniteSet(BytesIn(lease, u, e))
                                  /\ Cardinality(BytesIn(lease, u, e)) = 0
  BY <1>3, NothingGranted DEF RowsOf
<1>6. GrantsFinite
  BY <1>5 DEF GrantsFinite
<1>7. QuotaRespected
  <2> SUFFICES ASSUME NEW u \in User PROVE Allocated(u, user[u].epoch) <= Limit(u)
    BY Zenon DEF QuotaRespected
  <2>1. user[u].epoch \in Epoch /\ Limit(u) \in Nat
    BY <1>2, CenterAssumption DEF CenterTypeOK, UserRow, Limit
  <2> QED
    BY <1>5, <2>1 DEF Allocated
<1> QED
  BY <1>2, <1>4, <1>6, <1>7 DEF CenterInv

\* Every step of the center keeps the invariant.
LEMMA NextInv == CenterInv /\ [CenterNext]_center => CenterInv'
<1> SUFFICES ASSUME CenterInv, [CenterNext]_center PROVE CenterInv'
  OBVIOUS
<1>1. CASE TimeStep \/ ProcessStep \/ HostStep
  BY <1>1, QuietStepsKeepInv
<1>2. CASE UserStep
  <2>1. PICK u \in User :
          \/ UserRemove(u)
          \/ \E d \in Device, expires \in ExpiryInput : DeviceCreate(u, d, expires)
          \/ \E p \in Process :
                \/ \E body \in UserBody : UserCreate(p, u, body) \/ UserUpdate(p, u, body)
                \/ UserGet(p, u)
                \/ UserReset(p, u)
    BY <1>2 DEF UserStep
  <2>2. CASE UserRemove(u)
    BY <2>2, UserRemoveKeepsInv
  <2>3. CASE \E p \in Process, body \in UserBody : UserCreate(p, u, body) \/ UserUpdate(p, u, body)
    BY <2>3, UserSaveKeepsInv
  <2>4. CASE \E p \in Process : UserReset(p, u)
    BY <2>4, UserResetKeepsInv
  <2>5. CASE \/ \E d \in Device, expires \in ExpiryInput : DeviceCreate(u, d, expires)
             \/ \E p \in Process : UserGet(p, u)
    BY <2>5, OtherStepsKeepInv
  <2> QED
    BY ONLY CenterInv, <2>1, <2>2, <2>3, <2>4, <2>5
<1>3. CASE \E d \in Device : DeviceRevoke(d)
  BY <1>3, OtherStepsKeepInv
<1>4. CASE ExchangeStep
  BY <1>4, ExchangeKeepsInv, OtherStepsKeepInv, RequestAssumption DEF ExchangeStep
<1>5. CASE FailedReset
  BY <1>5, OtherStepsKeepInv DEF FailedReset
<1>6. CASE UNCHANGED center
  <2>1. UNCHANGED <<mono, skew, clock, user, device, bound, host, lease, session, issuedAt>>
    BY <1>6 DEF center, time, admin, ledger
  <2>2. CenterTypeOK'
    BY <2>1 DEF CenterInv, CenterTypeOK
  <2> QED
    BY Zenon, <2>1, <2>2, LeasesUntouched
<1> QED
  BY <1>1, <1>2, <1>3, <1>4, <1>5, <1>6 DEF CenterNext, CommittedNext, AdminStep

(***************************************************************************)
(* However many nodes, boots, users and center processes there are, the    *)
(* grants of a user's epoch never exceed the quota (lease_locked,          *)
(* sb_proxy_user_save, sb_proxy_user_reset).                               *)
(***************************************************************************)
THEOREM QuotaTheorem == CenterSpec => [](CenterTypeOK /\ QuotaRespected)
<1>1. CenterInv => CenterTypeOK /\ QuotaRespected
  BY DEF CenterInv
<1> QED
  BY <1>1, InitInv, NextInv, PTL DEF CenterSpec

(***************************************************************************)
(* Grants and reported counters only grow, and an answered request keeps   *)
(* its answer (report_locked, the upserts of lease_locked and of           *)
(* proxy_lease_sessions).                                                  *)
(***************************************************************************)
THEOREM LedgerTheorem == CenterSpec => LedgerMonotone
<1>1. ASSUME CenterInv, CenterNext PROVE LedgerStep
  <2>0. lease \in [LeaseKey -> LeaseRow] /\ session \in [Session -> SessionRow]
        /\ UsedWithinGrant
    BY <1>1 DEF CenterInv, CenterTypeOK
  <2>1. CASE lease' = lease /\ session' = session
    BY ONLY <2>0, <2>1 DEF LedgerStep, UsedWithinGrant, LeaseRow
  <2>2. CASE \E p \in Process, h \in Host, req \in Request : LeaseExchange(p, h, req)
    <3>1. PICK p \in Process, h \in Host, req \in Request : LeaseExchange(p, h, req)
      BY ONLY <2>2
    <3>2. \A k \in LeaseKey : /\ lease'[k].grant >= lease[k].grant
                             /\ lease'[k].used >= lease[k].used
                             /\ lease'[k].used <= lease'[k].grant
      <4>1. HostOn(h) /\ ReportsValid(h, req) /\ lease' = LeaseAfter(clock'[p], h, req)
        BY Zenon, <3>1 DEF LeaseExchange, Admitted
      <4>2. \A k \in LeaseKey : /\ lease'[k] \in LeaseRow /\ lease[k] \in LeaseRow
                               /\ lease[k].grant <= lease'[k].grant
                               /\ lease[k].used <= lease'[k].used
                               /\ lease'[k].used <= lease'[k].grant
        BY Zenon, <1>1, <2>0, <4>1, LeaseAfterBounds
      <4> QED
        BY <4>2 DEF LeaseRow
    <3>3. req.seq = session[<<h, req.boot>>].seq + 1
          /\ session' = [session EXCEPT ![<<h, req.boot>>] =
                [seq |-> req.seq, request |-> req, response |-> ResponseTo(clock'[p], h, req)]]
      BY ZenonT(40), <3>1 DEF LeaseExchange, Admitted, Fresh
    <3>4. \A s \in Session : \/ session'[s].seq = session[s].seq + 1
                            \/ session'[s] = session[s]
      BY ONLY <2>0, <3>3
    <3> QED
      BY <3>2, <3>4 DEF LedgerStep
  <2>3. \/ lease' = lease /\ session' = session
        \/ \E p \in Process, h \in Host, req \in Request : LeaseExchange(p, h, req)
    <3>1. CASE TimeStep
      BY <3>1 DEF TimeStep, Tick, SetWallClock, ledger
    <3>2. CASE ProcessStep
      BY Zenon, <3>2 DEF ProcessStep, AttachSnapshot, AttachPublish, Detach, ClockFault, ledger
    <3>3. CASE HostStep
      BY Zenon, <3>3 DEF HostStep, HostSwitch, HostDelete, RuntimeReport, IngressSave, ledger
    <3>4. CASE UserStep
      <4>1. \A u \in User : UserRemove(u) => UNCHANGED ledger
        BY Zenon DEF UserRemove
      <4>2. \A u \in User, d \in Device, expires \in ExpiryInput :
              DeviceCreate(u, d, expires) => UNCHANGED ledger
        BY DEF DeviceCreate
      <4>3. \A p \in Process, u \in User, body \in UserBody :
              UserCreate(p, u, body) \/ UserUpdate(p, u, body) => UNCHANGED ledger
        BY DEF UserCreate, UserUpdate, UserWrite
      <4>4. \A p \in Process, u \in User :
              UserGet(p, u) \/ UserReset(p, u) => UNCHANGED ledger
        BY DEF UserGet, UserReset
      <4>5. UNCHANGED ledger
        BY <3>4, <4>1, <4>2, <4>3, <4>4 DEF UserStep
      <4> QED
        BY <4>5 DEF ledger
    <3>5. CASE \E d \in Device : DeviceRevoke(d)
      BY ONLY <3>5 DEF DeviceRevoke, ledger
    <3>6. CASE FailedReset
      BY <3>6 DEF FailedReset, UserResetRollback, ledger
    <3>7. CASE ExchangeStep
      BY <3>7, RequestAssumption DEF ExchangeStep, LeaseExchangeRollback, ledger
    <3> QED
      BY Zenon, <1>1, <3>1, <3>2, <3>3, <3>4, <3>5, <3>6, <3>7 DEF CenterNext, CommittedNext, AdminStep
  <2> QED
    BY <2>1, <2>2, <2>3
<1> QED
  BY <1>1, InitInv, NextInv, PTL DEF CenterSpec, LedgerMonotone
=============================================================================
