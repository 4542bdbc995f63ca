-------------------------- MODULE LeaseFenceProofs --------------------------
(***************************************************************************)
(* The leases of two epochs of a user never overlap, for any number of     *)
(* center processes, provided that no reset fails after it has touched the *)
(* fence of its process (CommittedSpec).  FenceInv is inductive relative   *)
(* to CenterTypeOK; its third conjunct is the point: whoever has seen the  *)
(* current epoch waits for the leases of all others.                       *)
(***************************************************************************)
EXTENDS LeaseCenterProofs

\* The empty database: nothing issued, nothing seen.
LEMMA FenceInit == CenterInit => FenceInv
<1> SUFFICES ASSUME CenterInit PROVE FenceInv
  OBVIOUS
<1>1. IssuedInPast /\ IssuedBegun
  BY DEF CenterInit, IssuedInPast, IssuedBegun
<1>2. NoClockAhead
  <2>1. \A p \in Process, u \in User : clock[p].epoch[u] = 0 /\ user[u].epoch = 1
    BY Zenon DEF CenterInit, NoClock
  <2> QED
    BY <2>1 DEF NoClockAhead
<1>3. CurrentEpochFenced
  BY DEF CenterInit, CurrentEpochFenced
<1> QED
  BY <1>1, <1>2, <1>3 DEF FenceInv

\* Leases are only issued now, and for the current epoch.
IssuedNow == \A u \in User, e \in Epoch :
                \/ issuedAt'[u][e] = issuedAt[u][e]
                \/ e = user[u].epoch /\ issuedAt'[u][e] = mono

\* The fences when one process changes its clock and no epoch changes.
LEMMA OneClock ==
    ASSUME CenterTypeOK, FenceInv, NEW p \in Process, NEW c \in Clock,
           clock' = [clock EXCEPT ![p] = c],
           mono' = mono, \A u \in User : user'[u].epoch = user[u].epoch,
           IssuedNow,
           \A u \in User : c.epoch[u] <= user[u].epoch,
           \A u \in User, f \in Epoch :
              /\ c.phase = "up" /\ c.epoch[u] = user[u].epoch
              /\ f # user[u].epoch /\ issuedAt[u][f] >= 0
              => c.until[u] >= issuedAt[u][f] + FENCE
    PROVE  FenceInv'
<1>1. clock \in [Process -> Clock] /\ mono \in Nat /\ user \in [User -> UserRow]
  BY DEF CenterTypeOK
<1>2. \A q \in Process : clock'[q] = IF q = p THEN c ELSE clock[q]
  BY <1>1
<1>3. IssuedInPast'
  BY <1>1 DEF FenceInv, IssuedInPast, IssuedNow
<1>4. IssuedBegun'
  BY DEF FenceInv, IssuedBegun, IssuedNow, Epoch
<1>5. NoClockAhead'
  BY <1>2 DEF FenceInv, NoClockAhead
<1>6. CurrentEpochFenced'
  <2> SUFFICES ASSUME NEW q \in Process, NEW u \in User, NEW f \in Epoch,
                      clock'[q].phase = "up", clock'[q].epoch[u] = user[u].epoch,
                      f # user[u].epoch, issuedAt'[u][f] >= 0
               PROVE  clock'[q].until[u] >= issuedAt'[u][f] + FENCE
    BY DEF CurrentEpochFenced
  <2>1. issuedAt'[u][f] = issuedAt[u][f]
    BY DEF IssuedNow
  <2> QED
    BY <1>2, <2>1 DEF FenceInv, CurrentEpochFenced
<1> QED
  BY <1>3, <1>4, <1>5, <1>6 DEF FenceInv

(***************************************************************************)
(* A user that is at epoch 1 has leases of no other epoch: the reason why  *)
(* observe_epoch and initialize_snapshot need no fence there.              *)
(***************************************************************************)
LEMMA FirstEpochAlone ==
    ASSUME IssuedBegun, NEW u \in User, NEW f \in Epoch, user[u].epoch = 1, f # 1
    PROVE  ~(issuedAt[u][f] >= 0)
<1>1. ~(f <= 1)
  BY CenterAssumption DEF Epoch
<1> QED
  BY <1>1 DEF IssuedBegun

\* Observing the users whose rows were read keeps every fence (observe_epoch).
LEMMA ObserveFences ==
    ASSUME CenterTypeOK, FenceInv, NEW p \in Process, NEW us \in SUBSET User,
           clock' = Observed(p, us), mono' = mono,
           \A u \in User : user'[u].epoch = user[u].epoch, IssuedNow
    PROVE  FenceInv'
<1> DEFINE epochs == [u \in User |-> user[u].epoch]
           c == Observe(clock[p], us, epochs, mono)
<1>1. /\ clock[p] \in Clock /\ clock \in [Process -> Clock] /\ mono \in Nat
      /\ user \in [User -> UserRow] /\ issuedAt \in [User -> [Epoch -> Int]]
  BY DEF CenterTypeOK
<1>2. epochs \in [User -> Nat]
  BY <1>1, CenterAssumption DEF UserRow, Epoch
<1>3. c \in Clock
  BY <1>1, <1>2, ObserveType
<1>4. clock' = [clock EXCEPT ![p] = c]
  BY <1>1 DEF Observed
<1>5. CASE ~Readable(clock[p])
  <2>1. c = clock[p]
    BY <1>5 DEF Observe
  <2> HIDE DEF c
  <2>2. \A u \in User : c.epoch[u] <= user[u].epoch
    BY <2>1 DEF FenceInv, NoClockAhead
  <2>3. \A u \in User, f \in Epoch :
           /\ c.phase = "up" /\ c.epoch[u] = user[u].epoch
           /\ f # user[u].epoch /\ issuedAt[u][f] >= 0
           => c.until[u] >= issuedAt[u][f] + FENCE
    BY <2>1 DEF FenceInv, CurrentEpochFenced
  <2> QED
    BY Zenon, <1>3, <1>4, <2>2, <2>3, OneClock
<1>6. CASE Readable(clock[p])
  <2>1. /\ c.phase = clock[p].phase
        /\ c.epoch = [u \in User |-> IF u \in us THEN epochs[u] ELSE clock[p].epoch[u]]
        /\ c.until = [u \in User |-> IF u \in us
                        THEN FenceOf(clock[p], u, epochs[u], mono) ELSE clock[p].until[u]]
    BY <1>1, <1>6 DEF Observe, Clock
  <2> HIDE DEF c
  <2>2. \A u \in User : c.epoch[u] <= user[u].epoch
    <3> SUFFICES ASSUME NEW u \in User PROVE c.epoch[u] <= user[u].epoch
      OBVIOUS
    <3>1. user[u].epoch \in Int
      BY <1>1 DEF UserRow, Epoch
    <3>2. c.epoch[u] = user[u].epoch \/ c.epoch[u] = clock[p].epoch[u]
      BY <2>1
    <3> QED
      BY <3>1, <3>2 DEF FenceInv, NoClockAhead
  <2>3. ASSUME NEW u \in User, NEW f \in Epoch,
               c.phase = "up", c.epoch[u] = user[u].epoch,
               f # user[u].epoch, issuedAt[u][f] >= 0
        PROVE  c.until[u] >= issuedAt[u][f] + FENCE
    <3>1. clock[p].epoch[u] = user[u].epoch => clock[p].until[u] >= issuedAt[u][f] + FENCE
      BY Zenon, <2>1, <2>3 DEF FenceInv, CurrentEpochFenced
    <3>2. CASE u \notin us
      BY <2>1, <2>3, <3>1, <3>2
    <3>3. CASE u \in us
      <4>1. c.until[u] = FenceOf(clock[p], u, user[u].epoch, mono)
        BY <2>1, <3>3
      <4>2. user[u].epoch # 1
        BY <2>3, FirstEpochAlone DEF FenceInv
      <4>3. issuedAt[u][f] \in Int
        BY <1>1
      <4>3a. issuedAt[u][f] <= mono
        BY DEF FenceInv, IssuedInPast
      <4> QED
        BY <1>1, <3>1, <4>1, <4>2, <4>3, <4>3a, FenceAssumption DEF FenceOf
    <3> QED
      BY <3>2, <3>3
  <2> QED
    BY Zenon, <1>3, <1>4, <2>2, <2>3, OneClock
<1> QED
  BY <1>5, <1>6

\* Time passes, the wall clock is set: the fences stay.
LEMMA TimeFences == CenterTypeOK /\ FenceInv /\ TimeStep => FenceInv'
<1> SUFFICES ASSUME CenterTypeOK, FenceInv, TimeStep PROVE FenceInv'
  OBVIOUS
<1>1. /\ UNCHANGED <<clock, user, issuedAt>>
      /\ mono' = mono \/ mono' = mono + 1
  BY DEF TimeStep, Tick, SetWallClock, admin, ledger
<1>2. mono \in Nat /\ issuedAt \in [User -> [Epoch -> Int]]
  BY DEF CenterTypeOK
<1>3. IssuedInPast'
  <2> SUFFICES ASSUME NEW u \in User, NEW e \in Epoch PROVE issuedAt[u][e] <= mono'
    BY <1>1 DEF IssuedInPast
  <2>1. issuedAt[u][e] \in Int
    BY <1>2
  <2>2. issuedAt[u][e] <= mono
    BY DEF FenceInv, IssuedInPast
  <2> QED
    BY <1>1, <1>2, <2>1, <2>2
<1>4. IssuedBegun' /\ NoClockAhead' /\ CurrentEpochFenced'
  BY <1>1 DEF FenceInv, IssuedBegun, NoClockAhead, CurrentEpochFenced
<1> QED
  BY <1>3, <1>4 DEF FenceInv

\* A process starts, stops, or loses its clock (initialize_snapshot, detach).
LEMMA ProcessFences == CenterTypeOK /\ FenceInv /\ ProcessStep => FenceInv'
<1> SUFFICES ASSUME CenterTypeOK, FenceInv, NEW p \in Process,
                    \/ AttachSnapshot(p) \/ AttachPublish(p) \/ Detach(p) \/ ClockFault(p)
             PROVE  FenceInv'
  BY DEF ProcessStep
<1>1. /\ clock[p] \in Clock /\ clock \in [Process -> Clock] /\ mono \in Nat
      /\ user \in [User -> UserRow] /\ issuedAt \in [User -> [Epoch -> Int]]
  BY DEF CenterTypeOK
<1>2. mono' = mono /\ (\A u \in User : user'[u].epoch = user[u].epoch) /\ IssuedNow
  BY Zenon DEF AttachSnapshot, AttachPublish, Detach, ClockFault, time, admin, ledger, IssuedNow
<1>3. \A u \in User : user[u].epoch \in Nat /\ user[u].epoch >= 1
  BY <1>1 DEF UserRow, Epoch
<1>0. ASSUME NEW u \in User PROVE 0 <= user[u].epoch /\ user[u].epoch <= user[u].epoch
  <2>1. user[u].epoch \in Nat
    BY <1>3
  <2> QED
    BY <2>1
<1>4. CASE AttachSnapshot(p)
  <2> DEFINE epochs == [u \in User |-> IF Live(u) THEN user[u].epoch ELSE 0]
             outstanding == \E k \in LeaseKey : lease[k].grant > lease[k].used
             c == Snapshot(clock[p], epochs, outstanding)
  <2>1. clock' = [clock EXCEPT ![p] = c]
    BY <1>1, <1>4 DEF AttachSnapshot
  <2>2. epochs \in [User -> Nat] /\ outstanding \in BOOLEAN
    BY <1>3
  <2> HIDE DEF epochs, outstanding
  <2>3. c \in Clock /\ c.phase = "snapshot" /\ c.epoch = epochs
    BY Zenon, <1>1, <2>2 DEF Snapshot, Clock
  <2> HIDE DEF c
  <2>4. \A u \in User : c.epoch[u] <= user[u].epoch
    BY Zenon, <1>0, <2>3 DEF epochs
  <2> QED
    BY Zenon, <1>2, <2>1, <2>3, <2>4, OneClock
<1>5. CASE AttachPublish(p) /\ clock[p].broken
  <2> DEFINE c == [NoClock EXCEPT !.broken = TRUE]
  <2>1. clock' = [clock EXCEPT ![p] = c]
    BY <1>1, <1>5 DEF AttachPublish
  <2>2. c \in Clock /\ c.phase = "down"
    BY Zenon DEF NoClock, Clock
  <2>2a. \A u \in User : c.epoch[u] = 0
    BY DEF NoClock
  <2> HIDE DEF c
  <2>3. \A u \in User : c.epoch[u] <= user[u].epoch
    BY Zenon, <1>0, <2>2a
  <2> QED
    BY Zenon, <1>2, <2>1, <2>2, <2>3, OneClock
<1>6. CASE AttachPublish(p) /\ ~clock[p].broken
  <2> DEFINE c == Publish(clock[p], mono)
  <2>1. clock' = [clock EXCEPT ![p] = c]
    BY <1>1, <1>6 DEF AttachPublish
  <2>2. c \in Clock
    BY <1>1, PublishType
  <2>3. /\ c.epoch = clock[p].epoch
        /\ c.until = [u \in User |-> IF clock[p].epoch[u] > 1 THEN mono + FENCE ELSE 0]
    BY <1>1 DEF Publish, Clock
  <2>4. \A u \in User : c.epoch[u] <= user[u].epoch
    BY Zenon, <2>3 DEF FenceInv, NoClockAhead
  <2>5. ASSUME NEW u \in User, NEW f \in Epoch, c.epoch[u] = user[u].epoch,
               f # user[u].epoch, issuedAt[u][f] >= 0
        PROVE  c.until[u] >= issuedAt[u][f] + FENCE
    <3>1. user[u].epoch > 1
      BY <1>3, <2>5, FirstEpochAlone DEF FenceInv
    <3>2. c.until[u] = mono + FENCE
      BY <2>3, <2>5, <3>1
    <3>3. issuedAt[u][f] \in Int
      BY <1>1
    <3>3a. issuedAt[u][f] <= mono
      BY DEF FenceInv, IssuedInPast
    <3> QED
      BY <1>1, <3>2, <3>3, <3>3a, FenceAssumption
  <2> HIDE DEF c
  <2> QED
    BY Zenon, <1>2, <2>1, <2>2, <2>4, <2>5, OneClock
<1>7. CASE Detach(p)
  <2> DEFINE c == [NoClock EXCEPT !.broken = clock[p].broken]
  <2>1. clock' = [clock EXCEPT ![p] = c]
    BY <1>1, <1>7 DEF Detach
  <2>2. c \in Clock /\ c.phase = "down"
    BY Zenon, <1>1 DEF NoClock, Clock
  <2>2a. \A u \in User : c.epoch[u] = 0
    BY DEF NoClock
  <2> HIDE DEF c
  <2>3. \A u \in User : c.epoch[u] <= user[u].epoch
    BY Zenon, <1>0, <2>2a
  <2> QED
    BY Zenon, <1>2, <2>1, <2>2, <2>3, OneClock
<1>8. CASE ClockFault(p)
  <2> DEFINE c == [clock[p] EXCEPT !.broken = ~@]
  <2>1. clock' = [clock EXCEPT ![p] = c]
    BY <1>1, <1>8 DEF ClockFault
  <2>2. /\ c \in Clock /\ c.phase = clock[p].phase
        /\ c.epoch = clock[p].epoch /\ c.until = clock[p].until
    BY Zenon, <1>1 DEF Clock
  <2> HIDE DEF c
  <2>3. \A u \in User : c.epoch[u] <= user[u].epoch
    BY <2>2 DEF FenceInv, NoClockAhead
  <2>4. \A u \in User, f \in Epoch :
           /\ c.phase = "up" /\ c.epoch[u] = user[u].epoch
           /\ f # user[u].epoch /\ issuedAt[u][f] >= 0
           => c.until[u] >= issuedAt[u][f] + FENCE
    BY Zenon, <2>2 DEF FenceInv, CurrentEpochFenced
  <2> QED
    BY Zenon, <1>2, <2>1, <2>2, <2>3, <2>4, OneClock
<1> QED
  BY <1>4, <1>5, <1>6, <1>7, <1>8

(***************************************************************************)
(* A reset moves the user to an epoch nobody has seen (NoClockAhead), and  *)
(* the process that makes it waits one fence from now.                     *)
(***************************************************************************)
LEMMA ResetFences ==
    ASSUME CenterTypeOK, FenceInv, NEW p \in Process, NEW u \in User, UserReset(p, u)
    PROVE  FenceInv'
<1>1. /\ clock[p] \in Clock /\ clock \in [Process -> Clock] /\ mono \in Nat
      /\ user \in [User -> UserRow] /\ issuedAt \in [User -> [Epoch -> Int]]
  BY DEF CenterTypeOK
<1>2. UNCHANGED <<mono, issuedAt>> /\ clock' = ResetClock(p, u)
  BY DEF UserReset, time, ledger
<1>3. user[u].epoch \in Int
  BY <1>1 DEF UserRow, Epoch
<1>4. \A v \in User : user'[v].epoch = IF v = u THEN user[u].epoch + 1 ELSE user[v].epoch
  BY <1>1 DEF UserReset, UserRow
<1>5. IssuedInPast'
  BY <1>2 DEF FenceInv, IssuedInPast
<1>6. IssuedBegun'
  <2> SUFFICES ASSUME NEW v \in User, NEW e \in Epoch, issuedAt[v][e] >= 0
               PROVE  e <= user'[v].epoch
    BY <1>2 DEF IssuedBegun
  <2>1. e <= user[v].epoch /\ e \in Int
    BY DEF FenceInv, IssuedBegun, Epoch
  <2> QED
    BY <1>3, <1>4, <2>1
<1> DEFINE c == ResetEpoch(clock[p], u, user[u].epoch + 1, mono)
<1>7. \A q \in Process : clock'[q] = IF q = p THEN c ELSE clock[q]
  BY <1>1, <1>2 DEF ResetClock
<1>8. CASE ~Readable(clock[p])
  <2>1. clock' = clock
    BY <1>1, <1>2, <1>8 DEF ResetClock, ResetEpoch
  <2>2. ASSUME NEW q \in Process, NEW v \in User
        PROVE  /\ clock[q].epoch[v] <= user'[v].epoch
               /\ clock[q].epoch[v] = user'[v].epoch => v # u
    <3>1. clock[q].epoch[v] <= user[v].epoch
      BY DEF FenceInv, NoClockAhead
    <3>2. clock[q].epoch[v] \in Int
      BY <1>1 DEF Clock
    <3> QED
      BY <1>3, <1>4, <3>1, <3>2
  <2>3. NoClockAhead'
    BY <2>1, <2>2 DEF NoClockAhead
  <2>4. CurrentEpochFenced'
    BY <1>2, <1>4, <2>1, <2>2 DEF FenceInv, CurrentEpochFenced
  <2> QED
    BY <1>5, <1>6, <2>3, <2>4 DEF FenceInv
<1>9. CASE Readable(clock[p])
  <2>1. /\ \A v \in User : c.epoch[v] = IF v = u THEN user[u].epoch + 1 ELSE clock[p].epoch[v]
        /\ \A v \in User : c.until[v] = IF v = u THEN mono + FENCE ELSE clock[p].until[v]
        /\ c.phase = clock[p].phase
    BY <1>1, <1>9 DEF ResetEpoch, Clock
  <2> HIDE DEF c
  <2>2. ASSUME NEW q \in Process, NEW v \in User
        PROVE  /\ clock'[q].epoch[v] <= user'[v].epoch
               /\ clock'[q].epoch[v] = user'[v].epoch => v # u \/ q = p
    <3>1. clock[q].epoch[v] <= user[v].epoch
      BY DEF FenceInv, NoClockAhead
    <3>2. clock[q].epoch[v] \in Int
      BY <1>1 DEF Clock
    <3> QED
      BY <1>3, <1>4, <1>7, <2>1, <3>1, <3>2
  <2>3. NoClockAhead'
    BY <2>2 DEF NoClockAhead
  <2>4. CurrentEpochFenced'
    <3> SUFFICES ASSUME NEW q \in Process, NEW v \in User, NEW f \in Epoch,
                        clock'[q].phase = "up", clock'[q].epoch[v] = user'[v].epoch,
                        f # user'[v].epoch, issuedAt[v][f] >= 0
                 PROVE  clock'[q].until[v] >= issuedAt[v][f] + FENCE
      BY <1>2 DEF CurrentEpochFenced
    <3>1. CASE v # u
      <4>1. /\ clock[q].phase = "up" /\ clock[q].epoch[v] = user[v].epoch
            /\ f # user[v].epoch /\ clock'[q].until[v] = clock[q].until[v]
        BY <1>4, <1>7, <2>1, <3>1
      <4> QED
        BY <4>1 DEF FenceInv, CurrentEpochFenced
    <3>2. CASE v = u
      <4>1. clock'[q].until[v] = mono + FENCE
        BY <1>7, <2>1, <2>2, <3>2
      <4>2. issuedAt[v][f] \in Int
        BY <1>1
      <4>3. issuedAt[v][f] <= mono
        BY DEF FenceInv, IssuedInPast
      <4> QED
        BY <1>1, <4>1, <4>2, <4>3, FenceAssumption
    <3> QED
      BY <3>1, <3>2
  <2> QED
    BY <1>5, <1>6, <2>3, <2>4 DEF FenceInv
<1> QED
  BY <1>8, <1>9

\* Writes that touch neither an epoch, nor a lease, nor a clock.
LEMMA QuietFences ==
    ASSUME CenterTypeOK, FenceInv, UNCHANGED <<mono, clock, issuedAt>>,
           \A u \in User : user'[u].epoch = user[u].epoch
    PROVE  FenceInv'
<1>1. IssuedInPast' /\ IssuedBegun'
  BY DEF FenceInv, IssuedInPast, IssuedBegun
<1>2. NoClockAhead' /\ CurrentEpochFenced'
  BY DEF FenceInv, NoClockAhead, CurrentEpochFenced
<1> QED
  BY <1>1, <1>2 DEF FenceInv

\* Saving and removing users changes no epoch (the upsert of sb_proxy_user_save).
LEMMA EpochsKept ==
    ASSUME CenterTypeOK, NEW u \in User,
           \/ UserRemove(u)
           \/ \E body \in UserBody : UserWrite(u, body)
    PROVE  \A v \in User : user'[v].epoch = user[v].epoch
<1>1. user \in [User -> UserRow]
  BY DEF CenterTypeOK
<1>2. CASE UserRemove(u)
  BY <1>1, <1>2 DEF UserRemove, UserRow
<1>3. ASSUME NEW body \in UserBody, UserWrite(u, body)
      PROVE  \A v \in User : user'[v].epoch = user[v].epoch
  <2>1. user' = [user EXCEPT ![u] =
          [@ EXCEPT !.state = "live", !.enabled = body.enabled, !.quota = body.quota,
                    !.expires = body.expires, !.max_devices = body.max_devices]]
    BY Zenon, <1>3 DEF UserWrite
  <2> QED
    BY <1>1, <2>1 DEF UserRow
<1> QED
  BY <1>2, <1>3

\* An exchange observes every user of the node, then issues (sb_proxy_lease_exchange).
LEMMA ExchangeFences ==
    ASSUME CenterTypeOK, FenceInv, NEW p \in Process, NEW h \in Host, NEW req \in Request,
           LeaseExchange(p, h, req)
    PROVE  FenceInv' /\ EpochStep
<1>1. /\ clock' = Observed(p, UsersOf(h)) /\ UNCHANGED <<mono, user>>
      /\ issuedAt' = [u \in User |-> [e \in Epoch |->
             IF u \in Leased(clock'[p], h, req) /\ e = user[u].epoch THEN mono
             ELSE issuedAt[u][e]]]
  BY DEF LeaseExchange, time, admin
<1>2. IssuedNow /\ UsersOf(h) \in SUBSET User
  BY <1>1 DEF IssuedNow, UsersOf
<1>3. FenceInv'
  BY <1>1, <1>2, ObserveFences
<1>4. EpochStep
  <2> SUFFICES ASSUME NEW u \in User, NEW e \in Epoch, NEW f \in Epoch,
                      issuedAt'[u][e] # issuedAt[u][e], e # f, issuedAt[u][f] >= 0
               PROVE  mono >= issuedAt[u][f] + FENCE
    BY DEF EpochStep
  <2>1. u \in Leased(clock'[p], h, req) /\ e = user[u].epoch
    BY <1>1
  <2>2. issuedAt'[u][f] = issuedAt[u][f]
    BY <1>1, <2>1
  <2>3. u \in UsersOf(h) /\ MayIssue(clock'[p], u, mono)
    BY <2>1 DEF Leased
  <2>4. clock'[p].phase = "up" /\ clock'[p].until[u] <= mono
    BY <2>3 DEF MayIssue, Readable
  <2>5. clock'[p].epoch[u] = user[u].epoch
    <3>1. clock \in [Process -> Clock] /\ clock[p] \in Clock
      BY DEF CenterTypeOK
    <3>2. clock'[p] = Observe(clock[p], UsersOf(h), [v \in User |-> user[v].epoch], mono)
      BY <1>1, <3>1 DEF Observed
    <3>3. Readable(clock[p])
      BY <2>3, <3>2 DEF MayIssue, Observe
    <3>4. clock'[p].epoch = [v \in User |-> IF v \in UsersOf(h)
                               THEN [w \in User |-> user[w].epoch][v] ELSE clock[p].epoch[v]]
      BY <3>1, <3>2, <3>3 DEF Observe, Clock
    <3> QED
      BY <2>3, <3>4
  <2>6. clock'[p].until[u] >= issuedAt[u][f] + FENCE
    BY Zenon, <1>1, <1>3, <2>1, <2>2, <2>4, <2>5 DEF FenceInv, CurrentEpochFenced
  <2>7. clock'[p].until[u] \in Int
    <3>1. clock[p] \in Clock /\ clock \in [Process -> Clock] /\ mono \in Nat
          /\ user \in [User -> UserRow]
      BY DEF CenterTypeOK
    <3>2. [v \in User |-> user[v].epoch] \in [User -> Nat]
      BY <3>1, CenterAssumption DEF UserRow, Epoch
    <3>3. clock'[p] = Observe(clock[p], UsersOf(h), [v \in User |-> user[v].epoch], mono)
      BY <1>1, <3>1 DEF Observed
    <3>4. clock'[p] \in Clock
      BY <1>2, <3>1, <3>2, <3>3, ObserveType
    <3> QED
      BY <3>4 DEF Clock
  <2>8. issuedAt[u][f] \in Int /\ mono \in Int
    BY DEF CenterTypeOK
  <2> QED
    BY <2>4, <2>6, <2>7, <2>8, FenceAssumption
<1> QED
  BY <1>3, <1>4

\* Every step of a center whose resets commit keeps the fences and the epochs apart.
LEMMA NextFences ==
    CenterTypeOK /\ FenceInv /\ [CommittedNext]_center => FenceInv' /\ [EpochStep]_center
<1> SUFFICES ASSUME CenterTypeOK, FenceInv, [CommittedNext]_center
             PROVE  FenceInv' /\ [EpochStep]_center
  OBVIOUS
<1>1. CASE TimeStep
  <2>1. issuedAt' = issuedAt
    BY <1>1 DEF TimeStep, Tick, SetWallClock, ledger
  <2> QED
    BY <1>1, <2>1, TimeFences DEF EpochStep
<1>2. CASE ProcessStep
  <2>1. issuedAt' = issuedAt
    BY Zenon, <1>2 DEF ProcessStep, AttachSnapshot, AttachPublish, Detach, ClockFault, ledger
  <2> QED
    BY <1>2, <2>1, ProcessFences DEF EpochStep
<1>3. CASE HostStep
  <2>1. UNCHANGED <<mono, clock, issuedAt, user>>
    BY Zenon, <1>3 DEF HostStep, HostSwitch, HostDelete, RuntimeReport, IngressSave, time, ledger
  <2> QED
    BY <2>1, QuietFences DEF EpochStep
<1>4. CASE \E d \in Device : DeviceRevoke(d)
  <2>1. UNCHANGED <<mono, clock, issuedAt, user>>
    BY <1>4 DEF DeviceRevoke, time, ledger
  <2> QED
    BY <2>1, QuietFences DEF EpochStep
<1>5. CASE UserStep
  <2>1. PICK u \in User :
          \/ UserRemove(u)
          \/ \E d \in Device, expires \in ExpiryInput : DeviceCreate(u, d, expires)
          \/ \E p \in Process :
                \/ \E body \in UserBody : UserCreate(p, u, body) \/ UserUpdate(p, u, body)
                \/ UserGet(p, u)
                \/ UserReset(p, u)
    BY <1>5 DEF UserStep
  <2>2. CASE UserRemove(u)
    <3>1. UNCHANGED <<mono, clock, issuedAt>>
      BY <2>2 DEF UserRemove, time, ledger
    <3> QED
      BY <2>2, <3>1, EpochsKept, QuietFences DEF EpochStep
  <2>3. CASE \E d \in Device, expires \in ExpiryInput : DeviceCreate(u, d, expires)
    <3>1. UNCHANGED <<mono, clock, issuedAt, user>>
      BY <2>3 DEF DeviceCreate, time, ledger
    <3> QED
      BY <3>1, QuietFences DEF EpochStep
  <2>4. ASSUME NEW p \in Process, NEW body \in UserBody,
               UserCreate(p, u, body) \/ UserUpdate(p, u, body)
        PROVE  FenceInv' /\ EpochStep
    <3>1. UserWrite(u, body) /\ clock' = Observed(p, {u})
      BY <2>4 DEF UserCreate, UserUpdate
    <3>2. mono' = mono /\ issuedAt' = issuedAt
      BY <3>1 DEF UserWrite, time, ledger
    <3>3. {u} \in SUBSET User /\ IssuedNow
      BY <3>2 DEF IssuedNow
    <3> QED
      BY <3>1, <3>2, <3>3, EpochsKept, ObserveFences DEF EpochStep
  <2>5. ASSUME NEW p \in Process, UserGet(p, u)
        PROVE  FenceInv' /\ EpochStep
    <3>1. clock' = Observed(p, {u}) /\ UNCHANGED <<mono, user, issuedAt>>
      BY <2>5 DEF UserGet, time, admin, ledger
    <3>2. {u} \in SUBSET User /\ IssuedNow
      BY <3>1 DEF IssuedNow
    <3> QED
      BY <3>1, <3>2, ObserveFences DEF EpochStep
  <2>6. ASSUME NEW p \in Process, UserReset(p, u)
        PROVE  FenceInv' /\ EpochStep
    <3>1. issuedAt' = issuedAt
      BY <2>6 DEF UserReset, ledger
    <3> QED
      BY <2>6, <3>1, ResetFences DEF EpochStep
  <2> QED
    BY <2>1, <2>2, <2>3, <2>4, <2>5, <2>6
<1>6. CASE ExchangeStep
  <2>1. PICK p \in Process, h \in Host, req \in RequestInput :
          LeaseExchange(p, h, req) \/ LeaseExchangeRollback(p, h, req)
    BY <1>6 DEF ExchangeStep
  <2>2. CASE LeaseExchange(p, h, req)
    BY <2>1, <2>2, RequestAssumption, ExchangeFences
  <2>3. CASE LeaseExchangeRollback(p, h, req)
    <3>1. PICK us \in SUBSET UsersOf(h) : clock' = Observed(p, us)
      BY <2>3 DEF LeaseExchangeRollback
    <3>2. us \in SUBSET User
      BY Zenon DEF UsersOf
    <3>3. UNCHANGED <<mono, user, issuedAt>>
      BY <2>3 DEF LeaseExchangeRollback, time, admin, ledger
    <3>4. IssuedNow
      BY <3>3 DEF IssuedNow
    <3> QED
      BY <3>1, <3>2, <3>3, <3>4, ObserveFences DEF EpochStep
  <2> QED
    BY <2>1, <2>2, <2>3
<1>7. CASE UNCHANGED center
  <2>1. UNCHANGED <<mono, clock, issuedAt, user>>
    BY <1>7 DEF center, time, admin, ledger
  <2> QED
    BY <1>7, <2>1, QuietFences
<1> QED
  BY <1>1, <1>2, <1>3, <1>4, <1>5, <1>6, <1>7 DEF CommittedNext, AdminStep

(***************************************************************************)
(* However many processes serve the database, and whatever happens to the  *)
(* wall clock, a lease is issued at least one fence after the leases of    *)
(* every other epoch of its user (proxy_clock.c), as long as no reset      *)
(* fails between sb_proxy_clock_reset_epoch and its commit.                *)
(***************************************************************************)
THEOREM FenceTheorem == CommittedSpec => EpochsKeptApart
<1>1. [CommittedNext]_center => [CenterNext]_center
  BY DEF CenterNext
<1>2. CenterInv => CenterTypeOK
  BY DEF CenterInv
<1> QED
  BY <1>1, <1>2, InitInv, NextInv, FenceInit, NextFences, PTL DEF CommittedSpec, EpochsKeptApart
=============================================================================
