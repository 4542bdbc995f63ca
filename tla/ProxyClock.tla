----------------------------- MODULE ProxyClock -----------------------------
(***************************************************************************)
(* The process-local epoch fence of the control plane                      *)
(* (c/src/proxy_clock.c).  Every center process keeps, per database file,  *)
(* the epoch it last saw of each proxy user and a monotonic instant before *)
(* which it must not issue a lease for that user.  The fences of two       *)
(* processes share nothing: each one is started by what the process itself *)
(* observes.  A clock is a record; `now' is the monotonic time, which the  *)
(* process cannot read while its clock is broken (read_now returns -1).    *)
(***************************************************************************)
EXTENDS Integers

CONSTANTS User,        \* identifiers of proxy users
          FENCE        \* FENCE_MS, in ticks of the monotonic clock

ASSUME FenceAssumption == FENCE \in Nat

(***************************************************************************)
(* phase "snapshot" lies between the committed read of the database and    *)
(* the clock read that dates the fences; epoch 0 stands for a user without *)
(* an entry; outstanding is the answer of the snapshot's EXISTS query.     *)
(***************************************************************************)
Clock == [phase : {"down", "snapshot", "up"}, broken : BOOLEAN,
          outstanding : BOOLEAN, startup : Nat,
          epoch : [User -> Nat], until : [User -> Nat]]

NoClock == [phase |-> "down", broken |-> FALSE, outstanding |-> FALSE,
            startup |-> 0, epoch |-> [u \in User |-> 0],
            until |-> [u \in User |-> 0]]

Readable(c) == c.phase = "up" /\ ~c.broken

(***************************************************************************)
(* initialize_snapshot, first half: the epochs of the users that are not   *)
(* deleted (0 for the others) and whether some grant is not used up.       *)
(***************************************************************************)
Snapshot(c, epochs, outstanding) ==
    [c EXCEPT !.phase = "snapshot", !.epoch = epochs, !.outstanding = outstanding]

(***************************************************************************)
(* initialize_snapshot, second half, and the publication in the registry:  *)
(* a process that starts over unused grants waits one fence for everybody, *)
(* and one fence for every user that has ever been reset.                  *)
(***************************************************************************)
Publish(c, now) ==
    [c EXCEPT !.phase   = "up",
              !.startup = IF c.outstanding THEN now + FENCE ELSE 0,
              !.until   = [u \in User |-> IF c.epoch[u] > 1 THEN now + FENCE ELSE 0]]

(***************************************************************************)
(* observe_epoch, for a set of users whose rows were read: an unknown user *)
(* of epoch 1 is free, any other difference from the recorded epoch,       *)
(* backwards included, starts a new fence.                                 *)
(***************************************************************************)
FenceOf(c, u, e, now) ==
    IF c.epoch[u] = e THEN c.until[u]
    ELSE IF c.epoch[u] = 0 /\ e = 1 THEN 0 ELSE now + FENCE

Observe(c, us, epochs, now) ==
    IF ~Readable(c) THEN c
    ELSE [c EXCEPT
            !.epoch = [u \in User |-> IF u \in us THEN epochs[u] ELSE c.epoch[u]],
            !.until = [u \in User |-> IF u \in us THEN FenceOf(c, u, epochs[u], now)
                                                  ELSE c.until[u]]]

(***************************************************************************)
(* sb_proxy_clock_wait_ms = 0, in the clock that made the observation: a   *)
(* clock that cannot be read reports a whole fence.                        *)
(***************************************************************************)
MayIssue(c, u, now) ==
    /\ Readable(c)
    /\ c.until[u] <= now
    /\ c.startup <= now

\* Faulty: the process that resets records the epoch without fencing it.
ResetEpochUnfenced(c, u, e, now) ==
    IF ~Readable(c) THEN c ELSE [c EXCEPT !.epoch[u] = e]

\* sb_proxy_clock_reset_epoch: observe, then fence whatever was observed.
ResetEpoch(c, u, e, now) ==
    IF ~Readable(c) THEN c
    ELSE [c EXCEPT !.epoch[u] = e, !.until[u] = now + FENCE]
=============================================================================
