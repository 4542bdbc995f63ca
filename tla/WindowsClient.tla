---------------------------- MODULE WindowsClient ----------------------------
(***************************************************************************)
(* The connection of the Windows client: windows/service/controller.c and  *)
(* windows/runtime/state.c.  Everything that changes the device runs under *)
(* mutation_lock: a request of the window, a tick of the background worker *)
(* (recover, synchronise, carry out the center's commands) or a look of    *)
(* the monitor.  The service may die between any two steps; what it saved  *)
(* is all the next one knows.                                              *)
(***************************************************************************)
EXTENDS Integers, Sequences, SequencesExt

CONSTANTS Policies,       \* local identities: nodes and policy kept on the device
          CommandNames,   \* the center's commands, in order: "reload" or "restart"
          ReceiptLimit,   \* command receipts kept (128)
          Situations      \* what may happen: what the window may ask for, and how many
                          \* requests, crashes, core losses, revisions and commands come

VARIABLES disk,     \* device-state.dat
          ctl,      \* the controller's memory
          coreRun,  \* the core process: <<configuration, policy>> or NoCore
          filters,  \* the firewall: "off", "block", "tun"
          oper,     \* the operation that holds mutation_lock
          window,   \* the request that holds user_operation_lock
          ioCancel, \* management_io_cancel is set
          center,   \* its newest revision, the commands it has not seen acknowledged
          ghost,    \* configurations seen healthy, commands executed, the user's wish
          left      \* what of the situation is still to come

clientVars == <<disk, ctl, coreRun, filters, oper, window, ioCancel, center, ghost, left>>

NoCore == <<0, 0>>
NoOper == [at |-> "none"]
NoWindow == "idle"

Blank == [id |-> 1, cand |-> 1, good |-> NoCore, manual |-> FALSE, kill |-> FALSE, receipts |-> <<>>]

\* sbw_controller_new: what the store holds; a device told to connect at boot, and not
\* disconnected by its user, is due at once.
Loaded(d) ==
    [id |-> d.id, cand |-> d.cand, good |-> d.good, manual |-> d.manual, kill |-> d.kill,
     receipts |-> d.receipts, active |-> 0, desired |-> ~d.manual, retry |-> TRUE, attempts |-> 0, tried |-> 0]

ClientInit ==
    /\ disk = Blank /\ ctl = Loaded(Blank)
    /\ coreRun = NoCore /\ filters = "off" /\ oper = NoOper /\ window = NoWindow /\ ioCancel = FALSE
    /\ center = [rev |-> 1, pending |-> <<>>, issued |-> 0] /\ left \in Situations
    /\ ghost = [executed |-> [c \in DOMAIN CommandNames |-> 0], wish |-> "up"]

Up == ctl # NoOper
Running == Up /\ ctl.active # 0
-----------------------------------------------------------------------------
(***************************************************************************)
(* persisted_state and save_state.  The policy that runs is kept with the  *)
(* known-good configuration.                                               *)
(***************************************************************************)
Persisted(id, cand, good) ==
    [disk EXCEPT !.id = id, !.cand = cand, !.manual = ctl.manual, !.kill = ctl.kill, !.receipts = ctl.receipts,
                 !.good = IF good # NoCore /\ (good # ctl.good \/ Running) THEN <<good[1], id>> ELSE good]

Same == Persisted(ctl.id, ctl.cand, ctl.good)

Op(at) == oper' = [oper EXCEPT !.at = at]
Ends == oper' = NoOper /\ window' = IF oper.who = "user" THEN NoWindow ELSE window
Back(ok) == oper' = [oper EXCEPT !.at = oper.ret, !.ok = ok]

\* sb_windows_recovery_failed
RetryLater(c) == IF c.desired THEN [c EXCEPT !.retry = TRUE, !.attempts = 1] ELSE c

\* observe_core: a core that is gone is recorded and will be retried.
Observed(c) == IF c.active # 0 /\ coreRun = NoCore THEN RetryLater([c EXCEPT !.active = 0]) ELSE c
-----------------------------------------------------------------------------
(***************************************************************************)
(* connection_activate, from the check of the candidate to the rollback.   *)
(* Activate is the call; its result comes back at the label "ret".         *)
(***************************************************************************)
Activate(src, pol, force, ret) ==
    oper' = IF ~force /\ ctl.active = src THEN [oper EXCEPT !.at = ret, !.ok = TRUE]
            ELSE [oper EXCEPT !.at = "check", !.src = src, !.pol = pol, !.ret = ret]

\* prepare, check and preflight: a rejected candidate leaves the core alone.
ActivateChecks ==
    /\ oper.at = "check" /\ (Back(FALSE) \/ Op("stop"))
    /\ UNCHANGED <<disk, ctl, coreRun, filters, window, ioCancel, center, ghost, left>>

\* connection_stop: protection is put back to "block" after the core has stopped.
StopsCore(ok) ==
    /\ coreRun' = NoCore /\ ctl' = [ctl EXCEPT !.active = 0]
    /\ filters' = IF ctl.kill /\ ok THEN "block" ELSE filters

ActivateStops ==
    /\ oper.at = "stop"
    /\ \E ok \in BOOLEAN : StopsCore(ok) /\ (IF ok THEN Op("launch") ELSE Back(FALSE))
    /\ UNCHANGED <<disk, window, ioCancel, center, ghost, left>>

\* launch_healthy: start, poll, health, selections, then the interface is let through.
ActivateLaunches ==
    /\ oper.at = "launch"
    /\ \/ /\ coreRun' = <<oper.src, oper.pol>> /\ Op("commit")
          /\ filters' = IF ctl.kill THEN "tun" ELSE filters
       \/ /\ coreRun' \in {NoCore, <<oper.src, oper.pol>>} /\ Op("cleanup")
          /\ filters' = (IF ctl.kill THEN "block" ELSE filters)
    /\ UNCHANGED <<disk, ctl, window, ioCancel, center, ghost, left>>

\* The durable commit comes after health; if it fails the old configuration returns.
ActivateCommits ==
    /\ oper.at = "commit"
    /\ \/ /\ disk' = Persisted(oper.pol, ctl.cand, <<oper.src, oper.pol>>) /\ Back(TRUE)
          /\ ctl' = [ctl EXCEPT !.id = oper.pol, !.good = <<oper.src, oper.pol>>,
                                !.active = oper.src, !.retry = FALSE]
       \/ Op("cleanup") /\ UNCHANGED <<disk, ctl>>
    /\ UNCHANGED <<coreRun, filters, window, ioCancel, center, ghost, left>>

ActivateCleansUp ==
    /\ oper.at = "cleanup" /\ coreRun' = NoCore
    /\ \/ ctl.good # NoCore /\ Op("rollback")
       \/ Back(FALSE)                              \* nothing to restore, or not safe to
    /\ UNCHANGED <<disk, ctl, filters, window, ioCancel, center, ghost, left>>

ActivateRollsBack ==
    /\ oper.at = "rollback" /\ Back(FALSE)
    /\ \/ /\ coreRun' = ctl.good /\ ctl' = [ctl EXCEPT !.id = ctl.good[2], !.active = ctl.good[1]]
          /\ filters' = IF ctl.kill THEN "tun" ELSE filters
       \/ /\ coreRun' = NoCore /\ filters' = (IF ctl.kill THEN "block" ELSE filters) /\ UNCHANGED ctl
    /\ UNCHANGED <<disk, window, ioCancel, center, ghost, left>>

ActivateStep ==
    ActivateChecks \/ ActivateStops \/ ActivateLaunches \/ ActivateCommits \/ ActivateCleansUp \/ ActivateRollsBack
-----------------------------------------------------------------------------
(***************************************************************************)
(* sbw_controller_dispatch.  A request takes user_operation_lock or is     *)
(* told BUSY, interrupts the worker's I/O, and waits for mutation_lock.    *)
(***************************************************************************)
WindowAsks(want) ==
    /\ Up /\ window = NoWindow /\ left.requests > 0 /\ left' = [left EXCEPT !.requests = @ - 1]
    /\ window' = want /\ ioCancel' = TRUE
    /\ UNCHANGED <<disk, ctl, coreRun, filters, oper, center, ghost>>

NewOper(who, at) == [who |-> who, at |-> at, src |-> 0, pol |-> 0, ret |-> "none", ok |-> FALSE, list |-> <<>>]

WindowEnters ==
    /\ Up /\ window # NoWindow /\ oper = NoOper
    /\ oper' = NewOper("user", window) /\ ctl' = Observed(ctl)
    /\ UNCHANGED <<disk, coreRun, filters, window, ioCancel, center, ghost, left>>

\* connection_intent, then connection_activate or connection_stop.
WindowStarts ==
    /\ oper.at = "start"
    /\ \/ /\ disk' = [Same EXCEPT !.manual = FALSE]
          /\ ctl' = [ctl EXCEPT !.manual = FALSE, !.desired = TRUE, !.retry = TRUE, !.attempts = 0]
          /\ ghost' = [ghost EXCEPT !.wish = "up"]
          /\ Activate(ctl.cand, ctl.id, FALSE, "started") /\ UNCHANGED window
       \/ Ends /\ UNCHANGED <<disk, ctl, ghost>>
    /\ UNCHANGED <<coreRun, filters, ioCancel, center, left>>

WindowStarted ==
    /\ oper.at = "started" /\ Ends
    /\ ctl' = IF ~oper.ok /\ ~Running THEN RetryLater(ctl) ELSE ctl
    /\ UNCHANGED <<disk, coreRun, filters, ioCancel, center, ghost, left>>

\* The wish is remembered before the core is stopped; it is stopped either way.
WindowStopIntends ==
    /\ oper.at = "disconnect" /\ \E ok \in BOOLEAN :
          /\ disk' = IF ok THEN [Same EXCEPT !.manual = TRUE] ELSE disk
          /\ ctl' = [ctl EXCEPT !.manual = IF ok THEN TRUE ELSE @, !.desired = FALSE, !.retry = TRUE, !.attempts = 0]
          /\ oper' = [oper EXCEPT !.at = "disconnecting", !.ok = ok]
    /\ UNCHANGED <<coreRun, filters, window, ioCancel, center, ghost, left>>

WindowStops ==
    /\ oper.at = "disconnecting" /\ Ends /\ \E ok \in BOOLEAN : StopsCore(ok)
    /\ ghost' = [ghost EXCEPT !.wish = IF oper.ok THEN "down" ELSE @]
    /\ UNCHANGED <<disk, ioCancel, center, left>>

\* refresh_configuration: stored before it is published.
Refreshes(ok) ==
    IF ok /\ center.rev # ctl.cand
    THEN /\ disk' = Persisted(ctl.id, center.rev, ctl.good)
         /\ ctl' = [ctl EXCEPT !.cand = center.rev,
                               !.good = IF @ # NoCore /\ Running THEN <<@[1], ctl.id>> ELSE @]
    ELSE UNCHANGED <<disk, ctl>>

WindowRefreshes ==
    /\ oper.at = "refresh" /\ Ends /\ \E ok \in BOOLEAN : Refreshes(ok)
    /\ UNCHANGED <<coreRun, filters, ioCancel, center, ghost, left>>

\* apply_local_identity: live through the activation, stopped after the core's check.
WindowChangesPolicy ==
    /\ oper.at = "policy" /\ \E pol \in Policies \ {ctl.id} :
          IF Running
          THEN Activate(ctl.active, pol, TRUE, "answer") /\ UNCHANGED <<disk, ctl, window>>
          ELSE /\ Ends
               /\ \/ disk' = Persisted(pol, ctl.cand, ctl.good) /\ ctl' = [ctl EXCEPT !.id = pol]
                  \/ UNCHANGED <<disk, ctl>>
    /\ UNCHANGED <<coreRun, filters, ioCancel, center, ghost, left>>

\* routing.set: the live selector, if there is one, is switched, then the policy saved;
\* a failed save switches back.
WindowSelects ==
    /\ oper.at = "select" /\ Ends
    /\ \/ UNCHANGED <<disk, ctl, coreRun>>
       \/ \E pol \in Policies \ {ctl.id} :
             /\ disk' = Persisted(pol, ctl.cand, ctl.good)
             /\ ctl' = [ctl EXCEPT !.id = pol, !.good = IF @ # NoCore /\ Running THEN <<@[1], pol>> ELSE @]
             /\ coreRun' \in {coreRun, IF coreRun = NoCore THEN NoCore ELSE <<coreRun[1], pol>>}
    /\ UNCHANGED <<filters, ioCancel, center, ghost, left>>

WindowAnswers ==
    /\ oper.at = "answer" /\ Ends /\ UNCHANGED <<disk, ctl, coreRun, filters, ioCancel, center, ghost, left>>

Protection(on) == IF ~on THEN "off" ELSE IF Running THEN "tun" ELSE "block"

\* management_settings_change: protection is changed, then saved, or put back.
KillSwitchApplies ==
    /\ oper.at = "protect"
    /\ \/ filters' = Protection(~ctl.kill) /\ Op("protecting") /\ UNCHANGED window
       \/ Ends /\ UNCHANGED filters
    /\ UNCHANGED <<disk, ctl, coreRun, ioCancel, center, ghost, left>>

KillSwitchSaves ==
    /\ oper.at = "protecting" /\ Ends
    /\ \/ disk' = [Same EXCEPT !.kill = ~ctl.kill] /\ ctl' = [ctl EXCEPT !.kill = ~@] /\ UNCHANGED filters
       \/ filters' = Protection(ctl.kill) /\ UNCHANGED <<disk, ctl>>
    /\ UNCHANGED <<coreRun, ioCancel, center, ghost, left>>

WindowStep ==
    \/ WindowStarts \/ WindowStarted \/ WindowStopIntends \/ WindowStops \/ WindowRefreshes
    \/ WindowChangesPolicy \/ WindowSelects \/ WindowAnswers \/ KillSwitchApplies \/ KillSwitchSaves
-----------------------------------------------------------------------------
\* It never begins, nor forgets an interruption, while a request waits.
TickBegins ==
    /\ Up /\ oper = NoOper /\ window = NoWindow /\ oper' = NewOper("tick", "recover") /\ ioCancel' = FALSE
    /\ UNCHANGED <<disk, ctl, coreRun, filters, window, center, ghost, left>>

\* The missing protection is put back; a change of the network restarts the known-good
\* configuration, a lost core what is due: the candidate first, later the known-good.
TickRecovers ==
    /\ oper.at = "recover"
    /\ filters' = IF ctl.kill /\ filters = "off" THEN Protection(TRUE) ELSE filters
    /\ LET seen == Observed(ctl)
           good == IF seen.good # NoCore THEN seen.good ELSE <<seen.cand, seen.id>>
           first == IF seen.attempts > 0 THEN good ELSE <<seen.cand, seen.id>>
       IN  \/ seen.active # 0 /\ ctl' = [seen EXCEPT !.retry = FALSE, !.attempts = 0] /\ Op("sync")
           \/ seen.active = 0 /\ ~(seen.desired /\ seen.retry) /\ ctl' = seen /\ Op("sync")
           \/ /\ seen.active = 0 /\ seen.desired /\ seen.retry /\ ctl' = seen
              /\ oper' = [oper EXCEPT !.at = "check", !.src = first[1], !.pol = first[2], !.ret = "recovered"]
           \/ /\ seen.desired /\ ctl' = seen                             \* the network changed
              /\ oper' = [oper EXCEPT !.at = "check", !.src = good[1], !.pol = good[2], !.ret = "recovered"]
    /\ UNCHANGED <<disk, coreRun, window, ioCancel, center, ghost, left>>

TickRecovered ==
    /\ oper.at = "recovered" /\ Op("sync")
    /\ ctl' = IF ~oper.ok /\ ~Running THEN RetryLater(ctl) ELSE ctl
    /\ UNCHANGED <<disk, coreRun, filters, window, ioCancel, center, ghost, left>>

TickSyncs ==
    /\ oper.at = "sync"
    /\ IF ioCancel THEN Ends /\ UNCHANGED <<disk, ctl>>
       ELSE /\ UNCHANGED window
            /\ \E ok \in BOOLEAN : Refreshes(ok) /\ Op(IF ok THEN "compare" ELSE "commands")
    /\ UNCHANGED <<coreRun, filters, ioCancel, center, ghost, left>>

\* A revision that failed is not tried again until there is a new one.
TickCompares ==
    /\ oper.at = "compare"
    /\ IF Running /\ ctl.active # ctl.cand /\ ctl.tried # ctl.cand
       THEN /\ ctl' = [ctl EXCEPT !.tried = ctl.cand]
            /\ oper' = [oper EXCEPT !.at = "check", !.src = ctl.cand, !.pol = ctl.id, !.ret = "commands"]
       ELSE Op("commands") /\ UNCHANGED ctl
    /\ UNCHANGED <<disk, coreRun, filters, window, ioCancel, center, ghost, left>>
-----------------------------------------------------------------------------
(***************************************************************************)
(* management_commands.                                                    *)
(***************************************************************************)
TickFetches ==
    /\ oper.at = "commands"
    /\ IF ioCancel \/ center.pending = <<>> THEN Ends
       ELSE UNCHANGED window /\ oper' = [oper EXCEPT !.at = "command", !.list = center.pending]
    /\ UNCHANGED <<disk, ctl, coreRun, filters, ioCancel, center, ghost, left>>

Receipt(c) == IF \E k \in DOMAIN ctl.receipts : ctl.receipts[k][1] = c
              THEN (CHOOSE r \in ToSet(ctl.receipts) : r[1] = c)[2] ELSE "none"

\* save_receipt: the newest ReceiptLimit receipts are kept.
WithReceipt(c, status) ==
    LET rest == SelectSeq(ctl.receipts, LAMBDA r : r[1] # c)
        all == Append(rest, <<c, status>>)
    IN  IF Len(all) > ReceiptLimit THEN Tail(all) ELSE all

SavesReceipt(c, status, next) ==
    \/ /\ ctl' = [ctl EXCEPT !.receipts = WithReceipt(c, status)]
       /\ disk' = [Same EXCEPT !.receipts = WithReceipt(c, status)]
       /\ Op(next) /\ UNCHANGED window
    \/ Ends /\ UNCHANGED <<ctl, disk>>                        \* not saved: the tick gives up

CommandReceivedUnsaved ==
    /\ oper.at = "command" /\ oper.list # <<>> /\ Receipt(Head(oper.list)) = "none"
    /\ Op("execute") /\ UNCHANGED <<disk, ctl, coreRun, filters, window, ioCancel, center, ghost, left>>

\* The intent is saved before the command is carried out.
CommandReceived ==
    /\ oper.at = "command" /\ oper.list # <<>> /\ Receipt(Head(oper.list)) = "none"
    /\ SavesReceipt(Head(oper.list), "pending", "execute")
    /\ UNCHANGED <<coreRun, filters, ioCancel, center, ghost, left>>

CommandRepeated ==
    /\ oper.at = "command" /\ oper.list # <<>> /\ Receipt(Head(oper.list)) # "none"
    /\ IF Receipt(Head(oper.list)) = "pending" THEN SavesReceipt(Head(oper.list), "failed", "acknowledge")
       ELSE Op("acknowledge") /\ UNCHANGED <<disk, ctl, window>>
    /\ UNCHANGED <<coreRun, filters, ioCancel, center, ghost, left>>

CommandsDone ==
    /\ oper.at = "command" /\ oper.list = <<>> /\ Ends
    /\ UNCHANGED <<disk, ctl, coreRun, filters, ioCancel, center, ghost, left>>

RestartsAnyway ==
    /\ oper.at = "execute" /\ CommandNames[Head(oper.list)] = "restart"
    /\ ghost' = [ghost EXCEPT !.executed[Head(oper.list)] = @ + 1]
    /\ Activate(ctl.cand, ctl.id, TRUE, "outcome")
    /\ UNCHANGED <<disk, ctl, coreRun, filters, window, ioCancel, center, left>>

\* "restart" is refused while the user keeps the device disconnected.
CommandRestarts ==
    /\ oper.at = "execute" /\ CommandNames[Head(oper.list)] = "restart"
    /\ ghost' = [ghost EXCEPT !.executed[Head(oper.list)] = @ + 1]
    /\ IF ~ctl.desired \/ ctl.manual THEN oper' = [oper EXCEPT !.at = "outcome", !.ok = FALSE]
       ELSE Activate(ctl.cand, ctl.id, TRUE, "outcome")
    /\ UNCHANGED <<disk, ctl, coreRun, filters, window, ioCancel, center, left>>

CommandReloads ==
    /\ oper.at = "execute" /\ CommandNames[Head(oper.list)] = "reload"
    /\ ghost' = [ghost EXCEPT !.executed[Head(oper.list)] = @ + 1]
    /\ \E ok \in BOOLEAN :
          /\ Refreshes(ok)
          /\ IF ok /\ Running /\ ctl'.active # ctl'.cand
             THEN oper' = [oper EXCEPT !.at = "check", !.src = ctl'.cand, !.pol = ctl.id, !.ret = "outcome"]
             ELSE oper' = [oper EXCEPT !.at = "outcome", !.ok = ok]
    /\ UNCHANGED <<coreRun, filters, window, ioCancel, center, left>>

CommandOutcome ==
    /\ oper.at = "outcome"
    /\ SavesReceipt(Head(oper.list), IF oper.ok THEN "done" ELSE "failed", "acknowledge")
    /\ UNCHANGED <<coreRun, filters, ioCancel, center, ghost, left>>

\* The acknowledgement arrives, arrives unanswered, or is lost.
CommandAcknowledged ==
    /\ oper.at = "acknowledge"
    /\ \/ /\ oper' = [oper EXCEPT !.at = "command", !.list = Tail(@)] /\ UNCHANGED window
          /\ center' = [center EXCEPT !.pending = SelectSeq(@, LAMBDA c : c # Head(oper.list))]
       \/ Ends /\ center' = [center EXCEPT !.pending = SelectSeq(@, LAMBDA c : c # Head(oper.list))]
       \/ Ends /\ UNCHANGED center
    /\ UNCHANGED <<disk, ctl, coreRun, filters, ioCancel, ghost, left>>

TickStep ==
    \/ TickRecovers \/ TickRecovered \/ TickSyncs \/ TickCompares \/ TickFetches
    \/ CommandReceived \/ CommandRepeated \/ CommandsDone \/ CommandRestarts \/ CommandReloads
    \/ CommandOutcome \/ CommandAcknowledged
-----------------------------------------------------------------------------
\* monitor_main and sbw_controller_poll, when they get the lock.
MonitorObserves ==
    /\ Up /\ oper = NoOper /\ Observed(ctl) # ctl /\ ctl' = Observed(ctl)
    /\ UNCHANGED <<disk, coreRun, filters, oper, window, ioCancel, center, ghost, left>>

CoreLost ==
    /\ coreRun # NoCore /\ left.losses > 0 /\ coreRun' = NoCore /\ left' = [left EXCEPT !.losses = @ - 1]
    /\ UNCHANGED <<disk, ctl, filters, oper, window, ioCancel, center, ghost>>

\* The service dies; its job object ends the core; the firewall rules stay.
ServiceDies ==
    /\ Up /\ left.crashes > 0 /\ left' = [left EXCEPT !.crashes = @ - 1]
    /\ ctl' = NoOper /\ oper' = NoOper /\ window' = NoWindow /\ ioCancel' = FALSE /\ coreRun' = NoCore
    /\ UNCHANGED <<disk, filters, center, ghost>>

\* sbw_controller_new and sbw_controller_start_background.
ServiceStartsAgain ==
    /\ ~Up /\ ctl' = Loaded(disk) /\ filters' = IF disk.kill THEN "block" ELSE "off"
    /\ UNCHANGED <<disk, coreRun, oper, window, ioCancel, center, ghost, left>>

CenterPublishes ==
    /\ left.revisions > 0 /\ left' = [left EXCEPT !.revisions = @ - 1]
    /\ center' = [center EXCEPT !.rev = @ + 1]
    /\ UNCHANGED <<disk, ctl, coreRun, filters, oper, window, ioCancel, ghost>>

CenterCommands ==
    /\ left.commands > 0 /\ left' = [left EXCEPT !.commands = @ - 1]
    /\ center' = [center EXCEPT !.issued = @ + 1, !.pending = Append(@, center.issued + 1)]
    /\ UNCHANGED <<disk, ctl, coreRun, filters, oper, window, ioCancel, ghost>>

ClientNext ==
    \/ ActivateStep \/ WindowStep \/ TickStep \/ TickBegins \/ WindowEnters
    \/ \E want \in left.wants : WindowAsks(want)
    \/ MonitorObserves \/ CoreLost \/ ServiceDies \/ ServiceStartsAgain \/ CenterPublishes \/ CenterCommands

\* Every operation has timeouts and ends; a lock that is free is taken.
OperStep == ActivateStep \/ WindowStep \/ TickStep
ClientFairness == WF_clientVars(OperStep) /\ WF_clientVars(WindowEnters)

ClientSpec == ClientInit /\ [][ClientNext]_clientVars /\ ClientFairness
-----------------------------------------------------------------------------
(***************************************************************************)
(* Properties.                                                             *)
(***************************************************************************)
\* A command of the center is carried out at most once, whatever dies or is lost
\* between its receipt and its acknowledgement.
CommandOnce == \A c \in DOMAIN CommandNames : ghost.executed[c] <= 1

\* What the user decided stands.  Once a disconnection has been confirmed, no core runs until
\* the user connects again: not for a remote restart, a new revision, a network change, a
\* reboot.  While protection is on, the firewall rules are never off, except between the two
\* steps of switching them off.
WishesStand ==
    /\ ghost.wish = "down" => coreRun = NoCore
    /\ Up /\ ctl.kill /\ oper.at # "protecting" => filters # "off"

=============================================================================
