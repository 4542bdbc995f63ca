------------------------------- MODULE Updater -------------------------------
(***************************************************************************)
(* Updating the Windows client: windows/service/update_transaction.c (the  *)
(* helper that outlives the service it replaces) and updater.c (the        *)
(* service's side).  The helper stops the service, saves its state, runs   *)
(* the installer and either keeps the new version or puts the old state    *)
(* back; the helper, the installer and the machine may die at any point,   *)
(* and what is on disk decides how a recovery goes on.                     *)
(***************************************************************************)
EXTENDS Integers

CONSTANTS Installs,     \* update attempts
          Crashes       \* helpers killed and power failures

VARIABLES machine,      \* the registered product, the files installed, the service
                        \* running, and device-state.dat
          msi,          \* Windows Installer (external)
          stage,        \* updates/staging: job, transaction.json, backup, health.json
          verdict,      \* the phase in updates/current.json
          memory,       \* updater->phase of the running service, and cancel
          launched,     \* helper processes that have not yet tried the lock
          helper,       \* the update helper, if one holds transaction.lock
          budget        \* attempts and crashes left

updateVars == <<machine, msi, stage, verdict, memory, launched, helper, budget>>

NoHelper == [at |-> "none"]
Original == "original"          \* the state as the old version left it
NoData == "no data"

UpdateInit ==
    /\ \E data \in {Original, NoData} :
          machine = [product |-> "old", files |-> "old", service |-> "old", data |-> data, was |-> data]
    /\ msi = "idle"
    /\ stage = [job |-> FALSE, journal |-> "none", existed |-> FALSE, backup |-> NoData, health |-> "none"]
    /\ verdict = "none" /\ helper = NoHelper /\ launched = {}
    /\ memory = [phase |-> "idle", cancel |-> FALSE]
    /\ budget = [installs |-> Installs, crashes |-> Crashes]

Helper(at, recover) ==
    [at |-> at, recover |-> recover, backup |-> FALSE, existed |-> FALSE, restored |-> FALSE, stopped |-> FALSE]

Write(h) == helper' = h
To(at) == [helper EXCEPT !.at = at]
Fails == Write(To("terminal"))

\* refresh_result_locked: a phase that came from disk follows the disk.
Adopted(phase) == IF phase \in {"installing", "idle"} /\ verdict # "none" THEN verdict ELSE phase

Blocked(phase) == phase \in {"checking", "downloading", "installing", "recovery_required"}

\* The service is started, unless it runs; sbw_updater_new: one that starts while an
\* update is under way launches a recovery, or cannot and says so.
StartService(m) ==
    /\ machine' = [m EXCEPT !.service = m.files]
    /\ IF m.service = "off"
       THEN \/ memory' = [phase |-> Adopted("idle"), cancel |-> FALSE]
               /\ launched' = IF Adopted("idle") = "installing" THEN launched \union {"recover"} ELSE launched
            \/ /\ Adopted("idle") = "installing" /\ UNCHANGED launched
               /\ memory' = [phase |-> "recovery_required", cancel |-> FALSE]
       ELSE UNCHANGED <<memory, launched>>
-----------------------------------------------------------------------------
(***************************************************************************)
(* updater.c, the running service.                                         *)
(***************************************************************************)
Phase(p) == memory' = [memory EXCEPT !.phase = p]

UpdaterStatus ==
    /\ machine.service # "off" /\ Adopted(memory.phase) # memory.phase /\ Phase(Adopted(memory.phase))
    /\ UNCHANGED <<machine, msi, stage, verdict, launched, helper, budget>>

\* sbw_updater_check and sbw_updater_download start the worker.
UpdaterCheck ==
    /\ budget.installs > 0 /\ machine.service = "old" /\ machine.product = "old"
    /\ ~Blocked(Adopted(memory.phase)) /\ memory' = [phase |-> "checking", cancel |-> FALSE]
    /\ UNCHANGED <<machine, msi, stage, verdict, launched, helper, budget>>

UpdaterDownload ==
    /\ machine.service # "off" /\ memory.phase = "available"
    /\ memory' = [phase |-> "downloading", cancel |-> FALSE]
    /\ UNCHANGED <<machine, msi, stage, verdict, launched, helper, budget>>

UpdaterCancel ==
    /\ machine.service # "off" /\ memory.phase \in {"checking", "downloading"} /\ ~memory.cancel
    /\ memory' = [memory EXCEPT !.cancel = TRUE]
    /\ UNCHANGED <<machine, msi, stage, verdict, launched, helper, budget>>

\* update_worker; a cancellation may come after its last look at the event.
UpdateWorker ==
    /\ machine.service # "off"
    /\ \/ memory.phase = "checking" /\ \E p \in {"available", "current", "failed"} : Phase(p)
       \/ memory.phase = "downloading" /\ \E p \in {"ready", "failed"} : Phase(p)
       \/ memory.phase \in {"checking", "downloading"} /\ memory.cancel /\ Phase("cancelled")
    /\ UNCHANGED <<machine, msi, stage, verdict, launched, helper, budget>>

\* sbw_updater_install: the leftovers of an earlier attempt are removed, the job and
\* "installing" are written, the helper is started.  By now the helpers of an earlier
\* attempt have come and gone.
UpdaterInstall ==
    /\ budget.installs > 0 /\ machine.service = "old" /\ machine.product = "old"
    /\ helper = NoHelper /\ launched = {}
    /\ memory.phase = "ready"
    /\ stage' = [job |-> TRUE, journal |-> "none", existed |-> FALSE, backup |-> NoData, health |-> "none"]
    /\ \/ verdict' = "installing" /\ launched' = {"apply"} /\ Phase("installing")
       \/ verdict' = "none" /\ UNCHANGED <<launched, memory>>         \* no helper could be started
    /\ budget' = [budget EXCEPT !.installs = @ - 1]
    /\ UNCHANGED <<machine, msi, helper>>

\* sbw_updater_recover, asked for by the user.
UpdaterRecover ==
    /\ machine.service # "off" /\ Adopted(memory.phase) \in {"installing", "recovery_required"}
    /\ verdict \in {"installing", "recovery_required"} /\ helper = NoHelper /\ launched = {}
    /\ Phase(Adopted(memory.phase)) /\ launched' = {"recover"}
    /\ UNCHANGED <<machine, msi, stage, verdict, helper, budget>>

\* A helper process tries transaction.lock and leaves if another one holds it.
HelperEnters ==
    /\ \E way \in launched :
          /\ launched' = launched \ {way}
          /\ IF helper = NoHelper
             THEN Write(Helper(IF way = "apply" THEN "begin" ELSE "wait", way = "recover"))
             ELSE UNCHANGED helper
    /\ UNCHANGED <<machine, msi, stage, verdict, memory, budget>>
-----------------------------------------------------------------------------
(***************************************************************************)
(* sbw_update_helper_main --apply.  Each durable write, each change of the *)
(* service is a step; each may fail and lead to "terminal".                *)
(***************************************************************************)
Journal(phase) == stage' = [stage EXCEPT !.journal = phase, !.existed = helper.existed]

ApplyPrepares ==        \* job, version and package verified
    /\ helper.at = "begin" /\ stage' = [stage EXCEPT !.journal = "prepared", !.health = "none"]
    /\ Write(To("stop")) /\ UNCHANGED <<machine, msi, verdict, memory, launched, budget>>

ApplyStops ==
    /\ helper.at = "stop" /\ machine' = [machine EXCEPT !.service = "off"]
    /\ Write([To("copy") EXCEPT !.stopped = TRUE])
    /\ UNCHANGED <<msi, stage, verdict, memory, launched, budget>>

\* "service_stopped" is journalled before the copy, "backed_up" after it.
ApplyCopies ==
    /\ helper.at = "copy"
    /\ stage' = [stage EXCEPT !.journal = "service_stopped", !.backup = machine.data]
    /\ Write([To("backed up") EXCEPT !.existed = machine.data # NoData])
    /\ UNCHANGED <<machine, msi, verdict, memory, launched, budget>>

ApplyBackedUp ==
    /\ helper.at = "backed up" /\ Journal("backed_up")
    /\ Write([To("install") EXCEPT !.backup = TRUE])
    /\ UNCHANGED <<machine, msi, verdict, memory, launched, budget>>

ApplyInstalls ==
    /\ helper.at = "install" /\ Journal("installing") /\ msi' = "started"
    /\ Write(To("installing")) /\ UNCHANGED <<machine, verdict, memory, launched, budget>>

Confirmed == stage.health = "new" /\ machine.product = "new"

\* The installer returned: the new version counts only with its recorded health.
ApplyReturns ==
    /\ helper.at = "installing" /\ msi = "idle"
    /\ \/ Confirmed /\ verdict' = "succeeded" /\ Journal("complete") /\ Write(NoHelper)
       \/ /\ UNCHANGED <<verdict, stage>>
          /\ \/ Fails                                    \* succeeded, but unconfirmed
             \/ machine.product # "new" /\ Write([To("restore") EXCEPT !.restored = TRUE])
    /\ UNCHANGED <<machine, msi, memory, launched, budget>>

\* Any check, write or service control of the above may fail.
HelperFails ==
    /\ helper.at \in {"begin", "stop", "copy", "backed up", "install"}
    /\ Fails /\ UNCHANGED <<machine, msi, stage, verdict, memory, launched, budget>>
-----------------------------------------------------------------------------
(***************************************************************************)
(* restore_previous.                                                       *)
(***************************************************************************)
RestoreStops ==
    /\ helper.at = "restore"
    /\ IF machine.product = "old"
       THEN /\ machine' = [machine EXCEPT !.service = "off"] /\ Journal("restoring") /\ Write(To("put back"))
       ELSE Fails /\ UNCHANGED <<machine, stage>>
    /\ UNCHANGED <<msi, verdict, memory, launched, budget>>

RestorePutsBackCopy ==
    /\ helper.at = "put back"
    /\ machine' = [machine EXCEPT !.data = IF helper.existed THEN stage.backup ELSE @]
    /\ Write(To("restart")) /\ UNCHANGED <<msi, stage, verdict, memory, launched, budget>>

\* The saved state is copied back, or removed if there was none.
RestorePutsBack ==
    /\ helper.at = "put back"
    /\ machine' = [machine EXCEPT !.data = IF helper.existed THEN stage.backup ELSE NoData]
    /\ Write(To("restart")) /\ UNCHANGED <<msi, stage, verdict, memory, launched, budget>>

\* The old service starts and answers the health call, which it records.
RestoreRestarts ==
    /\ helper.at = "restart"
    /\ StartService(machine) /\ stage' = [stage EXCEPT !.health = "rollback"]
    /\ Write(To("rolled back")) /\ UNCHANGED <<msi, verdict, budget>>

RestoreEnds ==
    /\ helper.at = "rolled back" /\ verdict' = "rolled_back" /\ Journal("complete") /\ Write(NoHelper)
    /\ UNCHANGED <<machine, msi, memory, launched, budget>>

RestoreFails ==
    /\ helper.at \in {"restore", "put back", "restart", "rolled back"}
    /\ Fails /\ UNCHANGED <<machine, msi, stage, verdict, memory, launched, budget>>

\* The label "terminal": a backup that was not tried is restored; a service stopped
\* before it is started again; the verdict is written.
HelperTerminal ==
    /\ helper.at = "terminal"
    /\ IF helper.backup /\ ~helper.restored
       THEN /\ Write([To("restore") EXCEPT !.restored = TRUE])
            /\ UNCHANGED <<machine, verdict, stage, memory, launched>>
       ELSE /\ verdict' = IF helper.backup \/ helper.recover THEN "recovery_required" ELSE "failed"
            /\ IF helper.stopped /\ ~helper.backup
               THEN StartService(machine) /\ stage' = [stage EXCEPT !.health = "rollback"]
               ELSE UNCHANGED <<machine, stage, memory, launched>>
            /\ Write(NoHelper)
    /\ UNCHANGED <<msi, budget>>
-----------------------------------------------------------------------------
\* A previous helper may have died while the installer was still rolling back.
RecoverWaits ==
    /\ helper.at = "wait"
    /\ \/ /\ msi = "idle"
          /\ Write([To("decide") EXCEPT !.existed = stage.existed,
                                        !.backup = stage.journal \in {"backed_up", "installing", "restoring"}])
       \/ msi # "idle" /\ Fails                          \* still busy after ten minutes
    /\ UNCHANGED <<machine, msi, stage, verdict, memory, launched, budget>>

RecoverDecides ==
    /\ helper.at = "decide"
    /\ CASE machine.product = "new" -> Write(To(IF stage.health = "new" THEN "keep" ELSE "terminal"))
         [] machine.product = "none" -> Fails
         [] machine.product = "old" /\ helper.backup -> Write([To("restore") EXCEPT !.restored = TRUE])
         [] OTHER -> Write(To(IF stage.journal = "complete" THEN "terminal" ELSE "undo"))
    /\ UNCHANGED <<machine, msi, stage, verdict, memory, launched, budget>>

\* The new version was confirmed: it is started and asked again.
RecoverKeeps ==
    /\ helper.at = "keep"
    /\ StartService(machine)
    /\ \/ verdict' = "succeeded" /\ Journal("complete") /\ Write(NoHelper)
       \/ Fails /\ UNCHANGED <<verdict, stage>>
    /\ UNCHANGED <<msi, budget>>

\* No durable backup: the installation was never started.
RecoverUndoes ==
    /\ helper.at = "undo"
    /\ StartService(machine)
    /\ \/ verdict' = "failed" /\ stage' = [stage EXCEPT !.health = "rollback"] /\ Write(NoHelper)
       \/ Fails /\ UNCHANGED <<verdict, stage>>
    /\ UNCHANGED <<msi, budget>>
-----------------------------------------------------------------------------
(***************************************************************************)
(* Windows Installer with this package (installer/Package.wxs): the old    *)
(* product is removed, the new service started, its health checked; then   *)
(* the new product is registered, or everything is rolled back.            *)
(***************************************************************************)
MsiRemoves ==
    /\ msi = "started" /\ msi' = "removed"
    /\ machine' = [machine EXCEPT !.product = "none", !.files = "new", !.service = "off"]
    /\ UNCHANGED <<stage, verdict, helper, memory, launched, budget>>

MsiStartsService ==
    /\ msi = "removed" /\ msi' = "checking" /\ StartService(machine)
    /\ UNCHANGED <<stage, verdict, helper, budget>>

\* --upgrade-health-check: the new service checks its core and configuration, may
\* resume the connection, which saves its state, and records its health.
MsiHealth ==
    /\ msi = "checking" /\ machine.service = "new"
    /\ \/ msi' = "healthy" /\ stage' = [stage EXCEPT !.health = "new"]
       \/ msi' = "failing" /\ UNCHANGED stage
    /\ \E data \in {machine.data, "new"} : machine' = [machine EXCEPT !.data = data]
    /\ UNCHANGED <<verdict, helper, memory, launched, budget>>

MsiRegisters ==
    /\ msi = "healthy" /\ msi' = "idle" /\ machine' = [machine EXCEPT !.product = "new"]
    /\ UNCHANGED <<stage, verdict, helper, memory, launched, budget>>

\* Rollback, also of an installation a power failure left unfinished.
MsiRollsBack ==
    /\ \/ msi \in {"started", "removed", "checking", "failing", "healthy"}
       \/ msi = "idle" /\ machine.product = "none" /\ helper = NoHelper
    /\ msi' = "ending"
    /\ LET m == [machine EXCEPT !.product = "old", !.files = "old", !.service = "off"]
       IN  StartService(m) \/ (machine' = m /\ UNCHANGED <<memory, launched>>)
    /\ UNCHANGED <<stage, verdict, helper, budget>>
MsiEnds ==
    /\ msi = "ending" /\ msi' = "idle"
    /\ UNCHANGED <<machine, stage, verdict, memory, launched, helper, budget>>
-----------------------------------------------------------------------------
Crashed == budget.crashes > 0 /\ budget' = [budget EXCEPT !.crashes = @ - 1]

HelperKilled ==
    /\ helper # NoHelper /\ Crashed /\ Write(NoHelper)
    /\ UNCHANGED <<machine, msi, stage, verdict, memory, launched>>

PowerFails ==
    /\ Crashed /\ Write(NoHelper) /\ launched' = {} /\ msi' = "idle"
    /\ machine' = [machine EXCEPT !.service = "off"] /\ UNCHANGED <<stage, verdict, memory>>

\* The service is started: at boot, by hand.
ServiceStarts ==
    /\ machine.service = "off" /\ msi = "idle" /\ helper = NoHelper
    /\ StartService(machine) /\ UNCHANGED <<msi, stage, verdict, helper, budget>>

HelperStep ==
    \/ HelperEnters
    \/ ApplyPrepares \/ ApplyStops \/ ApplyCopies \/ ApplyBackedUp \/ ApplyInstalls \/ ApplyReturns
    \/ HelperFails \/ RestoreStops \/ RestorePutsBack \/ RestoreRestarts \/ RestoreEnds \/ RestoreFails
    \/ HelperTerminal \/ RecoverWaits \/ RecoverDecides \/ RecoverKeeps \/ RecoverUndoes

MsiStep == MsiRemoves \/ MsiStartsService \/ MsiHealth \/ MsiRegisters \/ MsiRollsBack \/ MsiEnds

UpdateNext ==
    \/ UpdaterStatus \/ UpdaterCheck \/ UpdaterDownload \/ UpdaterCancel \/ UpdateWorker
    \/ UpdaterInstall \/ UpdaterRecover \/ HelperStep \/ MsiStep
    \/ HelperKilled \/ PowerFails \/ ServiceStarts

\* The helper and the installer run; a stopped machine is started again and its
\* user asks for the recovery the window offers.
UpdateFairness ==
    /\ WF_updateVars(HelperStep) /\ WF_updateVars(MsiStep)
    /\ WF_updateVars(ServiceStarts) /\ WF_updateVars(UpdaterRecover)

UpdateSpec == UpdateInit /\ [][UpdateNext]_updateVars /\ UpdateFairness
-----------------------------------------------------------------------------
(***************************************************************************)
(* Properties.                                                             *)
(***************************************************************************)
\* What current.json reports is true of the machine: "rolled_back" and "failed" mean
\* the old product and the state it had, "succeeded" the new product.
VerdictTrue ==
    /\ verdict \in {"none", "rolled_back", "failed"} => machine.product = "old" /\ machine.data = machine.was
    /\ verdict = "succeeded" => machine.product = "new"

=============================================================================
