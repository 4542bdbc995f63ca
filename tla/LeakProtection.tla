---------------------------- MODULE LeakProtection ----------------------------
(***************************************************************************)
(* Leak protection of the Windows client: the persistent firewall filters  *)
(* of windows/service/kill_switch.c, the setting that asks for them in     *)
(* controller.c, and the administrator's recovery command of               *)
(* service_main.c, which removes them while the service is stopped and     *)
(* leaves a marker in the registry until the service has saved "off".      *)
(***************************************************************************)
EXTENDS Integers, FiniteSets

CONSTANT GuardFaults     \* crashes, failed writes and lost filters of a behaviour

VARIABLES wfp,       \* our filters in the firewall, as <<layer, slot>>
          marker,    \* KillSwitchRecoveryDisabled in the registry
          setting,   \* kill_switch_enabled on disk: on, off or unset
          svc,       \* the service: where it is, its copy of the setting, the TUN is up
          admin,     \* the recovery command
          guardGhost,\* what the administrator was told, what went wrong
          guardLeft

guardVars == <<wfp, marker, setting, svc, admin, guardGhost, guardLeft>>

Unset == "unset"
Layers == 0 .. 3                       \* outbound v4 and v6, inbound v4 and v6
V6 == {1, 3}
FilterSlots == 36
-----------------------------------------------------------------------------
\* sbw_kill_switch_build: slot 0 blocks; loopback, the service, the core, the TUN and
\* DHCP are let through, and the neighbour discovery of IPv6 (4 kinds, 2 scopes).
Build(tun) ==
    (Layers \X {0, 1, 2, 3, 5}) \union (V6 \X (6 .. 13)) \union (IF tun THEN Layers \X {4} ELSE {})

\* sbw_kill_switch_status
Denied(f) == \A l \in Layers : <<l, 0>> \in f
StatusEnabled(f) == Denied(f) /\ Cardinality(f) >= FilterSlots
\* sbw_kill_switch_apply: one transaction, committed or aborted.
AppliedFilters(on, tun) == IF on THEN Build(tun) ELSE {}

\* sbw_kill_switch_startup_action
StartupAction(pref, f) ==
    CASE pref = "on" -> "enable"
      [] f = {} -> "unchanged"
      [] OTHER -> IF pref = Unset THEN "preserve" ELSE "disable"
-----------------------------------------------------------------------------
Copied(v) == [at |-> "down", mem |-> v, tun |-> FALSE, prev |-> FALSE]

GuardInit ==
    /\ setting \in {"on", "off", Unset}
    /\ wfp \in CASE setting = "off" -> {{}} [] setting = "on" -> {Build(FALSE)} [] OTHER -> {{}, Build(FALSE)}
    /\ marker = FALSE /\ svc = Copied(Unset) /\ admin = "none"
    /\ guardGhost = [off |-> FALSE, overlap |-> FALSE, uncertain |-> FALSE] /\ guardLeft = GuardFaults

At(at) == svc' = [svc EXCEPT !.at = at]
GuardFault == guardLeft > 0 /\ guardLeft' = guardLeft - 1
Quiet == UNCHANGED <<guardGhost, guardLeft>>
Doubted(doubt) == guardGhost' = [guardGhost EXCEPT !.uncertain = doubt]

\* apply_kill_switch: never on while the marker is set.  Its transaction may fail.
ServiceApplies(on, then, otherwise) ==
    \/ ~(on /\ marker) /\ wfp' = AppliedFilters(on, svc.tun) /\ At(then) /\ UNCHANGED guardLeft
    \/ on /\ marker /\ At(otherwise) /\ UNCHANGED <<wfp, guardLeft>>
    \/ GuardFault /\ At(otherwise) /\ UNCHANGED wfp

\* The service is started; the administrator may be in the middle of a recovery.  State
\* that cannot be read leaves a service that only preserves what it finds, or recovers.
GuardStarts ==
    /\ svc.at = "down" /\ guardGhost' = [guardGhost EXCEPT !.overlap = @ \/ admin # "none", !.uncertain = FALSE]
    /\ \/ svc' = [Copied(setting) EXCEPT !.at = IF marker THEN "recover" ELSE "startup"] /\ UNCHANGED <<wfp, guardLeft>>
       \/ /\ GuardFault /\ svc' = [Copied(Unset) EXCEPT !.at = "broken"]
          /\ wfp' \in IF marker THEN {{}, wfp} ELSE {wfp}
    /\ UNCHANGED <<marker, setting, admin>>

\* sbw_controller_start_background without a marker.
StartupApplies ==
    /\ svc.at = "startup" /\ UNCHANGED <<marker, setting, admin>>
    /\ LET act == StartupAction(svc.mem, wfp) IN
       IF act \in {"preserve", "unchanged"} THEN At("up") /\ UNCHANGED <<wfp, guardLeft, guardGhost>>
       ELSE ServiceApplies(act = "enable", "up", "up") /\ Doubted(act = "disable" /\ wfp' # {})

\* With one: the filters go, "off" is saved, and only then the marker is cleared.
RecoverApplies ==
    /\ svc.at = "recover" /\ ServiceApplies(FALSE, "recover save", "up") /\ Doubted(wfp' # {})
    /\ UNCHANGED <<marker, setting, admin>>

RecoverSavesNothing ==
    svc.at = "recover save" /\ svc' = [svc EXCEPT !.mem = "off", !.at = "recover clear"]
    /\ UNCHANGED <<wfp, marker, setting, admin, guardGhost, guardLeft>>

RecoverSaves ==
    /\ svc.at = "recover save" /\ UNCHANGED <<wfp, marker, admin, guardGhost>>
    /\ \/ setting' = "off" /\ svc' = [svc EXCEPT !.mem = "off", !.at = "recover clear"] /\ UNCHANGED guardLeft
       \/ GuardFault /\ At("up") /\ UNCHANGED setting

RecoverClears ==
    /\ svc.at = "recover clear" /\ At("up") /\ UNCHANGED <<wfp, setting, admin, guardGhost>>
    /\ \/ marker' = FALSE /\ UNCHANGED guardLeft
       \/ GuardFault /\ UNCHANGED marker
-----------------------------------------------------------------------------
\* management_settings_change: applied, then saved; what cannot be saved is put back.
GuardSets(on) ==
    /\ svc.at = "up" /\ ~(on /\ marker) /\ UNCHANGED <<marker, setting, admin>>
    /\ guardGhost' = [guardGhost EXCEPT !.off = @ /\ ~on]
    /\ \/ /\ wfp' = AppliedFilters(on, svc.tun) /\ UNCHANGED guardLeft
          /\ svc' = [svc EXCEPT !.at = IF on THEN "save on" ELSE "save off",
                                !.prev = IF svc.mem = Unset THEN wfp # {} ELSE svc.mem = "on"]
       \/ GuardFault /\ UNCHANGED <<wfp, svc>>

GuardSaves ==
    /\ svc.at \in {"save on", "save off"} /\ UNCHANGED <<wfp, marker, admin>>
    /\ \/ /\ setting' = IF svc.at = "save on" THEN "on" ELSE "off"
          /\ svc' = [svc EXCEPT !.at = "up", !.mem = setting'] /\ UNCHANGED guardLeft
          /\ Doubted(FALSE)
       \/ GuardFault /\ At("put back") /\ UNCHANGED <<setting, guardGhost>>

GuardPutsBack ==
    /\ svc.at = "put back" /\ UNCHANGED <<marker, setting, admin>>
    /\ ServiceApplies(svc.prev, "up", "up") /\ Doubted(wfp' # AppliedFilters(svc.prev, svc.tun))

\* The tick of the service restores filters that are asked for and missing.
GuardTicks ==
    /\ svc.at = "up" /\ svc.mem = "on" /\ ~StatusEnabled(wfp) /\ ~marker
    /\ ServiceApplies(TRUE, "up", "up") /\ UNCHANGED <<marker, setting, admin, guardGhost>>

\* launch_healthy: protected before the core starts, and with the TUN let through after.
CoreUp ==
    /\ svc.at = "up" /\ ~svc.tun /\ UNCHANGED <<marker, setting, admin, guardGhost>>
    /\ IF svc.mem # "on" THEN svc' = [svc EXCEPT !.tun = TRUE] /\ UNCHANGED <<wfp, guardLeft>>
       ELSE \/ ~marker /\ svc' = [svc EXCEPT !.tun = TRUE] /\ wfp' = Build(TRUE) /\ UNCHANGED guardLeft
            \/ GuardFault /\ wfp' \in {wfp, IF marker THEN wfp ELSE Build(FALSE)} /\ UNCHANGED svc

\* stop_core: the TUN is no longer let through.
CoreDown ==
    /\ svc.at = "up" /\ svc.tun /\ svc' = [svc EXCEPT !.tun = FALSE] /\ UNCHANGED <<marker, setting, admin, guardGhost>>
    /\ \/ wfp' = (IF svc.mem = "on" /\ ~marker THEN Build(FALSE) ELSE wfp) /\ UNCHANGED guardLeft
       \/ GuardFault /\ UNCHANGED wfp
-----------------------------------------------------------------------------
\* disable_kill_switch: the service is stopped, the marker is set, the filters go.
AdminLooks ==
    /\ admin = "none" /\ svc.at = "down" /\ admin' = "mark"
    /\ guardGhost' = [guardGhost EXCEPT !.overlap = FALSE] /\ UNCHANGED <<wfp, marker, setting, svc, guardLeft>>

AdminMarks ==
    /\ admin = "mark" /\ UNCHANGED <<wfp, setting, svc, guardGhost>>
    /\ \/ marker' = TRUE /\ admin' = "remove" /\ UNCHANGED guardLeft
       \/ GuardFault /\ admin' = "none" /\ UNCHANGED marker

AdminRemoves ==
    /\ admin = "remove" /\ admin' = "none" /\ UNCHANGED <<marker, setting, svc>>
    /\ \/ wfp' = {} /\ guardGhost' = [guardGhost EXCEPT !.off = ~guardGhost.overlap] /\ UNCHANGED guardLeft
       \/ GuardFault /\ UNCHANGED <<wfp, guardGhost>>

\* The service stops or dies, or the machine does; the filters stay.
GuardDies ==
    /\ svc.at # "down" /\ GuardFault /\ svc' = Copied(Unset) /\ UNCHANGED <<wfp, marker, setting, admin, guardGhost>>

\* Somebody removes one of our filters.
FilterLost ==
    /\ GuardFault /\ \E f \in wfp \intersect {<<0, 0>>, <<1, 6>>} : wfp' = wfp \ {f}
    /\ UNCHANGED <<marker, setting, svc, admin, guardGhost>>

GuardNext ==
    \/ GuardStarts \/ StartupApplies \/ RecoverApplies \/ RecoverSaves \/ RecoverClears
    \/ \E on \in BOOLEAN : GuardSets(on)
    \/ GuardSaves \/ GuardPutsBack \/ GuardTicks \/ CoreUp \/ CoreDown
    \/ AdminLooks \/ AdminMarks \/ AdminRemoves \/ GuardDies \/ FilterLost

GuardSpec == GuardInit /\ [][GuardNext]_guardVars
-----------------------------------------------------------------------------
\* Nobody is locked out.  After an administrator has removed the filters none returns until
\* somebody asks for protection again, whatever the saved setting says and wherever the service
\* dies while it records "off" (a service that is started while the command runs is excepted);
\* and with protection off and no operation under way nothing is blocked, although a setting
\* could not be saved, unless taking the filters away failed, which is reported.
NoLockout ==
    guardGhost.off \/ (svc.at = "up" /\ svc.mem = "off" /\ ~guardGhost.uncertain) => wfp = {}

=============================================================================
