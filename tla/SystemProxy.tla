----------------------------- MODULE SystemProxy -----------------------------
(***************************************************************************)
(* The desktop's proxy settings: linux/src/system_proxy.c.  They belong to *)
(* the user; a connection borrows them and gives them back, also after a   *)
(* crash, from a snapshot in a file.                                       *)
(***************************************************************************)
EXTENDS Integers

CONSTANTS ProxyFaults    \* settings that cannot be written

VARIABLES keys,      \* the value of each setting
          snap,      \* proxy-recovery.json
          proxyJob,  \* sbl_proxy_apply or sbl_proxy_restore, in progress
          chosen,    \* what the user last set each setting to
          proxyLeft  \* faults left, and whether one happened

proxyVars == <<keys, snap, proxyJob, chosen, proxyLeft>>

NoSnap == [old |-> "none"]
AtEase == [at |-> "idle", ours |-> "p1"]

\* Two of the twelve: the mode, and an address the mode makes use of.
Keys == {"mode", "port"}
\* The value of a session with its own port and secret.
OtherSession(p) == IF p = "p1" THEN "p2" ELSE "p1"

ProxyInit ==
    /\ keys = [k \in Keys |-> "user"] /\ chosen = keys /\ snap = NoSnap /\ proxyJob = AtEase
    /\ proxyLeft = [faults |-> ProxyFaults, edits |-> 2]

ProxyGo(at) == proxyJob' = [proxyJob EXCEPT !.at = at]
Fault == proxyLeft.faults > 0 /\ proxyLeft' = [proxyLeft EXCEPT !.faults = @ - 1]

\* The user, or another program, changes a setting while no snapshot is being taken.
UserSetsKey(k) ==
    /\ proxyLeft.edits > 0 /\ proxyLeft' = [proxyLeft EXCEPT !.edits = @ - 1]
    /\ proxyJob.at \notin {"write port", "write mode"}
    /\ keys' = [keys EXCEPT ![k] = "edited"] /\ chosen' = [chosen EXCEPT ![k] = "edited"]
    /\ UNCHANGED <<snap, proxyJob>>

\* sbl_proxy_apply first puts back what an earlier session left.
ApplyBegins ==
    /\ proxyJob.at \in {"idle", "applied"}
    /\ proxyJob' = [at |-> "restore mode", ours |-> OtherSession(proxyJob.ours), then |-> "snapshot"]
    /\ UNCHANGED <<keys, snap, chosen, proxyLeft>>

\* sbl_proxy_restore: on disconnect, and when the client is opened.
RestoreBegins ==
    /\ proxyJob.at \in {"idle", "applied"}
    /\ proxyJob' = [at |-> "restore mode", ours |-> proxyJob.ours, then |-> "idle"]
    /\ UNCHANGED <<keys, snap, chosen, proxyLeft>>

NothingToRestore ==
    /\ proxyJob.at = "restore mode" /\ snap = NoSnap /\ ProxyGo(proxyJob.then)
    /\ UNCHANGED <<keys, snap, chosen, proxyLeft>>

\* Only a setting that still has the session's value is put back; the mode first.
RestoreKey(k, at, next) ==
    /\ proxyJob.at = at /\ snap # NoSnap
    /\ \/ /\ ProxyGo(next) /\ UNCHANGED proxyLeft
          /\ keys' = IF keys[k] = snap.ours THEN [keys EXCEPT ![k] = snap.old[k]] ELSE keys
       \/ /\ Fault /\ UNCHANGED keys /\ keys[k] = snap.ours
          /\ proxyJob' = [proxyJob EXCEPT !.at = next, !.then = "failed"]
    /\ UNCHANGED <<snap, chosen>>

RestoreForgets ==
    /\ proxyJob.at = "restored" /\ snap' = NoSnap
    /\ ProxyGo(IF proxyJob.then = "failed" THEN "idle" ELSE proxyJob.then)
    /\ UNCHANGED <<keys, chosen, proxyLeft>>

\* The snapshot is removed once everything is back; else the attempt fails and keeps it.
RestoreFinishes ==
    /\ proxyJob.at = "restored"
    /\ IF proxyJob.then = "failed" THEN ProxyGo("idle") /\ UNCHANGED snap
       ELSE ProxyGo(proxyJob.then) /\ snap' = NoSnap
    /\ UNCHANGED <<keys, chosen, proxyLeft>>

\* The values found are written to the file before any of them is changed.
SnapshotTaken ==
    /\ proxyJob.at = "snapshot"
    /\ \/ snap' = [old |-> keys, ours |-> proxyJob.ours] /\ ProxyGo("write port")
       \/ ProxyGo("idle") /\ UNCHANGED snap                  \* locked by policy, or not saved
    /\ UNCHANGED <<keys, chosen, proxyLeft>>

WriteInOrder(k, at, next) ==
    /\ proxyJob.at = at
    /\ \/ keys' = [keys EXCEPT ![k] = proxyJob.ours] /\ ProxyGo(next) /\ UNCHANGED proxyLeft
       \/ Fault /\ proxyJob' = [proxyJob EXCEPT !.at = next, !.then = "failed"] /\ UNCHANGED keys
    /\ UNCHANGED <<snap, chosen>>

\* Manual mode is activated last.
WriteKeys == WriteInOrder("port", "write port", "write mode") \/ WriteInOrder("mode", "write mode", "written")

ApplyFinishes ==
    /\ proxyJob.at = "written"
    /\ proxyJob' = IF proxyJob.then = "failed" THEN [proxyJob EXCEPT !.at = "restore mode", !.then = "idle"]
                   ELSE [proxyJob EXCEPT !.at = "applied"]
    /\ UNCHANGED <<keys, snap, chosen, proxyLeft>>

\* The client dies; when it is opened again it restores.
ClientDies ==
    /\ proxyJob.at # "idle" /\ proxyLeft.faults > 0 /\ proxyLeft' = [proxyLeft EXCEPT !.faults = @ - 1]
    /\ proxyJob' = [proxyJob EXCEPT !.at = "idle"] /\ UNCHANGED <<keys, snap, chosen>>

ProxyNext ==
    \/ \E k \in Keys : UserSetsKey(k)
    \/ ApplyBegins \/ RestoreBegins \/ NothingToRestore
    \/ RestoreKey("mode", "restore mode", "restore port") \/ RestoreKey("port", "restore port", "restored")
    \/ RestoreFinishes \/ SnapshotTaken \/ WriteKeys \/ ApplyFinishes \/ ClientDies

ProxySpec == ProxyInit /\ [][ProxyNext]_proxyVars
-----------------------------------------------------------------------------
(***************************************************************************)
(* Properties.                                                             *)
(***************************************************************************)
\* With no snapshot left, every setting is what its user last made it, whatever
\* crashed or could not be written in between.
SettingsGivenBack == snap = NoSnap => keys = chosen

=============================================================================
