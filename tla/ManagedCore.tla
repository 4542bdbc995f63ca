----------------------------- MODULE ManagedCore -----------------------------
(***************************************************************************)
(* The core the panel manages for itself: the loop of c/src/http_server.c  *)
(* that renders the panel's own configuration, compares its ETag with the  *)
(* last one applied and hands it to the supervisor of a child process      *)
(* (c/src/singbox_supervisor_child.c).  The child may die at any time, its *)
(* start may fail, the file may be replaced though an error is reported,   *)
(* and the container may be restarted at any step.                         *)
(***************************************************************************)
EXTENDS Naturals

CONSTANTS SelfConf,     \* configurations the panel may render for itself
          BadConf,      \* those the core's check refuses
          SelfOps,      \* bound on edits
          SelfFaults    \* bound on deaths, failures and restarts

ASSUME SelfAssumption == SelfConf \subseteq Nat \ {0} /\ BadConf \subseteq SelfConf

VARIABLES self,         \* what the panel renders now, and whether it should run a core
          cycle,        \* the loop thread
          file,         \* the configuration file (0: none)
          child,        \* the child process
          room          \* edits and faults still to come

selfVars == <<self, cycle, file, child, room>>

NoChild  == [pid |-> FALSE, proc |-> "none", conf |-> 0, hup |-> FALSE]
FreshLoop == [pc |-> "render", etag |-> 0, body |-> 0, started |-> FALSE, backoff |-> FALSE,
              failed |-> FALSE, stop |-> FALSE]

SelfInit ==
    /\ self \in [conf : SelfConf, on : BOOLEAN]
    /\ cycle = FreshLoop /\ file = 0 /\ child = NoChild
    \* history: the last install failed after its file was replaced
    /\ room = [ops |-> SelfOps, faults |-> SelfFaults, torn |-> FALSE]

SelfOp    == room.ops > 0 /\ room' = [room EXCEPT !.ops = @ - 1]
SelfFault == room.faults > 0 /\ room' = [room EXCEPT !.faults = @ - 1]
CycleAt(pc) == cycle.pc = pc
-----------------------------------------------------------------------------
(***************************************************************************)
(* The supervisor.                                                         *)
(***************************************************************************)
\* reap: a dead child is collected and the next start waits for the backoff.
Gone == child.pid /\ child.proc = "dead"
ReapedChild == IF Gone THEN NoChild ELSE child
Reaped(c) == [c EXCEPT !.backoff = @ \/ Gone]

Spawned == [pid |-> TRUE, proc |-> "up", conf |-> file, hup |-> FALSE]

\* start: nothing to do while the child runs, during the backoff unless it is
\* ignored, and without a file.  Spawning may fail.
Start(c, ignoreBackoff, pc) ==
    \/ /\ ReapedChild.pid \/ (c.backoff /\ ~ignoreBackoff) \/ file = 0
       /\ child' = ReapedChild /\ cycle' = [c EXCEPT !.pc = pc, !.failed = FALSE] /\ UNCHANGED room
    \/ /\ ~ReapedChild.pid /\ (c.backoff => ignoreBackoff) /\ file # 0
       /\ \/ /\ child' = Spawned /\ UNCHANGED room
             /\ cycle' = [c EXCEPT !.pc = pc, !.started = TRUE, !.backoff = FALSE, !.failed = FALSE]
          \/ /\ child' = NoChild /\ room.faults > 0
             /\ room' = [room EXCEPT !.faults = @ - 1, !.torn = @ \/ ignoreBackoff]
             /\ cycle' = [c EXCEPT !.pc = pc, !.started = TRUE, !.backoff = TRUE, !.failed = TRUE]

\* A child that was told to reload is running; else it is started at once.
Signal(pc) ==
    \/ /\ ReapedChild.pid
       /\ child' = [child EXCEPT !.hup = child.proc = "up"]
       /\ cycle' = [cycle EXCEPT !.pc = pc, !.failed = FALSE] /\ UNCHANGED room
    \/ ~ReapedChild.pid /\ Start(Reaped(cycle), TRUE, pc)

\* sb_singbox_supervisor_stop: terminated, or killed, and waited for.
StopChild == child' = NoChild

\* The process itself: it exits, or takes the file it was told to reload.
ChildDies == child.proc = "up" /\ SelfFault /\ child' = [child EXCEPT !.proc = "dead", !.hup = FALSE]
             /\ UNCHANGED <<self, cycle, file>>
ChildReloads ==
    /\ child.proc = "up" /\ child.hup
    /\ child' = [child EXCEPT !.hup = FALSE, !.conf = file]
    /\ UNCHANGED <<self, cycle, file, room>>

BackoffEnds == cycle.backoff /\ cycle' = [cycle EXCEPT !.backoff = FALSE] /\ UNCHANGED <<self, file, child, room>>
-----------------------------------------------------------------------------
\* self_singbox_render: the configuration is rendered, its ETag compared.
Render ==
    /\ CycleAt("render") /\ ~cycle.stop
    /\ cycle' = [cycle EXCEPT !.pc = IF self.on /\ cycle.etag # self.conf THEN "replace" ELSE "alive",
                              !.body = self.conf, !.failed = FALSE]
    /\ UNCHANGED <<self, file, child, room>>

\* sb_atomic_replace_file with the check: refused, replaced, or replaced and
\* reported as failed.
ReplaceFile ==
    /\ CycleAt("replace")
    /\ \/ /\ cycle.body \notin BadConf /\ file' = cycle.body
          /\ \/ cycle' = [cycle EXCEPT !.pc = "signal"] /\ UNCHANGED room
             \/ cycle' = [cycle EXCEPT !.pc = "report", !.failed = TRUE]
                /\ room.faults > 0 /\ room' = [room EXCEPT !.faults = @ - 1, !.torn = TRUE]
       \/ /\ UNCHANGED file /\ cycle' = [cycle EXCEPT !.pc = "report", !.failed = TRUE]
          /\ (cycle.body \in BadConf /\ UNCHANGED room) \/ (cycle.body \notin BadConf /\ SelfFault)
    /\ UNCHANGED <<self, child>>

ApplySignal == CycleAt("signal") /\ Signal("applied") /\ UNCHANGED <<self, file>>

\* The ETag is remembered only after the supervisor succeeded.
RecordEtag ==
    /\ CycleAt("applied")
    /\ cycle' = [cycle EXCEPT !.pc = IF cycle.failed THEN "report" ELSE "alive",
                              !.etag = IF cycle.failed THEN @ ELSE cycle.body]
    /\ room' = [room EXCEPT !.torn = @ /\ cycle.failed]
    /\ UNCHANGED <<self, file, child>>

EnsureAliveForgets ==
    /\ CycleAt("alive")
    /\ child' = ReapedChild /\ cycle' = [Reaped(cycle) EXCEPT !.pc = "report", !.started = @ /\ ~Gone]
    /\ UNCHANGED <<self, file, room>>

\* sb_singbox_supervisor_ensure_alive: only a core that was started once.
EnsureAlive ==
    /\ CycleAt("alive")
    /\ \/ (cycle.started \/ Gone) /\ ~ReapedChild.pid /\ Start([Reaped(cycle) EXCEPT !.started = TRUE], FALSE, "report")
       \/ /\ ReapedChild.pid \/ ~(cycle.started \/ Gone)
          /\ child' = ReapedChild /\ cycle' = [Reaped(cycle) EXCEPT !.pc = "report"] /\ UNCHANGED room
    /\ UNCHANGED <<self, file>>

\* The status says whether the child runs, then the loop waits for its interval
\* or for the request to stop.
ReportSelf ==
    /\ CycleAt("report")
    /\ child' = ReapedChild /\ cycle' = [Reaped(cycle) EXCEPT !.pc = "render", !.body = 0]
    /\ UNCHANGED <<self, file, room>>

RequestStop == ~cycle.stop /\ SelfOp /\ cycle' = [cycle EXCEPT !.stop = TRUE] /\ UNCHANGED <<self, file, child>>

LeaveLoop ==
    /\ CycleAt("render") /\ cycle.stop /\ StopChild
    /\ cycle' = [cycle EXCEPT !.pc = "joined", !.started = FALSE]
    /\ UNCHANGED <<self, file, room>>

\* The container stops and starts again: only the file is left.
ContainerRestart ==
    /\ SelfFault /\ cycle' = FreshLoop /\ child' = NoChild /\ UNCHANGED <<self, file>>

\* An administrator edits what the panel's own host renders, or disables it.
EditSelf ==
    /\ SelfOp /\ self' \in {s \in [conf : SelfConf, on : BOOLEAN] : s # self}
    /\ UNCHANGED <<cycle, file, child>>

LoopCycle == Render \/ ReplaceFile \/ ApplySignal \/ RecordEtag \/ EnsureAlive \/ ReportSelf \/ LeaveLoop

SelfNext == LoopCycle \/ ChildDies \/ ChildReloads \/ BackoffEnds \/ RequestStop \/ ContainerRestart \/ EditSelf

\* The loop thread, the timer of the backoff and the child's signal handler run.
SelfFairness == WF_selfVars(LoopCycle) /\ WF_selfVars(BackoffEnds) /\ WF_selfVars(ChildReloads)

SelfSpec == SelfInit /\ [][SelfNext]_selfVars /\ SelfFairness
-----------------------------------------------------------------------------
(***************************************************************************)
(* Properties.                                                             *)
(***************************************************************************)
\* A panel that goes on managing its core ends up running what it renders,
\* across deaths of the child, failed starts and restarts of the container.
SelfConverges ==
    \A c \in SelfConf \ BadConf :
        <>[](self = [conf |-> c, on |-> TRUE] /\ ~cycle.stop /\ ~room.torn)
            => <>[](child.proc = "up" /\ child.conf = c)

=============================================================================
