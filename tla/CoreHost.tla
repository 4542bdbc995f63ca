------------------------------ MODULE CoreHost ------------------------------
(***************************************************************************)
(* The embedded sing-box core: the Go bridge (singbox-bridge/main.go) with *)
(* its cancellable startup, the supervisor that installs a configuration   *)
(* file and starts or reloads the core (c/src/singbox_supervisor_          *)
(* embedded.c), and the file replacement both rest on (c/src/              *)
(* atomic_file.c).  One thread calls the supervisor; any thread may cancel *)
(* a startup.  `call' is the operation in progress of that one thread.     *)
(***************************************************************************)
EXTENDS Naturals

CONSTANTS CoreConf      \* configurations (0 is none)

ASSUME CoreAssumption == CoreConf \subseteq Nat \ {0}

VARIABLES bridge,       \* the startup's context, the instance
          sup,          \* the supervisor: what it believes, and its file
          call          \* the supervisor call in progress

coreVars == <<bridge, sup, call>>

\* stale: the generation this call read is no longer the bridge's.
NoCall == [at |-> "none", new |-> 0, old |-> 0, stale |-> FALSE, prev |-> 0, rc |-> 0]

\* ctx is the context of the startup in progress: "none", "live", "cancelled".
\* dead is an instance that was installed with a cancelled context.
CoreInit ==
    /\ bridge = [ctx |-> "none", config |-> 0, dead |-> FALSE]
    /\ sup = [running |-> FALSE, started |-> FALSE, file |-> 0, temp |-> FALSE]
    /\ call = NoCall

CallAt(stage)   == call.at = stage
CallTo(stage)   == call' = [call EXCEPT !.at = stage]
CallFails       == call' = [call EXCEPT !.at = "undo", !.rc = 1]
CallDone(rc)    == call' = [NoCall EXCEPT !.at = "done", !.rc = rc]
CoreUp(b)       == b.config # 0
-----------------------------------------------------------------------------
(***************************************************************************)
(* The bridge.                                                             *)
(***************************************************************************)
\* cancelStartup: the next generation, which a call that has read the last one
\* will not match, and the end of the context of a startup that has begun.
CancelStart ==
    /\ bridge' = [bridge EXCEPT !.ctx = IF @ = "live" THEN "cancelled" ELSE @]
    /\ call' = [call EXCEPT !.stale = call.at \notin {"none", "replace", "rename", "launch", "generation"}]

\* startRuntime, reloadRuntime: the generation is read before the lifecycle lock.
ReadGeneration ==
    /\ CallAt("generation") /\ CallTo("begin")
    /\ UNCHANGED <<bridge, sup>>

BeginStartup ==
    /\ CallAt("begin")
    /\ \/ ~call.stale /\ bridge' = [bridge EXCEPT !.ctx = "live"] /\ CallTo("build")
       \/ call.stale /\ UNCHANGED bridge /\ CallFails
    /\ UNCHANGED sup

FinishStartup(b) == [b EXCEPT !.ctx = "none"]

\* createInstanceInContext of the new content, before anything is closed.
BuildInstance ==
    /\ CallAt("build")
    /\ \/ /\ bridge.ctx = "live"
          /\ call' = [call EXCEPT !.at = "close", !.prev = bridge.config]
          /\ UNCHANGED bridge
       \/ bridge' = FinishStartup(bridge) /\ CallFails
    /\ UNCHANGED sup

\* reloadRuntime closes the previous instance; closing may report an error.
ClosePrevious ==
    /\ CallAt("close")
    /\ bridge' = [bridge EXCEPT !.config = 0, !.dead = FALSE]
    /\ \/ CallTo("start")
       \/ call.prev # 0 /\ CallTo("restore")
    /\ UNCHANGED sup

\* instance.Start, then the test of its context.
StartInstance ==
    /\ CallAt("start")
    /\ \/ bridge.ctx = "live" /\ CallTo("install")
       \/ CallTo("restore")
    /\ UNCHANGED <<bridge, sup>>

CoreInstalled(c) ==
    bridge' = FinishStartup([bridge EXCEPT !.config = c, !.dead = bridge.ctx = "cancelled"])

InstallInstance ==
    /\ CallAt("install")
    /\ CoreInstalled(call.new)
    /\ sup' = [sup EXCEPT !.running = TRUE]
    /\ CallDone(0)

\* A closed instance cannot be restarted: the previous configuration is rebuilt.
RestorePrevious ==
    /\ CallAt("restore")
    /\ \/ bridge.ctx = "live" /\ call.prev # 0 /\ CoreInstalled(call.prev)
       \/ bridge' = FinishStartup(bridge)
    /\ CallFails
    /\ UNCHANGED sup

BridgeStep == \/ ReadGeneration \/ BeginStartup \/ BuildInstance \/ ClosePrevious
              \/ StartInstance \/ InstallInstance \/ RestorePrevious
-----------------------------------------------------------------------------
(***************************************************************************)
(* Replacing the configuration file.                                       *)
(***************************************************************************)
\* sb_atomic_replace_file: the bytes reach a new file first.  A failure
\* removes that file and leaves the destination.
WriteTemporary ==
    /\ CallAt("replace")
    /\ \/ sup' = [sup EXCEPT !.temp = TRUE] /\ CallTo("rename")
       \/ UNCHANGED sup /\ CallDone(1)
    /\ UNCHANGED bridge

\* The validator (SBEasySingBoxCheck) runs before the rename.  The directory is
\* synchronised after it, and a failure of that is reported with the file replaced.
RenameTemporary ==
    /\ CallAt("rename")
    /\ \/ sup' = [sup EXCEPT !.temp = FALSE, !.file = call.new] /\ CallTo("launch")
       \/ sup' = [sup EXCEPT !.temp = FALSE, !.file = call.new] /\ CallDone(1)
       \/ sup' = [sup EXCEPT !.temp = FALSE] /\ CallDone(1)
    /\ UNCHANGED bridge
-----------------------------------------------------------------------------
(***************************************************************************)
(* The supervisor.                                                         *)
(***************************************************************************)
\* sb_singbox_supervisor_apply_config reads the file it is about to replace.
CallApply(c) ==
    /\ CallAt("none")
    /\ call' = [call EXCEPT !.at = "replace", !.new = c, !.old = sup.file, !.rc = 0]

\* reap, and the choice between reload_running and start: the bridge tells them
\* apart by whether an instance runs.
Launch ==
    /\ CallAt("launch")
    /\ sup' = [sup EXCEPT !.running = @ /\ CoreUp(bridge), !.started = @ \/ ~sup.running]
    /\ CallTo("generation")
    /\ UNCHANGED bridge

\* A failed launch puts the earlier file back; that may fail too.
UndoInstall ==
    /\ CallAt("undo")
    /\ \E f \in {call.old} \cup (IF call.old = 0 THEN {} ELSE {call.new}) :
          sup' = [sup EXCEPT !.file = f, !.running = CoreUp(bridge)]
    /\ CallDone(1)
    /\ UNCHANGED bridge

\* sb_singbox_supervisor_stop: nothing to do when nothing runs; else the bridge's
\* stopRuntime, which cancels startups too.
NothingRuns   == ~sup.running /\ ~CoreUp(bridge)
StoppedBridge == IF NothingRuns THEN bridge ELSE [bridge EXCEPT !.config = 0, !.dead = FALSE]
StoppedSup    == IF NothingRuns THEN sup ELSE [sup EXCEPT !.running = FALSE, !.started = FALSE]

CoreStep == BridgeStep \/ WriteTemporary \/ RenameTemporary \/ Launch \/ UndoInstall
=============================================================================
