----------------------------- MODULE CoreProcess -----------------------------
(***************************************************************************)
(* The core as the Windows service runs it                                 *)
(* (windows/service/core_process.c): a configuration is written to a       *)
(* private file, checked by a short-lived child and run by another, each   *)
(* in a job that dies with the service.  Every operation tries to take the *)
(* lock of the core, and is refused while another one holds it, so one     *)
(* call is under way at a time.                                            *)
(***************************************************************************)
EXTENDS Integers, FiniteSets

CONSTANTS Configs,       \* configurations a caller may pass
          GoodConfigs,   \* those that the core accepts
          CoreCalls,     \* bound: calls of a behaviour
          CoreFaults     \* bound: failures, deaths and cancellations

VARIABLES coreUp,        \* the service has a core object
          call,          \* the call under way
          checkedJson,   \* the configuration the last check accepted
          child,         \* the run child the object knows, and its file
          procs,         \* processes of ours in the system
          workDir,          \* private configuration files in the work directory
          cancelCore,    \* the caller's cancel event
          coreGhost,     \* checked: accepted by a check
          coreLeft       \* [calls, faults]

coreVars == <<coreUp, call, checkedJson, child, procs, workDir, cancelCore, coreGhost, coreLeft>>

ASSUME GoodConfigs \subseteq Configs

Nothing == "nothing"
Rest == [op |-> "none", at |-> "rest", json |-> Nothing, skip |-> FALSE, file |-> 0, ok |-> TRUE]
NoChild == [id |-> 0, file |-> 0]
Process(id, verb, json, file) == [id |-> id, verb |-> verb, json |-> json, file |-> file, st |-> "alive"]
Clock == 2 * CoreCalls - coreLeft.calls        \* identities of files and processes

CoreInit ==
    /\ coreUp = FALSE /\ call = Rest /\ checkedJson = Nothing /\ child = NoChild /\ procs = {}
    /\ workDir = {} /\ cancelCore = FALSE
    /\ coreGhost = [checked |-> {}] /\ coreLeft = [calls |-> CoreCalls, faults |-> CoreFaults]

CoreFault == coreLeft.faults > 0 /\ coreLeft' = [coreLeft EXCEPT !.faults = @ - 1]
Goes(at) == call' = [call EXCEPT !.at = at]
CoreFails(at) == call' = [call EXCEPT !.at = at, !.ok = FALSE]
Own(id) == {p \in procs : p.id = id}
Exited(p) == p.st = "exited"
-----------------------------------------------------------------------------
\* sbw_core_new: with the work directory locked, the files of a service that died are
\* removed; a file that is still open makes it fail.
CoreNew ==
    /\ ~coreUp /\ ~\E p \in procs : p.file # 0
    /\ coreUp' = TRUE /\ workDir' = {}
    /\ UNCHANGED <<call, checkedJson, child, procs, cancelCore, coreGhost, coreLeft>>

\* TryAcquireSRWLockExclusive, and what a call does first.
SameBytesAny(json) == checkedJson # Nothing
SameBytes(json) == checkedJson = json

CoreCall(op, json) ==
    /\ coreUp /\ call.at = "rest" /\ coreLeft.calls > 0 /\ coreLeft' = [coreLeft EXCEPT !.calls = @ - 1]
    /\ call' = [op |-> op, json |-> json, skip |-> op = "start" /\ SameBytes(json), file |-> 0, ok |-> TRUE,
                at |-> CASE op = "check" -> "prepare" [] op = "version" -> "version"
                         [] op \in {"start", "poll"} -> "reap" [] op = "stop" -> "stop"]
    /\ checkedJson' = IF op \in {"check", "start"} THEN Nothing ELSE checkedJson
    /\ UNCHANGED <<coreUp, child, procs, workDir, cancelCore, coreGhost>>

\* prepare_config: a new file, written, or removed again when that fails.
PrepareConfig ==
    /\ call.at = "prepare" /\ UNCHANGED <<coreUp, checkedJson, child, procs, cancelCore, coreGhost>>
    /\ \/ cancelCore /\ CoreFails("return") /\ UNCHANGED <<workDir, coreLeft>>
       \/ /\ ~cancelCore /\ workDir' = workDir \union {Clock} /\ UNCHANGED coreLeft
          /\ call' = [call EXCEPT !.file = Clock, !.at = IF call.skip THEN "run" ELSE "check"]
       \/ ~cancelCore /\ CoreFault /\ CoreFails("return") /\ UNCHANGED workDir

\* launch: in a job, suspended until it is in it; a failure leaves no process.
CheckLaunches ==
    /\ call.at = "check" /\ UNCHANGED <<coreUp, checkedJson, child, workDir, cancelCore, coreGhost>>
    /\ \/ cancelCore /\ CoreFails("remove") /\ UNCHANGED <<procs, coreLeft>>
       \/ ~cancelCore /\ procs' = procs \union {Process(Clock, "check", call.json, call.file)} /\ Goes("checking") /\ UNCHANGED coreLeft
       \/ ~cancelCore /\ CoreFault /\ CoreFails("remove") /\ UNCHANGED procs

\* dispose_child: the job is terminated; one that does not end in time is given up, and
\* dies with its job when it can.
Disposed(id, how) ==
    procs' = (procs \ Own(id)) \union (IF how = "late" THEN {[p EXCEPT !.st = "dying"] : p \in Own(id)} ELSE {})

\* check_file: the exit code counts only when the check ended by itself.
CheckEnds ==
    /\ call.at = "checking" /\ UNCHANGED <<coreUp, checkedJson, child, workDir, cancelCore>>
    /\ \E p \in procs : p.verb = "check" /\ p.st # "dying" /\
       \/ /\ Exited(p) /\ Disposed(p.id, "gone") /\ UNCHANGED coreLeft
          /\ call' = [call EXCEPT !.ok = p.json \in GoodConfigs, !.at = IF call.op = "start" /\ p.json \in GoodConfigs THEN "run" ELSE "remove"]
          /\ coreGhost' = [coreGhost EXCEPT !.checked = IF p.json \in GoodConfigs THEN @ \union {p.json} ELSE @]
       \/ cancelCore /\ Disposed(p.id, "gone") /\ CoreFails("remove") /\ UNCHANGED <<coreGhost, coreLeft>>
       \/ CoreFault /\ (\E how \in {"gone", "late"} : Disposed(p.id, how)) /\ CoreFails("remove") /\ UNCHANGED coreGhost

Reap ==
    /\ call.at = "reap" /\ UNCHANGED <<coreUp, checkedJson, cancelCore>>
    /\ IF child.id = 0 \/ ~\A p \in Own(child.id) : Exited(p)
       THEN /\ UNCHANGED <<procs, workDir, child, coreGhost, coreLeft>>
            /\ IF call.op # "start" THEN Goes("return") ELSE IF child.id # 0 THEN CoreFails("return") ELSE Goes("prepare")
       ELSE /\ Disposed(child.id, "gone") /\ child' = NoChild
            /\ \/ /\ workDir' = workDir \ {child.file} /\ Goes(IF call.op = "start" THEN "prepare" ELSE "return")
                  /\ UNCHANGED <<coreLeft, coreGhost>>
               \/ /\ CoreFault /\ CoreFails("return") /\ UNCHANGED <<workDir, coreGhost>>

\* sbw_core_start: cancelled once more, then the run child is launched with the file.
RunLaunches ==
    /\ call.at = "run" /\ UNCHANGED <<coreUp, checkedJson, workDir, cancelCore, coreGhost>>
    /\ \/ cancelCore /\ CoreFails("remove") /\ UNCHANGED <<procs, child, coreLeft>>
       \/ /\ ~cancelCore /\ procs' = procs \union {Process(CoreCalls + Clock, "run", call.json, call.file)}
          /\ child' = [id |-> CoreCalls + Clock, file |-> call.file] /\ Goes("return") /\ UNCHANGED coreLeft
       \/ ~cancelCore /\ CoreFault /\ CoreFails("remove") /\ UNCHANGED <<procs, child>>

\* remove_config of a file that no child keeps; it fails while a child that was given up
\* still has the file open.
RemoveConfig ==
    /\ call.at = "remove" /\ UNCHANGED <<coreUp, checkedJson, child, procs, cancelCore>>
    /\ \/ /\ ~\E p \in procs : p.file = call.file
          /\ workDir' = workDir \ {call.file} /\ Goes("return") /\ UNCHANGED <<coreLeft, coreGhost>>
       \/ /\ \E p \in procs : p.file = call.file
          /\ CoreFails("return") /\ UNCHANGED <<workDir, coreGhost, coreLeft>>
       \/ CoreFault /\ CoreFails("return") /\ UNCHANGED <<workDir, coreGhost>>

\* sbw_core_stop: a break first, then the job is terminated within the rest of the time.
StopChild ==
    /\ call.at = "stop" /\ UNCHANGED <<coreUp, checkedJson, cancelCore>> /\ child' = NoChild
    /\ \/ /\ Disposed(child.id, "gone") /\ workDir' = workDir \ {child.file} /\ Goes("return")
          /\ UNCHANGED <<coreGhost, coreLeft>>
       \/ /\ child.id # 0 /\ CoreFault /\ CoreFails("return") /\ UNCHANGED coreGhost
          /\ (\E how \in {"gone", "late"} : Disposed(child.id, how)) /\ UNCHANGED workDir

\* sbw_core_version_check: a child without a configuration, for 5 seconds.
VersionLaunches ==
    /\ call.at = "version" /\ UNCHANGED <<coreUp, checkedJson, child, workDir, cancelCore, coreGhost>>
    /\ \/ cancelCore /\ CoreFails("return") /\ UNCHANGED <<procs, coreLeft>>
       \/ ~cancelCore /\ procs' = procs \union {Process(Clock, "version", Nothing, 0)} /\ Goes("versioned") /\ UNCHANGED coreLeft

VersionEnds ==
    /\ call.at = "versioned" /\ UNCHANGED <<coreUp, checkedJson, child, workDir, cancelCore, coreGhost, coreLeft>>
    /\ \E p \in procs : p.verb = "version" /\ Disposed(p.id, "gone") /\
       (IF Exited(p) THEN Goes("return") ELSE cancelCore /\ CoreFails("return"))

\* A check that succeeded is remembered; the lock is released.
CoreReturns ==
    /\ call.at = "return" /\ call' = Rest
    /\ checkedJson' = IF call.op = "check" /\ call.ok THEN call.json ELSE checkedJson
    /\ cancelCore' = FALSE /\ UNCHANGED <<coreUp, child, procs, workDir, coreGhost, coreLeft>>
-----------------------------------------------------------------------------
\* A process ends by itself: a check or a version does, a core may; a terminated one dies.
ProcessEnds ==
    /\ \E p \in procs :
       \/ p.st = "alive" /\ p.verb # "run" /\ procs' = (procs \ {p}) \union {[p EXCEPT !.st = "exited"]} /\ UNCHANGED coreLeft
       \/ p.st = "alive" /\ p.verb = "run" /\ CoreFault /\ procs' = (procs \ {p}) \union {[p EXCEPT !.st = "exited"]}
       \/ p.st = "dying" /\ procs' = procs \ {p} /\ UNCHANGED coreLeft
    /\ UNCHANGED <<coreUp, call, checkedJson, child, workDir, cancelCore, coreGhost>>

CoreCancelled ==
    /\ ~cancelCore /\ call.at # "rest" /\ CoreFault /\ cancelCore' = TRUE
    /\ UNCHANGED <<coreUp, call, checkedJson, child, procs, workDir, coreGhost>>

\* The service dies: its jobs are closed, which kills their processes; the files stay.
CoreServiceDies ==
    /\ coreUp /\ CoreFault /\ coreUp' = FALSE /\ call' = Rest /\ checkedJson' = Nothing /\ child' = NoChild
    /\ procs' = {[p EXCEPT !.st = "dying"] : p \in {q \in procs : ~Exited(q)}} /\ cancelCore' = FALSE
    /\ UNCHANGED <<workDir, coreGhost>>

CoreNext ==
    \/ CoreNew \/ \E op \in {"check", "start"}, j \in Configs : CoreCall(op, j)
    \/ \E op \in {"stop", "poll", "version"} : CoreCall(op, Nothing)
    \/ PrepareConfig \/ CheckLaunches \/ CheckEnds \/ Reap \/ RunLaunches \/ RemoveConfig \/ StopChild
    \/ VersionLaunches \/ VersionEnds \/ CoreReturns \/ ProcessEnds \/ CoreCancelled \/ CoreServiceDies

CoreSpec == CoreInit /\ [][CoreNext]_coreVars
-----------------------------------------------------------------------------
\* Nothing runs unchecked or unknown: every core that was started runs a configuration that a
\* check has accepted byte for byte, although the check of an earlier call is reused; and the
\* one alive is the one the object knows, any other is dying.
RunsChecked ==
    \A p \in procs : p.verb = "run" => p.json \in coreGhost.checked /\ (p.st = "alive" => p.id = child.id)

=============================================================================
