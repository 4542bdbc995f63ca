---------------------------- MODULE TunnelService ----------------------------
(***************************************************************************)
(* The privileged tunnel service of the Linux desktop (linux/src/          *)
(* tunnel_service.c) over the runtime (linux/src/runtime.c) and the        *)
(* embedded core: bus clients ask for the tunnel on the main loop, one     *)
(* worker thread serves their requests in order, a client may vanish, and  *)
(* the service may be told to terminate, at any moment of a startup.       *)
(***************************************************************************)
EXTENDS CoreHost, Sequences, FiniteSets

CONSTANTS BusClient,    \* bus names
          TunnelOps     \* bound on accepted requests

VARIABLES svc,          \* the service structure, under its lock
          queue,        \* requests pushed to the worker pool
          job,          \* the request the worker is at, and its stage
          loop,         \* what the main loop still has to do of its handler
          alive,        \* names on the bus
          shown,        \* the profile the runtime reports
          budget        \* requests still to be accepted

tunnelVars == <<bridge, sup, call, svc, queue, job, loop, alive, shown, budget>>

Nobody == "nobody"
NoJob  == [at |-> "none", kind |-> "none", from |-> Nobody, conf |-> 0]

TunnelInit ==
    /\ CoreInit
    /\ svc = [owner |-> Nobody, pending |-> Nobody, cancelled |-> FALSE, auth |-> "none",
              closing |-> FALSE, busy |-> FALSE, stopQueued |-> FALSE, queued |-> 0]
    /\ queue = <<>> /\ job = NoJob /\ loop = NoJob
    /\ alive = [c \in BusClient |-> "on"] /\ shown = 0 /\ budget = TunnelOps
-----------------------------------------------------------------------------
(***************************************************************************)
(* The main loop.                                                          *)
(***************************************************************************)
LoopAt(stage) == loop.at = stage
LoopTo(stage) == loop' = [loop EXCEPT !.at = stage]

\* method: a second operation waits for the first, except a stop by whoever owns
\* the tunnel or is getting it.
Admitted(c, kind) ==
    /\ ~svc.closing
    /\ svc.owner \in {Nobody, c}
    /\ kind = "start" \/ c \in {svc.owner, svc.pending}
    /\ svc.busy => (kind = "stop" /\ ~svc.stopQueued)

Revoked(s) == [s EXCEPT !.cancelled = TRUE, !.auth = IF @ = "open" THEN "revoked" ELSE @]

Asked(c, kind) ==
    LET s == [svc EXCEPT !.queued = @ + 1, !.busy = TRUE] IN
    CASE kind = "start" -> [s EXCEPT !.pending = c, !.auth = "open", !.cancelled = FALSE]
      [] kind = "stop"  -> [Revoked(s) EXCEPT !.stopQueued = TRUE]
      [] OTHER          -> s

\* A call, which its sender may have sent just before it left.  The lock is
\* dropped before the startup is cancelled and before the request is pushed.
Method(c, kind, conf) ==
    /\ LoopAt("none") /\ alive[c] # "gone" /\ budget > 0 /\ Admitted(c, kind)
    /\ svc' = Asked(c, kind)
    /\ loop' = [at |-> IF kind = "stop" THEN "cancel" ELSE "push", kind |-> kind, from |-> c, conf |-> conf]
    /\ budget' = budget - 1
    /\ UNCHANGED <<bridge, sup, call, queue, job, alive, shown>>

\* A name leaves the bus; the service is told later.
Vanish(c) ==
    /\ alive[c] = "on" /\ alive' = [alive EXCEPT ![c] = "left"]
    /\ UNCHANGED <<bridge, sup, call, svc, queue, job, loop, shown, budget>>

HoldsAsOwner(c) == c = svc.owner

Holds(c) == c \in {svc.owner, svc.pending}

\* owner_changed.
OwnerChanged(c) ==
    /\ LoopAt("none") /\ alive[c] = "left" /\ alive' = [alive EXCEPT ![c] = "gone"]
    /\ IF Holds(c)
       THEN /\ svc' = [Revoked(svc) EXCEPT !.busy = TRUE]
            /\ loop' = [NoJob EXCEPT !.at = "cancel", !.kind = "internal"]
       ELSE UNCHANGED <<svc, loop>>
    /\ UNCHANGED <<bridge, sup, call, queue, job, shown, budget>>

\* terminate_service: the loop ends, nothing is dispatched after it.
Terminate ==
    /\ LoopAt("none") /\ ~svc.closing
    /\ svc' = [Revoked(svc) EXCEPT !.closing = TRUE]
    /\ loop' = [NoJob EXCEPT !.at = "cancel", !.kind = "quit"]
    /\ UNCHANGED <<bridge, sup, call, queue, job, alive, shown, budget>>

\* sbl_runtime_cancel_start, outside the lock.
CancelFromLoop ==
    /\ LoopAt("cancel") /\ CancelStart
    /\ LoopTo(CASE loop.kind = "stop" -> "push" [] loop.kind = "internal" -> "queue_stop" [] OTHER -> "drain")
    /\ UNCHANGED <<sup, svc, queue, job, alive, shown, budget>>

\* queue_stop: one stop at a time is enough.
QueueStop ==
    /\ LoopAt("queue_stop")
    /\ \/ svc.stopQueued /\ UNCHANGED svc /\ LoopTo("none")
       \/ /\ ~svc.stopQueued
          /\ svc' = [svc EXCEPT !.stopQueued = TRUE, !.queued = @ + 1, !.busy = TRUE]
          /\ loop' = [loop EXCEPT !.at = "push", !.kind = "stop"]
    /\ UNCHANGED <<bridge, sup, call, queue, job, alive, shown, budget>>

PushRequest ==
    /\ LoopAt("push") /\ LoopTo("none")
    /\ queue' = Append(queue, [loop EXCEPT !.at = loop.kind])
    /\ UNCHANGED <<bridge, sup, call, svc, job, alive, shown, budget>>

\* sbl_runtime_stop: the core, its file and what is reported of it.
RuntimeStop == bridge' = StoppedBridge /\ sup' = [StoppedSup EXCEPT !.file = 0] /\ shown' = 0

\* main after the loop: the pool finishes what was pushed, then the runtime goes.
Shutdown ==
    /\ LoopAt("drain") /\ queue = <<>> /\ job.at = "none"
    /\ RuntimeStop /\ LoopTo("exited")
    /\ UNCHANGED <<call, svc, queue, job, alive, budget>>
-----------------------------------------------------------------------------
(***************************************************************************)
(* The worker thread.                                                      *)
(***************************************************************************)
JobAt(stage) == job.at = stage
JobTo(stage) == job' = [job EXCEPT !.at = stage]
WorkerOnly   == UNCHANGED <<queue, loop, alive, budget>>

TakeRequest ==
    /\ JobAt("none") /\ queue # <<>>
    /\ job' = Head(queue) /\ queue' = Tail(queue)
    /\ UNCHANGED <<bridge, sup, call, svc, loop, alive, shown, budget>>

\* request_cancelled: a revoked request, or a sender that is gone.
RequestCancelled == svc.cancelled \/ svc.closing \/ alive[job.from] # "on"

\* authorized: the sender exists and the authority agrees, unless revoked meanwhile.
Authorize ==
    /\ JobAt("start")
    /\ \/ alive[job.from] = "on" /\ svc.auth = "open" /\ JobTo("authorized")
       \/ JobTo("finish")
    /\ UNCHANGED <<bridge, sup, call, svc, shown>> /\ WorkerOnly

\* sbl_runtime_start up to the supervisor: another owner of the routes refuses it.
StartRuntime ==
    /\ JobAt("authorized")
    /\ \/ ~RequestCancelled /\ CallApply(job.conf) /\ JobTo("apply")
       \/ JobTo("finish") /\ UNCHANGED call
    /\ UNCHANGED <<bridge, sup, svc, shown>> /\ WorkerOnly

Applying == JobAt("apply") /\ CoreStep /\ UNCHANGED <<svc, job, shown>> /\ WorkerOnly

\* The profile reported changes only when the supervisor succeeded.
Applied ==
    /\ JobAt("apply") /\ CallAt("done")
    /\ call' = NoCall
    /\ \/ call.rc = 0 /\ shown' = job.conf /\ JobTo("started")
       \/ call.rc # 0 /\ UNCHANGED shown /\ JobTo("finish")
    /\ UNCHANGED <<bridge, sup, svc>> /\ WorkerOnly

\* The owner may have left, or asked to stop, during the startup.
Recheck ==
    /\ JobAt("started")
    /\ \/ RequestCancelled /\ RuntimeStop /\ JobTo("finish")
       \/ ~RequestCancelled /\ UNCHANGED <<bridge, sup, shown>> /\ JobTo("own")
    /\ UNCHANGED <<call, svc>> /\ WorkerOnly

TakeOwnership ==
    /\ JobAt("own") /\ JobTo("finish")
    /\ svc' = [svc EXCEPT !.owner = job.from]
    /\ UNCHANGED <<bridge, sup, call, shown>> /\ WorkerOnly

StopRuntime ==
    /\ JobAt("stop") /\ RuntimeStop /\ JobTo("disown")
    /\ UNCHANGED <<call, svc>> /\ WorkerOnly

Disown ==
    /\ JobAt("disown") /\ JobTo("finish")
    /\ svc' = [svc EXCEPT !.owner = Nobody]
    /\ UNCHANGED <<bridge, sup, call, shown>> /\ WorkerOnly

\* sbl_runtime_status, _select, _delay, _probe: they ask the core, nothing changes here.
QueryRuntime ==
    /\ JobAt("query") /\ JobTo("finish")
    /\ UNCHANGED <<bridge, sup, call, svc, shown>> /\ WorkerOnly

\* The end of worker.
Finished ==
    LET s == [svc EXCEPT !.queued = @ - 1, !.busy = svc.queued - 1 # 0] IN
    CASE job.kind = "start" -> [s EXCEPT !.pending = Nobody, !.auth = "none", !.cancelled = FALSE]
      [] job.kind = "stop"  -> [s EXCEPT !.stopQueued = FALSE]
      [] OTHER              -> s

FinishRequest ==
    /\ JobAt("finish") /\ job' = NoJob /\ svc' = Finished
    /\ UNCHANGED <<bridge, sup, call, shown>> /\ WorkerOnly

WorkerStep == \/ TakeRequest \/ Authorize \/ StartRuntime \/ Applying \/ Applied \/ Recheck \/ TakeOwnership
              \/ StopRuntime \/ Disown \/ QueryRuntime \/ FinishRequest

LoopStep == CancelFromLoop \/ QueueStop \/ PushRequest \/ Shutdown

TunnelNext ==
    \/ \E c \in BusClient :
          \/ \E conf \in CoreConf : Method(c, "start", conf)
          \/ \E kind \in {"stop", "query"} : Method(c, kind, 0)
          \/ Vanish(c) \/ OwnerChanged(c)
    \/ Terminate \/ LoopStep \/ WorkerStep

\* The pool and the main loop are scheduled, every wait of the core is bounded, and
\* the bus delivers its signals.
TunnelFairness == WF_tunnelVars(WorkerStep) /\ WF_tunnelVars(LoopStep)
                  /\ \A c \in BusClient : WF_tunnelVars(OwnerChanged(c))

TunnelSpec == TunnelInit /\ [][TunnelNext]_tunnelVars /\ TunnelFairness
-----------------------------------------------------------------------------
(***************************************************************************)
(* Properties.                                                             *)
(***************************************************************************)
Quiet == queue = <<>> /\ JobAt("none") /\ LoopAt("none")

\* Between requests a core that runs belongs to a client whose departure would
\* still be noticed, it is the one the runtime reports, and its context is live
\* (sbl_runtime_start, worker, owner_changed).
TunnelOwned ==
    (Quiet /\ CoreUp(bridge)) => /\ svc.owner # Nobody /\ alive[svc.owner] # "gone"
                                 /\ shown = bridge.config /\ ~bridge.dead

=============================================================================
