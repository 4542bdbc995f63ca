----------------------------- MODULE PipeService -----------------------------
(***************************************************************************)
(* The process around the Windows controller: service_main.c and the       *)
(* workers of pipe_server.c that serve its callers.  Threads: the main     *)
(* one, the control handler of the service manager, and one per pipe.      *)
(***************************************************************************)
EXTENDS Integers, FiniteSets

CONSTANTS PipeWorkers,     \* pipe instances, one thread each
          Callers          \* bound: connections of a behaviour

VARIABLES pipe,            \* where each worker is
          stopEvent,       \* the manual-reset event everybody waits on
          scm,             \* the status the service manager has last been told
          boot,            \* the main thread
          running,         \* [controller: it exists, pointer: the handler may use it]
          control,         \* the control handler: at rest, or between its two steps
          pipeLeft         \* connections left

pipeVars == <<pipe, stopEvent, scm, boot, running, control, pipeLeft>>

PipeInit ==
    /\ pipe = [w \in PipeWorkers |-> "none"] /\ stopEvent = FALSE /\ scm = "none" /\ boot = "begin"
    /\ running = [controller |-> FALSE, pointer |-> FALSE] /\ control = "rest" /\ pipeLeft = Callers
-----------------------------------------------------------------------------
\* service_main and run: the controller is made, or the service ends.
ServiceBegins ==
    /\ boot = "begin" /\ scm' = "start_pending" /\ UNCHANGED <<pipe, stopEvent, control, pipeLeft>>
    /\ \/ boot' = "spawn" /\ running' = [controller |-> TRUE, pointer |-> TRUE]
       \/ boot' = "report" /\ UNCHANGED running

\* sbw_run_pipe_server: pipes and threads; a thread that cannot be made stops the others.
WorkersSpawn ==
    /\ boot = "spawn" /\ UNCHANGED <<running, control, pipeLeft>>
    /\ \/ /\ pipe' = [w \in PipeWorkers |-> "accept"] /\ boot' = "wait" /\ scm' = "running" /\ UNCHANGED stopEvent
       \/ /\ \E made \in SUBSET PipeWorkers : made # PipeWorkers /\ pipe' = [w \in PipeWorkers |-> IF w \in made THEN "accept" ELSE "none"]
          /\ boot' = "join" /\ stopEvent' = TRUE /\ UNCHANGED scm

MainWakes ==
    boot = "wait" /\ stopEvent /\ boot' = "join" /\ UNCHANGED <<pipe, stopEvent, scm, running, control, pipeLeft>>

\* Every thread is waited for, and the handler loses its pointer, before the controller goes.
MainJoins ==
    /\ boot = "join" /\ \A w \in PipeWorkers : pipe[w] \in {"none", "done"}
    /\ boot' = "free" /\ running' = [running EXCEPT !.pointer = FALSE]
    /\ UNCHANGED <<pipe, stopEvent, scm, control, pipeLeft>>

MainFrees ==
    /\ boot = "free" /\ boot' = "report" /\ running' = [running EXCEPT !.controller = FALSE]
    /\ UNCHANGED <<pipe, stopEvent, scm, control, pipeLeft>>

MainReports ==
    boot = "report" /\ boot' = "end" /\ scm' = "stopped" /\ UNCHANGED <<pipe, stopEvent, running, control, pipeLeft>>
-----------------------------------------------------------------------------
\* The service manager delivers a stop only while "running" is the status.
ControlDelivered ==
    /\ control = "rest" /\ scm = "running" /\ control' = "first"
    /\ UNCHANGED <<pipe, stopEvent, scm, boot, running, pipeLeft>>

\* service_control: the status first, then the event.
ServiceControl ==
    /\ UNCHANGED <<pipe, boot, running, pipeLeft>>
    /\ \/ control = "first" /\ control' = "second" /\ scm' = "stop_pending" /\ UNCHANGED stopEvent
       \/ control = "second" /\ control' = "rest" /\ stopEvent' = TRUE /\ UNCHANGED scm
-----------------------------------------------------------------------------
PipeGoes(w, at) == pipe' = [pipe EXCEPT ![w] = at] /\ UNCHANGED <<scm, boot, running, control>>

AcceptWaits(w) ==
    /\ pipe[w] = "accept" /\ pipeLeft > 0 /\ pipeLeft' = pipeLeft - 1 /\ PipeGoes(w, "request")
    /\ UNCHANGED stopEvent

\* accept_client: a client, or the stop event; worker_main looks at it before each.
Accept(w) ==
    /\ pipe[w] = "accept" /\ UNCHANGED stopEvent
    /\ \/ ~stopEvent /\ pipeLeft > 0 /\ pipeLeft' = pipeLeft - 1 /\ PipeGoes(w, "request")
       \/ stopEvent /\ PipeGoes(w, "done") /\ UNCHANGED pipeLeft

\* transfer of a request: it arrives, or the peer, the deadline or the event ends it.
RequestRead(w) ==
    /\ pipe[w] = "request" /\ UNCHANGED <<stopEvent, pipeLeft>>
    /\ \/ ~stopEvent /\ PipeGoes(w, "authorize")
       \/ PipeGoes(w, "accept")

\* authorized: impersonation that cannot be undone ends the service.
Authorize(w) ==
    /\ pipe[w] = "authorize" /\ UNCHANGED pipeLeft
    /\ \/ PipeGoes(w, IF stopEvent THEN "accept" ELSE "handle") /\ UNCHANGED stopEvent
       \/ PipeGoes(w, "accept") /\ stopEvent' = TRUE

\* sbw_handle_request and the transfer of the answer; the caller may send another.
Handle(w) ==
    /\ pipe[w] = "handle" /\ UNCHANGED <<stopEvent, pipeLeft>>
    /\ \/ PipeGoes(w, "accept")
       \/ ~stopEvent /\ PipeGoes(w, "request")

WorkerStep(w) == Accept(w) \/ RequestRead(w) \/ Authorize(w) \/ Handle(w)
MainStep == WorkersSpawn \/ MainWakes \/ MainJoins \/ MainFrees \/ MainReports

PipeNext == ServiceBegins \/ MainStep \/ ControlDelivered \/ ServiceControl \/ \E w \in PipeWorkers : WorkerStep(w)

PipeSpec ==
    /\ PipeInit /\ [][PipeNext]_pipeVars
    /\ WF_pipeVars(MainStep) /\ WF_pipeVars(ServiceControl) /\ \A w \in PipeWorkers : WF_pipeVars(WorkerStep(w))
-----------------------------------------------------------------------------
\* Asked to stop, or stopped by a worker, the service reports its end, whatever its
\* workers wait for: every wait includes the event or a deadline.
StopIsReached == (stopEvent \/ control # "rest") ~> boot = "end"
=============================================================================
