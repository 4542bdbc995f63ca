----------------------------- MODULE LinuxClient -----------------------------
(***************************************************************************)
(* The controller of the Linux client: linux/src/controller.c.  One worker *)
(* thread carries out the jobs of the window; a cancellation comes from    *)
(* the window's own thread.  The core runs in the process, or as a tunnel  *)
(* in the system service that is spoken to over the bus.                   *)
(***************************************************************************)
EXTENDS Integers, Sequences

CONSTANTS Versions,      \* what a profile may hold
          LinuxJobs      \* jobs and presses of a behaviour

VARIABLES vault,     \* the state on disk
          mem,       \* the controller's state, with remote and system_proxy
          local,     \* what the core in the process runs
          daemon,    \* what the tunnel service runs, and whether this client owns it
          calls,      \* calls on the bus the service has not handled
          queue,     \* jobs that were submitted
          work,      \* the job being carried out
          cancelled, \* the job's GCancellable is cancelled
          linuxGhost \* the wish of the user, what is left

linuxVars == <<vault, mem, local, daemon, calls, queue, work, cancelled, linuxGhost>>

Off == 0
Idle == [runs |-> Off, owned |-> FALSE]
NoWork == [at |-> "none"]
\* The selected profile, its last_good and pending_refresh, and the proxy switch.
FirstProfile == [v |-> 1, good |-> Off, pending |-> FALSE]
\* One that ran as version 1 and was refreshed while it was down.
RefreshedProfile == [v |-> 2, good |-> 1, pending |-> TRUE]

LinuxInit ==
    /\ vault \in {FirstProfile, RefreshedProfile} /\ mem = [state |-> vault, remote |-> FALSE]
    /\ local = Off /\ daemon = Idle /\ calls = <<>> /\ queue = <<>> /\ work = NoWork /\ cancelled = FALSE
    /\ linuxGhost = [wish |-> "up", jobs |-> LinuxJobs, excused |-> FALSE]

Connected == mem.remote \/ local # Off
Step(at) == work' = [work EXCEPT !.at = at]
Finish == work' = [work EXCEPT !.at = "view"]
-----------------------------------------------------------------------------
(***************************************************************************)
(* The window: sbl_controller_submit and sbl_controller_cancel.            *)
(***************************************************************************)
Submits(job) ==
    /\ linuxGhost.jobs > 0 /\ linuxGhost' = [linuxGhost EXCEPT !.jobs = @ - 1]
    /\ queue = <<>> /\ work = NoWork /\ queue' = <<job>>
    /\ UNCHANGED <<vault, mem, local, daemon, calls, work, cancelled>>

\* A press during a job: the job's cancellable is cancelled (too early, if the job has
\* not begun), the service is told to stop, and a disconnection is queued.
Cancels ==
    /\ linuxGhost.jobs > 0 /\ linuxGhost' = [linuxGhost EXCEPT !.jobs = @ - 1]
    /\ (work # NoWork \/ queue # <<>>) /\ Len(queue) + (IF work = NoWork THEN 0 ELSE 1) < 2
    /\ cancelled' = (work # NoWork) /\ queue' = Append(queue, [job |-> "disconnect", tun |-> FALSE])
    /\ calls' = Append(calls, [call |-> "Stop", v |-> Off, waits |-> FALSE])
    /\ UNCHANGED <<vault, mem, local, daemon, work>>

\* The worker takes a job, with a cancellable of its own.
TakesJob ==
    /\ work = NoWork /\ queue # <<>> /\ queue' = Tail(queue) /\ cancelled' = FALSE
    /\ work' = [at |-> Head(queue).job, job |-> Head(queue).job, tun |-> Head(queue).tun, next |-> mem.state, v |-> Off,
                back |-> "none", ok |-> FALSE]
    /\ linuxGhost' = IF Head(queue).job = "connect" THEN [linuxGhost EXCEPT !.wish = "up"] ELSE linuxGhost
    /\ UNCHANGED <<vault, mem, local, daemon, calls>>
-----------------------------------------------------------------------------
(***************************************************************************)
(* The calls a job makes.  Their result is in work.ok at label work.back.  *)
(***************************************************************************)
StartProfile(v, tun, back) == work' = [work EXCEPT !.at = IF tun THEN "send" ELSE "run", !.v = v, !.back = back]
Returns(ok) == work' = [work EXCEPT !.at = work.back, !.ok = ok]

\* sbl_runtime_start: a failed start leaves what ran before, or nothing.
RunsLocally ==
    /\ work.at = "run"
    /\ \/ local' = work.v /\ Returns(TRUE)
       \/ local' \in {local, Off} /\ Returns(FALSE)
    /\ UNCHANGED <<vault, mem, daemon, calls, queue, cancelled, linuxGhost>>

\* bus_call("Start"): not even sent when the job has been cancelled.
SendsStart ==
    /\ work.at = "send"
    /\ IF cancelled THEN Returns(FALSE) /\ UNCHANGED calls
       ELSE Step("sent") /\ calls' = Append(calls, [call |-> "Start", v |-> work.v, waits |-> TRUE])
    /\ UNCHANGED <<vault, mem, local, daemon, queue, cancelled, linuxGhost>>

Deserted == [k \in DOMAIN calls |-> [calls[k] EXCEPT !.waits = FALSE]]
Excused(really) == linuxGhost' = [linuxGhost EXCEPT !.excused = @ \/ really]

\* The call is given up on a cancellation, or on the bus's timeout of two minutes: then
\* the service may still start a tunnel the client does not know of.
StartGivenUp ==
    /\ work.at = "sent" /\ Returns(FALSE) /\ calls' = Deserted /\ Excused(~cancelled)
    /\ UNCHANGED <<vault, mem, local, daemon, queue, cancelled>>

\* The service handles one call after the other; the answer may find no one waiting.  A
\* failed or cancelled start leaves the tunnel that was up, or none.  A stop by a client
\* that does not own the tunnel is refused, which tells the client that it has none.
ServiceHandles ==
    /\ calls # <<>> /\ calls' = Tail(calls)
    /\ LET w == Head(calls)
           Answers(ok, up) == IF w.waits THEN Returns(ok) /\ mem' = [mem EXCEPT !.remote = up]
                              ELSE UNCHANGED <<work, mem>> IN
       \/ w.call = "Start" /\ daemon' = [runs |-> w.v, owned |-> TRUE] /\ Answers(TRUE, TRUE)
       \/ /\ w.call = "Start" /\ daemon' \in {daemon, [daemon EXCEPT !.runs = Off]}
          /\ Answers(FALSE, mem.remote)
       \/ w.call = "Stop" /\ daemon' = Idle /\ Answers(TRUE, FALSE)
    /\ UNCHANGED <<vault, local, queue, cancelled, linuxGhost>>

\* disconnect: the proxy settings, then the tunnel (this call is not cancellable), then
\* the core in the process.
Disconnect(back) == work' = [work EXCEPT !.at = "stop", !.back = back]

StopsTunnel ==
    /\ work.at = "stop"
    /\ IF mem.remote THEN Step("stopping") /\ calls' = Append(calls, [call |-> "Stop", v |-> Off, waits |-> TRUE]) /\ UNCHANGED local
       ELSE (\E restored \in BOOLEAN : Returns(restored)) /\ local' = Off /\ UNCHANGED calls
    /\ UNCHANGED <<vault, mem, daemon, queue, cancelled, linuxGhost>>

\* The bus fails, or the service is busy stopping: the client goes on believing in the
\* tunnel.
StopFails ==
    /\ work.at = "stopping" /\ Returns(FALSE)
    /\ calls' \in {Deserted, SelectSeq(calls, LAMBDA w : ~w.waits)}
    /\ UNCHANGED <<vault, mem, local, daemon, queue, cancelled, linuxGhost>>

Calls == RunsLocally \/ SendsStart \/ StartGivenUp \/ StopsTunnel \/ StopFails
-----------------------------------------------------------------------------
(***************************************************************************)
(* execute: SBL_DISCONNECT and SBL_CONNECT.                                *)
(***************************************************************************)
Still == UNCHANGED <<vault, mem, local, daemon, calls, queue, cancelled>>

Disconnects == work.at = "disconnect" /\ Disconnect("disconnected") /\ Still /\ UNCHANGED linuxGhost

Disconnected ==
    /\ work.at = "disconnected" /\ Finish /\ Still
    /\ linuxGhost' = IF work.ok THEN [linuxGhost EXCEPT !.wish = "down"] ELSE linuxGhost

Connects ==
    /\ work.at = "connect" /\ Still /\ UNCHANGED linuxGhost
    /\ IF Connected THEN Disconnect("connect anew") ELSE StartProfile(mem.state.v, work.tun, "started")

ConnectsAnew ==
    /\ work.at = "connect anew" /\ Still /\ UNCHANGED linuxGhost
    /\ IF work.ok THEN StartProfile(mem.state.v, work.tun, "started") ELSE Finish

\* A profile whose last refresh does not start falls back to the one that did.
ConnectStarted ==
    /\ work.at = "started" /\ Still /\ UNCHANGED linuxGhost
    /\ IF work.ok THEN Step("look") ELSE
       IF cancelled \/ ~mem.state.pending \/ mem.state.good = Off THEN Finish
       ELSE StartProfile(mem.state.good, work.tun, "fallen back")

ConnectFellBack ==
    /\ work.at = "fallen back" /\ Still /\ UNCHANGED linuxGhost
    /\ IF work.ok THEN work' = [work EXCEPT !.at = "look", !.next = [mem.state EXCEPT !.v = mem.state.good]] ELSE Finish

\* Cancelled meanwhile, or the proxy settings cannot be changed: down again.
ConnectLooks ==
    /\ work.at = "look" /\ Still /\ UNCHANGED linuxGhost
    /\ \/ cancelled /\ Disconnect("gave up")
       \/ ~cancelled /\ Step("save connect")
       \/ ~cancelled /\ ~mem.remote /\ Disconnect("gave up")

\* sbl_vault_save fails: before the file is replaced, or after it (when the directory
\* cannot be flushed).
SaveFails(s) == vault' \in {vault, s} /\ UNCHANGED mem

Remembered(s) == [s EXCEPT !.good = s.v, !.pending = FALSE]

ConnectSaves ==
    /\ work.at = "save connect"
    /\ \/ vault' = Remembered(work.next) /\ mem' = [mem EXCEPT !.state = Remembered(work.next)] /\ Finish
       \/ Disconnect("gave up") /\ SaveFails(Remembered(work.next))
    /\ UNCHANGED <<local, daemon, calls, queue, cancelled, linuxGhost>>

GaveUp == work.at = "gave up" /\ Finish /\ Still /\ Excused(~work.ok)

ConnectStep ==
    \/ Disconnects \/ Disconnected \/ Connects \/ ConnectsAnew \/ ConnectStarted \/ ConnectFellBack
    \/ ConnectLooks \/ ConnectSaves \/ GaveUp
-----------------------------------------------------------------------------
(***************************************************************************)
(* execute: a change of the profile, and commit.                           *)
(***************************************************************************)
\* "edit" imports, settings and selections; "refresh" new nodes or a new configuration.
\* One that is not running is validated first.
Changes ==
    /\ work.at \in {"edit", "refresh"} /\ Still /\ UNCHANGED linuxGhost
    /\ \/ Finish                                             \* refused, unreachable, cancelled
       \/ /\ ~cancelled /\ \E v \in Versions \ {mem.state.v}, keeps \in {TRUE, work.at = "refresh"} :
             work' = [work EXCEPT !.at = "commit", !.next =
                        [mem.state EXCEPT !.v = v, !.good = IF keeps THEN @ ELSE Off,
                                          !.pending = work.at = "refresh" /\ mem.state.good # Off]]

\* Another profile: the connection of this one ends first.
Switches ==
    /\ work.at = "switch" /\ Still /\ UNCHANGED linuxGhost
    /\ IF Connected THEN Disconnect("switched") ELSE work' = [work EXCEPT !.at = "switched", !.ok = TRUE]

Switched ==
    /\ work.at = "switched"
    /\ IF ~work.ok \/ cancelled THEN Finish /\ UNCHANGED <<vault, mem>>
       ELSE \/ Finish /\ UNCHANGED <<vault, mem>>
            \/ \E v \in Versions : /\ vault' = [v |-> v, good |-> Off, pending |-> FALSE] /\ Finish
                                   /\ mem' = [mem EXCEPT !.state = vault']
    /\ UNCHANGED <<local, daemon, calls, queue, cancelled, linuxGhost>>

\* commit: a connection that is up gets the change first; a change the core refuses is
\* not saved.
Commits ==
    /\ work.at = "commit" /\ UNCHANGED <<local, daemon, calls, queue, cancelled, linuxGhost>>
    /\ IF Connected THEN StartProfile(work.next.v, mem.remote, "commit started") /\ UNCHANGED <<vault, mem>>
       ELSE \/ vault' = work.next /\ mem' = [mem EXCEPT !.state = work.next] /\ Finish
            \/ Finish /\ SaveFails(work.next)

CommitSavesOnly ==
    /\ work.at = "commit started" /\ UNCHANGED <<local, daemon, calls, queue, cancelled, linuxGhost>>
    /\ \/ ~work.ok /\ Finish /\ UNCHANGED <<vault, mem>>
       \/ work.ok /\ vault' = Remembered(work.next) /\ mem' = [mem EXCEPT !.state = vault'] /\ Step("commands")
       \/ work.ok /\ Finish /\ SaveFails(Remembered(work.next))

\* A change that cannot be saved is taken back from the core as well.
CommitSaves ==
    /\ work.at = "commit started" /\ UNCHANGED <<local, daemon, calls, queue, cancelled, linuxGhost>>
    /\ \/ ~work.ok /\ Finish /\ UNCHANGED <<vault, mem>>
       \/ work.ok /\ vault' = Remembered(work.next) /\ mem' = [mem EXCEPT !.state = vault'] /\ Step("commands")
       \/ work.ok /\ StartProfile(mem.state.v, mem.remote, "taken back") /\ SaveFails(Remembered(work.next))

CommitTakenBack ==
    /\ work.at = "taken back" /\ Finish /\ Still
    /\ Excused(~work.ok)

\* managed_commands, after a synchronisation: a reload starts the profile again.
Commands ==
    /\ work.at = "commands" /\ Still /\ UNCHANGED linuxGhost
    /\ Finish \/ (work.job = "refresh" /\ ~cancelled /\ Connected /\ StartProfile(mem.state.v, mem.remote, "commanded"))

Commanded == work.at = "commanded" /\ Finish /\ Still /\ UNCHANGED linuxGhost

\* view: asked for its status, a service with no tunnel of this client disowns it.
Views ==
    /\ work.at = "view" /\ work' = NoWork
    /\ mem' \in {mem} \union (IF daemon.owned THEN {} ELSE {[mem EXCEPT !.remote = FALSE]})
    /\ UNCHANGED <<vault, local, daemon, calls, queue, cancelled, linuxGhost>>

ChangeStep == Commands \/ Commanded \/ Views \/ Changes \/ Switches \/ Switched \/ Commits \/ CommitSaves \/ CommitTakenBack
-----------------------------------------------------------------------------
\* The client dies: its core with it, and the service sees its client vanish.
LinuxDies ==
    /\ linuxGhost.jobs > 0 /\ linuxGhost' = [linuxGhost EXCEPT !.jobs = @ - 1]
    /\ mem' = [state |-> vault, remote |-> FALSE] /\ local' = Off /\ daemon' = Idle /\ calls' = <<>>
    /\ queue' = <<>> /\ work' = NoWork /\ cancelled' = FALSE /\ UNCHANGED vault

LinuxNext ==
    \/ \E job \in {"edit", "refresh", "switch", "disconnect"} : Submits([job |-> job, tun |-> FALSE])
    \/ \E tun \in BOOLEAN : Submits([job |-> "connect", tun |-> tun])
    \/ Cancels \/ TakesJob \/ Calls \/ ServiceHandles \/ ConnectStep \/ ChangeStep \/ LinuxDies

LinuxSpec == LinuxInit /\ [][LinuxNext]_linuxVars
-----------------------------------------------------------------------------
(***************************************************************************)
(* Properties.                                                             *)
(***************************************************************************)
Quiescent == work = NoWork /\ calls = <<>>

\* Between jobs nothing runs that is not the profile that is saved and shown: changes
\* that fail to start or to be saved are taken back from the core; and nothing at all after a
\* disconnection that succeeded, wherever a press caught the job before it: in the queue, while
\* its call was on the bus, or after the answer.  (A change whose taking back fails as well is
\* excepted, and so is a start the bus timed out on.)
RunsWhatIsSaved ==
    Quiescent /\ ~linuxGhost.excused =>
        /\ {local, daemon.runs} \subseteq {Off, mem.state.v}
        /\ linuxGhost.wish = "down" => local = Off /\ daemon = Idle

=============================================================================
