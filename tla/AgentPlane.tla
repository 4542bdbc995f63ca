----------------------------- MODULE AgentPlane -----------------------------
(***************************************************************************)
(* A managed device and the panel: enrollment with a one-time code, the    *)
(* agent's cycle (c/src/agent_main.c) that polls its configuration,        *)
(* installs it, runs queued commands and acknowledges them, and the        *)
(* panel's side of every call (c/src/http_routes_hosts.c, c/src/store.c).  *)
(* A call may be lost, its answer may be lost, or it may reach the panel   *)
(* after the agent has given up on it.  The agent may crash at any step.   *)
(***************************************************************************)
EXTENDS Naturals, Sequences, FiniteSets

CONSTANTS Cmd,          \* commands that may be queued
          Content,      \* configurations the panel may render for the host
          Setting,      \* local transform options
          MaxCodes,     \* enrollment codes that may be issued
          AgentOps,     \* bound on what operators do
          AgentFaults   \* bound on crashes, losses and failures

ASSUME AgentAssumption == MaxCodes \in Nat /\ AgentOps \in Nat /\ AgentFaults \in Nat

VARIABLES panel, agent, disk, late, seen, left

agentVars == <<panel, agent, disk, late, seen, left>>

None0 == 0
Down  == [pc |-> "down", code |-> 0, token |-> 0, etag |-> None0, options |-> None0, ui |-> None0,
          refresh |-> FALSE, reload |-> FALSE, restart |-> FALSE, act |-> FALSE,
          got |-> None0, opts |-> None0, todo |-> <<>>, ok |-> FALSE]

AgentInit ==
    /\ panel \in [enabled : {TRUE}, token : {1}, target : Content, codes : {<<>>},
                  cmds : {[c \in Cmd |-> "none"]}, queue : {<<>>},
                  offered : {None0}, applied : {None0}]
    /\ agent = Down
    /\ disk \in [cred : {0, 1}, settings : Setting, file : {<<None0, None0>>}]
    /\ late = {}
    \* history: answers to redemptions, and whether a failed install left its file behind
    /\ seen = [handed |-> [k \in 1..MaxCodes |-> 0], stuck |-> FALSE]
    /\ left = [ops |-> AgentOps, faults |-> AgentFaults]

Op    == left.ops > 0 /\ left' = [left EXCEPT !.ops = @ - 1]
Fault == left.faults > 0 /\ left' = [left EXCEPT !.faults = @ - 1]
-----------------------------------------------------------------------------
(***************************************************************************)
(* Operators at the panel.                                                 *)
(***************************************************************************)
CreateEnrollmentBeside ==
    /\ Op /\ panel.enabled /\ Len(panel.codes) < MaxCodes
    /\ panel' = [panel EXCEPT !.codes = Append(@, [open |-> TRUE, redeemed |-> FALSE])]
    /\ UNCHANGED <<agent, disk, late, seen>>

\* Earlier codes of the host expire in the transaction that stores the new one.
CreateEnrollment ==
    /\ Op /\ panel.enabled /\ Len(panel.codes) < MaxCodes
    /\ panel' = [panel EXCEPT !.codes =
                    Append([k \in 1..Len(@) |-> [@[k] EXCEPT !.open = @ /\ panel.codes[k].redeemed]],
                           [open |-> TRUE, redeemed |-> FALSE])]
    /\ UNCHANGED <<agent, disk, late, seen>>

\* Ten minutes pass.
CodeExpires ==
    /\ Op /\ \E k \in DOMAIN panel.codes :
                panel.codes[k].open /\ panel' = [panel EXCEPT !.codes[k].open = FALSE]
    /\ UNCHANGED <<agent, disk, late, seen>>

RotateToken ==
    /\ Op /\ panel' = [panel EXCEPT !.token = @ + 1]
    /\ UNCHANGED <<agent, disk, late, seen>>

SetHostEnabled ==
    /\ Op /\ panel' = [panel EXCEPT !.enabled = ~@]
    /\ UNCHANGED <<agent, disk, late, seen>>

EditConfig ==
    /\ Op /\ \E v \in Content \ {panel.target} : panel' = [panel EXCEPT !.target = v]
    /\ UNCHANGED <<agent, disk, late, seen>>

EnqueueCommand(c) ==
    /\ Op /\ panel.cmds[c] = "none"
    /\ panel' = [panel EXCEPT !.cmds[c] = "pending", !.queue = Append(@, c)]
    /\ UNCHANGED <<agent, disk, late, seen>>
-----------------------------------------------------------------------------
(***************************************************************************)
(* The panel's answers.                                                    *)
(***************************************************************************)
\* resolve_agent_host: the enabled host that owns the bearer token.
ResolveHost(token) == panel.enabled /\ token = panel.token

Redeemable(k) == /\ k \in DOMAIN panel.codes /\ panel.enabled
                 /\ panel.codes[k].open /\ ~panel.codes[k].redeemed

\* The token the code is good for is the host's token of this moment.
Redeem(k) ==
    /\ Redeemable(k)
    /\ panel' = [panel EXCEPT !.codes[k].redeemed = TRUE]
    /\ seen' = [seen EXCEPT !.handed[k] = @ + 1]

\* The route answers, and changes nothing, when the store refuses.
RedeemRoute(k) == Redeem(k) \/ (~Redeemable(k) /\ UNCHANGED <<panel, seen>>)

\* The configuration is also noted as the one offered to the host.
ConfigRoute(token) ==
    panel' = IF ResolveHost(token) THEN [panel EXCEPT !.offered = panel.target] ELSE panel

PendingCommands == SelectSeq(panel.queue, LAMBDA c : panel.cmds[c] = "pending")

\* The update matches the row whatever its present status is.
AckCommand(c, ok) == panel' = [panel EXCEPT !.cmds[c] = IF ok THEN "done" ELSE "failed"]

AckRoute(token, c, ok) == \/ ResolveHost(token) /\ AckCommand(c, ok)
                          \/ ~ResolveHost(token) /\ UNCHANGED panel

\* Only a report that names a configuration moves the applied one.
StatusRoute(token, etag) ==
    panel' = IF ResolveHost(token) /\ etag # None0 THEN [panel EXCEPT !.applied = etag] ELSE panel
-----------------------------------------------------------------------------
(***************************************************************************)
(* Starting the agent: a stored credential, else the code it is given.     *)
(***************************************************************************)
\* runtime_init: nothing of the last process is left but the files.
Booted(token) == [Down EXCEPT !.pc = "idle", !.token = token, !.options = disk.settings]

LoadCredential ==
    /\ agent.pc = "down" /\ disk.cred # 0 /\ agent' = Booted(disk.cred)
    /\ UNCHANGED <<panel, disk, late, seen, left>>

\* resolve_agent_identity with no credential: a code the operator was shown.
StartEnrollment ==
    /\ agent.pc = "down" /\ disk.cred = 0
    /\ \E k \in DOMAIN panel.codes :
          panel.codes[k].open /\ agent' = [Down EXCEPT !.pc = "enroll", !.code = k]
    /\ UNCHANGED <<panel, disk, late, seen, left>>

\* sb_enroll_device: any failure ends the process.
Enroll ==
    /\ agent.pc = "enroll"
    /\ \/ /\ Redeem(agent.code)
          /\ agent' = [agent EXCEPT !.pc = "save", !.token = panel.token]
          /\ UNCHANGED <<late, left>>
       \/ /\ ~Redeemable(agent.code) /\ agent' = Down
          /\ UNCHANGED <<panel, seen, late, left>>
       \/ /\ Fault /\ Redeem(agent.code) /\ agent' = Down /\ UNCHANGED late
       \/ /\ Fault /\ agent' = Down
          /\ late' \in {late, late \cup {[m |-> "redeem", k |-> agent.code, token |-> 0, ok |-> TRUE]}}
          /\ UNCHANGED <<panel, seen>>
    /\ UNCHANGED disk

SaveCredential ==
    /\ agent.pc = "save"
    /\ \/ /\ disk' = [disk EXCEPT !.cred = agent.token]
          /\ agent' = Booted(agent.token) /\ UNCHANGED left
       \/ Fault /\ agent' = Down /\ UNCHANGED disk
    /\ UNCHANGED <<panel, late, seen>>
-----------------------------------------------------------------------------
(***************************************************************************)
(* One cycle.                                                              *)
(***************************************************************************)
At(pc) == agent.pc = pc
Goto(a, pc) == [a EXCEPT !.pc = pc]

\* take_queued_actions: a refresh forgets the entity tag.
TakeQueuedActions ==
    /\ At("idle")
    /\ agent' = [agent EXCEPT !.pc = "poll", !.etag = IF agent.refresh THEN None0 ELSE @,
                              !.act = agent.reload \/ agent.restart,
                              !.refresh = FALSE, !.reload = FALSE, !.restart = FALSE]
    /\ UNCHANGED <<panel, disk, late, seen, left>>

Polled(modified) ==
    agent' = IF modified THEN [agent EXCEPT !.pc = "apply", !.got = panel.target] ELSE Goto(agent, "local")

PollConfigOnce ==
    /\ At("poll") /\ ConfigRoute(agent.token)
    /\ Polled(ResolveHost(agent.token) /\ agent.etag = None0)
    /\ UNCHANGED <<disk, late, seen, left>>

\* Not modified, refused and lost calls leave the configuration alone.
PollConfig ==
    /\ At("poll")
    /\ \/ /\ ConfigRoute(agent.token) /\ UNCHANGED left
          /\ Polled(ResolveHost(agent.token) /\ panel.target # agent.etag)
       \/ Fault /\ Polled(FALSE) /\ (ConfigRoute(agent.token) \/ UNCHANGED panel)
    /\ UNCHANGED <<disk, late, seen>>

\* apply_config reads the options in a critical section of its own.
PrepareConfig ==
    /\ At("apply")
    /\ agent' = [agent EXCEPT !.pc = "install", !.opts = agent.options]
    /\ UNCHANGED <<panel, disk, late, seen, left>>

Installed == agent' = [agent EXCEPT !.pc = "local", !.etag = agent.got]

\* The configuration is refused, put back after the core failed to take it,
\* or, when putting it back fails too, left behind.
InstallConfig ==
    /\ At("install")
    /\ \/ /\ disk' = [disk EXCEPT !.file = <<agent.got, agent.opts>>]
          /\ Installed
          /\ seen' = [seen EXCEPT !.stuck = FALSE] /\ UNCHANGED left
       \/ Fault /\ agent' = Goto(agent, "local") /\ UNCHANGED <<disk, seen>>
       \/ /\ Fault /\ agent' = Goto(agent, "local")
          /\ disk' = [disk EXCEPT !.file = <<agent.got, agent.opts>>]
          /\ seen' = [seen EXCEPT !.stuck = TRUE]
    /\ UNCHANGED <<panel, late>>

\* run_local_action and sb_singbox_supervisor_ensure_alive
LocalAction ==
    /\ At("local")
    /\ agent' = [agent EXCEPT !.pc = "fetch", !.act = FALSE]
    /\ UNCHANGED <<panel, disk, late, seen, left>>

FetchCommands ==
    /\ At("fetch")
    /\ \/ /\ ResolveHost(agent.token)
          /\ agent' = [agent EXCEPT !.pc = "run", !.todo = PendingCommands] /\ UNCHANGED left
       \/ ~ResolveHost(agent.token) /\ agent' = Goto(agent, "report") /\ UNCHANGED left
       \/ Fault /\ agent' = Goto(agent, "report")
    /\ UNCHANGED <<panel, disk, late, seen>>

\* run_commands: one turn of the loop up to the acknowledgement.
RunCommand ==
    /\ At("run")
    /\ \/ agent.todo = <<>> /\ agent' = Goto(agent, "report") /\ UNCHANGED left
       \/ /\ agent.todo # <<>>
          /\ \/ agent' = [agent EXCEPT !.pc = "ack", !.ok = TRUE] /\ UNCHANGED left
             \/ Fault /\ agent' = [agent EXCEPT !.pc = "ack", !.ok = FALSE]
    /\ UNCHANGED <<panel, disk, late, seen>>

\* A call that may have been handled, never, or only later.
Lost(call, route) == \/ route /\ UNCHANGED late
                     \/ late' \in {late, late \cup {call}} /\ UNCHANGED panel

\* The first acknowledgement that fails ends the loop.
Acknowledge ==
    LET c == Head(agent.todo)
        giveUp == agent' = [agent EXCEPT !.pc = "report", !.todo = <<>>] IN
    /\ At("ack")
    /\ \/ /\ ResolveHost(agent.token) /\ AckRoute(agent.token, c, agent.ok)
          /\ agent' = [agent EXCEPT !.pc = "run", !.todo = Tail(@)]
          /\ UNCHANGED <<late, left>>
       \/ ~ResolveHost(agent.token) /\ giveUp /\ UNCHANGED <<panel, late, left>>
       \/ /\ Fault /\ giveUp
          /\ Lost([m |-> "ack", k |-> c, token |-> agent.token, ok |-> agent.ok],
                  AckRoute(agent.token, c, agent.ok))
    /\ UNCHANGED <<disk, seen>>

\* Telemetry and the status report close the cycle.
ReportStatus ==
    /\ At("report")
    /\ agent' = [Booted(agent.token) EXCEPT !.etag = agent.etag, !.options = agent.options,
                 !.ui = agent.ui, !.refresh = agent.refresh,
                 !.reload = agent.reload, !.restart = agent.restart]
    /\ \/ StatusRoute(agent.token, agent.etag) /\ UNCHANGED <<late, left>>
       \/ Fault /\ Lost([m |-> "status", k |-> agent.etag, token |-> agent.token, ok |-> TRUE],
                        UNCHANGED panel)
    /\ UNCHANGED <<disk, seen>>

AgentCycle == \/ TakeQueuedActions \/ PollConfig \/ PrepareConfig \/ InstallConfig \/ LocalAction
              \/ FetchCommands \/ RunCommand \/ Acknowledge \/ ReportStatus
-----------------------------------------------------------------------------
(***************************************************************************)
(* The local UI, whose handlers exclude each other but not the cycle.      *)
(***************************************************************************)
Serving == agent.pc \notin {"down", "enroll", "save"}

UISave(v) ==
    /\ Op /\ Serving /\ agent.ui = None0
    /\ disk' = [disk EXCEPT !.settings = v]
    /\ agent' = [agent EXCEPT !.ui = v]
    /\ UNCHANGED <<panel, late, seen>>

UISwap ==
    /\ Serving /\ agent.ui # None0
    /\ agent' = [agent EXCEPT !.options = agent.ui, !.refresh = TRUE, !.ui = None0]
    /\ UNCHANGED <<panel, disk, late, seen, left>>

UIAction ==
    /\ Op /\ Serving
    /\ \/ agent' = [agent EXCEPT !.refresh = TRUE]
       \/ agent' = [agent EXCEPT !.reload = TRUE]
       \/ agent' = [agent EXCEPT !.restart = TRUE]
    /\ UNCHANGED <<panel, disk, late, seen>>
-----------------------------------------------------------------------------
\* A call the agent gave up on reaches the panel after all.
LateCall ==
    /\ \E x \in late :
          /\ late' = late \ {x}
          /\ \/ x.m = "redeem" /\ RedeemRoute(x.k)
             \/ x.m = "ack" /\ AckRoute(x.token, x.k, x.ok) /\ UNCHANGED seen
             \/ x.m = "status" /\ StatusRoute(x.token, x.k) /\ UNCHANGED seen
    /\ UNCHANGED <<agent, disk, left>>

Crash ==
    /\ agent.pc # "down" /\ Fault /\ agent' = Down
    /\ UNCHANGED <<panel, disk, late, seen>>

AgentNext ==
    \/ CreateEnrollment \/ CodeExpires \/ RotateToken \/ SetHostEnabled \/ EditConfig
    \/ \E c \in Cmd : EnqueueCommand(c)
    \/ LoadCredential \/ StartEnrollment \/ Enroll \/ SaveCredential \/ AgentCycle
    \/ \E v \in Setting : UISave(v)
    \/ UISwap \/ UIAction \/ LateCall \/ Crash

\* The service manager restarts the agent; its loop and its UI threads run on.
AgentWork == LoadCredential \/ StartEnrollment \/ Enroll \/ SaveCredential \/ AgentCycle

AgentFairness == /\ WF_agentVars(AgentWork)
                 /\ WF_agentVars(UISwap)

AgentSpec == AgentInit /\ [][AgentNext]_agentVars /\ AgentFairness
-----------------------------------------------------------------------------
\* An enrollment code yields the host's token once, and never after a newer
\* code was issued, whatever answers are lost and whenever calls arrive
\* (sb_store_create_agent_enrollment, sb_store_redeem_agent_enrollment).
CodeGivesOneToken ==
    [][\A k \in 1..MaxCodes : seen'.handed[k] > seen.handed[k]
            => seen.handed[k] = 0 /\ k = Len(panel.codes)]_agentVars

Attached0 == panel.enabled /\ disk.cred = panel.token

\* While the stored credential is good, a device catches up: a queued command is
\* eventually acknowledged (run_cycle comes round after every failure and restart),
\* the panel's configuration under the saved settings becomes the file of the core,
\* and the panel comes to show that the configuration it offered is the one applied
\* (sb_observability_target, sb_observability_status).  An install whose restore
\* failed is excepted until the next install.
DeviceCatchesUp ==
    /\ \A c \in Cmd : panel.cmds[c] = "pending" ~> (panel.cmds[c] # "pending" \/ ~Attached0)
    /\ []<>(Attached0 /\ ~seen.stuck => /\ disk.file = <<panel.target, disk.settings>>
                                        /\ panel.offered = panel.target /\ panel.applied = panel.target)
=============================================================================
