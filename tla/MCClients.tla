----------------------------- MODULE MCClients -----------------------------
(***************************************************************************)
(* The clients and what the panel serves them, each part explored by       *)
(* itself: the Windows client, its core process and its leak protection,   *)
(* the Linux client and the desktop's proxy settings, the claims of proxy  *)
(* users, the agent's statistics and console, the relay of a WebSocket,    *)
(* the rendering of a configuration, and the HTTP server.  `part' says     *)
(* which one moves; the others keep one of their initial states.           *)
(***************************************************************************)
EXTENDS WindowsClient, LinuxClient, SystemProxy, LeakProtection, CoreProcess, ProxyClaims, RouteStats,
        AgentConsole, ClashBridge, ConfigRender, HttpExchange

VARIABLE part

everyVar ==
    <<clientVars, linuxVars, proxyVars, guardVars, coreVars, claimVars, statVars, consoleVars, bridgeVars,
      renderVars, httpVars, part>>

\* What the Windows client meets: what the window may ask for, requests, crashes, cores
\* that are lost, new revisions and commands.
Situation(w, r, c, l, v, m) ==
    [wants |-> w, requests |-> r, crashes |-> c, losses |-> l, revisions |-> v, commands |-> m]
SituationsMet ==
    {Situation({"start", "disconnect"}, 2, 1, 0, 0, 0), Situation({"policy", "select", "refresh"}, 1, 1, 1, 1, 0),
     Situation({"disconnect"}, 1, 1, 0, 0, 1), Situation({"refresh"}, 0, 1, 0, 1, 2),
     Situation({"protect"}, 2, 1, 1, 0, 0)}
Ordered == <<"restart", "reload">>

\* Names of the nodes of a host: none, plain ones, twice the same, and names the renderer uses.
ListsMet == {<<>>, <<"a">>, <<"a", "a">>, <<"Proxy", "a">>, <<"net">>, <<"direct", "a">>, <<"ts">>}

RenderRests == asked = (CHOOSE r \in Requested : TRUE) /\ options = [egress |-> TRUE, renamed |-> NoTag, default |-> NoTag, local |-> {}]
               /\ rendered = NotYet /\ prepared = NotYet
HttpRests   == wireIn = HeadOf(Plain) /\ phase = "idle" /\ current = Plain /\ remains = 0 /\ status = 200 /\ raw = FALSE
               /\ caller = "nobody" /\ ran = "none" /\ audited = 0 /\ written = 0 /\ misread = FALSE

ClientsInit ==
    /\ part \in {"client", "linux", "proxy", "guard", "core", "claims", "stats", "console", "bridge", "render", "http"}
    /\ ClientInit /\ (part # "client" => left.requests = 0)
    /\ LinuxInit /\ (part # "linux" => vault = FirstProfile)
    /\ ProxyInit /\ CoreInit /\ ConsoleInit
    /\ GuardInit /\ (part # "guard" => setting = "off")
    /\ ClaimInit /\ (part # "claims" => Live = {})
    /\ StatsInit /\ (part # "stats" => limit = 1 /\ core.total = 0)
    /\ BridgeInit /\ (part # "bridge" => session)
    /\ IF part = "render" THEN RenderInit ELSE RenderRests
    /\ IF part = "http" THEN HttpInit ELSE HttpRests

ClientMoves ==
    /\ part = "client" /\ ClientNext
    /\ UNCHANGED <<linuxVars, proxyVars, guardVars, coreVars, claimVars, statVars, consoleVars, bridgeVars, renderVars, httpVars, part>>
LinuxMoves ==
    /\ part = "linux" /\ LinuxNext
    /\ UNCHANGED <<clientVars, proxyVars, guardVars, coreVars, claimVars, statVars, consoleVars, bridgeVars, renderVars, httpVars, part>>
ProxyMoves ==
    /\ part = "proxy" /\ ProxyNext
    /\ UNCHANGED <<clientVars, linuxVars, guardVars, coreVars, claimVars, statVars, consoleVars, bridgeVars, renderVars, httpVars, part>>
GuardMoves ==
    /\ part = "guard" /\ GuardNext
    /\ UNCHANGED <<clientVars, linuxVars, proxyVars, coreVars, claimVars, statVars, consoleVars, bridgeVars, renderVars, httpVars, part>>
CoreMoves ==
    /\ part = "core" /\ CoreNext
    /\ UNCHANGED <<clientVars, linuxVars, proxyVars, guardVars, claimVars, statVars, consoleVars, bridgeVars, renderVars, httpVars, part>>
ClaimMoves ==
    /\ part = "claims" /\ ClaimNext
    /\ UNCHANGED <<clientVars, linuxVars, proxyVars, guardVars, coreVars, statVars, consoleVars, bridgeVars, renderVars, httpVars, part>>
StatsMoves ==
    /\ part = "stats" /\ StatsNext
    /\ UNCHANGED <<clientVars, linuxVars, proxyVars, guardVars, coreVars, claimVars, consoleVars, bridgeVars, renderVars, httpVars, part>>
ConsoleMoves ==
    /\ part = "console" /\ ConsoleNext
    /\ UNCHANGED <<clientVars, linuxVars, proxyVars, guardVars, coreVars, claimVars, statVars, bridgeVars, renderVars, httpVars, part>>
BridgeMoves ==
    /\ part = "bridge" /\ BridgeNext
    /\ UNCHANGED <<clientVars, linuxVars, proxyVars, guardVars, coreVars, claimVars, statVars, consoleVars, renderVars, httpVars, part>>
RenderMoves ==
    /\ part = "render" /\ RenderNext
    /\ UNCHANGED <<clientVars, linuxVars, proxyVars, guardVars, coreVars, claimVars, statVars, consoleVars, bridgeVars, httpVars, part>>
HttpMoves ==
    /\ part = "http" /\ HttpNext
    /\ UNCHANGED <<clientVars, linuxVars, proxyVars, guardVars, coreVars, claimVars, statVars, consoleVars, bridgeVars, renderVars, part>>

ClientsNext ==
    \/ ClientMoves \/ LinuxMoves \/ ProxyMoves \/ GuardMoves \/ CoreMoves \/ ClaimMoves
    \/ StatsMoves \/ ConsoleMoves \/ BridgeMoves \/ RenderMoves \/ HttpMoves

ClientsSpec == ClientsInit /\ [][ClientsNext]_everyVar
=============================================================================
