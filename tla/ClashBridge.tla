---------------------------- MODULE ClashBridge ----------------------------
(***************************************************************************)
(* The telemetry streams of the panel (c/src/clash_websocket.c): one       *)
(* browser WebSocket, the relay thread the ready handler starts for it and *)
(* the upstream WebSocket of the sing-box controller.  Four parties move   *)
(* on their own: the civetweb worker (connect, ready, close handlers), the *)
(* relay thread, the controller, and whoever revokes the session.  A step  *)
(* of the relay is one wait of io_wait, one frame, or one pass of the loop *)
(* of relay_pump.  Messages are numbered; a frame is its message and       *)
(* fragment.  Control frames sent upstream never fill the socket buffer.   *)
(***************************************************************************)
EXTENDS Naturals, Sequences

CONSTANTS AuthAge,       \* ticks between two checks of the session (5000 ms)
          PingAge,       \* PING_INTERVAL_MS in the same ticks
          StreamFrames   \* bound: frames the controller sends, one of them a control frame

VARIABLES worker,   \* the civetweb worker of the browser connection
          bridge,   \* struct ws_bridge: open, closing, thread, woken, freed
          relay,    \* where relay_main is
          reply,    \* what the controller did in the wait the relay is in
          wire,     \* frames on their way
          buffer,   \* frames read and not yet parsed (in)
          message,  \* the fragments reassembled so far
          upstream, \* the controller: next message, fragment sent, frames left
          session,  \* is the session valid and the device allowed
          clock,    \* ages of the last check, the last ping, the revocation
          shown     \* what the browser was sent

bridgeVars == <<worker, bridge, relay, reply, wire, buffer, message, upstream, session, clock, shown>>

Frame(k, m, f, fin) == [kind |-> k, msg |-> m, frag |-> f, fin |-> fin]
Control(k) == Frame(k, 0, 0, TRUE)

BridgeInit ==
  /\ worker = "connect" /\ relay = "none" /\ reply = "silent"
  /\ bridge = [open |-> FALSE, closing |-> FALSE, woken |-> FALSE, freed |-> FALSE]
  /\ wire = <<>> /\ buffer = <<>> /\ message = <<>>
  /\ upstream = [msg |-> 1, frag |-> 0, left |-> StreamFrames, control |-> TRUE, up |-> TRUE]
  /\ session \in BOOLEAN
  /\ clock = [auth |-> AuthAge, ping |-> 0]
  /\ shown = <<>>

(* browser_send() under the bridge's mutex: nothing once the close handler ran or a
   Close frame was sent. *)
BrowserSend(frames) ==
  IF bridge.open /\ ~bridge.closing
    THEN /\ shown' = shown \o SelectSeq(frames, LAMBDA f : f.kind \in {"data", "close"})
         /\ bridge' = [bridge EXCEPT !.closing = \E i \in DOMAIN frames : frames[i].kind = "close"]
    ELSE UNCHANGED <<shown, bridge>>

BrowserClose == BrowserSend(<<Control("close")>>)

CloseWithError == BrowserSend(<<Control("error"), Control("close")>>)

(***************************************************************************)
(* The civetweb worker.                                                    *)
(***************************************************************************)
(* The session is checked before the upgrade: a 401 or 403, or the handshake. *)
WsConnect ==
  /\ worker = "connect"
  /\ worker' = IF session THEN "ready" ELSE "refused"
  /\ UNCHANGED <<bridge, relay, reply, wire, buffer, message, upstream, session, clock, shown>>

(* The bridge is registered and its relay started; without a pipe or a thread the
   browser is told. *)
WsReady(started) ==
  /\ worker = "ready" /\ worker' = "reading"
  /\ relay' = IF started THEN "resolve" ELSE "none"
  /\ bridge' = [bridge EXCEPT !.open = TRUE, !.closing = ~started]
  /\ shown' = IF started THEN shown ELSE <<Control("close")>>
  /\ UNCHANGED <<reply, wire, buffer, message, upstream, session, clock>>

(* The browser leaves, or answers a Close: civetweb's read loop ends. *)
WsData ==
  /\ worker = "reading" /\ worker' = "left"
  /\ UNCHANGED <<bridge, relay, reply, wire, buffer, message, upstream, session, clock, shown>>

CloseMarks ==
  /\ worker = "left" /\ worker' = "waking"
  /\ bridge' = [bridge EXCEPT !.open = FALSE]
  /\ UNCHANGED <<relay, reply, wire, buffer, message, upstream, session, clock, shown>>

CloseWakes ==
  /\ worker = "waking" /\ worker' = "joining"
  /\ bridge' = [bridge EXCEPT !.woken = TRUE]
  /\ UNCHANGED <<relay, reply, wire, buffer, message, upstream, session, clock, shown>>

(* pthread_join, bridge_free; the connection is civetweb's again. *)
CloseJoins ==
  /\ worker = "joining" /\ relay \in {"none", "gone"} /\ worker' = "free"
  /\ bridge' = [bridge EXCEPT !.freed = TRUE]
  /\ UNCHANGED <<relay, reply, wire, buffer, message, upstream, session, clock, shown>>

CloseHandler == CloseMarks \/ CloseWakes \/ CloseJoins

(***************************************************************************)
(* The relay thread.                                                       *)
(***************************************************************************)
RelayKeeps == UNCHANGED <<worker, session>>

(* What relay_main frees as it returns. *)
RelayEnds ==
  /\ relay' = "gone" /\ reply' = "silent" /\ wire' = <<>> /\ buffer' = <<>> /\ message' = <<>>
  /\ clock' = [auth |-> 0, ping |-> 0]
  /\ upstream' = [upstream EXCEPT !.left = 0, !.up = FALSE, !.frag = 0, !.control = FALSE]

(* The controller's side ended: the browser is sent Close 1001. *)
UpstreamClosed == BrowserClose /\ RelayEnds

(* The target of ?host= or the panel's own; none, or an URL it cannot dial, is an
   error the browser is told. *)
Resolve(found) ==
  /\ relay = "resolve" /\ RelayKeeps
  /\ IF found
       THEN relay' = "connect" /\ UNCHANGED <<bridge, shown, reply, wire, buffer, message, upstream, clock>>
       ELSE CloseWithError /\ RelayEnds

(* io_wait(): the socket is ready or the browser has gone. *)
IoWait(stage) == reply # "silent" \/ bridge.woken

(* io_connect(), io_tls() and upstream_handshake(): each waits, without a timeout,
   for the controller or the wake pipe. *)
Dial(stage, following) ==
  /\ relay = stage /\ IoWait(stage) /\ RelayKeeps
  /\ \/ /\ bridge.woken /\ RelayEnds /\ UNCHANGED <<bridge, shown>>
     \/ /\ ~bridge.woken /\ reply = "ok" /\ reply' = "silent" /\ relay' = following
        /\ UNCHANGED <<bridge, shown, wire, buffer, message, upstream, clock>>
     \/ /\ ~bridge.woken /\ reply = "failed" /\ RelayEnds /\ CloseWithError
     \/ /\ ~bridge.woken /\ reply = "closed" /\ UpstreamClosed

IoConnect == \E s \in {"tls", "handshake"} : Dial("connect", s)
IoTls == Dial("tls", "handshake")
Handshake == Dial("handshake", "top")

AuthDue == clock.auth >= AuthAge

(* The head of relay_pump's loop: the session and the device scope are read again
   every five seconds, and at once when the pump starts. *)
PumpChecks ==
  /\ relay = "top" /\ RelayKeeps
  /\ UNCHANGED <<reply, wire, buffer, message, upstream>>
  /\ IF AuthDue /\ ~session
       THEN BrowserClose /\ relay' = "bye" /\ UNCHANGED clock
       ELSE /\ relay' = "parse" /\ UNCHANGED <<bridge, shown>>
            /\ clock' = IF AuthDue THEN [clock EXCEPT !.auth = 0] ELSE clock

ForwardsPart(f) == <<[kind |-> "data", parts |-> << <<f.msg, f.frag>> >>]>>

(* A finished message goes to the browser whole. *)
Forwards(f) == <<[kind |-> "data", parts |-> Append(message, <<f.msg, f.frag>>)]>>

DataFrame(f) ==
  /\ message' = IF f.fin THEN <<>> ELSE Append(message, <<f.msg, f.frag>>)
  /\ IF f.fin THEN BrowserSend(Forwards(f)) ELSE UNCHANGED <<bridge, shown>>

(* One frame of the buffer: data, ping (answered and passed on), pong, Close, or one
   that breaks the protocol. *)
PumpFrame ==
  /\ relay = "parse" /\ buffer # <<>> /\ RelayKeeps
  /\ LET f == Head(buffer)
         more == relay' = "parse" /\ buffer' = Tail(buffer) /\ UNCHANGED <<reply, wire, upstream, clock>>
     IN \/ f.kind = "data" /\ DataFrame(f) /\ more
        \/ f.kind = "pong" /\ BrowserSend(<<f>>) /\ more /\ UNCHANGED message
        \/ f.kind = "ping" /\ upstream.up /\ BrowserSend(<<f>>) /\ more /\ UNCHANGED message
        \/ f.kind = "ping" /\ ~upstream.up /\ UpstreamClosed
        \/ f.kind = "close" /\ BrowserSend(<<f>>) /\ RelayEnds
        \/ f.kind = "bad" /\ UpstreamClosed

(* The buffer is empty: leave when the browser has, ping both sides when due, read. *)
PumpPings ==
  /\ relay = "parse" /\ buffer = <<>> /\ RelayKeeps
  /\ \/ /\ ~(bridge.open /\ ~bridge.closing) /\ relay' = "bye"
        /\ UNCHANGED <<bridge, shown, clock, reply, wire, buffer, message, upstream>>
     \/ /\ bridge.open /\ ~bridge.closing /\ (clock.ping < PingAge \/ upstream.up) /\ relay' = "wait"
        /\ clock' = IF clock.ping < PingAge THEN clock ELSE [clock EXCEPT !.ping = 0]
        /\ BrowserSend(<<Control("ping")>>) /\ UNCHANGED <<reply, wire, buffer, message, upstream>>
     \/ /\ bridge.open /\ ~bridge.closing /\ clock.ping >= PingAge /\ ~upstream.up
        /\ UpstreamClosed

(* io_read()'s timeout: the nearer of the next ping and the next check. *)
WaitOver == clock.ping >= PingAge \/ clock.auth >= AuthAge

PumpReads ==
  /\ relay = "wait" /\ RelayKeeps
  /\ \/ /\ bridge.woken /\ relay' = "bye"
        /\ UNCHANGED <<bridge, shown, reply, wire, buffer, message, upstream, clock>>
     \/ /\ ~bridge.woken /\ wire # <<>> /\ buffer' = buffer \o wire /\ wire' = <<>> /\ relay' = "top"
        /\ UNCHANGED <<bridge, shown, reply, message, upstream, clock>>
     \/ ~bridge.woken /\ wire = <<>> /\ ~upstream.up /\ UpstreamClosed
     \/ /\ WaitOver /\ relay' = "top"
        /\ UNCHANGED <<bridge, shown, reply, wire, buffer, message, upstream, clock>>

(* Close 1000 to the controller, at most a second, then the socket is dropped. *)
RelayLeaves ==
  /\ relay = "bye" /\ RelayKeeps /\ RelayEnds /\ UNCHANGED <<bridge, shown>>

RelayStep == \/ \E found \in BOOLEAN : Resolve(found)
             \/ IoConnect \/ IoTls \/ Handshake \/ PumpChecks \/ PumpFrame \/ PumpPings
             \/ PumpReads \/ RelayLeaves

(***************************************************************************)
(* The controller, the clock and the administrator.                        *)
(***************************************************************************)
UpAnswers ==
  /\ relay \in {"connect", "tls", "handshake"} /\ reply = "silent"
  /\ reply' \in CASE relay = "connect" -> {"ok", "failed"}
                 [] relay = "tls" -> {"ok", "closed"}
                 [] relay = "handshake" -> {"ok", "failed", "closed"}
  /\ UNCHANGED <<worker, bridge, relay, wire, buffer, message, upstream, session, clock, shown>>

(* Frames that come while the relay works are seen when it waits again. *)
UpSends ==
  /\ relay = "wait" /\ ~bridge.woken /\ upstream.up /\ upstream.left > 0
  /\ \E f \in {Frame("data", upstream.msg, upstream.frag + 1, fin) :
                 fin \in IF upstream.frag = 1 THEN {TRUE} ELSE BOOLEAN}
              \cup {Control(k) : k \in IF upstream.control THEN {"ping", "pong", "close", "bad"} ELSE {}} :
       /\ wire' = Append(wire, f)
       /\ upstream' =
            [upstream EXCEPT !.left = @ - 1,
                             !.up = f.kind # "close",
                             !.control = @ /\ f.kind = "data",
                             !.msg = IF f.kind = "data" /\ f.fin THEN @ + 1 ELSE @,
                             !.frag = IF f.kind # "data" THEN @ ELSE IF f.fin THEN 0 ELSE @ + 1]
  /\ UNCHANGED <<worker, bridge, relay, reply, buffer, message, session, clock, shown>>

UpEnds ==
  /\ relay \in {"top", "parse", "wait"} /\ upstream.up
  /\ upstream' = [upstream EXCEPT !.up = FALSE]
  /\ UNCHANGED <<worker, bridge, relay, reply, wire, buffer, message, session, clock, shown>>

(* Seconds pass while the relay waits for the controller. *)
StreamTick ==
  /\ relay = "wait" /\ ~WaitOver /\ ~bridge.woken /\ wire = <<>> /\ upstream.up
  /\ clock' = [auth |-> clock.auth + 1, ping |-> clock.ping + 1]
  /\ UNCHANGED <<worker, bridge, relay, reply, wire, buffer, message, upstream, session, shown>>

AccessRevoked ==
  /\ session /\ relay # "gone" /\ worker # "free" /\ session' = FALSE
  /\ UNCHANGED <<worker, bridge, relay, reply, wire, buffer, message, upstream, clock, shown>>

StreamOver == worker \in {"refused", "free"} /\ relay \in {"none", "gone"} /\ UNCHANGED bridgeVars

BridgeNext == \/ WsConnect \/ (\E started \in BOOLEAN : WsReady(started)) \/ WsData
              \/ CloseHandler \/ RelayStep
              \/ UpAnswers \/ UpSends \/ UpEnds \/ StreamTick \/ AccessRevoked
              \/ StreamOver

BridgeSpec == BridgeInit /\ [][BridgeNext]_bridgeVars /\ WF_bridgeVars(CloseHandler) /\ WF_bridgeVars(RelayStep)

(* The browser gets the controller's messages whole, in order and without a gap, whatever
   control frames came between their fragments, and nothing after a Close; and if it is still
   connected when its relay ended, it was sent a Close, whoever ended the relay: it never
   waits on a stream nobody feeds. *)
RelayedWhole ==
  LET data == SelectSeq(shown, LAMBDA f : f.kind = "data") IN
  /\ \A i \in DOMAIN data :
       data[i].parts \in {<< <<i, 1>> >>, << <<i, 1>>, <<i, 2>> >>}
  /\ \A i \in DOMAIN shown : shown[i].kind = "close" => i = Len(shown)
  /\ relay \in {"none", "gone"} /\ bridge.open => bridge.closing

=============================================================================
