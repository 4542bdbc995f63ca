---------------------------- MODULE HttpExchange ----------------------------
(***************************************************************************)
(* One keep-alive connection of the panel's HTTP server (http_server.c on  *)
(* CivetWeb): begin_request() reads a request's body under its limits,     *)
(* authenticates, routes, runs the handler, audits, answers and decides    *)
(* whether the connection goes on.  The wire is a sequence of units: the   *)
(* head of a request, or a piece of a body.  A path is its kind and how it *)
(* is spelled, as routes are found without regard to case.                 *)
(***************************************************************************)
EXTENDS Naturals, Sequences

CONSTANT MaxBody   \* SB_HTTP_MAX_BODY in units of a body

VARIABLES wireIn,     \* what the client sent and the server has not read
          phase,      \* "idle", "body", "dispatch", "respond", "ended", "upgraded" or "closed"
          current,    \* the request being served
          remains,    \* units of its body not yet read
          status,     \* its answer's status; raw: a bare parser error
          raw,
          caller,     \* the claims of the request, "nobody" without
          ran,        \* the handler that ran for it
          audited,    \* audit entries of this request
          written,    \* answers written for it
          misread     \* a piece of a body was taken for a request

httpVars == <<wireIn, phase, current, remains, status, raw, caller, ran, audited, written, misread>>

Paths == {"public", "guarded", "device", "unknown", "ws", "page", "file"}
Plain == [method |-> "GET", path |-> "guarded", lower |-> TRUE, token |-> "admin", upgrade |-> FALSE,
          preflight |-> FALSE, length |-> 0, chunked |-> FALSE, expect |-> "none", conn |-> "none", http10 |-> FALSE]

\* Requests that differ in how they are framed, and requests that differ in what they ask for.
Framed ==
  {[Plain EXCEPT !.method = m, !.length = n, !.chunked = c, !.expect = e, !.conn = k, !.http10 = v] :
     m \in {"POST", "BREW"}, n \in 0..MaxBody + 2, c \in BOOLEAN, e \in {"none", "continue", "other"},
     k \in {"none", "keep", "close"}, v \in BOOLEAN}
Asking ==
  {[Plain EXCEPT !.method = m, !.path = p, !.lower = l, !.token = t, !.upgrade = u, !.preflight = f, !.length = n] :
     m \in {"GET", "HEAD", "POST", "OPTIONS"}, p \in Paths, l \in BOOLEAN, t \in {"none", "viewer", "admin"},
     u \in BOOLEAN, f \in BOOLEAN, n \in 0..1}

BodyOf(n) == [i \in 1..n |-> [unit |-> "body", request |-> Plain]]
HeadOf(r) == <<[unit |-> "head", request |-> r]>>

\* A client that sends one such request and, without waiting, a plain one.
HttpInit ==
  /\ \E r \in Framed \cup Asking : wireIn = HeadOf(r) \o BodyOf(r.length) \o HeadOf(Plain)
  /\ phase = "idle" /\ current = Plain /\ remains = 0 /\ status = 200 /\ raw = FALSE
  /\ caller = "nobody" /\ ran = "none" /\ audited = 0 /\ written = 0 /\ misread = FALSE

(* CivetWeb parses a head; what it takes for a head may be a piece of an unread body. *)
Parse ==
  /\ phase = "idle" /\ wireIn # <<>>
  /\ misread' = (wireIn[1].unit = "body")
  /\ current' = wireIn[1].request /\ remains' = current'.length
  /\ wireIn' = Tail(wireIn) /\ phase' = IF misread' THEN "closed" ELSE "body"
  /\ status' = 200 /\ raw' = FALSE /\ caller' = "nobody" /\ ran' = "none" /\ audited' = 0 /\ written' = 0

(* exchange_read_body(): the declared length, the expectation, then the body up to the limit. *)
Declared == IF current.chunked THEN 0 ELSE current.length

EarlyError ==
  IF Declared > MaxBody THEN 413
  ELSE IF current.expect = "continue" /\ ~current.http10 /\ Declared = 0 THEN 400
  ELSE IF current.expect = "other" THEN 417
  ELSE 0

UnitsRead == IF EarlyError # 0 THEN 0 ELSE IF current.length > MaxBody THEN MaxBody + 1 ELSE current.length

BodyError == IF EarlyError # 0 THEN EarlyError ELSE IF UnitsRead > MaxBody THEN 413 ELSE 0

ReadBody ==
  /\ phase = "body"
  /\ LET unknown == current.method = "BREW"
         n == IF unknown THEN 0 ELSE UnitsRead
         error == IF unknown THEN 405 ELSE BodyError
     IN /\ wireIn' = SubSeq(wireIn, n + 1, Len(wireIn)) /\ remains' = remains - n
        /\ raw' = (error # 0) /\ status' = IF error # 0 THEN error ELSE status
        /\ phase' = IF error # 0 THEN "respond" ELSE "dispatch"
  /\ UNCHANGED <<current, caller, ran, audited, written, misread>>

(* HEAD is served as GET. *)
Method == IF current.method = "HEAD" THEN "GET" ELSE current.method
Safe   == Method \in {"GET", "OPTIONS"}

(* auth_advice(): the lowered path under /api/ and not public. *)
Protected == current.path \in {"guarded", "device", "unknown", "ws"}

Verified == current.token # "none"

(* sb_http_security_authorize(): a viewer reads the hosts and the devices it was granted. *)
Authorized == current.token = "admin" \/ (Safe /\ current.path \in {"guarded", "device", "ws"})

Refusal == IF ~Protected THEN 0 ELSE IF ~Verified THEN 401 ELSE IF ~Authorized THEN 403 ELSE 0

(* router_lookup(): exact paths know their methods, parameterised ones match only with one;
   builtin_route() and the static files take the rest. *)
Methods(p) == CASE p = "public" -> {"POST"} [] p = "guarded" -> {"GET", "POST"} [] p = "device" -> {"GET"} [] OTHER -> {}

Lookup ==
  IF Method \in Methods(current.path) THEN current.path
  ELSE IF current.path \in {"public", "guarded"} THEN "method not allowed"
  ELSE IF current.path = "page" /\ Method = "GET" THEN "spa"
  ELSE IF current.path \in {"page", "file"} \/ Method = "OPTIONS" THEN "static" ELSE "api not found"

\* Claims are kept as soon as a protected request's token is verified.
Claims == IF Protected /\ Verified THEN current.token ELSE "nobody"

(* audit_advice(), after the handler. *)
Audits(s, c) == IF ~Safe /\ c # "nobody" /\ s \in 200..299 THEN 1 ELSE 0

RunHandler(h, s) ==
  /\ ran' = h /\ status' = s /\ audited' = Audits(s, caller')
  /\ UNCHANGED written

(* A handler that writes the answer itself (resp.handled). *)
RunStreaming(h) ==
  /\ ran' = h /\ status' = 200 /\ audited' = Audits(200, caller') /\ written' = 1

NoHandler(s) == status' = s /\ UNCHANGED <<ran, audited, written>>

(* dispatch_http() *)
DispatchHttp ==
  IF current.method = "OPTIONS" /\ current.preflight THEN caller' = "nobody" /\ NoHandler(204)
  ELSE /\ caller' = Claims
       /\ IF Refusal # 0 THEN NoHandler(Refusal)
          ELSE CASE Lookup = "method not allowed" -> NoHandler(IF Method = "OPTIONS" THEN 403 ELSE 405)
                 [] Lookup = "static" -> \E s \in {200, 304, 403, 404, 405} : NoHandler(s)
                 [] Lookup \in {"spa", "api not found"} -> RunHandler(Lookup, IF Lookup = "spa" THEN 200 ELSE 404)
                 [] OTHER -> (\E s \in {200, 304, 400, 500} : RunHandler(Lookup, s)) \/ RunStreaming(Lookup)

(* Upgrades: the Clash streams are CivetWeb's, any other ends in a 404 after the advice. *)
Upgrades == current.method = "GET" /\ current.upgrade

Dispatch ==
  /\ phase = "dispatch"
  /\ IF Upgrades /\ current.path = "ws" /\ current.lower
       THEN phase' = "upgraded" /\ UNCHANGED <<status, caller, ran, audited, written>>
       ELSE /\ phase' = "respond"
            /\ IF Upgrades THEN caller' = Claims /\ NoHandler(IF Refusal # 0 THEN Refusal ELSE 404) ELSE DispatchHttp
  /\ UNCHANGED <<wireIn, current, remains, raw, misread>>

WriteResponse == IF written = 1 THEN written ELSE written + 1

\* What CivetWeb reads in the request: its Connection header, or the version.
KeepsRequested == IF current.conn = "none" THEN ~current.http10 ELSE current.conn = "keep"

(* force_close() makes CivetWeb see "Connection: close" after a parser error. *)
KeepAlive == ~raw /\ KeepsRequested

Respond ==
  /\ phase = "respond"
  /\ written' = WriteResponse
  /\ phase' = "ended"
  /\ UNCHANGED <<wireIn, current, remains, status, raw, caller, ran, audited, misread>>

(* CivetWeb after the callback: a status lets it skip the rest of the body, -1 does not. *)
NextRequest ==
  /\ phase = "ended"
  /\ phase' = IF KeepAlive THEN "idle" ELSE "closed"
  /\ wireIn' = IF raw THEN wireIn ELSE SubSeq(wireIn, remains + 1, Len(wireIn))
  /\ UNCHANGED <<current, remains, status, raw, caller, ran, audited, written, misread>>

HttpOver ==
  /\ phase \in {"closed", "upgraded"} \/ (phase = "idle" /\ wireIn = <<>>)
  /\ UNCHANGED httpVars

HttpNext == Parse \/ ReadBody \/ Dispatch \/ Respond \/ NextRequest \/ HttpOver

HttpSpec == HttpInit /\ [][HttpNext]_httpVars

-----------------------------------------------------------------------------
(* Requests of a connection are kept apart.  A piece of a request's body is never parsed as the
   next request, whatever the body's length, its framing and the error the request ended in; a
   handler behind authentication runs only for the verified caller of its own request, who may
   use it, however the path is spelled, and a public one in nobody's name; and a request that is
   not handed over is answered once before the next is read. *)
RequestsApart ==
  /\ ~misread
  /\ ran \in {"guarded", "device", "api not found"} => caller \in {"admin", "viewer"}
  /\ ran \in {"guarded", "device"} /\ caller = "viewer" => Safe
  /\ ran = "public" => caller = "nobody"
  /\ phase \in {"ended", "closed"} => written = 1

=============================================================================
