---------------------------- MODULE AgentConsole ----------------------------
(***************************************************************************)
(* The agent's local management API (c/src/agent_ui.c): the sessions of    *)
(* its password login and the order in which a request meets the size      *)
(* limit, the session check, the route table and the handlers.  civetweb   *)
(* reads requests on several threads; handler_mutex makes each request     *)
(* one step.  A path is what it names and whether its letters are the      *)
(* route's own; texts, files and JSON bodies are left out.                 *)
(***************************************************************************)
EXTENDS Integers, Sequences

CONSTANTS Cookies,       \* session tokens sb_random_hex draws, never twice
          SessionAge,    \* SESSION_DURATION_MS in ticks
          ConsoleSteps   \* bound: requests and ticks

VARIABLES sessions,   \* the session array: [token, expires]
          uiNow,      \* monotonic clock
          given,      \* when each token was given out
          ended,      \* tokens logged out
          acted,      \* the request whose callback ran last
          uiLeft      \* steps left

consoleVars == <<sessions, uiNow, given, ended, acted, uiLeft>>

NoRequest == [path |-> "none"]

ConsoleInit ==
  /\ sessions = <<>> /\ uiNow = 0 /\ given = [c \in Cookies |-> -1] /\ ended = {}
  /\ acted = NoRequest /\ uiLeft = ConsoleSteps

(* Route table: the methods of each exact route.  "unknown" is another path under
   /api/, "page" any path outside it. *)
MethodsOf(path) ==
  CASE path = "health" -> {"GET"} [] path = "login" -> {"POST"} [] path = "logout" -> {"POST"}
    [] path = "status" -> {"GET"} [] path = "settings" -> {"GET", "PUT"} [] path = "action" -> {"POST"}
    [] OTHER -> {}

ConsolePaths == {"health", "login", "logout", "status", "settings", "action", "unknown", "page"}

(* What a client may send: a cookie it was given or made up, the marker header of the
   page, a body within or over the limits. *)
Requests ==
  [path : ConsolePaths, spelled : {"exact", "other"}, method : {"GET", "POST", "PUT", "OPTIONS"},
   cookie : Cookies \cup {"none"}, marker : BOOLEAN, good : BOOLEAN]

UnderApi(q) == q.path \notin {"health", "page"}

RemoveExpired == SelectSeq(sessions, LAMBDA s : s.expires > uiNow)

Authenticated(q) == \E i \in DOMAIN RemoveExpired : RemoveExpired[i].token = q.cookie

ExemptAsWritten(q) == q.path = "login" \/ ~UnderApi(q) \/ q.spelled = "other"

(* The session check skips the login and everything outside /api/; like the routes
   it compares the path without regard to case. *)
Exempt(q) == q.path = "login" \/ ~UnderApi(q)

Changing(q) == q.method \in {"POST", "PUT"}

(* route_request() before the handlers: 401, 403, 405, 404, or the handler. *)
Verdict(q) ==
  CASE ~Exempt(q) /\ ~Authenticated(q) -> 401
    [] ~Exempt(q) /\ Changing(q) /\ ~q.marker -> 403
    [] MethodsOf(q.path) # {} /\ q.method \notin MethodsOf(q.path) -> IF q.method = "OPTIONS" THEN 403 ELSE 405
    [] MethodsOf(q.path) = {} -> 404
    [] OTHER -> 200

Checked(q) == IF Exempt(q) THEN sessions ELSE RemoveExpired

(* A request that is refused, not found, or only read: at most the expired sessions go. *)
Refused(q) ==
  /\ Verdict(q) # 200 \/ q.path = "health"
  /\ sessions' = Checked(q)
  /\ UNCHANGED <<uiNow, given, ended, acted>>

(* handle_login(): the marker and the right password, a new token. *)
Login(q) ==
  /\ Verdict(q) = 200 /\ q.path = "login"
  /\ IF q.marker /\ q.good /\ \E c \in Cookies : given[c] = -1
       THEN LET c == CHOOSE x \in Cookies : given[x] = -1 IN
            /\ sessions' = Append(RemoveExpired, [token |-> c, expires |-> uiNow + SessionAge])
            /\ given' = [given EXCEPT ![c] = uiNow]
       ELSE UNCHANGED <<sessions, given>>
  /\ UNCHANGED <<uiNow, ended, acted>>

(* The last session takes the place of the one removed. *)
Without(s, i) == [j \in 1..Len(s) - 1 |-> IF j = i THEN s[Len(s)] ELSE s[j]]

Logout(q) ==
  /\ Verdict(q) = 200 /\ q.path = "logout"
  /\ \E i \in DOMAIN RemoveExpired :
       RemoveExpired[i].token = q.cookie /\ sessions' = Without(RemoveExpired, i)
  /\ ended' = ended \cup {q.cookie}
  /\ UNCHANGED <<uiNow, given, acted>>

(* The callbacks: status, settings, proxies, route test, actions.  A body over the
   route's limit or one that does not parse ends before the callback. *)
Handler(q) ==
  /\ Verdict(q) = 200 /\ q.path \in {"status", "settings", "action"}
  /\ sessions' = Checked(q)
  /\ acted' = IF q.good THEN q ELSE acted
  /\ UNCHANGED <<uiNow, given, ended>>

Request(q) ==
  /\ uiLeft > 0 /\ uiLeft' = uiLeft - 1
  /\ Refused(q) \/ Login(q) \/ Logout(q) \/ Handler(q)

ConsoleTick ==
  /\ uiLeft > 0 /\ uiLeft' = uiLeft - 1 /\ uiNow' = uiNow + 1
  /\ acted' = NoRequest /\ UNCHANGED <<sessions, given, ended>>

ConsoleDone == uiLeft = 0 /\ UNCHANGED consoleVars

ConsoleNext == (\E q \in Requests : Request(q)) \/ ConsoleTick \/ ConsoleDone

ConsoleSpec == ConsoleInit /\ [][ConsoleNext]_consoleVars

(***************************************************************************)
(* Properties.                                                             *)
(***************************************************************************)
Lives(c) == given[c] # -1 /\ c \notin ended /\ uiNow < given[c] + SessionAge

(* A callback runs only for a session that was given out, not logged out and not
   twelve hours old, however the path of the request was spelled, and a change only
   for a request with the page's marker. *)
ActsForSession ==
  [][acted' \notin {acted, NoRequest} => Lives(acted'.cookie) /\ (Changing(acted') => acted'.marker)]_consoleVars

=============================================================================
