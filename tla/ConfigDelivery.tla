--------------------------- MODULE ConfigDelivery ---------------------------
(***************************************************************************)
(* How one managed device gets its configuration: an agent's request       *)
(* (handle_agent_config in http_routes_hosts.c) takes the database lock    *)
(* several times, while administrators edit profiles, move the host to     *)
(* another profile, choose its nodes and switch nodes off.  A profile is   *)
(* its mode with one of two texts, and a rule script that may be absent.   *)
(***************************************************************************)
EXTENDS Naturals, FiniteSets

CONSTANTS Profiles,       \* profile ids, "default" among them
          Outlets,        \* proxy node ids
          DeliveryEdits   \* edits and lost answers of a behaviour

VARIABLES profiles,    \* profile id -> its content, NoProfile when absent
          profileOf,   \* the host's profile_id, "null" for NULL
          rows,        \* the host's rows in host_outbounds
          inventory,   \* node id -> "on", "off" or "gone"
          draft,       \* a PUT of a profile between its read and its write
          exchange,    \* the agent's request
          installed,   \* the envelope the device holds, NoEnvelope at first
          lived,       \* the renderings the database had since the request began
          editsLeft

deliveryVars == <<profiles, profileOf, rows, inventory, draft, exchange, installed, lived, editsLeft>>
stored == <<profiles, profileOf, rows, inventory>>

NoProfile  == [mode |-> "none", script |-> FALSE]
Contents   == [mode : {"managed", "full"}, script : BOOLEAN]
NoDraft    == [id |-> "none", script |-> FALSE]
NoEnvelope == [config |-> NoProfile, sources |-> {}]
Quiet      == [at |-> "idle", label |-> "default", config |-> NoProfile, sources |-> {}]

DeliveryInit ==
  /\ \E c \in {NoProfile, [mode |-> "managed", script |-> TRUE]} :
       profiles = [p \in Profiles |-> IF p = "default" THEN [mode |-> "managed", script |-> FALSE] ELSE c]
  /\ profileOf = "null"
  /\ rows = {} /\ inventory = [n \in Outlets |-> "on"]
  /\ draft = NoDraft /\ exchange = Quiet /\ installed = NoEnvelope
  /\ lived = {} /\ editsLeft = DeliveryEdits

(* A NULL profile_id is the default profile. *)
Named(p) == IF p = "null" THEN "default" ELSE p
Enabled  == {n \in Outlets : inventory[n] = "on"}

(* The nodes of a managed profile: the enabled rows of the host, all enabled nodes when there is none. *)
Selected == IF rows \cap Enabled = {} THEN Enabled ELSE rows \cap Enabled

(* sb_store_render_request_for_host(), under one lock: the host's row, its profile, the nodes. *)
Rendering ==
  LET p == profiles[Named(profileOf)] IN
  [profile |-> p, nodes |-> IF p.mode = "managed" THEN Selected ELSE {}]

Edited == editsLeft > 0 /\ editsLeft' = editsLeft - 1

\* What an edit adds to the renderings an open request may be answered with.
Lived == lived' = IF exchange.at = "idle" THEN {} ELSE lived \cup {Rendering'}

CreateProfile(p, c) ==
  /\ Edited /\ profiles[p] = NoProfile
  /\ profiles' = [profiles EXCEPT ![p] = c]
  /\ UNCHANGED <<profileOf, rows, inventory, draft, exchange, installed>> /\ Lived

UpdateReads(p) ==
  /\ draft = NoDraft /\ editsLeft > 0 /\ profiles[p] # NoProfile
  /\ draft' = [id |-> p, script |-> profiles[p].script]
  /\ UNCHANGED <<stored, exchange, installed, lived, editsLeft>>

(* handle_update_profile(): name, template and mode are the request's; a script the request
   does not name is the one that was read.  The row may be gone by now. *)
UpdateWrites(m, script) ==
  /\ draft # NoDraft
  /\ Edited
  /\ profiles' = IF profiles[draft.id] = NoProfile THEN profiles
                 ELSE [profiles EXCEPT ![draft.id] = [mode |-> m, script |-> IF script = "kept" THEN draft.script ELSE script = "given"]]
  /\ draft' = NoDraft
  /\ UNCHANGED <<profileOf, rows, inventory, exchange, installed>> /\ Lived

(* sb_store_delete_profile(): its hosts move to the default profile in the same transaction. *)
DeleteProfile(p) ==
  /\ Edited /\ p # "default" /\ profiles[p] # NoProfile
  /\ profiles' = [profiles EXCEPT ![p] = NoProfile]
  /\ profileOf' = IF profileOf = p THEN "default" ELSE profileOf
  /\ UNCHANGED <<rows, inventory, draft, exchange, installed>> /\ Lived

(* sb_store_update_host(): the profile must exist (a foreign key). *)
AssignProfile(p) ==
  /\ Edited /\ profiles[p] # NoProfile /\ profileOf' = p
  /\ UNCHANGED <<profiles, rows, inventory, draft, exchange, installed>> /\ Lived

SetHostOutbounds(s) ==
  /\ Edited /\ rows' = s
  /\ UNCHANGED <<profiles, profileOf, inventory, draft, exchange, installed>> /\ Lived

SwitchNode(n) ==
  /\ Edited /\ inventory[n] # "gone"
  /\ inventory' = [inventory EXCEPT ![n] = IF @ = "on" THEN "off" ELSE "on"]
  /\ UNCHANGED <<profiles, profileOf, rows, draft, exchange, installed>> /\ Lived

DeleteNode(n) ==
  /\ Edited /\ inventory[n] # "gone"
  /\ inventory' = [inventory EXCEPT ![n] = "gone"] /\ rows' = rows \ {n}
  /\ UNCHANGED <<profiles, profileOf, draft, exchange, installed>> /\ Lived

(* handle_agent_config() up to the render: the host as the token finds it. *)
AgentAsks ==
  /\ exchange.at = "idle"
  /\ exchange' = [Quiet EXCEPT !.at = "resolved", !.label = profileOf]
  /\ lived' = {Rendering}
  /\ UNCHANGED <<stored, draft, installed, editsLeft>>

RenderRequestOfCopy ==
  /\ exchange.at = "resolved"
  /\ LET p == profiles[Named(exchange.label)] IN
     exchange' = IF p = NoProfile THEN Quiet
                 ELSE [exchange EXCEPT !.at = "rendered", !.config = [Rendering EXCEPT !.profile = p]]
  /\ lived' = IF exchange'.at = "idle" THEN {} ELSE lived
  /\ UNCHANGED <<stored, draft, installed, editsLeft>>

RenderRequest ==
  /\ exchange.at = "resolved"
  /\ exchange' = IF Rendering.profile = NoProfile THEN Quiet
                 ELSE [exchange EXCEPT !.at = "rendered", !.config = Rendering]
  /\ lived' = IF exchange'.at = "idle" THEN {} ELSE lived
  /\ UNCHANGED <<stored, draft, installed, editsLeft>>

(* The profile the answer's headers name is the one the host had at first: 404 when it is gone. *)
LabelProfile ==
  /\ exchange.at = "rendered"
  /\ exchange' = IF profiles[Named(exchange.label)] = NoProfile THEN Quiet
                 ELSE [exchange EXCEPT !.at = "labelled"]
  /\ lived' = IF exchange'.at = "idle" THEN {} ELSE lived
  /\ UNCHANGED <<stored, draft, installed, editsLeft>>

(* agent_subscription_sources(): of the nodes listed now, those the configuration has. *)
ListSources ==
  /\ exchange.at = "labelled"
  /\ exchange' = [exchange EXCEPT !.at = "ready", !.sources = {n \in exchange.config.nodes : inventory[n] # "gone"}]
  /\ UNCHANGED <<stored, draft, installed, lived, editsLeft>>

(* sb_config_etag(): a digest of the host, the whole body and the seed, taken as injective. *)
Etag(e) == [sha256 |-> <<"host", e, "seed">>]

(* The answer: 304 when the agent's ETag is the one of this body. *)
Answer ==
  /\ exchange.at = "ready"
  /\ LET e == [config |-> exchange.config, sources |-> exchange.sources] IN
     installed' = IF Etag(installed) = Etag(e) THEN installed ELSE e
  /\ exchange' = Quiet /\ lived' = {}
  /\ UNCHANGED <<stored, draft, editsLeft>>

AnswerLost ==
  /\ exchange.at = "ready" /\ Edited /\ exchange' = Quiet /\ lived' = {}
  /\ UNCHANGED <<stored, draft, installed>>

Serving == AgentAsks \/ RenderRequest \/ LabelProfile \/ ListSources \/ Answer

DeliveryNext ==
  \/ Serving \/ AnswerLost
  \/ \E p \in Profiles : \/ DeleteProfile(p) \/ AssignProfile(p) \/ UpdateReads(p)
                         \/ \E c \in Contents : CreateProfile(p, c)
  \/ \E m \in {"managed", "full"}, s \in {"kept", "given"} : UpdateWrites(m, s)
  \/ \E s \in SUBSET Outlets : SetHostOutbounds(s)
  \/ \E n \in Outlets : SwitchNode(n) \/ DeleteNode(n)

DeliverySpec == DeliveryInit /\ [][DeliveryNext]_deliveryVars /\ WF_deliveryVars(Serving)

-----------------------------------------------------------------------------
(* What an answered device holds is the rendering of one state the database was in while
   the request was served, although the handler lets go of the lock four times. *)
OneStateServed == [][Answer => installed'.config \in lived]_deliveryVars

=============================================================================
