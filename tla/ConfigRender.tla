---------------------------- MODULE ConfigRender ----------------------------
(***************************************************************************)
(* What a device's configuration says about routes: the panel renders a    *)
(* profile and the device's nodes (config_renderer.c, with the network     *)
(* endpoints of tailscale.c and managed_render_request()), then the agent  *)
(* applies its node-local settings (agent_config.c).  A tag is a sequence  *)
(* of words, so that a suffix is one more word; a rule matches a set of    *)
(* kinds of traffic.  One request is rendered and prepared per behaviour.  *)
(***************************************************************************)
EXTENDS Naturals, Sequences, FiniteSets, SequencesExt

CONSTANTS NodeLists,   \* the nodes of a host: sequences of one-word tags
          Scripts      \* the targets of a rule script, "none" for no script

VARIABLES asked,      \* the render request
          rendered,   \* the panel's configuration, NotYet before, NotRendered when it fails
          options,    \* the agent's settings
          prepared    \* the agent's configuration

renderVars == <<asked, rendered, options, prepared>>

NoTag  == <<"none">>
Direct == <<"direct">>
Auto   == <<"auto">>
Legacy == {<<"Proxy">>, <<"Auto">>}
Traffic == {"control", "incoming", "tailnet", "network", "lan", "cn", "other"}

Empty   == [outbounds |-> <<>>, endpoints |-> <<>>, dns |-> <<>>, final |-> NoTag, rules |-> <<>>]
NotYet  == [Empty EXCEPT !.final = <<"not yet">>]
NotRendered == [Empty EXCEPT !.final = <<"refused">>]

Outbound(t, k, m) == [tag |-> t, kind |-> k, members |-> m, default |-> IF k = "selector" THEN m[1] ELSE NoTag]
Rule(m, to)       == [match |-> m, to |-> to]
TagsOf(s)         == {s[i].tag : i \in DOMAIN s}
Tags(c)           == TagsOf(c.outbounds) \cup ToSet(c.endpoints)

\* A request: the profile (mode, final, DNS detour, rules, endpoint), the nodes, the device.
Requested ==
  [mode : {"managed", "full"}, nodes : NodeLists, selection : BOOLEAN, final : {<<"Proxy">>, Auto, Direct},
   detour : {<<"Auto">>, Direct}, rule : {{}, {"cn"}, Traffic}, endpoint : {NoTag, <<"net">>}, script : Scripts,
   tailscale : BOOLEAN, embedded : BOOLEAN]

Settings ==
  [egress : BOOLEAN, renamed : {NoTag, <<"b">>}, default : {NoTag, <<"a">>}, local : {{}, {"lan", "tailnet"}}]

Template(r) ==
  [outbounds |-> IF r.mode = "full" THEN <<Outbound(Direct, "node", <<>>), Outbound(<<"a">>, "node", <<>>)>> ELSE <<>>,
   endpoints |-> IF r.endpoint = NoTag THEN <<>> ELSE <<r.endpoint>>,
   dns |-> <<[tag |-> <<"dns">>, detour |-> IF r.mode = "full" THEN Direct ELSE r.detour]>>,
   final |-> IF r.mode = "full" THEN Direct ELSE r.final,
   rules |-> IF r.rule = {} THEN <<>> ELSE <<Rule(r.rule, Direct)>>]

(* The loops that look for an unused tag: the suffix is added until the tag is free. *)
FreeTag(t, used, suffix) ==
  LET Try(k) == t \o [i \in 1..k |-> suffix]
  IN Try(CHOOSE k \in 0..Cardinality(used) :
           Try(k) \notin used /\ \A j \in 0..k - 1 : Try(j) \in used)

(* sb_config_generate_outbounds(): one outbound per node, a repeated tag numbered, and a url
   test over all of them. *)
GenerateOutbounds(nodes) ==
  LET Tag(i) == <<nodes[i]>> \o [k \in 1..Cardinality({j \in 1..i - 1 : nodes[j] = nodes[i]}) |-> "#"]
      tags == [i \in DOMAIN nodes |-> Tag(i)]
      plain == [i \in DOMAIN nodes |-> Outbound(tags[i], "node", <<>>)]
  IN IF nodes = <<>> THEN <<>> ELSE Append(plain, Outbound(Auto, "urltest", tags))

SelectorTag(outbounds) == FreeTag(<<"Proxy">>, TagsOf(outbounds), "group")

Selector(outbounds) ==
  Outbound(SelectorTag(outbounds), "selector",
           <<Auto>> \o SelectSeq([i \in DOMAIN outbounds |-> outbounds[i].tag], LAMBDA t : t # Auto))

\* Where the legacy names Proxy and Auto lead.
Target(r, outbounds) ==
  IF Auto \notin TagsOf(outbounds) THEN Direct
  ELSE IF r.selection THEN SelectorTag(outbounds) ELSE Auto

(* normalize_managed_dns_detours() *)
Detours(dns, target) ==
  [i \in DOMAIN dns |-> IF dns[i].detour \in Legacy THEN [dns[i] EXCEPT !.detour = target] ELSE dns[i]]

Final(r, c, outbounds) ==
  LET auto == Auto \in TagsOf(outbounds) IN
  CASE ~auto -> Direct
    [] auto /\ (c.final \in Legacy \/ (r.selection /\ c.final = Auto)) -> Target(r, outbounds)
    [] OTHER -> c.final

(* render_managed(): direct, the selector of a device that can choose, the names. *)
RenderManaged(r, c) ==
  LET nodes == GenerateOutbounds(r.nodes)
      all == IF Direct \in TagsOf(nodes) THEN nodes ELSE Append(nodes, Outbound(Direct, "node", <<>>))
      outbounds == IF Auto \in TagsOf(all) /\ r.selection THEN Append(all, Selector(all)) ELSE all
  IN IF r.mode = "full" THEN c
     ELSE [c EXCEPT !.outbounds = outbounds, !.dns = Detours(@, Target(r, all)), !.final = Final(r, c, all)]

NodeTags(r) == {<<r.nodes[i]>> : i \in DOMAIN r.nodes}

(* sb_tailscale_render(): an endpoint, a direct outbound for what it brings in, two rules. *)
Tailnet(r, c) ==
  LET used == Tags(c) \cup NodeTags(r)
      ts == FreeTag(<<"ts">>, used, "next")
      direct == FreeTag(<<"ts-direct">>, used, "next")
  IN IF r.tailscale
       THEN [endpoints |-> <<ts>>, outbounds |-> <<Outbound(direct, "node", <<>>)>>,
             rules |-> <<Rule({"incoming"}, direct), Rule({"tailnet"}, ts)>>]
       ELSE [endpoints |-> <<>>, outbounds |-> <<>>, rules |-> <<>>]

(* managed_render_request(): a native client without Tailscale gets its WireGuard endpoint. *)
Network(r, c) ==
  LET used == ToSet(c.endpoints) \cup NodeTags(r)
      net == FreeTag(<<"net">>, used, "group")
  IN IF r.embedded /\ ~r.tailscale
       THEN [endpoints |-> <<net>>, outbounds |-> <<>>, rules |-> <<Rule({"network"}, net)>>]
       ELSE Tailnet(r, c)

(* render_rule_script(): the script's rules replace the profile's; a target must be known. *)
Allowed(c) == Tags(c) \cup {Direct, <<"block">>, <<"dns">>, <<"reject">>}

UnknownTarget(r, c) == r.script # "none" /\ <<r.script>> \notin Allowed(c)

Scripted(r, c) == IF r.script = "none" THEN c.rules ELSE <<Rule(Traffic, <<r.script>>)>>

(* inject_managed_geo_policy(): private and domestic traffic go direct, after every rule of
   the profile or the script, unless one already speaks of that set. *)
GeoPolicy(r, rules) ==
  LET Named(s) == \E i \in DOMAIN rules : rules[i].match = {s}
      For(s) == IF Named(s) THEN <<>> ELSE <<Rule({s}, Direct)>>
  IN IF r.mode = "managed" /\ r.nodes # <<>> THEN rules \o For("lan") \o For("cn") ELSE rules

ControlPlane(r) == IF r.embedded THEN <<Rule({"control"}, Direct)>> ELSE <<>>

Protect(first, rules) == first \o rules

(* sb_config_renderer_render() *)
Render(r) ==
  LET template == Template(r)
      network == Network(r, template)
      managed == RenderManaged(r, [template EXCEPT !.endpoints = @ \o network.endpoints])
      c == [managed EXCEPT !.outbounds = @ \o network.outbounds]
      rules == Protect(ControlPlane(r) \o network.rules, GeoPolicy(r, Scripted(r, c)))
  IN IF UnknownTarget(r, c) THEN NotRendered ELSE [c EXCEPT !.rules = rules]

-----------------------------------------------------------------------------
(* transform_outbound(): the replacement of the outbound "a", and the default choice of the
   selector that is the final route; a choice the selector does not have is an error. *)
ChosenFails(c, o) ==
  o.default # NoTag /\ \E i \in DOMAIN c.outbounds :
    LET b == c.outbounds[i] IN b.tag = c.final /\ b.kind = "selector" /\ ~\E j \in DOMAIN b.members : b.members[j] = o.default

Transform(b, c, o) ==
  LET chosen == IF o.default # NoTag /\ b.tag = c.final /\ b.kind = "selector" THEN [b EXCEPT !.default = o.default] ELSE b
  IN IF b.tag = <<"a">> /\ o.renamed # NoTag THEN [chosen EXCEPT !.tag = o.renamed] ELSE chosen

(* rewrite_tag_references(): every string of the configuration that is the old tag. *)
Rewrite(t, c, o) ==
  IF t = <<"a">> /\ o.renamed # NoTag /\ <<"a">> \in TagsOf(c.outbounds) THEN o.renamed ELSE t

LocalOnly(local, rules) == IF local = {} THEN rules ELSE <<Rule(local, Direct)>>

\* The device's own rules go in front of the panel's.
LocalFirst(local, rules) == IF local = {} THEN rules ELSE <<Rule(local, Direct)>> \o rules

(* sb_prepare_agent_config() *)
Prepare(c, o) ==
  LET R(t) == Rewrite(t, c, o)
      outbounds == [i \in DOMAIN c.outbounds |->
                      LET b == Transform(c.outbounds[i], c, o) IN
                      [b EXCEPT !.tag = R(@), !.default = R(@), !.members = [j \in DOMAIN @ |-> R(@[j])]]]
      dns == [i \in DOMAIN c.dns |-> [c.dns[i] EXCEPT !.detour = R(@)]]
      proxied == o.egress /\ R(c.final) \notin {NoTag, Direct, <<"block">>}
      rules == [i \in DOMAIN c.rules |-> [c.rules[i] EXCEPT !.to = R(@)]]
  IN IF ~o.egress /\ o.local = {} THEN c
     ELSE IF ChosenFails(c, o) THEN NotRendered
     ELSE [outbounds |-> outbounds, endpoints |-> [i \in DOMAIN c.endpoints |-> R(c.endpoints[i])],
           dns |-> IF proxied THEN Append(dns, [tag |-> <<"proxy-dns">>, detour |-> R(c.final)]) ELSE dns,
           final |-> R(c.final),
           rules |-> LocalFirst(o.local, rules)]

RenderInit ==
  /\ asked \in Requested /\ options = [egress |-> TRUE, renamed |-> NoTag, default |-> NoTag, local |-> {}]
  /\ (asked.mode = "full" => asked.nodes = <<>> /\ asked.final = Direct /\ asked.detour = Direct /\ ~asked.selection)
  /\ (asked.endpoint # NoTag => asked.detour = Direct)
  /\ rendered = NotYet /\ prepared = NotYet

PanelRenders ==
  /\ rendered = NotYet /\ rendered' = Render(asked)
  /\ UNCHANGED <<asked, options, prepared>>

AgentPrepares(o) ==
  /\ rendered \notin {NotYet, NotRendered} /\ prepared = NotYet /\ ~asked.embedded
  /\ options' = o /\ prepared' = Prepare(rendered, o)
  /\ UNCHANGED <<asked, rendered>>

RenderDone == rendered # NotYet /\ (rendered = NotRendered \/ prepared # NotYet \/ asked.embedded) /\ UNCHANGED renderVars

RenderNext == PanelRenders \/ (\E o \in Settings : AgentPrepares(o)) \/ RenderDone

RenderSpec == RenderInit /\ [][RenderNext]_renderVars

-----------------------------------------------------------------------------
Configurations == {rendered, prepared} \ {NotYet, NotRendered}

\* Where traffic of a kind goes: the first rule that matches it, else the final route.
RouteOf(c, kind) ==
  LET hits == {i \in DOMAIN c.rules : kind \in c.rules[i].match} IN
  IF hits = {} THEN c.final ELSE c.rules[CHOOSE i \in hits : \A j \in hits : i <= j].to

(* No two outbounds or endpoints share a tag, whatever the nodes and the profile's endpoint
   are called (unless these two clash among themselves): sing-box refuses such a configuration. *)
TagsDistinct ==
  asked.endpoint \notin NodeTags(asked) => \A c \in Configurations :
    LET all == [i \in DOMAIN c.outbounds |-> c.outbounds[i].tag] \o c.endpoints IN IsInjective(all)

(* Everything a managed configuration names as a route exists: the final route, the DNS
   detours, the members and defaults of groups, the targets of rules.  It stays so under the
   agent's renaming. *)
RoutesResolve ==
  \A c \in Configurations :
    /\ c.final \in Tags(c)
    /\ \A i \in DOMAIN c.dns : c.dns[i].detour \in Tags(c)
    /\ \A i \in DOMAIN c.outbounds : ToSet(c.outbounds[i].members) \cup ({c.outbounds[i].default} \ {NoTag}) \subseteq Tags(c)
    /\ \A i \in DOMAIN c.rules : c.rules[i].to \in Tags(c)

(* Whatever the profile's rules or the script catch: a native client reaches the control
   plane directly, tailnet and managed-network traffic its endpoint, and what comes in from the
   tailnet is not sent back into it. *)
ProtectedRoutes ==
  rendered \in Configurations =>
    /\ asked.embedded => RouteOf(rendered, "control") = Direct
    /\ asked.tailscale => /\ RouteOf(rendered, "tailnet") \in ToSet(rendered.endpoints)
                          /\ RouteOf(rendered, "incoming") \in Tags(rendered) \ ToSet(rendered.endpoints)
    /\ asked.embedded /\ ~asked.tailscale => RouteOf(rendered, "network") \in ToSet(rendered.endpoints)

(* The agent's renaming does not move traffic: what no local rule catches leaves through the
   outbound (or endpoint) at the same place of the list as before, under its new name. *)
RoutesPreserved ==
  prepared \in Configurations /\ asked.endpoint \notin NodeTags(asked) =>
    LET Names(c) == [i \in DOMAIN c.outbounds |-> c.outbounds[i].tag] \o c.endpoints
        Place(c, kind) == CHOOSE i \in DOMAIN Names(c) : Names(c)[i] = RouteOf(c, kind)
    IN \A kind \in Traffic \ options.local : Place(prepared, kind) = Place(rendered, kind)

(* What the panel renders, and what the agent makes of it, is a configuration sing-box takes
   and that sends traffic where it belongs. *)
RenderedSound == TagsDistinct /\ RoutesResolve /\ ProtectedRoutes /\ RoutesPreserved
=============================================================================
