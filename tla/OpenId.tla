------------------------------- MODULE OpenId -------------------------------
(***************************************************************************)
(* Signing in through an OpenID Connect provider: c/src/auth_oidc.c.       *)
(* Discovery and the exchange of the code happen over the network with the *)
(* database unlocked, so that a configuration read before may have been    *)
(* replaced, disabled, or replaced by an equal one afterwards.             *)
(***************************************************************************)
EXTENDS Integers, FiniteSets

CONSTANTS Issuers, Owners, FlowIds, Finishers,
          MaxChanges    \* configurations stored

VARIABLES oidc,         \* the auth_oidc_config row
          flows,        \* auth_oidc_flows: [id, issuer, since]
          setter,       \* a request to enable, between its steps
          starter,      \* a login being started
          finisher,     \* logins being finished
          links,        \* auth_oidc_links: issuer -> owner (one subject)
          changes       \* how often the configuration was changed (history)

openVars == <<oidc, flows, setter, starter, finisher, links, changes>>

NoIssuer == "none"
Away == [at |-> "idle"]

OpenInit ==
    /\ oidc = [enabled |-> FALSE, issuer |-> NoIssuer, secret |-> NoIssuer, revision |-> 0]
    /\ flows = {} /\ setter = Away /\ starter = Away
    /\ finisher = [f \in Finishers |-> Away]
    /\ links = [i \in Issuers |-> NoIssuer] /\ changes = 0

Changed == changes < MaxChanges /\ changes' = changes + 1
-----------------------------------------------------------------------------
OidcDisable ==
    /\ oidc.enabled /\ Changed
    /\ oidc' = [oidc EXCEPT !.enabled = FALSE] /\ flows' = {}
    /\ UNCHANGED <<setter, starter, finisher, links>>

\* The stored client secret is kept only for the provider it was given for.
SecretKept(old, issuer) == IF old.issuer = issuer THEN old.secret ELSE NoIssuer

\* The row is read; discovery runs unlocked.
ConfigureReads(issuer, given) ==
    /\ setter = Away
    /\ setter' = [at |-> "discovery", old |-> oidc, issuer |-> issuer,
                  secret |-> IF given THEN issuer ELSE SecretKept(oidc, issuer)]
    /\ UNCHANGED <<oidc, flows, starter, finisher, links, changes>>

SameRevision == oidc.revision
FreshRevision == changes + 1

ConfigureStores ==
    /\ setter.at = "discovery" /\ setter' = Away
    /\ \/ /\ setter.old = oidc /\ Changed
          /\ oidc' = [enabled |-> TRUE, issuer |-> setter.issuer, secret |-> setter.secret,
                      revision |-> FreshRevision]
          /\ flows' = {}
       \/ UNCHANGED <<oidc, flows, changes>>    \* discovery failed, or a conflict
    /\ UNCHANGED <<starter, finisher, links>>
-----------------------------------------------------------------------------
OidcBeginReads ==
    /\ starter = Away /\ oidc.enabled /\ starter' = [at |-> "begin", config |-> oidc]
    /\ UNCHANGED <<oidc, flows, setter, finisher, links, changes>>

Taken == {x.id : x \in flows} \cup {finisher[f].flow.id : f \in {g \in Finishers : finisher[g].at = "exchange"}}

\* The flow is stored if the configuration is still the one of the redirect and
\* there is room.
OidcBeginStores ==
    /\ starter.at = "begin" /\ starter' = Away
    /\ IF starter.config = oidc /\ FlowIds \ Taken # {}
       THEN flows' = flows \cup {[id |-> CHOOSE i \in FlowIds \ Taken : TRUE,
                                   issuer |-> oidc.issuer, since |-> changes]}
       ELSE UNCHANGED flows
    /\ UNCHANGED <<oidc, setter, finisher, links, changes>>

FlowExpires(x) ==
    /\ flows' = flows \ {x}
    /\ UNCHANGED <<oidc, setter, starter, finisher, links, changes>>

\* sb_auth_oidc_finish first consumes the flow, accepted or not.
FinishTakes(f, x) ==
    /\ finisher[f] = Away /\ flows' = flows \ {x}
    /\ \/ /\ oidc.enabled /\ oidc.issuer = x.issuer
          /\ finisher' = [finisher EXCEPT ![f] = [at |-> "exchange", flow |-> x, config |-> oidc, user |-> NoIssuer]]
       \/ UNCHANGED finisher            \* another browser's binding, or expired
    /\ UNCHANGED <<oidc, setter, starter, links, changes>>

\* The token was exchanged and verified, unlocked; the rest is done locked.
FinishGrants(f) ==
    /\ finisher[f].at = "exchange"
    /\ finisher[f].config = oidc /\ links[oidc.issuer] # NoIssuer
    /\ finisher' = [finisher EXCEPT ![f].at = "granted", ![f].user = links[oidc.issuer]]
    /\ UNCHANGED <<oidc, flows, setter, starter, links, changes>>

\* Refused, or the caller went on to issue the session or the challenge.
FinishEnds(f) ==
    /\ finisher[f] # Away /\ finisher' = [finisher EXCEPT ![f] = Away]
    /\ UNCHANGED <<oidc, flows, setter, starter, links, changes>>

OidcLink(i, owner) ==
    /\ links' = IF links[i] = NoIssuer THEN [links EXCEPT ![i] = owner] ELSE links
    /\ UNCHANGED <<oidc, flows, setter, starter, finisher, changes>>

\* The link is removed, or goes with its user.
OidcUnlink(i) ==
    /\ links' = [links EXCEPT ![i] = NoIssuer]
    /\ UNCHANGED <<oidc, flows, setter, starter, finisher, changes>>

OpenNext ==
    \/ OidcDisable \/ ConfigureStores \/ OidcBeginReads \/ OidcBeginStores
    \/ \E i \in Issuers : OidcUnlink(i) \/ \E given \in BOOLEAN : ConfigureReads(i, given)
    \/ \E i \in Issuers, owner \in Owners : OidcLink(i, owner)
    \/ \E x \in flows : FlowExpires(x) \/ \E f \in Finishers : FinishTakes(f, x)
    \/ \E f \in Finishers : FinishGrants(f) \/ FinishEnds(f)

OpenSpec == OpenInit /\ [][OpenNext]_openVars
-----------------------------------------------------------------------------
(***************************************************************************)
(* Properties.                                                             *)
(***************************************************************************)
\* "A disable/config change while exchanging the code invalidates the login": a
\* login is granted only if the configuration never changed since it was started,
\* not even into an equal one.
LoginUnderOneConfig ==
    [][\A f \in Finishers :
          (finisher'[f].at = "granted" /\ finisher[f].at = "exchange")
             => oidc.enabled /\ finisher[f].flow.since = changes]_openVars

=============================================================================
