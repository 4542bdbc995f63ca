------------------------------ MODULE HubImport ------------------------------
(***************************************************************************)
(* The identity of the panel's WireGuard hub and the import of a wg-easy   *)
(* installation: server_keypair (c/src/wireguard.c), the migration route   *)
(* of c/src/http_routes_admin.c, wg_migration.c, and sb_store_wg_import    *)
(* with its rollback in c/src/store.c.  A peer is its id, key and address. *)
(***************************************************************************)
EXTENDS Integers, Sequences, FiniteSets, SequencesExt

CONSTANTS Batches,          \* validated imports: [key, subnet, peers]
          HubThreads,       \* threads that serve client configurations
          FreshKeys,        \* keys the panel may generate
          HubEdits,         \* bound on edits of the peers and on restarts
          MaxImports        \* bound on imports

ASSUME HubAssumption == HubEdits \in Nat /\ MaxImports \in Nat

VARIABLES hub,          \* the stored settings and peers
          imports,      \* wireguard_imports
          shown,        \* the last preview: state and batch (an older one of the same state is the same)
          makers,       \* per thread: the key it is about to store
          process       \* WG_ENABLED of this process, edits made

hubVars == <<hub, imports, shown, makers, process>>

NoKey == "none"

HubInit ==
    /\ hub = [key |-> NoKey, subnet |-> "default", peers |-> {}]
    /\ imports = <<>> /\ shown = <<>>
    /\ makers = [t \in HubThreads |-> NoKey]
    /\ process = [on |-> FALSE, edits |-> 0]
-----------------------------------------------------------------------------
(***************************************************************************)
(* The server key.                                                         *)
(***************************************************************************)
\* A client configuration is built: server_keypair finds a key, or makes one
\* that it has yet to store.
ReadKey(t) ==
    /\ makers[t] = NoKey
    /\ IF hub.key # NoKey THEN UNCHANGED makers ELSE \E k \in FreshKeys : makers' = [makers EXCEPT ![t] = k]
    /\ UNCHANGED <<hub, imports, shown, process>>

StoreKey(t) ==
    /\ makers[t] # NoKey
    /\ hub' = [hub EXCEPT !.key = makers[t]]
    /\ makers' = [makers EXCEPT ![t] = NoKey]
    /\ UNCHANGED <<imports, shown, process>>

\* main_server.c: with WireGuard enabled sb_wireguard_startup writes the
\* server's configuration, and so its key, before requests are served.
RestartPanel(on) ==
    /\ process.edits < HubEdits
    /\ process' = [on |-> on, edits |-> process.edits + 1]
    /\ makers' = [t \in HubThreads |-> NoKey]
    /\ hub' \in IF on /\ hub.key = NoKey THEN {[hub EXCEPT !.key = k] : k \in FreshKeys} ELSE {hub}
    /\ UNCHANGED <<imports, shown>>

\* Peers are added, edited and removed by the other routes.
EditPeers ==
    /\ process.edits < HubEdits /\ process' = [process EXCEPT !.edits = @ + 1]
    /\ \/ \E p \in hub.peers : hub' = [hub EXCEPT !.peers = @ \ {p}]
       \/ \E p \in UNION {b.peers : b \in Batches} :
             /\ \A q \in hub.peers : q.address # p.address /\ q.id # "added"
             /\ hub' = [hub EXCEPT !.peers = @ \cup {[p EXCEPT !.id = "added", !.key = "added"]}]
    /\ UNCHANGED <<imports, shown, makers>>
-----------------------------------------------------------------------------
(***************************************************************************)
(* sb_store_wg_import.                                                     *)
(***************************************************************************)
Same(p, q) == p.key = q.key /\ p.address = q.address

Collides(p, q) == ~Same(p, q) /\ (p.key = q.key \/ p.address = q.address \/ p.id = q.id)

Conflict(b) ==
    \/ hub.peers # {} /\ (hub.key # b.key \/ hub.subnet # b.subnet)
    \/ \E p \in b.peers, q \in hub.peers : Collides(p, q)

Additions(b) == {p \in b.peers : \A q \in hub.peers : ~Same(p, q)}

\* A preview changes nothing and answers with a digest of the state and the batch.
ShowImport(b) ==
    /\ shown' = <<hub, b>>
    /\ UNCHANGED <<hub, imports, makers, process>>

\* One transaction; refused while the hub runs, with conflicts, and when the
\* digest is not the one of this state and batch.
Import(b) ==
    /\ Len(imports) < MaxImports
    /\ ~process.on /\ ~Conflict(b) /\ shown = <<hub, b>>
    /\ hub' = [key |-> b.key, subnet |-> b.subnet, peers |-> hub.peers \cup Additions(b)]
    /\ imports' = Append(imports, [before |-> hub, after |-> hub', added |-> Additions(b), status |-> "applied"])
    /\ UNCHANGED <<shown, makers, process>>

RollbackAnyway(i) ==
    /\ ~process.on /\ imports[i].status = "applied"
    /\ hub' = [imports[i].before EXCEPT !.peers = hub.peers \ imports[i].added]
    /\ imports' = [imports EXCEPT ![i].status = "rolled_back"]
    /\ UNCHANGED <<shown, makers, process>>

\* sb_store_wg_import_rollback: only from exactly the state the import left.
Rollback(i) ==
    /\ ~process.on /\ imports[i].status = "applied" /\ hub = imports[i].after
    /\ hub' = [imports[i].before EXCEPT !.peers = hub.peers \ imports[i].added]
    /\ imports' = [imports EXCEPT ![i].status = "rolled_back"]
    /\ UNCHANGED <<shown, makers, process>>

HubNext ==
    \/ \E t \in HubThreads : ReadKey(t) \/ StoreKey(t)
    \/ EditPeers
    \/ \E on \in BOOLEAN : RestartPanel(on)
    \/ \E b \in Batches : ShowImport(b) \/ Import(b)
    \/ \E i \in DOMAIN imports : Rollback(i)

HubSpec == HubInit /\ [][HubNext]_hubVars
-----------------------------------------------------------------------------
(***************************************************************************)
(* Properties.                                                             *)
(***************************************************************************)
\* A rollback restores the settings and peers from before its import, whatever was
\* imported, edited or rolled back between ("automatic rollback would overwrite
\* those changes", sb_store_wg_import_rollback).
RollbackRestores ==
    [][\A i \in DOMAIN imports :
          (imports[i].status = "applied" /\ imports'[i].status = "rolled_back") => hub' = imports[i].before]_hubVars

=============================================================================
