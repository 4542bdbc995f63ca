--------------------------- MODULE ProxyInventory ---------------------------
(***************************************************************************)
(* The panel's proxy nodes: the table of c/src/store.c (create, update,    *)
(* delete, upsert, backup and restore) as the routes                     *)
(* of c/src/http_routes_proxy.c and the subscription refresh drive it.     *)
(* An endpoint is what fingerprint_of hashes: type, server, port, options. *)
(* A tag is a name and the number import_display_tag may append to it.     *)
(***************************************************************************)
EXTENDS Integers, Sequences, FiniteSets, SequencesExt

CONSTANTS Sources,          \* subscriptions
          Endpoints, Names,
          MaxNodes,         \* bound on the table
          Operations,       \* bound on the operations of a behaviour
          Payloads          \* what a subscription or a pasted configuration may hold

ASSUME InventoryAssumption == MaxNodes \in Nat /\ Operations \in Nat /\ Payloads \subseteq Seq([tag : Names, endpoint : Endpoints])

VARIABLES nodes,        \* proxy_nodes: id -> row
          editing,      \* the row a PATCH has read and not yet written
          backup,       \* the nodes of an exported backup
          operations    \* how many operations there were

inventoryVars == <<nodes, editing, backup, operations>>

ByHand == "by hand"                     \* subscription_id IS NULL
NoTag == <<"none", 0>>
Plain(name) == <<name, 1>>
Unread == [id |-> 0]

InventoryInit == nodes = <<>> /\ editing = Unread /\ backup = <<>> /\ operations = 0

Fresh(t) == CHOOSE i \in 1 .. Cardinality(DOMAIN t) + 1 : i \notin DOMAIN t /\ \A j \in 1 .. i - 1 : j \in DOMAIN t

PlainFingerprint(source, endpoint) == <<ByHand, endpoint>>

\* The fingerprint of a subscription's node is scoped to the subscription.
Fingerprint(source, endpoint) == <<source, endpoint>>

\* The UNIQUE columns of proxy_nodes.
Distinct(t) == \A i, j \in DOMAIN t : (t[i].tag = t[j].tag \/ t[i].print = t[j].print) => i = j

Without(t, gone) == [i \in DOMAIN t \ gone |-> t[i]]
With(t, i, row) == [j \in DOMAIN t \cup {i} |-> IF j = i THEN row ELSE t[j]]
-----------------------------------------------------------------------------
(***************************************************************************)
(* upsert_one.                                                             *)
(***************************************************************************)
\* The tag of the entry, numbered until no other row has it.
DisplayTag(t, name, except) ==
    LET used == {t[i].tag : i \in DOMAIN t \ except}
        k == CHOOSE k \in 1 .. Cardinality(used) + 1 : <<name, k>> \notin used /\ \A l \in 1 .. k - 1 : <<name, l>> \in used
    IN  <<name, k>>

\* The rows an entry may be taken for: the same endpoint, else the same name.
Match(t, source, entry) ==
    LET byPrint == {i \in DOMAIN t : t[i].source = source /\ t[i].print = Fingerprint(source, entry.endpoint)}
        byTag == {i \in DOMAIN t : t[i].source = source /\ Plain(entry.tag) \in {t[i].tag, t[i].sourceTag}}
    IN  IF byPrint # {} THEN byPrint ELSE byTag

Renamed(row) == row.sourceTag # NoTag /\ row.tag # row.sourceTag

SourceTag(source, entry) == IF source = ByHand THEN NoTag ELSE Plain(entry.tag)

\* An existing row keeps the name its user gave it.
Refreshed(t, i, source, entry) ==
    [t[i] EXCEPT !.source = source,
                 !.tag = IF source # ByHand /\ Renamed(t[i]) THEN @ ELSE DisplayTag(t, entry.tag, {i}),
                 !.sourceTag = SourceTag(source, entry),
                 !.print = Fingerprint(source, entry.endpoint)]

NewRow(t, source, entry) ==
    [source |-> source, print |-> Fingerprint(source, entry.endpoint),
     tag |-> DisplayTag(t, entry.tag, {}), sourceTag |-> SourceTag(source, entry)]

\* The tables an entry may lead to; LIMIT 1 takes any of the matching rows.
Upserted(t, source, entry) ==
    IF Match(t, source, entry) = {} THEN {With(t, Fresh(t), NewRow(t, source, entry))}
    ELSE {With(t, i, Refreshed(t, i, source, entry)) : i \in Match(t, source, entry)}

\* The tables a payload may lead to; an entry that breaks a UNIQUE column fails:
\* a refresh is then undone as a whole, a pasted configuration only skips the entry.
Attempted(source, payload) ==
    FoldLeft(LAMBDA tables, entry : UNION {Upserted(t, source, entry) : t \in tables}, {nodes}, payload)

Pasted(payload) ==
    FoldLeft(LAMBDA tables, entry : UNION {{IF Distinct(u) THEN u ELSE t : u \in Upserted(t, ByHand, entry)} : t \in tables},
            {nodes}, payload)
-----------------------------------------------------------------------------
\* sb_store_apply_subscription_fetch: the nodes of a refresh, in one transaction.
Refresh(source, payload) ==
    /\ \E t \in Attempted(source, payload) : Distinct(t) /\ Cardinality(DOMAIN t) <= MaxNodes /\ nodes' = t
    /\ UNCHANGED <<editing, backup>>

\* h_nodes_import.
Paste(payload) ==
    /\ \E t \in Pasted(payload) : Cardinality(DOMAIN t) <= MaxNodes /\ nodes' = t
    /\ UNCHANGED <<editing, backup>>

\* h_nodes_create: a hand-made node, refused when its tag or endpoint is taken.
CreateNode(name, endpoint) ==
    LET row == [source |-> ByHand, print |-> Fingerprint(ByHand, endpoint), tag |-> Plain(name), sourceTag |-> NoTag]
    IN  /\ Cardinality(DOMAIN nodes) < MaxNodes /\ Distinct(With(nodes, Fresh(nodes), row))
        /\ nodes' = With(nodes, Fresh(nodes), row)
        /\ UNCHANGED <<editing, backup>>

\* h_node_update reads the row, merges the request into its copy and writes the copy.
ReadNode(i) ==
    /\ editing = Unread /\ editing' = [id |-> i, row |-> nodes[i]]
    /\ UNCHANGED <<nodes, backup>>

EditedRows(row) ==
    {[row EXCEPT !.tag = Plain(name)] : name \in Names}
      \cup {[row EXCEPT !.print = Fingerprint(row.source, e)] : e \in Endpoints}

\* sb_store_update_proxy_node: refused when another row has the tag or the
\* endpoint, or the node is gone; the provider's tag is not written.
WriteNode ==
    /\ editing # Unread /\ editing' = Unread
    /\ \E row \in EditedRows(editing.row) :
          nodes' = IF editing.id \in DOMAIN nodes
                   THEN LET t == With(nodes, editing.id, [row EXCEPT !.sourceTag = nodes[editing.id].sourceTag])
                        IN  IF Distinct(t) THEN t ELSE nodes
                   ELSE nodes
    /\ UNCHANGED backup

\* sb_store_delete_proxy_node.
DeleteNode(i) ==
    /\ nodes' = Without(nodes, {i})
    /\ UNCHANGED <<editing, backup>>

ExportNodes == backup' = nodes /\ UNCHANGED <<nodes, editing>>

\* sb_store_restore_backup: INSERT OR REPLACE removes the rows that hold an id, a
\* tag or a fingerprint of a restored one.
RestoreNodes ==
    LET displaced == {i \in DOMAIN nodes : \E j \in DOMAIN backup :
                         i = j \/ nodes[i].tag = backup[j].tag \/ nodes[i].print = backup[j].print}
    IN  /\ nodes' = [i \in (DOMAIN nodes \ displaced) \cup DOMAIN backup |->
                        IF i \in DOMAIN backup THEN backup[i] ELSE nodes[i]]
        /\ Cardinality(DOMAIN nodes') <= MaxNodes
        /\ UNCHANGED <<editing, backup>>

TableStep ==
    \/ \E s \in Sources, p \in Payloads : Refresh(s, p)
    \/ \E p \in Payloads : Paste(p)
    \/ \E n \in Names, e \in Endpoints : CreateNode(n, e)
    \/ \E i \in DOMAIN nodes : DeleteNode(i)

Operation == operations < Operations /\ operations' = operations + 1

EditStep == Operation /\ (TableStep \/ (\E i \in DOMAIN nodes : ReadNode(i)) \/ WriteNode)
BackupStep == Operation /\ (TableStep \/ ExportNodes \/ RestoreNodes)

InventoryNext == EditStep \/ BackupStep

InventorySpec == InventoryInit /\ [][InventoryNext]_inventoryVars
-----------------------------------------------------------------------------
(***************************************************************************)
(* Properties.                                                             *)
(***************************************************************************)
\* No refresh is ever blocked: whatever was imported, renamed, edited or restored
\* before, upsert_one finds for every payload rows and tags that break no UNIQUE
\* column (one failing entry would undo the whole refresh, on every attempt).
RefreshAlwaysFits ==
    \A s \in Sources, p \in Payloads : \A t \in Attempted(s, p) : Distinct(t)

=============================================================================
