------------------------------- MODULE MCPanel -------------------------------
(***************************************************************************)
(* The services of the panel, each explored by itself: the preferences of  *)
(* an account, the WireGuard fleet, the import of a wg-easy hub, the proxy *)
(* nodes, the accounts, the sign-in, OpenID Connect and the migrations of  *)
(* the database.  `part' says which one moves; the others keep their       *)
(* initial state.                                                          *)
(***************************************************************************)
EXTENDS PreferenceSync, Fleet, HubImport, ProxyInventory, Accounts, SignIn, OpenId, Migrations

VARIABLE part

panelVars == <<prefVars, fleetVars, hubVars, inventoryVars, accountVars, signVars, openVars, migrationVars, part>>

PanelInit ==
    /\ part \in {"cloud", "import", "fleet", "hub", "edit", "backup", "accounts", "sign-in", "openid", "migrations"}
    /\ PrefInit /\ FleetInit /\ HubInit /\ InventoryInit /\ AccountInit /\ SignInit /\ OpenInit /\ MigrationInit

PrefMoves ==
    /\ (part = "cloud" /\ CloudStep) \/ (part = "import" /\ ImportStep)
    /\ UNCHANGED <<fleetVars, hubVars, inventoryVars, accountVars, signVars, openVars, migrationVars, part>>
FleetMoves ==
    /\ part = "fleet" /\ FleetNext
    /\ UNCHANGED <<prefVars, hubVars, inventoryVars, accountVars, signVars, openVars, migrationVars, part>>
HubMoves ==
    /\ part = "hub" /\ HubNext
    /\ UNCHANGED <<prefVars, fleetVars, inventoryVars, accountVars, signVars, openVars, migrationVars, part>>
InventoryMoves ==
    /\ (part = "edit" /\ EditStep) \/ (part = "backup" /\ BackupStep)
    /\ UNCHANGED <<prefVars, fleetVars, hubVars, accountVars, signVars, openVars, migrationVars, part>>
AccountMoves ==
    /\ part = "accounts" /\ AccountNext
    /\ UNCHANGED <<prefVars, fleetVars, hubVars, inventoryVars, signVars, openVars, migrationVars, part>>
SignMoves ==
    /\ part = "sign-in" /\ SignNext
    /\ UNCHANGED <<prefVars, fleetVars, hubVars, inventoryVars, accountVars, openVars, migrationVars, part>>
OpenMoves ==
    /\ part = "openid" /\ OpenNext
    /\ UNCHANGED <<prefVars, fleetVars, hubVars, inventoryVars, accountVars, signVars, migrationVars, part>>
MigrationMoves ==
    /\ part = "migrations" /\ MigrationNext
    /\ UNCHANGED <<prefVars, fleetVars, hubVars, inventoryVars, accountVars, signVars, openVars, part>>

PanelNext ==
    \/ PrefMoves \/ FleetMoves \/ HubMoves \/ InventoryMoves
    \/ AccountMoves \/ SignMoves \/ OpenMoves \/ MigrationMoves

PanelSpec == PanelInit /\ [][PanelNext]_panelVars
-----------------------------------------------------------------------------
\* Peers of the wg-easy hubs that are imported: the same one twice, one more, and one
\* that claims a key that is in use.
HubPeer(i, k, a) == [id |-> i, key |-> k, address |-> a]
HubBatches ==
    {[key |-> "K", subnet |-> "S", peers |-> {HubPeer("a", "ka", 2)}],
     [key |-> "K", subnet |-> "S", peers |-> {HubPeer("a", "ka", 2), HubPeer("b", "kb", 3)}],
     [key |-> "K", subnet |-> "S", peers |-> {HubPeer("b", "ka", 3)}]}

\* What a subscription answers: one node, or two with different endpoints.
ProviderNode(n, e) == [tag |-> n, endpoint |-> e]
ProviderPayloads ==
    {<<ProviderNode(n, e)>> : n \in Names, e \in Endpoints} \cup
    {<<ProviderNode(n, e), ProviderNode(m, 3 - e)>> : n \in Names, m \in Names, e \in Endpoints}

\* Releases whose migrations follow each other, differ in an applied one, or skip one.
ReleasesTried ==
    {<<"a">>, <<"a", "b">>, <<"x", "b">>, [v \in {1, 3} |-> IF v = 1 THEN "a" ELSE "c"], <<"a", "b", "c">>}
-----------------------------------------------------------------------------
\* A refresh of a subscription never fails on the table's UNIQUE columns (checked while
\* the nodes are the part that moves).
RefreshFits == part \in {"edit", "backup"} => RefreshAlwaysFits

=============================================================================
