------------------------------ MODULE Accounts ------------------------------
(***************************************************************************)
(* The panel's accounts, their roles and the devices a non-administrator   *)
(* may reach: the user functions of c/src/store.c, the user routes of      *)
(* c/src/http_routes_admin.c and http_routes_security.c, and c/src/        *)
(* auth_device_policy.c.  A request is authorised when it arrives and      *)
(* carried out later, when its administrator may no longer be one.         *)
(***************************************************************************)
EXTENDS Integers, FiniteSets

CONSTANTS People, Groups, Devices

VARIABLES roles,        \* users: person -> role, for those who have an account
          scopes,       \* auth_user_scope
          groups,       \* auth_device_groups and their hosts
          grants,       \* auth_device_grants: [user, group, permission]
          devices,      \* hosts
          requests      \* administrators whose requests passed sb_require_admin

accountVars == <<roles, scopes, groups, grants, devices, requests>>

Roles == {"admin", "operator", "viewer"}
Users == DOMAIN roles

FirstUser == CHOOSE p \in People : TRUE         \* sb_store_ensure_default_admin

AccountInit ==
    /\ roles = [p \in {FirstUser} |-> "admin"]
    /\ scopes = <<>> /\ groups = <<>> /\ grants = {}
    /\ devices = Devices /\ requests = {}

Admins == {p \in Users : roles[p] = "admin"}
Unmapped(f, x) == [y \in DOMAIN f \ {x} |-> f[y]]
AlsoMaps(f, x, v) == [y \in DOMAIN f \cup {x} |-> IF y = x THEN v ELSE f[y]]

\* The token is verified, the role read from the table, the request goes on.
Admitted(p) ==
    /\ p \in Admins /\ requests' = requests \cup {p}
    /\ UNCHANGED <<roles, scopes, groups, grants, devices>>

Served(actor) == actor \in requests /\ requests' = requests \ {actor}
-----------------------------------------------------------------------------
CreateUser(actor, p, role) ==
    /\ Served(actor) /\ p \notin Users
    /\ roles' = AlsoMaps(roles, p, role)
    /\ UNCHANGED <<scopes, groups, grants, devices>>

UserRemoved(p) ==
    /\ roles' = Unmapped(roles, p)
    /\ scopes' = IF p \in DOMAIN scopes THEN Unmapped(scopes, p) ELSE scopes
    /\ grants' = {g \in grants : g.user # p}

DeleteUserByActor(actor, p) ==
    /\ Served(actor) /\ actor # p /\ p \in Users
    /\ UserRemoved(p) /\ UNCHANGED <<groups, devices>>

\* sb_store_delete_user: not oneself, not the last administrator; the rows that
\* refer to the user cascade.
DeleteUser(actor, p) ==
    /\ Served(actor) /\ actor # p /\ p \in Users
    /\ roles[p] = "admin" => Cardinality(Admins) > 1
    /\ UserRemoved(p) /\ UNCHANGED <<groups, devices>>

ChangeRole(actor, p, role) ==
    /\ Served(actor) /\ p \in Users
    /\ (roles[p] = "admin" /\ role # "admin") => Cardinality(Admins) > 1
    /\ roles' = [roles EXCEPT ![p] = role]
    /\ UNCHANGED <<scopes, groups, grants, devices>>
-----------------------------------------------------------------------------
(***************************************************************************)
(* auth_device_policy.c: each save is one transaction that names only      *)
(* rows that exist.                                                        *)
(***************************************************************************)
SaveGroup(actor, g, members) ==
    /\ Served(actor) /\ members \subseteq devices
    /\ groups' = AlsoMaps(groups, g, members)
    /\ UNCHANGED <<roles, scopes, grants, devices>>

RemoveGroup(actor, g) ==
    /\ Served(actor) /\ g \in DOMAIN groups
    /\ groups' = Unmapped(groups, g) /\ grants' = {x \in grants : x.group # g}
    /\ UNCHANGED <<roles, scopes, devices>>

\* sb_auth_user_scope_set replaces the scope and all grants of a user.
SetScope(actor, p, scope, given) ==
    /\ Served(actor) /\ p \in Users /\ (scope = "all" => given = {})
    /\ \A x \in given : x[1] \in DOMAIN groups
    /\ scopes' = AlsoMaps(scopes, p, scope)
    /\ grants' = {x \in grants : x.user # p} \cup {[user |-> p, group |-> x[1], permission |-> x[2]] : x \in given}
    /\ UNCHANGED <<roles, groups, devices>>

RemoveDevice(actor, d) ==
    /\ Served(actor) /\ d \in devices
    /\ devices' = devices \ {d} /\ groups' = [g \in DOMAIN groups |-> groups[g] \ {d}]
    /\ UNCHANGED <<roles, scopes, grants>>

Givens == {{}} \cup {{<<g, permission>>} : g \in Groups, permission \in {"view", "operate"}}

AccountNext ==
    \/ \E p \in Users : Admitted(p)
    \/ \E a \in requests :
          \/ \E p \in People, role \in Roles : CreateUser(a, p, role) \/ ChangeRole(a, p, role)
          \/ \E p \in People : DeleteUser(a, p)
          \/ \E g \in Groups : RemoveGroup(a, g) \/ \E m \in SUBSET Devices : SaveGroup(a, g, m)
          \/ \E p \in People, s \in {"all", "groups"}, given \in Givens : SetScope(a, p, s, given)
          \/ \E d \in Devices : RemoveDevice(a, d)

AccountSpec == AccountInit /\ [][AccountNext]_accountVars
-----------------------------------------------------------------------------
(***************************************************************************)
(* Properties.                                                             *)
(***************************************************************************)
\* There is always an administrator, although two administrators may remove or
\* demote each other and both requests were authorised before either was carried
\* out (sb_store_delete_user, sb_auth_security_change_role); and no right outlives
\* what it was given for: every grant is of an account and a group that exist, every
\* group holds devices that exist, whatever was removed or saved in which order.
RightsSound ==
    /\ Admins # {}
    /\ \A x \in grants : x.user \in Users /\ x.group \in DOMAIN groups
    /\ \A g \in DOMAIN groups : groups[g] \subseteq devices
    /\ DOMAIN scopes \subseteq Users

=============================================================================
