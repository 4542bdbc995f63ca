-------------------------------- MODULE Fleet --------------------------------
(***************************************************************************)
(* The devices of a panel and their WireGuard peers: the routes of         *)
(* c/src/http_routes_hosts.c and http_routes_admin.c, provisioning and     *)
(* kernel synchronisation in c/src/wireguard.c, the tables of              *)
(* c/src/store.c.  Requests run on threads of their own; only a store call *)
(* is atomic.  One managed device is followed, with as many other peers as *)
(* there are addresses.                                                    *)
(***************************************************************************)
EXTENDS Integers, FiniteSets

CONSTANTS Octets,           \* the addresses 2..254 of the subnet
          FleetThreads,     \* server threads
          FleetRequests     \* bound on the requests of a behaviour

ASSUME FleetAssumption == Octets \subseteq Nat \ {0} /\ FleetRequests \in Nat

VARIABLES host,         \* the device's row
          peers,        \* rows of wireguard_peers
          kernel,       \* the addresses the kernel's interface was given
          jobs,         \* per thread: the request it handles
          history       \* requests started; whether two ever overlapped; a failed sync

fleetVars == <<host, peers, kernel, jobs, history>>

NoPeer == [octet |-> 0, form |-> "/32", linked |-> FALSE, named |-> FALSE, on |-> FALSE]
NoHost == [there |-> FALSE, member |-> FALSE, octet |-> 0]
Resting == [op |-> "none", pc |-> "idle", copy |-> NoHost, peer |-> NoPeer, snapshot |-> {}]

FleetInit ==
    /\ host = NoHost /\ peers = {} /\ kernel = {}
    /\ jobs = [t \in FleetThreads |-> Resting]
    /\ history = [started |-> 0, overlap |-> FALSE, stale |-> FALSE]
-----------------------------------------------------------------------------
(***************************************************************************)
(* The peer table.                                                         *)
(***************************************************************************)
SameRow(p, q) == p.octet = q.octet /\ p.form = q.form       \* the text of an address is its key
Row(p) == {q \in peers : SameRow(p, q)}
Linked == {p \in peers : p.linked}
Live == {p \in peers : p.on}
Addresses(ps) == {<<p.octet, p.form>> : p \in ps}

\* sb_store_next_wireguard_address: the lowest octet no peer has in any form.
Free == {o \in Octets : \A p \in peers : p.octet # o}
NextOctet == CHOOSE o \in Free : \A x \in Free : o <= x

\* sb_store_create_wireguard_peer: the address must not be there as it is written.
Inserted(p) == IF Row(p) = {} THEN peers \cup {p} ELSE peers
-----------------------------------------------------------------------------
(***************************************************************************)
(* Requests, step by step.  Go(t, pc) moves thread t on.                   *)
(***************************************************************************)
Quiet == \A t \in FleetThreads : jobs[t].pc = "idle"
At(t, pc) == jobs[t].pc = pc
Go(t, pc) == jobs' = [jobs EXCEPT ![t].pc = pc]
Done(t) == jobs' = [jobs EXCEPT ![t] = Resting]

Begin(t, op, pc, peer) ==
    /\ At(t, "idle") /\ history.started < FleetRequests
    /\ history' = [history EXCEPT !.started = @ + 1, !.overlap = @ \/ ~Quiet]
    /\ jobs' = [jobs EXCEPT ![t] = [Resting EXCEPT !.op = op, !.pc = pc, !.peer = peer]]
    /\ UNCHANGED <<host, peers, kernel>>

\* POST, PUT and DELETE on the device; POST, PUT and DELETE on a peer.
BeginHost(t) == \E r \in {<<"create+", "insert">>, <<"create-", "insert">>, <<"update+", "read">>,
                          <<"update-", "read">>, <<"delete", "find">>} : Begin(t, r[1], r[2], NoPeer)
BeginPeer(t) == \/ \E named \in BOOLEAN : Begin(t, "add", "next", [NoPeer EXCEPT !.named = named])
                \/ \E p \in peers : Begin(t, "remove", "unhook", p) \/ Begin(t, "edit", "edit", p)

\* sb_store_create_host: a new row, not provisioned yet.
InsertHost(t) ==
    /\ At(t, "insert")
    /\ IF host.there THEN Done(t) /\ UNCHANGED host
       ELSE LET row == [there |-> TRUE, member |-> jobs[t].op = "create+", octet |-> 0]
            IN  /\ host' = row
                /\ jobs' = [jobs EXCEPT ![t] = IF row.member THEN [@ EXCEPT !.pc = "list", !.copy = row] ELSE Resting]
    /\ UNCHANGED <<peers, kernel, history>>

\* handle_update_host reads the row ...
ReadHost(t) ==
    /\ At(t, "read")
    /\ jobs' = [jobs EXCEPT ![t] = IF host.there THEN [@ EXCEPT !.pc = "write", !.copy = host] ELSE Resting]
    /\ UNCHANGED <<host, peers, kernel, history>>

\* ... and writes all of it back, then provisions or deprovisions on a change.
WriteHost(t) ==
    /\ At(t, "write")
    /\ LET was == jobs[t].copy
           row == [was EXCEPT !.member = jobs[t].op = "update+"]
       IN  IF ~host.there THEN Done(t) /\ UNCHANGED host
           ELSE /\ host' = row
                /\ jobs' = [jobs EXCEPT ![t] = CASE row.member /\ ~was.member -> [@ EXCEPT !.pc = "list", !.copy = row]
                                                 [] ~row.member /\ was.member -> [@ EXCEPT !.pc = "find"]
                                                 [] OTHER -> Resting]
    /\ UNCHANGED <<peers, kernel, history>>

\* sb_wireguard_provision_host: the device's own peer, else an unlinked one of its
\* name, else a new one.
ListPeers(t) ==
    /\ At(t, "list")
    /\ LET adoptable == {p \in peers : p.named /\ ~p.linked} IN
       \/ \E p \in Linked : jobs' = [jobs EXCEPT ![t].pc = "link", ![t].peer = p]
       \/ /\ Linked = {}
          /\ \E p \in adoptable : jobs' = [jobs EXCEPT ![t].pc = "adopt", ![t].peer = p]
       \/ Linked = {} /\ adoptable = {} /\ Go(t, "next")
    /\ UNCHANGED <<host, peers, kernel, history>>

\* The whole row is written from the copy that was listed.
Adopt(t) ==
    /\ At(t, "adopt")
    /\ LET p == jobs[t].peer
           adopted == [p EXCEPT !.linked = TRUE, !.on = TRUE]
       IN  IF Row(p) = {} THEN Done(t) /\ UNCHANGED peers
           ELSE /\ peers' = (peers \ Row(p)) \cup {adopted}
                /\ jobs' = [jobs EXCEPT ![t].pc = "link", ![t].peer = adopted]
    /\ UNCHANGED <<host, kernel, history>>

\* A device's peer is written /32, one that is added by hand as it was proposed, /24.
Next(t) ==
    /\ At(t, "next")
    /\ IF Free = {} THEN Done(t)
       ELSE jobs' = [jobs EXCEPT ![t].pc = "put", ![t].peer =
                        [octet |-> NextOctet, form |-> IF jobs[t].op = "add" THEN "/24" ELSE "/32",
                         linked |-> jobs[t].op # "add", named |-> jobs[t].peer.named, on |-> TRUE]]
    /\ UNCHANGED <<host, peers, kernel, history>>

InsertPeer(t) ==
    /\ At(t, "put") /\ peers' = Inserted(jobs[t].peer)
    /\ IF jobs[t].peer \notin peers' \/ jobs[t].peer \in peers THEN Done(t)
       ELSE Go(t, IF jobs[t].op = "add" THEN "sync" ELSE "link")
    /\ UNCHANGED <<host, kernel, history>>

\* The address is stored with the device, from the copy the request has of it.
LinkHost(t) ==
    /\ At(t, "link")
    /\ IF host.there THEN host' = [jobs[t].copy EXCEPT !.octet = jobs[t].peer.octet] /\ Go(t, "sync")
       ELSE Done(t) /\ UNCHANGED host
    /\ UNCHANGED <<peers, kernel, history>>

\* sb_wireguard_deprovision_host.
FindPeer(t) ==
    /\ At(t, "find")
    /\ \/ \E p \in Linked : jobs' = [jobs EXCEPT ![t].pc = "unhook", ![t].peer = p]
       \/ Linked = {} /\ Go(t, IF jobs[t].op = "delete" THEN "erase" ELSE "sync")
    /\ UNCHANGED <<host, peers, kernel, history>>

\* sb_wireguard_remove_peer: the kernel forgets the peer before the table does.
Unhook(t) ==
    /\ At(t, "unhook")
    /\ kernel' = kernel \ Addresses({jobs[t].peer}) /\ Go(t, "drop")
    /\ UNCHANGED <<host, peers, history>>

\* sb_store_delete_wireguard_peer.
Drop(t) ==
    /\ At(t, "drop")
    /\ peers' = peers \ Row(jobs[t].peer)
    /\ IF Row(jobs[t].peer) = {} \/ jobs[t].op = "remove" THEN Done(t)
       ELSE Go(t, IF jobs[t].op = "delete" THEN "erase" ELSE "sync")
    /\ UNCHANGED <<host, kernel, history>>

EraseHost(t) ==
    /\ At(t, "erase")
    /\ host' = NoHost /\ (IF host.there THEN Go(t, "sync") ELSE Done(t))
    /\ UNCHANGED <<peers, kernel, history>>

\* PUT on a peer, and enabling or disabling it: the row that was read is written back.
EditPeer(t) ==
    /\ At(t, "edit")
    /\ LET p == jobs[t].peer IN
       IF Row(p) = {} THEN Done(t) /\ UNCHANGED peers
       ELSE peers' = (peers \ Row(p)) \cup {[p EXCEPT !.on = ~@]} /\ Go(t, "sync")
    /\ UNCHANGED <<host, kernel, history>>

\* sb_wireguard_sync: the peers that are enabled now ...
SyncRead(t) ==
    /\ At(t, "sync") /\ jobs' = [jobs EXCEPT ![t].pc = "apply", ![t].snapshot = Addresses(Live)]
    /\ UNCHANGED <<host, peers, kernel, history>>

\* ... are given to the kernel, by a command that may fail (it is only logged).
SyncApply(t) ==
    /\ At(t, "apply") /\ Done(t)
    /\ \/ kernel' = jobs[t].snapshot /\ history' = [history EXCEPT !.stale = FALSE]
       \/ history' = [history EXCEPT !.stale = TRUE] /\ UNCHANGED kernel
    /\ UNCHANGED <<host, peers>>

RestartKeepsKernel ==
    /\ ~Quiet /\ jobs' = [t \in FleetThreads |-> Resting]
    /\ UNCHANGED <<host, peers, kernel, history>>

\* The panel dies and comes back: sb_wireguard_startup writes the whole table.
Restart ==
    /\ ~Quiet /\ jobs' = [t \in FleetThreads |-> Resting]
    /\ kernel' = Addresses(Live) /\ history' = [history EXCEPT !.stale = FALSE]
    /\ UNCHANGED <<host, peers>>

FleetNext ==
    \/ \E t \in FleetThreads :
          \/ BeginHost(t) \/ BeginPeer(t) \/ InsertHost(t) \/ ReadHost(t) \/ WriteHost(t) \/ ListPeers(t)
          \/ Adopt(t) \/ Next(t) \/ InsertPeer(t) \/ LinkHost(t) \/ FindPeer(t) \/ Unhook(t) \/ Drop(t)
          \/ EraseHost(t) \/ EditPeer(t) \/ SyncRead(t) \/ SyncApply(t)
    \/ Restart

FleetSpec == FleetInit /\ [][FleetNext]_fleetVars
-----------------------------------------------------------------------------
(***************************************************************************)
(* Properties.                                                             *)
(***************************************************************************)
\* As long as requests come one at a time, with a crash at any point, the device has at
\* most one peer and no peer outlives it (provision_host_logged,
\* sb_wireguard_deprovision_host, handle_delete_host), and the kernel has exactly the
\* enabled peers whenever no request is in progress and the last synchronisation did
\* not fail.
KernelFollows ==
    ~history.overlap =>
        /\ Cardinality(Linked) <= 1 /\ (Linked # {} => host.there)
        /\ Quiet /\ ~history.stale => kernel = Addresses(Live)
=============================================================================
