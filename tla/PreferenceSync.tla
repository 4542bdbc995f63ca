--------------------------- MODULE PreferenceSync ---------------------------
(***************************************************************************)
(* Encrypted preference archives: the panel's conditional store            *)
(* (c/src/preferences_sync.c and its route), the desktop service's account *)
(* session and calls (windows/service/preferences_cloud.c), and the        *)
(* preview and import of an archive on a device (controller.c).  A device  *)
(* makes one call at a time; a request whose answer is lost may still be   *)
(* served later.  An archive is known by its content, a number that is     *)
(* also its size.                                                          *)
(***************************************************************************)
EXTENDS Integers, FiniteSetsExt

CONSTANTS PrefDevices, Contents,        \* contents: sizes of archives
          SlotLimit, ByteLimit,         \* USER_SLOTS_LIMIT, USER_BYTES_LIMIT
          MaxRevision                   \* bound on the revisions of a behaviour

ASSUME PreferenceAssumption ==
    /\ Contents \subseteq Nat \ {0} /\ SlotLimit \in Nat /\ ByteLimit \in Nat /\ MaxRevision \in Nat

VARIABLES archives,     \* the account's slots: [revision, content]; revision 0 is no row
          cloud,        \* per device: the session and the revision the user has reviewed
          calls,        \* per device: the call in progress
          strays,       \* requests nobody waits for any more
          prefs,        \* per device: the preferences kept there, shared and its own
          preview       \* per device: an import that was shown and not applied yet

prefVars == <<archives, cloud, calls, strays, prefs, preview>>

Mine == "windows-personal"
Slots == {Mine, "android", "apple"}
None == 0
NoCallYet == [op |-> "none", stage |-> "none", revision |-> 0, content |-> None, basis |-> None, status |-> 0]
NoPreview == [on |-> FALSE, merged |-> None, base |-> None]
SignedOut == [phase |-> "out", known |-> FALSE, revision |-> 0, seen |-> None]

PrefInit ==
    /\ archives = [s \in Slots |-> [revision |-> 0, content |-> None]]
    /\ cloud = [d \in PrefDevices |-> SignedOut]
    /\ calls = [d \in PrefDevices |-> NoCallYet]
    /\ strays = {}
    /\ prefs = [d \in PrefDevices |-> [shared |-> CHOOSE c \in Contents : TRUE, own |-> 1]]
    /\ preview = [d \in PrefDevices |-> NoPreview]
-----------------------------------------------------------------------------
(***************************************************************************)
(* The panel.                                                              *)
(***************************************************************************)
Stored(a) == MapThenSumSet(LAMBDA s : a[s].content, Slots)
Rows(a) == {s \in Slots : a[s].revision > 0}

\* A slot that exists, deleted or not, needs no further slot; what it held is replaced.
Room(s, c) ==
    /\ archives[s].revision > 0 \/ Cardinality(Rows(archives)) < SlotLimit
    /\ Stored(archives) - archives[s].content + c <= ByteLimit

\* sb_preferences_put: one transaction; the answer is what it stored.
Put(s, q) ==
    IF q.revision # archives[s].revision \/ ~Room(s, q.content)
    THEN [to |-> archives, answer |-> [status |-> 409, revision |-> 0, content |-> None]]
    ELSE LET row == [revision |-> archives[s].revision + 1, content |-> q.content]
         IN  [to |-> [archives EXCEPT ![s] = row],
              answer |-> [status |-> 200, revision |-> row.revision, content |-> row.content]]

RemovedRow(row) == [revision |-> 0, content |-> None]

\* A deleted slot stays as a tombstone that goes on counting.
Tombstone(row) == [revision |-> row.revision + 1, content |-> None]

\* sb_preferences_delete; the route reads the slot again, in a transaction of its own.
Removed(s, q) ==
    IF q.revision = 0 \/ q.revision # archives[s].revision
    THEN [to |-> archives, answer |-> [status |-> IF q.revision = 0 THEN 400 ELSE 409,
                                       revision |-> 0, content |-> None]]
    ELSE [to |-> [archives EXCEPT ![s] = Tombstone(@)],
          answer |-> [status |-> 0, revision |-> 0, content |-> None]]

\* sb_preferences_get.
Fetched(s) ==
    [status |-> IF archives[s].revision = 0 THEN 404 ELSE 200,
     revision |-> archives[s].revision, content |-> archives[s].content]

Answered(d, a) == calls' = [calls EXCEPT ![d] = [@ EXCEPT !.stage = "answered", !.status = a.status,
                                                          !.revision = a.revision, !.content = a.content]]

\* The preferences route, for a request somebody waits for: its session is
\* checked first.
Serve(d) ==
    /\ calls[d].stage = "sent"
    /\ LET q == calls[d]
           done == CASE cloud[d].phase = "revoked" ->
                            [to |-> archives, answer |-> [status |-> 401, revision |-> 0, content |-> None]]
                     [] q.op = "get"    -> [to |-> archives, answer |-> Fetched(Mine)]
                     [] q.op = "put"    -> Put(Mine, q)
                     [] q.op = "delete" -> Removed(Mine, q)
       IN  /\ archives' = done.to
           /\ IF done.answer.status = 0 THEN calls' = [calls EXCEPT ![d].stage = "deleted"]
              ELSE Answered(d, done.answer)
    /\ UNCHANGED <<cloud, strays, prefs, preview>>

ReadAfterDelete(d) ==
    /\ calls[d].stage = "deleted" /\ Answered(d, Fetched(Mine))
    /\ UNCHANGED <<archives, cloud, strays, prefs, preview>>

ServeStray(q) ==
    /\ archives' = (IF q.op = "put" THEN Put(Mine, q) ELSE Removed(Mine, q)).to
    /\ strays' = strays \ {q}
    /\ UNCHANGED <<cloud, calls, prefs, preview>>

\* Another client of the account reads a slot and then writes or deletes it.
OtherClient(s, c) ==
    /\ archives[s].revision < (IF s = Mine THEN MaxRevision ELSE 1)
    /\ LET q == [revision |-> archives[s].revision, content |-> c]
       IN  archives' = (IF c = None THEN Removed(s, q) ELSE Put(s, q)).to
    /\ UNCHANGED <<cloud, calls, strays, prefs, preview>>
-----------------------------------------------------------------------------
(***************************************************************************)
(* The session and the calls of a device.                                  *)
(***************************************************************************)
Idle(d) == calls[d].stage = "none"

\* sbw_preferences_cloud_call "login": the earlier session is revoked and
\* forgotten; the panel answers with a token, a second factor, or not at all.
Login(d) ==
    /\ Idle(d)
    /\ \E phase \in {"out", "challenge", "in"} : cloud' = [cloud EXCEPT ![d] = [SignedOut EXCEPT !.phase = phase]]
    /\ UNCHANGED <<archives, calls, strays, prefs, preview>>

\* "mfa": a challenge that expired, or a code that is refused, signs out.
Mfa(d) ==
    /\ Idle(d) /\ cloud[d].phase = "challenge"
    /\ \E phase \in {"out", "in"} : cloud' = [cloud EXCEPT ![d].phase = phase]
    /\ UNCHANGED <<archives, calls, strays, prefs, preview>>

PrefLogout(d) ==
    /\ Idle(d) /\ cloud[d].phase \in {"in", "revoked"} /\ cloud' = [cloud EXCEPT ![d] = SignedOut]
    /\ UNCHANGED <<archives, calls, strays, prefs, preview>>

\* The panel ends the session; the device does not hear of it.
SessionEnds(d) ==
    /\ cloud[d].phase = "in" /\ cloud' = [cloud EXCEPT ![d].phase = "revoked"]
    /\ UNCHANGED <<archives, calls, strays, prefs, preview>>

\* "get", "put" and "delete": a write needs the revision that was reviewed.
Call(d, op) ==
    /\ Idle(d) /\ cloud[d].phase \in {"in", "revoked"}
    /\ op # "get" => (cloud[d].known /\ cloud[d].revision < MaxRevision)
    /\ calls' = [calls EXCEPT ![d] = [op |-> op, stage |-> "sent", status |-> 0,
                     revision |-> IF op = "get" THEN 0 ELSE cloud[d].revision,
                     content |-> IF op = "put" THEN prefs[d].shared ELSE None,
                     basis |-> IF op = "get" THEN None ELSE cloud[d].seen]]
    /\ UNCHANGED <<archives, cloud, strays, prefs, preview>>

\* http_failure and the end of sbw_preferences_cloud_call.
Handled(d, q) ==
    CASE q.status = 401 -> SignedOut
      [] q.status = 409 -> [cloud[d] EXCEPT !.known = FALSE, !.revision = 0, !.seen = None]
      [] q.op = "get" /\ q.status = 404 -> [cloud[d] EXCEPT !.known = TRUE, !.revision = 0, !.seen = None]
      [] q.status = 200 /\ (q.op = "get" \/ q.revision > cloud[d].revision) ->
             [cloud[d] EXCEPT !.known = TRUE, !.revision = q.revision, !.seen = q.content]
      [] OTHER -> cloud[d]

HandleAnswer(d) ==
    /\ calls[d].stage = "answered"
    /\ cloud' = [cloud EXCEPT ![d] = Handled(d, calls[d])]
    /\ calls' = [calls EXCEPT ![d] = NoCallYet]
    /\ UNCHANGED <<archives, strays, prefs, preview>>

\* The exchange fails on the device: the request is lost, still on its way, or
\* was served.
CallFails(d) ==
    /\ ~Idle(d) /\ calls' = [calls EXCEPT ![d] = NoCallYet]
    /\ \/ UNCHANGED strays
       \/ /\ calls[d].stage = "sent" /\ calls[d].op # "get" /\ strays = {}
          /\ strays' = {calls[d]}
    /\ UNCHANGED <<archives, cloud, prefs, preview>>
-----------------------------------------------------------------------------
(***************************************************************************)
(* The import of an archive.                                               *)
(***************************************************************************)
\* sbw_preferences_merge: subscriptions, shared routing and the health policy are
\* replaced, the device's own groups stay.
Merged(p, content) == [p EXCEPT !.shared = content]

\* The archive is decrypted and the merged preferences must make a valid configuration.
Preview(d, content) ==
    /\ Idle(d)
    /\ \E valid \in BOOLEAN :
          preview' = [preview EXCEPT ![d] =
              IF valid THEN [on |-> TRUE, merged |-> Merged(prefs[d], content), base |-> prefs[d]] ELSE NoPreview]
    /\ UNCHANGED <<archives, cloud, calls, strays, prefs>>

PreviewExpires(d) ==
    /\ preview[d].on /\ preview' = [preview EXCEPT ![d] = NoPreview]
    /\ UNCHANGED <<archives, cloud, calls, strays, prefs>>

\* Preferences are edited, or new ones come with a configuration, meanwhile.
EditPrefs(d) ==
    /\ Idle(d)
    /\ \E p \in [shared : Contents, own : {1, 2}] : prefs' = [prefs EXCEPT ![d] = p]
    /\ UNCHANGED <<archives, cloud, calls, strays, preview>>

\* "preferences.apply": the preview is used up, also when preferences changed
\* since, or when the new ones cannot be applied.
ApplyPreview(d) ==
    /\ Idle(d) /\ preview[d].on /\ preview' = [preview EXCEPT ![d] = NoPreview]
    /\ \/ prefs[d] = preview[d].base /\ prefs' = [prefs EXCEPT ![d] = preview[d].merged]
       \/ UNCHANGED prefs
    /\ UNCHANGED <<archives, cloud, calls, strays>>

CloudStep ==
    \/ \E d \in PrefDevices : \/ Login(d) \/ Mfa(d) \/ PrefLogout(d) \/ SessionEnds(d) \/ Serve(d)
                              \/ ReadAfterDelete(d) \/ HandleAnswer(d) \/ CallFails(d)
                              \/ \E op \in {"get", "put", "delete"} : Call(d, op)
    \/ \E q \in strays : ServeStray(q)
    \/ \E s \in Slots, c \in Contents \cup {None} : OtherClient(s, c)

ImportStep ==
    \E d \in PrefDevices : \/ PreviewExpires(d) \/ EditPrefs(d) \/ ApplyPreview(d)
                           \/ \E c \in Contents : Preview(d, c)

PrefNext == CloudStep \/ ImportStep

PrefSpec == PrefInit /\ [][PrefNext]_prefVars
-----------------------------------------------------------------------------
(***************************************************************************)
(* Properties.                                                             *)
(***************************************************************************)
Writes == {q \in strays \cup {calls[d] : d \in PrefDevices} : q.stage = "sent" /\ q.op # "get"}

\* A write the panel would accept comes from somebody who was shown exactly the
\* archive it replaces: deletion and creation of the slot in between, answers that
\* were lost and requests served late included ("Preferences changed on another
\* device; fetch and review before saving", sb_preferences_put).
OnlyReviewedReplaced ==
    \A q \in Writes : q.revision = archives[Mine].revision => q.basis = archives[Mine].content

=============================================================================
