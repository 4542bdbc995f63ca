----------------------------- MODULE Migrations -----------------------------
(***************************************************************************)
(* The panel's schema migrations: c/src/database.c.  A process of some     *)
(* release opens the database, checks what was applied before and applies  *)
(* the rest one transaction at a time; it may be killed at any point and   *)
(* another release started on the same file.                               *)
(***************************************************************************)
EXTENDS Integers, Sequences

CONSTANTS Releases,     \* migration directories: functions from version to text
          Starts        \* how often a process is started

\* The files of a directory are sorted by version: of those left there is a first one.
ASSUME ReleaseAssumption ==
    \A r \in Releases :
        /\ r = [v \in DOMAIN r |-> r[v]]
        /\ \A S \in SUBSET DOMAIN r : S # {} => \E v \in S : \A w \in S : v <= w

VARIABLES schema,       \* the statements that took effect, in order: <<version, text>>
          recorded,     \* _sqlx_migrations: version -> text (its checksum)
          panel,        \* the process: its release and how far it is
          starts

migrationVars == <<schema, recorded, panel, starts>>

NoPanel == [at |-> "down"]

MigrationInit == schema = <<>> /\ recorded = <<>> /\ panel = NoPanel /\ starts = 0

\* load_migrations, then the checks migrate_locked makes before it applies any.
MigrateStarts(release) ==
    /\ panel = NoPanel /\ starts < Starts /\ starts' = starts + 1
    /\ panel' = IF DOMAIN recorded \subseteq DOMAIN release
                THEN [at |-> "migrating", release |-> release, passed |-> {}] ELSE NoPanel
    /\ UNCHANGED <<schema, recorded>>

Waiting == DOMAIN panel.release \ panel.passed
NextVersion == CHOOSE v \in Waiting : \A w \in Waiting : v <= w

\* An applied migration must have the text it was applied with.
MigrateCompares ==
    /\ panel.at = "migrating" /\ Waiting # {} /\ NextVersion \in DOMAIN recorded
    /\ panel' = IF recorded[NextVersion] = panel.release[NextVersion]
                THEN [panel EXCEPT !.passed = @ \cup {NextVersion}] ELSE NoPanel
    /\ UNCHANGED <<schema, recorded, starts>>

Recording(v) == [w \in DOMAIN recorded \cup {v} |-> IF w = v THEN panel.release[v] ELSE recorded[w]]
Effect(v) == Append(schema, <<v, panel.release[v]>>)

MigrateAppliesApart ==
    /\ panel.at = "migrating" /\ Waiting # {} /\ NextVersion \notin DOMAIN recorded
    /\ \/ schema' = Effect(NextVersion) /\ UNCHANGED <<recorded, panel>>
       \/ /\ \E i \in DOMAIN schema : schema[i] = <<NextVersion, panel.release[NextVersion]>>
          /\ recorded' = Recording(NextVersion)
          /\ panel' = [panel EXCEPT !.passed = @ \cup {NextVersion}] /\ UNCHANGED schema
    /\ UNCHANGED starts

\* The statements and their record are one transaction; a statement that fails
\* rolls it back and the process ends.
MigrateApplies ==
    /\ panel.at = "migrating" /\ Waiting # {} /\ NextVersion \notin DOMAIN recorded
    /\ \/ /\ schema' = Effect(NextVersion) /\ recorded' = Recording(NextVersion)
          /\ panel' = [panel EXCEPT !.passed = @ \cup {NextVersion}]
       \/ panel' = NoPanel /\ UNCHANGED <<schema, recorded>>
    /\ UNCHANGED starts

MigrateDone ==
    /\ panel.at = "migrating" /\ Waiting = {} /\ panel' = [panel EXCEPT !.at = "serving"]
    /\ UNCHANGED <<schema, recorded, starts>>

PanelKilled == panel # NoPanel /\ panel' = NoPanel /\ UNCHANGED <<schema, recorded, starts>>

MigrationNext ==
    \/ \E release \in Releases : MigrateStarts(release)
    \/ MigrateCompares \/ MigrateApplies \/ MigrateDone \/ PanelKilled

MigrationSpec == MigrationInit /\ [][MigrationNext]_migrationVars
-----------------------------------------------------------------------------
(***************************************************************************)
(* Properties.                                                             *)
(***************************************************************************)
\* Whatever was killed when, each migration took effect at most once, and those that
\* did are the recorded ones (migrate_locked's transaction).
AppliedOnce ==
    /\ \A i, j \in DOMAIN schema : schema[i][1] = schema[j][1] => i = j
    /\ {schema[i] : i \in DOMAIN schema} = {<<v, recorded[v]>> : v \in DOMAIN recorded}

\* A panel serves only on the schema of its own release: neither of a newer one, nor
\* of one whose migrations were edited after they had been applied.
ServesOwnSchema ==
    panel.at = "serving" => {schema[i] : i \in DOMAIN schema} = {<<v, panel.release[v]>> : v \in DOMAIN panel.release}
=============================================================================
