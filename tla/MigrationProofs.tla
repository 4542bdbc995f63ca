-------------------------- MODULE MigrationProofs --------------------------
(***************************************************************************)
(* Migrations take effect once and a release serves only its own schema,   *)
(* for every set of releases and any number of starts and kills.  Neither  *)
(* property is inductive: a serving panel's schema is its release's only   *)
(* because every version it passed is recorded with its own text, and      *)
(* nothing is recorded that its release lacks (OwnRecords).                *)
(***************************************************************************)
EXTENDS Migrations, TLAPS

\* The migrations of all releases, with their texts.
Published == UNION {{<<v, r[v]>> : v \in DOMAIN r} : r \in Releases}

\* What the running process knows of the recorded migrations.
OwnRecords ==
    panel = NoPanel \/
    /\ panel.at \in {"migrating", "serving"} /\ panel.release \in Releases
    /\ panel = [at |-> panel.at, release |-> panel.release, passed |-> panel.passed]
    /\ DOMAIN recorded \subseteq DOMAIN panel.release
    /\ panel.passed \subseteq DOMAIN recorded
    /\ \A v \in panel.passed : recorded[v] = panel.release[v]
    /\ panel.at = "serving" => panel.passed = DOMAIN panel.release

MigrationInv ==
    /\ schema \in Seq(Published)
    /\ AppliedOnce
    /\ OwnRecords

\* The first of the versions left belongs to the release and was not passed.
LEMMA NextIsWaiting ==
    ASSUME panel.release \in Releases, Waiting # {}
    PROVE  NextVersion \in Waiting
<1>1. Waiting \in SUBSET DOMAIN panel.release
  BY DEF Waiting
<1>2. \E v \in Waiting : \A w \in Waiting : v <= w
  BY <1>1, ReleaseAssumption, Zenon
<1> QED
  BY <1>2, Zenon DEF NextVersion

\* Appending a migration that is not recorded and recording it with its text.
LEMMA ApplyOnce ==
    ASSUME MigrationInv, NEW v, NEW t, v \notin DOMAIN recorded, <<v, t>> \in Published,
           schema' = Append(schema, <<v, t>>),
           recorded' = [w \in DOMAIN recorded \cup {v} |-> IF w = v THEN t ELSE recorded[w]]
    PROVE  schema' \in Seq(Published) /\ AppliedOnce'
<1> DEFINE n == Len(schema)
<1>1. /\ n \in Nat /\ DOMAIN schema = 1..n /\ DOMAIN schema' = 1..(n+1)
      /\ \A i \in 1..n : schema'[i] = schema[i]
      /\ schema'[n+1] = <<v, t>>
  BY DEF MigrationInv
<1>2. schema' \in Seq(Published)
  BY DEF MigrationInv
<1>3. \A i \in 1..n : \E w \in DOMAIN recorded : schema[i] = <<w, recorded[w]>>
  BY <1>1 DEF MigrationInv, AppliedOnce
<1>4. \A i \in 1..n : schema[i][1] # v
  BY <1>3
<1>5. \A i, j \in DOMAIN schema' : schema'[i][1] = schema'[j][1] => i = j
  <2> SUFFICES ASSUME NEW i \in 1..(n+1), NEW j \in 1..(n+1), schema'[i][1] = schema'[j][1]
               PROVE  i = j
    BY <1>1
  <2>1. schema'[n+1][1] = v
    BY <1>1
  <2>2. CASE i \in 1..n /\ j \in 1..n
    BY <1>1, <2>2 DEF MigrationInv, AppliedOnce
  <2>3. CASE i = n+1 /\ j \in 1..n
    BY <1>1, <1>4, <2>1, <2>3
  <2>4. CASE j = n+1 /\ i \in 1..n
    BY <1>1, <1>4, <2>1, <2>4
  <2> QED
    BY <1>1, <2>2, <2>3, <2>4
<1>6. {schema'[i] : i \in DOMAIN schema'} = {schema[i] : i \in DOMAIN schema} \cup {<<v, t>>}
  <2>1. 1..(n+1) = 1..n \cup {n+1}
    BY <1>1
  <2>2. \A x : (\E i \in 1..(n+1) : x = schema'[i]) <=> (\E i \in 1..n : x = schema[i]) \/ x = <<v, t>>
    BY <1>1, <2>1, Zenon
  <2>3. {schema'[i] : i \in 1..(n+1)} = {schema[i] : i \in 1..n} \cup {<<v, t>>}
    <3> HIDE DEF n
    <3> QED
      BY <2>2, Zenon
  <2> QED
    BY <1>1, <2>3
<1>7. {<<w, recorded'[w]>> : w \in DOMAIN recorded'} = {<<w, recorded[w]>> : w \in DOMAIN recorded} \cup {<<v, t>>}
  <2>1. DOMAIN recorded' = DOMAIN recorded \cup {v}
    OBVIOUS
  <2>2. recorded'[v] = t /\ \A w \in DOMAIN recorded : recorded'[w] = recorded[w]
    OBVIOUS
  <2> QED
    BY <2>1, <2>2, Zenon
<1>8. {schema[i] : i \in DOMAIN schema} = {<<w, recorded[w]>> : w \in DOMAIN recorded}
  BY DEF MigrationInv, AppliedOnce
<1>9. {schema'[i] : i \in DOMAIN schema'} = {<<w, recorded'[w]>> : w \in DOMAIN recorded'}
  BY <1>6, <1>7, <1>8, Zenon
<1> QED
  BY <1>2, <1>5, <1>9 DEF AppliedOnce

\* An empty database and no process.
LEMMA MigrationInitial == MigrationInit => MigrationInv
<1> SUFFICES ASSUME MigrationInit PROVE MigrationInv
  OBVIOUS
<1>1. schema = <<>> /\ recorded = <<>> /\ panel = NoPanel
  BY DEF MigrationInit
<1>2. DOMAIN schema = {} /\ DOMAIN recorded = {}
  BY <1>1
<1>3. AppliedOnce
  <2>1. {schema[i] : i \in DOMAIN schema} = {} /\ {<<v, recorded[v]>> : v \in DOMAIN recorded} = {}
    BY <1>2, Zenon
  <2> QED
    BY <1>2, <2>1 DEF AppliedOnce
<1>4. schema \in Seq(Published)
  BY <1>1
<1> QED
  BY <1>1, <1>3, <1>4 DEF MigrationInv, OwnRecords

\* One step per action of a process.
LEMMA MigrationStep == MigrationInv /\ [MigrationNext]_migrationVars => MigrationInv'
<1> SUFFICES ASSUME MigrationInv, [MigrationNext]_migrationVars PROVE MigrationInv'
  OBVIOUS
<1>1. ASSUME UNCHANGED <<schema, recorded>>
      PROVE  (schema \in Seq(Published))' /\ AppliedOnce'
  BY <1>1 DEF MigrationInv, AppliedOnce
<1>2. ASSUME NEW release \in Releases, MigrateStarts(release) PROVE MigrationInv'
  <2>1. UNCHANGED <<schema, recorded>>
    BY <1>2 DEF MigrateStarts
  <2>2. OwnRecords'
    BY <1>2 DEF MigrateStarts, OwnRecords
  <2> QED
    BY <1>1, <2>1, <2>2 DEF MigrationInv
<1>3. ASSUME panel.at = "migrating"
      PROVE  /\ panel.release \in Releases /\ DOMAIN recorded \subseteq DOMAIN panel.release
             /\ panel = [at |-> "migrating", release |-> panel.release, passed |-> panel.passed]
             /\ panel.passed \subseteq DOMAIN recorded /\ \A v \in panel.passed : recorded[v] = panel.release[v]
  BY <1>3 DEF MigrationInv, OwnRecords, NoPanel
<1>4. CASE MigrateCompares
  <2>1. UNCHANGED <<schema, recorded>> /\ panel.at = "migrating" /\ NextVersion \in DOMAIN recorded
    BY <1>4 DEF MigrateCompares
  <2>2. CASE panel' = NoPanel
    BY <1>1, <2>1, <2>2 DEF MigrationInv, OwnRecords
  <2>3. CASE /\ recorded[NextVersion] = panel.release[NextVersion]
             /\ panel' = [panel EXCEPT !.passed = @ \cup {NextVersion}]
    <3>1. panel' = [at |-> "migrating", release |-> panel.release, passed |-> panel.passed \cup {NextVersion}]
      BY <1>3, <2>1, <2>3
    <3>2. OwnRecords'
      BY <1>3, <2>1, <2>3, <3>1 DEF OwnRecords
    <3> QED
      BY <1>1, <2>1, <3>2 DEF MigrationInv
  <2> QED
    BY <1>4, <2>2, <2>3 DEF MigrateCompares
<1>5. CASE MigrateApplies
  <2>1. panel.at = "migrating" /\ Waiting # {} /\ NextVersion \notin DOMAIN recorded
    BY <1>5 DEF MigrateApplies
  <2>2. CASE panel' = NoPanel /\ UNCHANGED <<schema, recorded>>
    BY <1>1, <2>2 DEF MigrationInv, OwnRecords
  <2>3. CASE /\ schema' = Effect(NextVersion) /\ recorded' = Recording(NextVersion)
             /\ panel' = [panel EXCEPT !.passed = @ \cup {NextVersion}]
    <3>0. PICK v, t : v = NextVersion /\ t = panel.release[NextVersion]
      OBVIOUS
    <3>1. v \in DOMAIN panel.release /\ v \notin DOMAIN recorded /\ t = panel.release[v]
      BY <1>3, <2>1, <3>0, NextIsWaiting DEF Waiting
    <3>2. /\ schema' = Append(schema, <<v, t>>)
          /\ recorded' = [w \in DOMAIN recorded \cup {v} |-> IF w = v THEN t ELSE recorded[w]]
      BY <2>3, <3>0 DEF Effect, Recording
    <3>3. <<v, t>> \in Published
      <4>1. panel.release \in Releases
        BY <1>3, <2>1
      <4>2. <<v, t>> \in {<<w, panel.release[w]>> : w \in DOMAIN panel.release}
        BY <3>1
      <4> QED
        BY <4>1, <4>2, Zenon DEF Published
    <3>4. schema' \in Seq(Published) /\ AppliedOnce'
      BY <3>1, <3>2, <3>3, ApplyOnce
    <3>5. panel' = [at |-> "migrating", release |-> panel.release, passed |-> panel.passed \cup {v}]
      BY <1>3, <2>1, <2>3, <3>0
    <3>6. OwnRecords'
      BY <1>3, <2>1, <3>1, <3>2, <3>5 DEF OwnRecords
    <3> QED
      BY <3>4, <3>6 DEF MigrationInv
  <2> QED
    BY <1>5, <2>2, <2>3 DEF MigrateApplies
<1>6. CASE MigrateDone
  <2>1. UNCHANGED <<schema, recorded>> /\ panel.at = "migrating" /\ DOMAIN panel.release \subseteq panel.passed
    BY <1>6 DEF MigrateDone, Waiting
  <2>2. panel' = [at |-> "serving", release |-> panel.release, passed |-> panel.passed]
    BY <1>3, <1>6, <2>1 DEF MigrateDone
  <2>3. OwnRecords'
    BY <1>3, <2>1, <2>2 DEF OwnRecords
  <2> QED
    BY <1>1, <2>1, <2>3 DEF MigrationInv
<1>7. CASE PanelKilled
  BY <1>1, <1>7 DEF PanelKilled, MigrationInv, OwnRecords
<1>8. CASE UNCHANGED migrationVars
  BY <1>1, <1>8 DEF migrationVars, MigrationInv, OwnRecords
<1> QED
  BY <1>2, <1>4, <1>5, <1>6, <1>7, <1>8 DEF MigrationNext

\* A release that serves has passed all of its versions, and these are all that is recorded.
LEMMA ServingIsOwn == MigrationInv => ServesOwnSchema
<1> SUFFICES ASSUME MigrationInv, panel.at = "serving"
             PROVE  {schema[i] : i \in DOMAIN schema} = {<<v, panel.release[v]>> : v \in DOMAIN panel.release}
  BY DEF ServesOwnSchema
<1>1. /\ DOMAIN recorded = DOMAIN panel.release
      /\ \A v \in DOMAIN recorded : recorded[v] = panel.release[v]
  <2>1. panel # NoPanel
    BY DEF NoPanel
  <2> QED
    BY <2>1 DEF MigrationInv, OwnRecords
<1>2. {<<v, recorded[v]>> : v \in DOMAIN recorded} = {<<v, panel.release[v]>> : v \in DOMAIN panel.release}
  BY <1>1, Zenon
<1> QED
  BY <1>2 DEF MigrationInv, AppliedOnce

\* Whatever releases are started and whenever they are killed, each migration took effect
\* at most once and exactly the recorded ones did (migrate_locked), and a panel serves only
\* on the schema of its own release.
THEOREM MigrationTheorem == MigrationSpec => [](AppliedOnce /\ ServesOwnSchema)
<1>1. MigrationInv => AppliedOnce /\ ServesOwnSchema
  BY ServingIsOwn DEF MigrationInv
<1> QED
  BY <1>1, MigrationInitial, MigrationStep, PTL DEF MigrationSpec
=============================================================================
