---------------------------- MODULE MigrationRunner ----------------------------
(***************************************************************************)
(* The migrations of runtime/migration.rs.  Every process that bootstraps  *)
(* (the server and each CLI command) applies the migrations its profile    *)
(* selects to the one database file, and a doctor only looks.  Each        *)
(* migration is found already recorded, or bridged from the history of the *)
(* old hosts, or recovered, or applied.  What is read is acted on later,   *)
(* in a transaction of its own, and other processes run in between; any of *)
(* them may crash, and any answer may come without some of its rows.       *)
(*                                                                         *)
(* A transaction of SQLite is one step.  An old host ran a script          *)
(* statement by statement, so the database a process finds may hold the    *)
(* first statements of one script only.                                    *)
(***************************************************************************)
EXTENDS Naturals, FiniteSets

CONSTANTS
  Process,
  Migration,
  Rank,         \* Rank[m]: the place of m in the order of its number, plugin and id
  Marked,       \* the migrations an old host noted by name
  Tabled,       \* the migrations an old host left only a table of
  Recoverable,  \* the migrations that may have to be completed
  Piece,        \* the statements of a script
  Alter,        \* those that fail when they have already run
  Version,      \* the checksums of a script
  NoVersion,
  Build,        \* the sets of scripts a process may be shipped with
  Checksum,     \* Checksum[b][m]: the checksum of script m of build b
  Profile       \* the sets of migrations a profile may select

ASSUME RankAssumption ==
  /\ Rank \in [Migration -> Nat]
  /\ \A m, k \in Migration : Rank[m] = Rank[k] => m = k
ASSUME LegacyAssumption ==
  /\ Marked \subseteq Migration
  /\ Tabled \subseteq Migration \ Marked
  /\ Recoverable \subseteq Marked
  /\ Alter \subseteq Piece
  /\ Piece # {}
ASSUME VersionAssumption ==
  /\ NoVersion \notin Version
  /\ Checksum \in [Build -> [Migration -> Version]]
  /\ Profile \subseteq SUBSET Migration

VARIABLES
  hasCatalog,  \* the catalog table exists
  catalog,     \* catalog[m]: the checksum m is recorded with
  done,        \* done[m]: the statements of m whose effect is in the database
  marker,      \* the migrations noted in the history of the old hosts
  runs,        \* runs[m]: how often the script of m has run to its end
  overlooked,  \* the migrations of old hosts that an answer has kept from a process
  mode,        \* mode[p]: whether p is a host or a doctor
  at,          \* at[p]: the next step of p
  build,       \* build[p]: the scripts p has
  saw,         \* the processes that know the catalog exists
  todo,        \* todo[p]: the migrations p has not come to yet
  missing,     \* missing[p]: the columns p found missing
  report,      \* report[p][m]: what p says of m
  disturbed    \* the processes that met a storage error or another's commit

database == <<hasCatalog, catalog, done, marker, runs, overlooked>>
process == <<mode, at, build, saw, todo, missing, report, disturbed>>
vars == <<database, process>>

Gone == {"idle", "refused", "failed"}
Resting == Gone \cup {"serving", "reported"}
Reading == {"ensure", "look", "checksum", "history", "columns", "plan"}
Writing == {"bridge", "recover", "apply"}
Status == {"AlreadyApplied", "Applied", "Bridged",
           "Pending", "LegacyBridge", "RecoveryRequired"}

\* The next migration of p: apply and verify sort before they loop.
Current(p, m) == m \in todo[p] /\ \A k \in todo[p] : Rank[m] <= Rank[k]

\* checksum, of the script p was shipped with
OwnVersion(p, m) == Checksum[build[p]][m]

\* What the database says of columns and tables.
HasColumns(m) == m \in Recoverable /\ done[m] \cap Alter # {}
HasTable(m) == m \in Tabled /\ done[m] # {}

\* What a script that an old host did not finish has left: its columns come first.
\* Only the repository's own scripts were run by old hosts.
Remains(m) ==
  IF m \in Recoverable
  THEN {S \in SUBSET Piece : S \subseteq Alter \/ Alter \subseteq S}
  ELSE IF m \in Marked \cup Tabled THEN SUBSET Piece ELSE {{}}

-------------------------------------------------------------------------------
\* A database with the history of any old host, or a new one.
Init ==
  /\ hasCatalog = FALSE
  /\ catalog = [m \in Migration |-> NoVersion]
  /\ \E H \in SUBSET (Marked \cup Tabled) :
       \E D \in [Migration \ H -> SUBSET Piece] :
         /\ \A m \in Migration \ H : D[m] \in Remains(m)
         /\ Cardinality({m \in Migration \ H : D[m] # {}}) <= 1
         /\ done = [m \in Migration |-> IF m \in H THEN Piece ELSE D[m]]
         /\ marker = H \cap Marked
         /\ runs = [m \in Migration |-> IF m \in H THEN 1 ELSE 0]
  /\ overlooked = {}
  /\ mode = [p \in Process |-> "host"]
  /\ at = [p \in Process |-> "idle"]
  /\ build \in [Process -> Build]
  /\ saw = {}
  /\ todo = [p \in Process |-> {}]
  /\ missing = [p \in Process |-> {}]
  /\ report = [p \in Process |-> [m \in Migration |-> "none"]]
  /\ disturbed = {}

\* A process has built its catalog from its profile and opens the database.
Begin(p, w, b, S) ==
  /\ at[p] \in Resting
  /\ mode' = [mode EXCEPT ![p] = w]
  /\ at' = [at EXCEPT ![p] = IF w = "host" THEN "ensure" ELSE "look"]
  /\ build' = [build EXCEPT ![p] = b]
  /\ saw' = saw \ {p}
  /\ todo' = [todo EXCEPT ![p] = S]
  /\ missing' = [missing EXCEPT ![p] = {}]
  /\ report' = [report EXCEPT ![p] = [m \in Migration |-> "none"]]
  /\ disturbed' = disturbed \ {p}
  /\ UNCHANGED database

\* Where p goes once T is left to do.
Proceed(p, T, seen) ==
  at' = [at EXCEPT ![p] =
           IF T = {} THEN IF mode[p] = "host" THEN "serving" ELSE "reported"
           ELSE IF seen THEN "checksum" ELSE "history"]

\* ensure_catalog
EnsureCatalog(p) ==
  /\ at[p] = "ensure"
  /\ hasCatalog' = TRUE
  /\ saw' = saw \cup {p}
  /\ Proceed(p, todo[p], TRUE)
  /\ UNCHANGED <<catalog, done, marker, runs, overlooked, mode, build, todo, missing, report, disturbed>>

\* Mutant of LookForCatalog: the catalog is taken to be missing.
LookForNothing(p) ==
  /\ at[p] = "look"
  /\ Proceed(p, todo[p], FALSE)
  /\ UNCHANGED <<database, mode, build, saw, todo, missing, report, disturbed>>

\* verify asks once whether there is a catalog.
LookForCatalog(p) ==
  /\ at[p] = "look"
  /\ saw' = IF hasCatalog THEN saw \cup {p} ELSE saw
  /\ Proceed(p, todo[p], hasCatalog)
  /\ UNCHANGED <<database, mode, build, todo, missing, report, disturbed>>

\* p is finished with m.
Conclude(p, m, s) ==
  /\ report' = [report EXCEPT ![p][m] = s]
  /\ todo' = [todo EXCEPT ![p] = todo[p] \ {m}]
  /\ Proceed(p, todo[p] \ {m}, p \in saw)
  /\ UNCHANGED <<mode, build, saw, missing>>

Goto(p, where) ==
  /\ at' = [at EXCEPT ![p] = where]
  /\ UNCHANGED <<mode, build, saw, todo, missing, report>>

\* The process is gone, and with it what it knew.
Quit(p, where) ==
  /\ at' = [at EXCEPT ![p] = where]
  /\ saw' = saw \ {p}
  /\ todo' = [todo EXCEPT ![p] = {}]
  /\ missing' = [missing EXCEPT ![p] = {}]
  /\ report' = [report EXCEPT ![p] = [m \in Migration |-> "none"]]
  /\ UNCHANGED <<mode, build>>

\* A doctor reports s where a host goes on.
Find(p, m, where, s) ==
  IF mode[p] = "host" THEN Goto(p, where) ELSE Conclude(p, m, s)

\* Mutant of ReadChecksum: any record will do.
ReadChecksumUncompared(p, m) ==
  /\ at[p] = "checksum"
  /\ IF catalog[m] = NoVersion THEN Goto(p, "history")
     ELSE Conclude(p, m, IF mode[p] = "host" THEN "AlreadyApplied" ELSE "Applied")
  /\ UNCHANGED <<database, disturbed>>

\* applied_checksum
ReadChecksum(p, m) ==
  /\ at[p] = "checksum"
  /\ IF catalog[m] = NoVersion THEN Goto(p, "history")
     ELSE IF catalog[m] # OwnVersion(p, m) THEN Quit(p, "refused")
     ELSE Conclude(p, m, IF mode[p] = "host" THEN "AlreadyApplied" ELSE "Applied")
  /\ UNCHANGED <<database, disturbed>>

\* A name in the history of the old hosts, or a table they left.
InHistory(m) == m \in marker \/ HasTable(m)

\* Where p goes when no old host has told of m.
NoHistory(p, m) ==
  IF m \in Recoverable THEN Goto(p, "columns") ELSE Find(p, m, "apply", "Pending")

\* legacy_migration_applied or table_exists: no migration asks for both.
ReadHistory(p, m) ==
  /\ at[p] = "history"
  /\ IF InHistory(m) THEN Find(p, m, "bridge", "LegacyBridge") ELSE NoHistory(p, m)
  /\ UNCHANGED <<database, disturbed>>

\* plugin_governance_partially_applied
ReadColumns(p, m) ==
  /\ at[p] = "columns"
  /\ IF HasColumns(m) THEN Find(p, m, "plan", "RecoveryRequired")
     ELSE Find(p, m, "apply", "Pending")
  /\ UNCHANGED <<database, disturbed>>

\* Mutant of Plan: the recovery adds every column.
PlanAll(p, m) ==
  /\ at[p] = "plan"
  /\ missing' = [missing EXCEPT ![p] = Alter]
  /\ at' = [at EXCEPT ![p] = "recover"]
  /\ UNCHANGED <<database, mode, build, saw, todo, report, disturbed>>

\* plugin_governance_recovery_sql, which reads the columns again.
Plan(p, m) ==
  /\ at[p] = "plan"
  /\ missing' = [missing EXCEPT ![p] = Alter \ done[m]]
  /\ at' = [at EXCEPT ![p] = "recover"]
  /\ UNCHANGED <<database, mode, build, saw, todo, report, disturbed>>

\* An error that comes while the rows of an answer are fetched ends the answer
\* there: the process misses the rows that are left, and goes on as if they were
\* not in the database.
OverlookCatalog(p) ==
  /\ at[p] = "look" /\ hasCatalog
  /\ Proceed(p, todo[p], FALSE)
  /\ disturbed' = disturbed \cup {p}
  /\ UNCHANGED <<database, mode, build, saw, todo, missing, report>>

Overlook(p, m) ==
  /\ \/ at[p] = "checksum" /\ catalog[m] # NoVersion /\ Goto(p, "history") /\ UNCHANGED overlooked
     \/ at[p] = "history" /\ InHistory(m) /\ NoHistory(p, m) /\ overlooked' = overlooked \cup {m}
     \/ at[p] = "columns" /\ HasColumns(m) /\ Find(p, m, "apply", "Pending") /\ UNCHANGED overlooked
  /\ disturbed' = disturbed \cup {p}
  /\ UNCHANGED <<hasCatalog, catalog, done, marker, runs>>

OverlookColumns(p, m) ==
  /\ at[p] = "plan"
  /\ \E S \in SUBSET (Alter \cap done[m]) :
       S # {} /\ missing' = [missing EXCEPT ![p] = (Alter \ done[m]) \cup S]
  /\ at' = [at EXCEPT ![p] = "recover"]
  /\ disturbed' = disturbed \cup {p}
  /\ UNCHANGED <<database, mode, build, saw, todo, report>>

-------------------------------------------------------------------------------
\* The insert that ends each transaction: (plugin_id, migration_id) is the key.
CanRecord(m) == catalog[m] = NoVersion

Record(p, m) ==
  /\ catalog' = [catalog EXCEPT ![m] = OwnVersion(p, m)]
  /\ disturbed' = disturbed \cup {q \in Process \ {p} : at[q] \notin Gone}
  /\ UNCHANGED <<hasCatalog, overlooked>>

\* The statements S run, and the last of them notes the migration.
Execute(m, S) ==
  /\ done' = [done EXCEPT ![m] = done[m] \cup S]
  /\ marker' = marker \cup ({m} \cap Marked)
  /\ runs' = [runs EXCEPT ![m] = runs[m] + 1]

\* The statements that end every recovery, and can be repeated.
Completion == Piece \ Alter

\* record_bridge
Bridge(p, m) ==
  /\ at[p] = "bridge"
  /\ CanRecord(m)
  /\ Record(p, m)
  /\ Conclude(p, m, "Bridged")
  /\ UNCHANGED <<done, marker, runs>>

\* Mutant of Recover: the final statements are forgotten.
RecoverColumns(p, m) ==
  /\ at[p] = "recover"
  /\ CanRecord(m)
  /\ missing[p] \cap done[m] = {}
  /\ Execute(m, missing[p])
  /\ Record(p, m)
  /\ Conclude(p, m, "Bridged")

\* apply_plugin_migration with the recovery script
Recover(p, m) ==
  /\ at[p] = "recover"
  /\ CanRecord(m)
  /\ missing[p] \cap done[m] = {}
  /\ Execute(m, missing[p] \cup Completion)
  /\ Record(p, m)
  /\ Conclude(p, m, "Bridged")

\* apply_plugin_migration with the whole script
Apply(p, m) ==
  /\ at[p] = "apply"
  /\ CanRecord(m)
  /\ ~HasColumns(m)
  /\ Execute(m, Piece)
  /\ Record(p, m)
  /\ Conclude(p, m, "Applied")

\* A statement of the transaction fails, and all of it is rolled back.
Collide(p, m) ==
  /\ \/ at[p] \in Writing /\ ~CanRecord(m)
     \/ at[p] = "recover" /\ missing[p] \cap done[m] # {}
     \/ at[p] = "apply" /\ HasColumns(m)
  /\ Quit(p, "failed")
  /\ UNCHANGED <<database, disturbed>>

\* A statement cannot be prepared or carried out, or a script is wrong.
StorageFails(p) ==
  /\ at[p] \in Reading \cup Writing
  /\ Quit(p, "failed")
  /\ disturbed' = disturbed \cup {p}
  /\ UNCHANGED database

Crash(p) ==
  /\ at[p] \in Reading \cup Writing
  /\ Quit(p, "idle")
  /\ disturbed' = disturbed \ {p}
  /\ UNCHANGED database

\* One iteration's worth of apply_one, or of the body of verify.
Visit(p, m) ==
  \/ ReadChecksum(p, m) \/ ReadHistory(p, m) \/ ReadColumns(p, m) \/ Plan(p, m)
  \/ Overlook(p, m) \/ OverlookColumns(p, m)
  \/ Bridge(p, m) \/ Recover(p, m) \/ Apply(p, m) \/ Collide(p, m)

Step(p) ==
  \/ EnsureCatalog(p)
  \/ LookForCatalog(p) \/ OverlookCatalog(p)
  \/ \E m \in Migration : Current(p, m) /\ Visit(p, m)

Next ==
  \E p \in Process :
    \/ \E w \in {"host", "doctor"}, b \in Build, S \in Profile : Begin(p, w, b, S)
    \/ Step(p) \/ StorageFails(p) \/ Crash(p)

Spec == Init /\ [][Next]_vars

-------------------------------------------------------------------------------
\* Every variable has its type.
TypeOK ==
  /\ hasCatalog \in BOOLEAN
  /\ catalog \in [Migration -> Version \cup {NoVersion}]
  /\ done \in [Migration -> SUBSET Piece]
  /\ marker \subseteq Marked
  /\ runs \in [Migration -> Nat]
  /\ overlooked \subseteq Migration
  /\ mode \in [Process -> {"host", "doctor"}]
  /\ at \in [Process -> Resting \cup Reading \cup Writing]
  /\ build \in [Process -> Build]
  /\ saw \subseteq Process
  /\ todo \in [Process -> SUBSET Migration]
  /\ missing \in [Process -> SUBSET Alter]
  /\ report \in [Process -> [Migration -> Status \cup {"none"}]]
  /\ disturbed \subseteq Process

Recorded(m) == catalog[m] # NoVersion

\* A script runs to its end at most once in the life of a database, in an old host
\* or in this one, although two processes may both have found it missing and a
\* start may be cut short anywhere (apply_one; "not executed again").  Only where an
\* answer has kept an old host's trace of it from a process does it run once more.
AppliedOnce ==
  \A m \in Migration : runs[m] <= 1 \/ (runs[m] = 2 /\ m \in overlooked)

\* What the catalog records is in the database as a whole.  A table an old host left
\* half seeded is the exception: its name is all that apply_one asks for.
RecordedIsWhole ==
  \A m \in Migration :
    Recorded(m) => done[m] = Piece \/ (m \in Tabled /\ runs[m] = 0)

\* A host serves only over the scripts it was shipped with, whatever another build
\* recorded while it was starting ("a checksum mismatch refuses to start").
Selected(p) == todo[p] \cup {m \in Migration : report[p][m] # "none"}
ServedIsRecorded ==
  \A p \in Process : at[p] = "serving" =>
    \A m \in Selected(p) : catalog[m] = OwnVersion(p, m)

\* A start that meets no storage error, which may have hidden rows only, and no
\* other process's commit does not fail:
\* whatever an old host or a crash has left, starting again completes it, as doctor
\* promises (doctor.rs, "let the forward-only recovery complete").
FailsForCause == \A p \in Process : at[p] = "failed" => p \in disturbed

\* What doctor has reported of a database nobody else has written to since it began
\* is what the next start will find.
DoctorIsRight ==
  \A p \in Process : at[p] = "reported" /\ p \notin disturbed =>
    \A m \in Migration :
      /\ report[p][m] = "Applied" => catalog[m] = OwnVersion(p, m)
      /\ report[p][m] \in {"Pending", "LegacyBridge", "RecoveryRequired"} => ~Recorded(m)
      /\ report[p][m] = "Pending" => m \notin marker /\ ~HasTable(m) /\ ~HasColumns(m)
      /\ report[p][m] = "LegacyBridge" => m \in marker \/ HasTable(m)
      /\ report[p][m] = "RecoveryRequired" => m \notin marker /\ HasColumns(m)

\* Migrations only go forward: no record is changed or removed and no statement is
\* undone, by any failure, crash or process with other scripts.
ForwardOnly ==
  [][\A m \in Migration : /\ Recorded(m) => catalog'[m] = catalog[m]
                          /\ done[m] \subseteq done'[m]]_vars

\* A migration is recorded only once everything the same start selects before it is
\* recorded, however often starts were cut short or overlapped.
InOrder ==
  [][\A m \in Migration : ~Recorded(m) /\ catalog'[m] # NoVersion =>
       \E p \in Process : /\ at[p] \in Writing /\ m \in todo[p]
                          /\ \A k \in Selected(p) : Rank[k] < Rank[m] => Recorded(k)]_vars
===============================================================================
