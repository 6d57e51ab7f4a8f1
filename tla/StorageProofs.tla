----------------------------- MODULE StorageProofs -----------------------------
(***************************************************************************)
(* Proofs about what the host keeps: the migrations of its database, for   *)
(* any processes, migrations, builds and profiles and any history of       *)
(* crashes and storage errors, and the file browser's files, for any       *)
(* callers, machines, names, manifests and trees.                          *)
(***************************************************************************)
EXTENDS MigrationRunner, FileService, SequenceTheorems, TLAPS

(***************************************************************************)
(* MigrationRunner                                                         *)
(***************************************************************************)
\* What each way of ending a step does to the variables of the processes.
LEMMA ConcludeTypes ==
  ASSUME TypeOK, NEW p \in Process, NEW m \in Migration, NEW s \in Status, Conclude(p, m, s)
  PROVE  /\ mode' \in [Process -> {"host", "doctor"}]
         /\ at' \in [Process -> Resting \cup Reading \cup Writing]
         /\ build' \in [Process -> Build]
         /\ saw' \subseteq Process
         /\ todo' \in [Process -> SUBSET Migration]
         /\ missing' \in [Process -> SUBSET Alter]
         /\ report' \in [Process -> [Migration -> Status \cup {"none"}]]
<1>1. at' \in [Process -> Resting \cup Reading \cup Writing]
  BY DEF TypeOK, Conclude, Proceed, Resting, Reading
<1>2. report' \in [Process -> [Migration -> Status \cup {"none"}]]
  <2>1. [report[p] EXCEPT ![m] = s] \in [Migration -> Status \cup {"none"}]
    BY DEF TypeOK
  <2>2. report' = [report EXCEPT ![p] = [report[p] EXCEPT ![m] = s]]
    BY DEF Conclude
  <2> QED  BY <2>1, <2>2 DEF TypeOK
<1> QED  BY <1>1, <1>2 DEF TypeOK, Conclude

\* Going to another step keeps every type.
LEMMA GotoTypes ==
  ASSUME TypeOK, NEW p \in Process, NEW where \in Resting \cup Reading \cup Writing,
         Goto(p, where)
  PROVE  /\ mode' \in [Process -> {"host", "doctor"}]
         /\ at' \in [Process -> Resting \cup Reading \cup Writing]
         /\ build' \in [Process -> Build]
         /\ saw' \subseteq Process
         /\ todo' \in [Process -> SUBSET Migration]
         /\ missing' \in [Process -> SUBSET Alter]
         /\ report' \in [Process -> [Migration -> Status \cup {"none"}]]
BY DEF TypeOK, Goto

\* A process that quits keeps the types.
LEMMA QuitTypes ==
  ASSUME TypeOK, NEW p \in Process, NEW where \in Resting \cup Reading \cup Writing,
         Quit(p, where)
  PROVE  /\ mode' \in [Process -> {"host", "doctor"}]
         /\ at' \in [Process -> Resting \cup Reading \cup Writing]
         /\ build' \in [Process -> Build]
         /\ saw' \subseteq Process
         /\ todo' \in [Process -> SUBSET Migration]
         /\ missing' \in [Process -> SUBSET Alter]
         /\ report' \in [Process -> [Migration -> Status \cup {"none"}]]
BY DEF TypeOK, Quit

\* What recording and executing do to the database.
LEMMA RecordTypes ==
  ASSUME TypeOK, NEW p \in Process, NEW m \in Migration, Record(p, m)
  PROVE  /\ catalog' \in [Migration -> Version \cup {NoVersion}]
         /\ disturbed' \subseteq Process
         /\ hasCatalog' \in BOOLEAN
         /\ overlooked' \subseteq Migration
<1>1. OwnVersion(p, m) \in Version
  BY VersionAssumption DEF TypeOK, OwnVersion
<1> QED  BY <1>1 DEF TypeOK, Record

\* Running statements keeps the types of what they write.
LEMMA ExecuteTypes ==
  ASSUME TypeOK, NEW m \in Migration, NEW S \in SUBSET Piece, Execute(m, S)
  PROVE  /\ done' \in [Migration -> SUBSET Piece]
         /\ marker' \subseteq Marked
         /\ runs' \in [Migration -> Nat]
BY DEF TypeOK, Execute

\* Every step of a process on the migration it has come to keeps the types.
LEMMA StepType ==
  ASSUME TypeOK, [Next]_vars
  PROVE  TypeOK'
<1>1. CASE UNCHANGED vars
  BY <1>1 DEF TypeOK, vars, database, process
<1>2. ASSUME NEW p \in Process, NEW w \in {"host", "doctor"}, NEW b \in Build,
             NEW S \in Profile, Begin(p, w, b, S)
      PROVE  TypeOK'
  <2>1. S \in SUBSET Migration
    BY VersionAssumption
  <2> QED  BY <1>2, <2>1 DEF TypeOK, Begin, database, Resting, Reading
<1>3. ASSUME NEW p \in Process, EnsureCatalog(p)
      PROVE  TypeOK'
  BY <1>3 DEF TypeOK, EnsureCatalog, Proceed, Resting, Reading
<1>4. ASSUME NEW p \in Process, LookForCatalog(p)
      PROVE  TypeOK'
  <2>1. saw' \subseteq Process
    BY <1>4 DEF TypeOK, LookForCatalog
  <2>2. at' \in [Process -> Resting \cup Reading \cup Writing]
    BY <1>4 DEF TypeOK, LookForCatalog, Proceed, Resting, Reading
  <2> QED  BY <1>4, <2>1, <2>2 DEF TypeOK, LookForCatalog, database
<1>5. ASSUME NEW p \in Process, NEW m \in Migration, Visit(p, m)
      PROVE  TypeOK'
  <2>1. {"history", "columns", "plan", "recover", "bridge", "apply", "refused", "failed", "idle"}
           \subseteq Resting \cup Reading \cup Writing
    BY DEF Resting, Gone, Reading, Writing
  <2>2. {"AlreadyApplied", "Applied", "Bridged", "Pending", "LegacyBridge", "RecoveryRequired"}
           \subseteq Status
    BY DEF Status
  <2>3. CASE ReadChecksum(p, m)
    BY <2>1, <2>2, <2>3, ConcludeTypes, GotoTypes, QuitTypes DEF TypeOK, ReadChecksum, database
  <2>4. CASE ReadHistory(p, m)
    BY <2>1, <2>2, <2>4, ConcludeTypes, GotoTypes DEF TypeOK, ReadHistory, NoHistory, Find, database
  <2>5. CASE ReadColumns(p, m)
    BY <2>1, <2>2, <2>5, ConcludeTypes, GotoTypes DEF TypeOK, ReadColumns, Find, database
  <2>6. CASE Plan(p, m)
    BY <2>1, <2>6 DEF TypeOK, Plan, database
  <2>7. CASE Bridge(p, m)
    BY <2>2, <2>7, ConcludeTypes, RecordTypes DEF TypeOK, Bridge
  <2>8. CASE Recover(p, m)
    <3>1. missing[p] \cup Completion \in SUBSET Piece
      BY LegacyAssumption DEF TypeOK, Completion
    <3> QED  BY <2>2, <2>8, <3>1, ConcludeTypes, RecordTypes, ExecuteTypes DEF TypeOK, Recover
  <2>9. CASE Apply(p, m)
    BY <2>2, <2>9, ConcludeTypes, RecordTypes, ExecuteTypes DEF TypeOK, Apply
  <2>10. CASE Collide(p, m)
    BY <2>1, <2>10, QuitTypes DEF TypeOK, Collide, database
  <2>11. CASE Overlook(p, m)
    BY <2>1, <2>2, <2>11, ConcludeTypes, GotoTypes DEF TypeOK, Overlook, NoHistory, Find
  <2>12. CASE OverlookColumns(p, m)
    BY <2>1, <2>12 DEF TypeOK, OverlookColumns, database
  <2> QED  BY <1>5, <2>3, <2>4, <2>5, <2>6, <2>7, <2>8, <2>9, <2>10, <2>11, <2>12 DEF Visit
<1>6. ASSUME NEW p \in Process, StorageFails(p)
      PROVE  TypeOK'
  BY <1>6, QuitTypes DEF TypeOK, StorageFails, database, Resting, Gone
<1>7. ASSUME NEW p \in Process, Crash(p)
      PROVE  TypeOK'
  BY <1>7, QuitTypes DEF TypeOK, Crash, database, Resting, Gone
<1>8. ASSUME NEW p \in Process, OverlookCatalog(p)
      PROVE  TypeOK'
  BY <1>8 DEF TypeOK, OverlookCatalog, Proceed, database, Resting, Reading
<1> QED  BY <1>1, <1>2, <1>3, <1>4, <1>5, <1>6, <1>7, <1>8 DEF Next, Step

\* The first state has the types, whatever old hosts have left.
LEMMA InitType ==
  ASSUME Init
  PROVE  TypeOK
<1>1. PICK H \in SUBSET (Marked \cup Tabled) :
        \E D \in [Migration \ H -> SUBSET Piece] :
          /\ \A m \in Migration \ H : D[m] \in Remains(m)
          /\ Cardinality({m \in Migration \ H : D[m] # {}}) <= 1
          /\ done = [m \in Migration |-> IF m \in H THEN Piece ELSE D[m]]
          /\ marker = H \cap Marked
          /\ runs = [m \in Migration |-> IF m \in H THEN 1 ELSE 0]
  BY DEF Init
<1>2. PICK D \in [Migration \ H -> SUBSET Piece] :
          /\ done = [m \in Migration |-> IF m \in H THEN Piece ELSE D[m]]
          /\ marker = H \cap Marked
          /\ runs = [m \in Migration |-> IF m \in H THEN 1 ELSE 0]
  BY <1>1
<1>3. done \in [Migration -> SUBSET Piece] /\ marker \subseteq Marked /\ runs \in [Migration -> Nat]
  BY <1>2
<1> QED  BY <1>3 DEF Init, TypeOK, Resting, Gone

\* TypeOK holds for every value of the constants.
THEOREM TypeCorrect == Spec => []TypeOK
<1>1. Init => TypeOK
  BY InitType
<1>2. TypeOK /\ [Next]_vars => TypeOK'
  BY StepType
<1> QED  BY <1>1, <1>2, PTL DEF Spec

-------------------------------------------------------------------------------
\* What holds of a migration in the database: a script that has run to its end is
\* whole, and is found again by its record or in the history of the old hosts; if
\* that was overlooked, it may have run once more, and been recorded then.
Sound(m) ==
  /\ runs[m] \in {0, 1, 2}
  /\ runs[m] # 0 => done[m] = Piece /\ (Recorded(m) \/ InHistory(m))
  /\ runs[m] = 2 => Recorded(m) /\ m \in overlooked
  /\ m \in marker => done[m] = Piece
  /\ Recorded(m) => done[m] = Piece \/ (m \in Tabled /\ runs[m] = 0)
  /\ Recorded(m) => hasCatalog

\* What p has found out of its next migration still holds, or the migration has been
\* recorded meanwhile, which only another process can have done, or was overlooked.
Poised(p, m) ==
  Current(p, m) =>
    /\ at[p] \in {"columns", "plan", "recover", "apply"} =>
         Recorded(m) \/ ~InHistory(m) \/ m \in overlooked
    /\ at[p] = "bridge" => Recorded(m) \/ InHistory(m)
    /\ at[p] \in {"columns", "plan", "recover"} => m \in Recoverable
    /\ at[p] = "recover" => Alter \subseteq done[m] \cup missing[p]
    /\ p \notin disturbed =>
         /\ at[p] \in {"history", "columns", "plan"} \cup Writing => ~Recorded(m)
         /\ at[p] \in {"columns", "plan", "recover", "apply"} => ~InHistory(m)
         /\ at[p] = "recover" => missing[p] \cap done[m] = {}
         /\ at[p] = "apply" => ~HasColumns(m)

\* A host knows the catalog and has recorded what it reports; who fails has a cause;
\* who does not know of a catalog has been told that nothing is recorded.
Honest(p) ==
  /\ at[p] \in Writing \cup {"ensure", "plan", "serving"} => mode[p] = "host"
  /\ at[p] \in {"look", "reported"} => mode[p] = "doctor"
  /\ at[p] \in {"serving", "reported"} => todo[p] = {}
  /\ p \in saw => hasCatalog
  /\ at[p] = "checksum" => p \in saw
  /\ mode[p] = "host" /\ at[p] \in (Reading \cup Writing) \ {"ensure"} => p \in saw
  /\ mode[p] = "host" => \A m \in Migration : report[p][m] # "none" => catalog[m] = OwnVersion(p, m)
  /\ at[p] = "failed" => p \in disturbed
  /\ p \notin disturbed /\ p \notin saw /\ at[p] \in {"history", "columns"} =>
       \A m \in Migration : ~Recorded(m)

\* What an undisturbed doctor has said of m is so.
TrueOf(p, m) ==
  /\ report[p][m] = "Applied" => catalog[m] = OwnVersion(p, m)
  /\ report[p][m] \in {"Pending", "LegacyBridge", "RecoveryRequired"} => ~Recorded(m)
  /\ report[p][m] = "Pending" => m \notin marker /\ ~HasTable(m) /\ ~HasColumns(m)
  /\ report[p][m] = "LegacyBridge" => m \in marker \/ HasTable(m)
  /\ report[p][m] = "RecoveryRequired" => m \notin marker /\ HasColumns(m)
Truthful(p) ==
  at[p] \notin Gone /\ mode[p] = "doctor" /\ p \notin disturbed =>
    \A m \in Migration : TrueOf(p, m)

MigrationInv ==
  /\ TypeOK
  /\ \A m \in Migration : Sound(m)
  /\ \A p \in Process, m \in Migration : Poised(p, m)
  /\ \A p \in Process : Honest(p) /\ Truthful(p)

-------------------------------------------------------------------------------
\* A step of p leaves what the others know as it was,
OnlyOwn(p) ==
  \A q \in Process \ {p} :
    /\ mode'[q] = mode[q] /\ at'[q] = at[q] /\ build'[q] = build[q] /\ todo'[q] = todo[q]
    /\ missing'[q] = missing[q] /\ report'[q] = report[q] /\ (q \in saw' <=> q \in saw)
    /\ q \in disturbed => q \in disturbed'
\* the database only grows, and what is not recorded has not changed,
OnlyAdds ==
  /\ hasCatalog => hasCatalog'
  /\ overlooked \subseteq overlooked'
  /\ \A k \in Migration :
       /\ done[k] \subseteq done'[k]
       /\ k \in marker => k \in marker'
       /\ Recorded(k) => catalog'[k] = catalog[k]
       /\ catalog'[k] = NoVersion => done'[k] = done[k] /\ (k \in marker' => k \in marker)
\* and whoever is running takes notice of a change.
Noticed(p) ==
  \/ catalog' = catalog /\ done' = done /\ marker' = marker
  \/ \A q \in Process \ {p} : at[q] \notin Gone => q \in disturbed'

\* A step that only reads, and may miss rows.
Quiet(p) ==
  /\ UNCHANGED <<hasCatalog, catalog, done, marker, runs>>
  /\ overlooked \subseteq overlooked'
  /\ disturbed' \in {disturbed, disturbed \cup {p}}

\* Who finds its own checksum in the catalog finds a record.
LEMMA VersionsRecorded ==
  ASSUME TypeOK, NEW p \in Process, NEW m \in Migration, catalog[m] = OwnVersion(p, m)
  PROVE  Recorded(m)
BY VersionAssumption DEF TypeOK, OwnVersion, Recorded

\* Such a step keeps every part of the invariant that is about another process.
LEMMA OthersHold ==
  ASSUME MigrationInv, TypeOK', NEW p \in Process, OnlyOwn(p), OnlyAdds, Noticed(p),
         NEW q \in Process \ {p}
  PROVE  Honest(q)' /\ Truthful(q)' /\ \A k \in Migration : Poised(q, k)'
<1>1. Honest(q) /\ Truthful(q)
  BY DEF MigrationInv
<1>2. Honest(q)'
  <2>1. \A k \in Migration : catalog[k] = OwnVersion(q, k) => catalog'[k] = OwnVersion(q, k)'
    BY VersionsRecorded DEF MigrationInv, OnlyOwn, OnlyAdds, OwnVersion
  <2>2. q \notin disturbed' => q \notin disturbed
    BY DEF OnlyOwn
  <2>3. q \notin disturbed' /\ at[q] \in {"history", "columns"} => catalog' = catalog
    BY DEF Noticed, Gone
  <2>4. /\ mode'[q] = mode[q] /\ at'[q] = at[q] /\ todo'[q] = todo[q]
        /\ report'[q] = report[q] /\ (q \in saw' <=> q \in saw)
    BY DEF OnlyOwn
  <2>5. hasCatalog => hasCatalog'
    BY DEF OnlyAdds
  <2>6. at'[q] = "failed" => q \in disturbed'
    BY <1>1, <2>4 DEF Honest, OnlyOwn
  <2>7. q \notin disturbed' /\ q \notin saw' /\ at'[q] \in {"history", "columns"} =>
          \A m \in Migration : ~Recorded(m)'
    BY <1>1, <2>2, <2>3, <2>4 DEF Honest, Recorded
  <2>8. mode'[q] = "host" => \A m \in Migration : report'[q][m] # "none" => catalog'[m] = OwnVersion(q, m)'
    BY <1>1, <2>1, <2>4 DEF Honest
  <2> QED  BY <1>1, <2>4, <2>5, <2>6, <2>7, <2>8 DEF Honest
<1>3. Truthful(q)'
  <2>1. SUFFICES ASSUME at'[q] \notin Gone, mode'[q] = "doctor", q \notin disturbed',
                        NEW m \in Migration
                 PROVE  TrueOf(q, m)'
    BY DEF Truthful
  <2>2. catalog' = catalog /\ done' = done /\ marker' = marker
    BY <2>1 DEF Noticed, OnlyOwn
  <2>3. TrueOf(q, m)
    BY <1>1, <2>1 DEF Truthful, OnlyOwn
  <2>4. report'[q] = report[q] /\ build'[q] = build[q]
    BY DEF OnlyOwn
  <2> QED  BY <2>2, <2>3, <2>4 DEF TrueOf, OwnVersion, Recorded, HasTable, HasColumns
<1>4. ASSUME NEW k \in Migration
      PROVE  Poised(q, k)'
  <2>1. /\ at'[q] = at[q] /\ todo'[q] = todo[q] /\ missing'[q] = missing[q]
        /\ q \notin disturbed' => q \notin disturbed
    BY DEF OnlyOwn
  <2>2. SUFFICES ASSUME Current(q, k)'
                 PROVE  Poised(q, k)'
    BY DEF Poised
  <2>3. Current(q, k)
    BY <2>1, <2>2 DEF Current
  <2>4. Poised(q, k)
    BY DEF MigrationInv
  <2>5. /\ Recorded(k) => Recorded(k)'
        /\ InHistory(k) => InHistory(k)'
        /\ ~Recorded(k)' /\ InHistory(k)' => InHistory(k)
    BY DEF OnlyAdds, Recorded, InHistory, HasTable
  <2>6. done[k] \subseteq done'[k]
    BY DEF OnlyAdds
  <2>7. q \notin disturbed' /\ at[q] \notin Gone => catalog' = catalog /\ done' = done
    BY DEF Noticed
  <2>8. at[q] \in {"columns", "plan", "recover", "apply"} =>
          Recorded(k)' \/ ~InHistory(k)' \/ k \in overlooked'
    BY <2>3, <2>4, <2>5 DEF Poised, OnlyAdds
  <2>9. at[q] = "bridge" => Recorded(k)' \/ InHistory(k)'
    BY <2>3, <2>4, <2>5 DEF Poised
  <2>10. at[q] = "recover" => Alter \subseteq done'[k] \cup missing'[q]
    BY <2>1, <2>3, <2>4, <2>6 DEF Poised
  <2>11. q \notin disturbed' =>
           /\ at[q] \in {"history", "columns", "plan"} \cup Writing => ~Recorded(k)'
           /\ at[q] \in {"columns", "plan", "recover", "apply"} => ~InHistory(k)'
           /\ at[q] = "recover" => missing'[q] \cap done'[k] = {}
           /\ at[q] = "apply" => ~HasColumns(k)'
    BY <2>1, <2>3, <2>4, <2>5, <2>7 DEF Poised, Writing, Gone, Recorded, HasColumns
  <2> QED  BY <2>1, <2>3, <2>4, <2>8, <2>9, <2>10, <2>11 DEF Poised
<1> QED  BY <1>2, <1>3, <1>4

\* A process that is gone knows nothing that could be wrong.
LEMMA AfterQuit ==
  ASSUME MigrationInv, TypeOK', NEW p \in Process, NEW where \in Gone, Quit(p, where),
         where = "failed" => p \in disturbed'
  PROVE  Honest(p)' /\ Truthful(p)' /\ \A k \in Migration : Poised(p, k)'
<1>1. at'[p] = where /\ p \notin saw' /\ todo'[p] = {} /\ \A m \in Migration : report'[p][m] = "none"
  BY DEF Quit, MigrationInv, TypeOK
<1>2. \A k \in Migration : ~Current(p, k)'
  BY <1>1 DEF Current
<1>3. at'[p] \in {"idle", "refused", "failed"}
  BY <1>1 DEF Gone
<1> QED  BY <1>1, <1>2, <1>3 DEF Honest, Truthful, Poised, Reading, Writing, Gone

\* A process that is finished with m and goes on to the next one.
LEMMA AfterConclude ==
  ASSUME MigrationInv, TypeOK', NEW p \in Process, NEW m \in Migration, NEW s \in Status,
         Conclude(p, m, s), OnlyAdds,
         at[p] \in (Reading \cup Writing) \ {"ensure", "look", "plan"},
         p \in disturbed => p \in disturbed',
         hasCatalog' = hasCatalog,
         mode[p] = "host" => catalog'[m] = OwnVersion(p, m),
         mode[p] = "doctor" => catalog' = catalog /\ done' = done /\ marker' = marker,
         mode[p] = "doctor" /\ p \notin disturbed' => TrueOf(p, m)'
  PROVE  Honest(p)' /\ Truthful(p)' /\ \A k \in Migration : Poised(p, k)'
<1>1. Honest(p) /\ Truthful(p)
  BY DEF MigrationInv
<1>2. /\ mode'[p] = mode[p] /\ mode[p] \in {"host", "doctor"} /\ build'[p] = build[p]
      /\ todo'[p] = todo[p] \ {m}
      /\ (p \in saw' <=> p \in saw)
      /\ report'[p][m] = s /\ \A k \in Migration \ {m} : report'[p][k] = report[p][k]
  BY DEF Conclude, MigrationInv, TypeOK
<1>3. /\ at'[p] \in {"serving", "reported"} => todo'[p] = {}
      /\ at'[p] \in {"serving", "reported", "checksum", "history"}
      /\ at'[p] = "serving" => mode[p] = "host"
      /\ at'[p] = "reported" => mode[p] = "doctor"
      /\ at'[p] = "checksum" => p \in saw
      /\ at'[p] = "history" => p \notin saw
  BY <1>2 DEF Conclude, Proceed, MigrationInv, TypeOK
<1>4. mode[p] = "host" => p \in saw
  BY <1>1 DEF Honest
<1>5. at'[p] = "history" /\ p \notin disturbed => \A k \in Migration : ~Recorded(k)'
  <2>1. SUFFICES ASSUME at'[p] = "history", p \notin disturbed
                 PROVE  \A k \in Migration : ~Recorded(k)'
    OBVIOUS
  <2>2. p \notin saw /\ mode[p] = "doctor"
    BY <1>2, <1>3, <1>4, <2>1
  <2>3. at[p] \in {"history", "columns"}
    BY <1>1, <2>2 DEF Honest, Reading, Writing
  <2> QED  BY <1>1, <2>1, <2>2, <2>3 DEF Honest, Recorded
<1>6. ASSUME mode[p] = "host", NEW k \in Migration, report'[p][k] # "none"
      PROVE  catalog'[k] = OwnVersion(p, k)'
  <2>1. OwnVersion(p, k)' = OwnVersion(p, k)
    BY <1>2 DEF OwnVersion
  <2>2. CASE k = m
    BY <1>6, <2>1, <2>2
  <2>3. CASE k # m
    <3>1. catalog[k] = OwnVersion(p, k)
      BY <1>1, <1>2, <1>6, <2>3 DEF Honest
    <3> QED  BY <2>1, <3>1, VersionsRecorded DEF MigrationInv, OnlyAdds
  <2> QED  BY <2>2, <2>3
<1>7. Honest(p)'
  <2>1. p \in saw' => hasCatalog'
    BY <1>1, <1>2 DEF Honest
  <2> QED  BY <1>2, <1>3, <1>4, <1>5, <1>6, <2>1 DEF Honest, Writing
<1>8. Truthful(p)'
  <2>1. SUFFICES ASSUME mode[p] = "doctor", p \notin disturbed', NEW k \in Migration
                 PROVE  TrueOf(p, k)'
    BY <1>2 DEF Truthful
  <2>2. CASE k = m
    BY <2>1, <2>2
  <2>3. CASE k # m
    <3>1. at[p] \notin Gone
      BY DEF Reading, Writing, Gone
    <3>2. TrueOf(p, k)
      BY <1>1, <2>1, <3>1 DEF Truthful
    <3> QED  BY <1>2, <2>1, <2>3, <3>2 DEF TrueOf, OwnVersion, Recorded, HasTable, HasColumns
  <2> QED  BY <2>2, <2>3
<1>9. \A k \in Migration : Poised(p, k)'
  BY <1>3, <1>5 DEF Poised, Writing
<1> QED  BY <1>7, <1>8, <1>9

-------------------------------------------------------------------------------
\* Ranks are distinct, so a process has at most one current migration.
LEMMA OneCurrent ==
  ASSUME TypeOK, NEW p \in Process, NEW m \in Migration, NEW k \in Migration,
         Current(p, m), Current(p, k)
  PROVE  k = m
<1>1. Rank[m] <= Rank[k] /\ Rank[k] <= Rank[m]
  BY DEF Current
<1>2. Rank[m] \in Nat /\ Rank[k] \in Nat
  BY RankAssumption
<1>3. Rank[m] = Rank[k]
  BY <1>1, <1>2
<1> QED  BY <1>3, RankAssumption

\* However a step of p ends, it changes nothing of the other processes.
LEMMA FrameHolds ==
  ASSUME TypeOK, NEW p \in Process, \A q \in Process \ {p} : q \in disturbed => q \in disturbed',
         \/ \E m \in Migration, s \in Status : Conclude(p, m, s)
         \/ \E where \in Resting \cup Reading \cup Writing : Goto(p, where) \/ Quit(p, where)
  PROVE  OnlyOwn(p)
<1>1. CASE \E m \in Migration, s \in Status : Conclude(p, m, s)
  BY <1>1 DEF TypeOK, Conclude, Proceed, OnlyOwn
<1>2. CASE \E where \in Resting \cup Reading \cup Writing : Goto(p, where) \/ Quit(p, where)
  BY <1>2 DEF TypeOK, Goto, Quit, OnlyOwn
<1> QED  BY <1>1, <1>2

\* A step that leaves the database alone.
LEMMA QuietStep ==
  ASSUME MigrationInv, NEW p \in Process, UNCHANGED database \/ Quiet(p)
  PROVE  OnlyAdds /\ Noticed(p) /\ \A k \in Migration : Sound(k)'
<1>1. UNCHANGED <<hasCatalog, catalog, done, marker, runs>> /\ overlooked \subseteq overlooked'
  BY DEF database, Quiet
<1>2. OnlyAdds /\ Noticed(p)
  BY <1>1 DEF OnlyAdds, Noticed
<1>3. ASSUME NEW k \in Migration PROVE Sound(k)'
  BY <1>1 DEF MigrationInv, Sound, Recorded, InHistory, HasTable
<1> QED  BY <1>2, <1>3

\* Where a process knows its place.
LEMMA AfterGoto ==
  ASSUME MigrationInv, TypeOK', NEW p \in Process, NEW m \in Migration, Current(p, m),
         Quiet(p),
         NEW where \in {"history", "columns", "plan", "bridge", "apply"}, Goto(p, where),
         at[p] \in {"checksum", "history", "columns"},
         where \in {"plan", "bridge", "apply"} => mode[p] = "host",
         where \in {"columns", "plan", "apply"} => Recorded(m) \/ ~InHistory(m) \/ m \in overlooked',
         where = "bridge" => Recorded(m) \/ InHistory(m),
         where \in {"columns", "plan"} => m \in Recoverable,
         p \notin disturbed' => ~Recorded(m),
         p \notin disturbed' /\ where \in {"columns", "plan", "apply"} => ~InHistory(m),
         p \notin disturbed' /\ where = "apply" => ~HasColumns(m)
  PROVE  Honest(p)' /\ Truthful(p)' /\ \A k \in Migration : Poised(p, k)'
<1>1. Honest(p) /\ Truthful(p)
  BY DEF MigrationInv
<1>2. /\ at'[p] = where /\ mode' = mode /\ build' = build /\ saw' = saw /\ todo' = todo
      /\ missing' = missing /\ report' = report
      /\ hasCatalog' = hasCatalog /\ catalog' = catalog /\ done' = done /\ marker' = marker
      /\ p \notin disturbed' => p \notin disturbed
  BY DEF Goto, MigrationInv, TypeOK, Quiet
<1>3. at[p] = "checksum" => p \in saw
  BY <1>1 DEF Honest
<1>4. Honest(p)'
  <2>1. mode[p] = "host" => p \in saw
    BY <1>1 DEF Honest, Reading
  <2>2. \A k \in Migration : (Recorded(k)' <=> Recorded(k)) /\ OwnVersion(p, k)' = OwnVersion(p, k)
    BY <1>2 DEF Recorded, OwnVersion
  <2> QED  BY <1>1, <1>2, <1>3, <2>1, <2>2 DEF Honest, Writing
<1>5. Truthful(p)'
  BY <1>1, <1>2 DEF Truthful, TrueOf, Gone, Recorded, OwnVersion, HasTable, HasColumns
<1>6. ASSUME NEW k \in Migration
      PROVE  Poised(p, k)'
  <2>1. SUFFICES ASSUME Current(p, k)'
                 PROVE  Poised(p, k)'
    BY DEF Poised
  <2>2. k = m
    BY <1>2, <2>1, OneCurrent DEF MigrationInv, Current
  <2>3. /\ Recorded(m)' <=> Recorded(m)
        /\ InHistory(m)' <=> InHistory(m)
        /\ HasColumns(m)' <=> HasColumns(m)
    BY <1>2 DEF Recorded, InHistory, HasTable, HasColumns
  <2> QED  BY <1>2, <2>2, <2>3 DEF Poised, Writing
<1> QED  BY <1>4, <1>5, <1>6

\* A host or a doctor goes on from what it has read.
LEMMA AfterFind ==
  ASSUME MigrationInv, TypeOK', NEW p \in Process, NEW m \in Migration, Current(p, m),
         Quiet(p),
         NEW where \in {"plan", "bridge", "apply"}, NEW s \in Status, Find(p, m, where, s),
         at[p] \in {"history", "columns"},
         where \in {"plan", "apply"} => Recorded(m) \/ ~InHistory(m) \/ m \in overlooked',
         p \notin disturbed' /\ where \in {"plan", "apply"} => ~InHistory(m),
         where = "bridge" => Recorded(m) \/ InHistory(m),
         where = "plan" => m \in Recoverable,
         p \notin disturbed' => ~Recorded(m),
         p \notin disturbed' /\ where = "apply" => ~HasColumns(m),
         (where = "bridge" /\ s = "LegacyBridge") \/ (where = "apply" /\ s = "Pending")
           \/ (where = "plan" /\ s = "RecoveryRequired" /\ HasColumns(m))
  PROVE  Honest(p)' /\ Truthful(p)' /\ (\A k \in Migration : Poised(p, k)') /\ OnlyOwn(p)
<1>1. \A q \in Process : q \in disturbed => q \in disturbed'
  BY DEF Quiet
<1>2. CASE mode[p] = "host"
  <2>1. Goto(p, where)
    BY <1>2 DEF Find
  <2>2. OnlyOwn(p)
    BY <1>1, <2>1, FrameHolds DEF MigrationInv, Reading, Writing
  <2> QED  BY <1>2, <2>1, <2>2, AfterGoto
<1>3. CASE mode[p] = "doctor"
  <2>1. Conclude(p, m, s)
    BY <1>3 DEF Find
  <2>2. OnlyOwn(p)
    BY <1>1, <2>1, FrameHolds DEF MigrationInv
  <2>3. report'[p][m] = s
    BY <2>1 DEF Conclude, MigrationInv, TypeOK
  <2>4. p \notin disturbed' => TrueOf(p, m)'
    BY <2>3 DEF TrueOf, Quiet, Recorded, InHistory, HasTable, HasColumns
  <2>5. at[p] \in (Reading \cup Writing) \ {"ensure", "look", "plan"}
    BY DEF Reading
  <2>6. OnlyAdds
    BY QuietStep
  <2> QED  BY <1>1, <1>3, <2>1, <2>2, <2>4, <2>5, <2>6, AfterConclude DEF Quiet
<1> QED  BY <1>2, <1>3 DEF MigrationInv, TypeOK

-------------------------------------------------------------------------------
\* The steps that only read.
LEMMA ReadingHolds ==
  ASSUME MigrationInv, TypeOK', NEW p \in Process, NEW m \in Migration, Current(p, m),
         \/ ReadChecksum(p, m) \/ ReadHistory(p, m) \/ ReadColumns(p, m) \/ Plan(p, m)
         \/ Overlook(p, m) \/ OverlookColumns(p, m)
  PROVE  /\ Honest(p)' /\ Truthful(p)' /\ (\A k \in Migration : Poised(p, k)') /\ OnlyOwn(p)
         /\ Quiet(p)
<1>0. Quiet(p)
  BY DEF Quiet, ReadChecksum, ReadHistory, ReadColumns, Plan, Overlook, OverlookColumns, database
<1>1. Honest(p) /\ Truthful(p) /\ Poised(p, m)
  BY DEF MigrationInv
<1>2. CASE ReadChecksum(p, m)
  <2>1. at[p] = "checksum" /\ UNCHANGED <<database, disturbed>>
    BY <1>2 DEF ReadChecksum
  <2>2. CASE catalog[m] = NoVersion
    <3>1. Goto(p, "history")
      BY <1>2, <2>2 DEF ReadChecksum
    <3>2. ~Recorded(m)
      BY <2>2 DEF Recorded
    <3>3. OnlyOwn(p)
      BY <2>1, <3>1, FrameHolds DEF MigrationInv, Reading
    <3> QED  BY <1>0, <2>1, <3>1, <3>2, <3>3, AfterGoto
  <2>3. CASE catalog[m] # NoVersion /\ catalog[m] # OwnVersion(p, m)
    <3>1. Quit(p, "refused")
      BY <1>2, <2>3 DEF ReadChecksum
    <3>2. OnlyOwn(p)
      BY <2>1, <3>1, FrameHolds DEF MigrationInv, Resting, Gone
    <3> QED  BY <1>0, <3>1, <3>2, AfterQuit DEF Gone
  <2>4. CASE catalog[m] # NoVersion /\ catalog[m] = OwnVersion(p, m)
    <3>1. PICK s \in {"AlreadyApplied", "Applied"} : Conclude(p, m, s)
      BY <1>2, <2>4 DEF ReadChecksum
    <3>2. s \in Status
      BY DEF Status
    <3>3. OnlyOwn(p)
      BY <2>1, <3>1, <3>2, FrameHolds DEF MigrationInv
    <3>4. report'[p][m] = s /\ build'[p] = build[p]
      BY <3>1, <3>2 DEF Conclude, MigrationInv, TypeOK
    <3>5. catalog'[m] = OwnVersion(p, m)
      BY <2>1, <2>4 DEF database
    <3>6. TrueOf(p, m)'
      BY <3>4, <3>5 DEF TrueOf, OwnVersion
    <3>7. at[p] \in (Reading \cup Writing) \ {"ensure", "look", "plan"}
      BY <2>1 DEF Reading
    <3>8. OnlyAdds
      BY <2>1, QuietStep DEF database
    <3>9. /\ hasCatalog' = hasCatalog /\ catalog' = catalog /\ done' = done /\ marker' = marker
          /\ p \in disturbed => p \in disturbed'
      BY <2>1 DEF database
    <3>10. Honest(p)' /\ Truthful(p)' /\ \A k \in Migration : Poised(p, k)'
      BY <3>1, <3>2, <3>5, <3>6, <3>7, <3>8, <3>9, AfterConclude
    <3> QED  BY <1>0, <3>3, <3>10
  <2> QED  BY <1>0, <2>2, <2>3, <2>4
<1>3. CASE ReadHistory(p, m)
  <2>1. at[p] = "history" /\ UNCHANGED <<database, disturbed>>
    BY <1>3 DEF ReadHistory
  <2>2. p \notin disturbed => ~Recorded(m)
    BY <1>1, <2>1 DEF Poised
  <2>3. CASE InHistory(m)
    <3>1. Find(p, m, "bridge", "LegacyBridge")
      BY <1>3, <2>3 DEF ReadHistory
    <3> QED  BY <1>0, <2>1, <2>2, <2>3, <3>1, AfterFind DEF Status
  <2>4. CASE ~InHistory(m) /\ m \in Recoverable
    <3>1. Goto(p, "columns")
      BY <1>3, <2>4 DEF ReadHistory, NoHistory
    <3>2. OnlyOwn(p)
      BY <2>1, <3>1, FrameHolds DEF MigrationInv, Reading
    <3> QED  BY <1>0, <2>1, <2>2, <2>4, <3>1, <3>2, AfterGoto
  <2>5. CASE ~InHistory(m) /\ m \notin Recoverable
    <3>1. Find(p, m, "apply", "Pending")
      BY <1>3, <2>5 DEF ReadHistory, NoHistory
    <3>2. ~HasColumns(m)
      BY <2>5 DEF HasColumns
    <3> QED  BY <1>0, <2>1, <2>2, <2>5, <3>1, <3>2, AfterFind DEF Status
  <2> QED  BY <1>0, <2>3, <2>4, <2>5
<1>4. CASE ReadColumns(p, m)
  <2>1. at[p] = "columns" /\ UNCHANGED <<database, disturbed>>
    BY <1>4 DEF ReadColumns
  <2>2. /\ p \notin disturbed => ~Recorded(m)
        /\ Recorded(m) \/ ~InHistory(m) \/ m \in overlooked'
        /\ p \notin disturbed => ~InHistory(m)
        /\ m \in Recoverable
    BY <1>0, <1>1, <2>1 DEF Poised, Quiet
  <2>3. CASE HasColumns(m)
    <3>1. Find(p, m, "plan", "RecoveryRequired")
      BY <1>4, <2>3 DEF ReadColumns
    <3> QED  BY <1>0, <2>1, <2>2, <2>3, <3>1, AfterFind DEF Status
  <2>4. CASE ~HasColumns(m)
    <3>1. Find(p, m, "apply", "Pending")
      BY <1>4, <2>4 DEF ReadColumns
    <3> QED  BY <1>0, <2>1, <2>2, <2>4, <3>1, AfterFind DEF Status
  <2> QED  BY <1>0, <2>3, <2>4
<1>5. CASE Plan(p, m) \/ OverlookColumns(p, m)
  <2>1. /\ at[p] = "plan" /\ at'[p] = "recover"
        /\ Alter \subseteq done[m] \cup missing'[p]
        /\ p \notin disturbed' => missing'[p] \cap done[m] = {}
        /\ mode' = mode /\ build' = build /\ saw' = saw /\ todo' = todo /\ report' = report
        /\ hasCatalog' = hasCatalog /\ catalog' = catalog /\ done' = done /\ marker' = marker
        /\ overlooked' = overlooked
        /\ p \notin disturbed' => p \notin disturbed
    BY <1>5 DEF Plan, OverlookColumns, MigrationInv, TypeOK, database
  <2>2. OnlyOwn(p)
    BY <1>5 DEF Plan, OverlookColumns, MigrationInv, TypeOK, OnlyOwn
  <2>3. mode[p] = "host" /\ p \in saw
    BY <1>1, <2>1 DEF Honest, Reading
  <2>4. Honest(p)'
    BY <1>1, <2>1, <2>3 DEF Honest, Writing, Recorded, OwnVersion
  <2>5. Truthful(p)'
    BY <2>1, <2>3 DEF Truthful
  <2>6. ASSUME NEW k \in Migration
        PROVE  Poised(p, k)'
    <3>1. SUFFICES ASSUME Current(p, k)'
                   PROVE  Poised(p, k)'
      BY DEF Poised
    <3>2. k = m
      BY <2>1, <3>1, OneCurrent DEF MigrationInv, Current
    <3>3. /\ Recorded(m)' <=> Recorded(m)
          /\ InHistory(m)' <=> InHistory(m)
      BY <2>1 DEF Recorded, InHistory, HasTable
    <3>4. Recorded(m) \/ ~InHistory(m) \/ m \in overlooked
      BY <1>1, <2>1 DEF Poised
    <3>5. p \notin disturbed' => ~Recorded(m) /\ ~InHistory(m)
      BY <1>1, <2>1 DEF Poised
    <3>6. m \in Recoverable
      BY <1>1, <2>1 DEF Poised
    <3> QED  BY <2>1, <3>2, <3>3, <3>4, <3>5, <3>6 DEF Poised, Writing
  <2> QED  BY <1>0, <2>2, <2>4, <2>5, <2>6
<1>6. CASE Overlook(p, m)
  <2>1. p \in disturbed'
    BY <1>6 DEF Overlook
  <2>2. CASE at[p] = "checksum"
    <3>1. Goto(p, "history")
      BY <1>6, <2>2 DEF Overlook
    <3>2. OnlyOwn(p)
      BY <1>0, <3>1, FrameHolds DEF MigrationInv, Reading, Quiet
    <3> QED  BY <1>0, <2>1, <2>2, <3>1, <3>2, AfterGoto
  <2>3. CASE at[p] = "history" /\ m \in Recoverable
    <3>1. Goto(p, "columns") /\ m \in overlooked'
      BY <1>6, <2>3 DEF Overlook, NoHistory
    <3>2. OnlyOwn(p)
      BY <1>0, <3>1, FrameHolds DEF MigrationInv, Reading, Quiet
    <3> QED  BY <1>0, <2>1, <2>3, <3>1, <3>2, AfterGoto
  <2>4. CASE at[p] = "history" /\ m \notin Recoverable
    <3>1. Find(p, m, "apply", "Pending") /\ m \in overlooked'
      BY <1>6, <2>4 DEF Overlook, NoHistory
    <3> QED  BY <1>0, <2>1, <2>4, <3>1, AfterFind DEF Status
  <2>5. CASE at[p] = "columns"
    <3>1. Find(p, m, "apply", "Pending")
      BY <1>6, <2>5 DEF Overlook
    <3>2. Recorded(m) \/ ~InHistory(m) \/ m \in overlooked'
      BY <1>0, <1>1, <2>5 DEF Poised, Quiet
    <3> QED  BY <1>0, <2>1, <2>5, <3>1, <3>2, AfterFind DEF Status
  <2> QED  BY <1>6, <2>2, <2>3, <2>4, <2>5 DEF Overlook
<1> QED  BY <1>2, <1>3, <1>4, <1>5, <1>6

\* The three transactions that commit.
LEMMA WritingHolds ==
  ASSUME MigrationInv, TypeOK', NEW p \in Process, NEW m \in Migration, Current(p, m),
         Bridge(p, m) \/ Recover(p, m) \/ Apply(p, m)
  PROVE  /\ Honest(p)' /\ Truthful(p)' /\ (\A k \in Migration : Poised(p, k)')
         /\ OnlyOwn(p) /\ OnlyAdds /\ Noticed(p)
         /\ \A k \in Migration : Sound(k)'
<1>1. Honest(p) /\ Poised(p, m) /\ Sound(m)
  BY DEF MigrationInv
<1>2. /\ at[p] \in Writing /\ Record(p, m) /\ ~Recorded(m)
      /\ \E s \in {"Bridged", "Applied"} : Conclude(p, m, s)
  BY DEF Bridge, Recover, Apply, CanRecord, Writing, Recorded
<1>3. mode[p] = "host" /\ p \in saw /\ hasCatalog
  BY <1>1, <1>2 DEF Honest, Writing
<1>4. /\ catalog'[m] = OwnVersion(p, m) /\ \A k \in Migration \ {m} : catalog'[k] = catalog[k]
      /\ hasCatalog' = hasCatalog
      /\ p \in disturbed' <=> p \in disturbed
      /\ \A q \in Process \ {p} : q \in disturbed => q \in disturbed'
      /\ \A q \in Process \ {p} : at[q] \notin Gone => q \in disturbed'
  BY <1>2 DEF Record, MigrationInv, TypeOK
<1>5. OwnVersion(p, m) # NoVersion
  BY VersionAssumption DEF OwnVersion, MigrationInv, TypeOK
<1>6. /\ \A k \in Migration \ {m} : done'[k] = done[k] /\ runs'[k] = runs[k] /\ (k \in marker' <=> k \in marker)
      /\ done[m] \subseteq done'[m] /\ (m \in marker => m \in marker')
      /\ overlooked' = overlooked
  BY <1>2 DEF Bridge, Recover, Apply, Execute, Record, MigrationInv, TypeOK
<1>7. OnlyAdds
  BY <1>2, <1>4, <1>5, <1>6 DEF OnlyAdds, Recorded
<1>8. Noticed(p)
  BY <1>4 DEF Noticed
<1>9. {"Bridged", "Applied"} \subseteq Status
  BY DEF Status
<1>10. OnlyOwn(p)
  BY <1>2, <1>4, <1>9, FrameHolds DEF MigrationInv
<1>11. at[p] \in (Reading \cup Writing) \ {"ensure", "look", "plan"}
  BY <1>2 DEF Writing
<1>12. Honest(p)' /\ Truthful(p)' /\ \A k \in Migration : Poised(p, k)'
  <2>1. PICK s \in Status : Conclude(p, m, s)
    BY <1>2, <1>9
  <2> QED  BY <1>3, <1>4, <1>7, <1>11, <2>1, AfterConclude
<1>13. \A k \in Migration \ {m} : Sound(k)'
  BY <1>4, <1>6 DEF MigrationInv, Sound, Recorded, InHistory, HasTable
<1>14. Sound(m)'
  <2>1. CASE Bridge(p, m)
    <3>1. done' = done /\ marker' = marker /\ runs' = runs /\ at[p] = "bridge"
      BY <2>1 DEF Bridge
    <3>2. InHistory(m)
      BY <1>1, <1>2, <3>1 DEF Poised
    <3>3. done[m] = Piece \/ (m \in Tabled /\ runs[m] = 0)
      BY <1>1, <3>2 DEF Sound, InHistory, HasTable
    <3> QED  BY <1>1, <1>3, <1>4, <1>5, <1>6, <3>1, <3>3 DEF Sound, Recorded
  <2>2. CASE Recover(p, m) \/ Apply(p, m)
    <3>1. Recorded(m) \/ ~InHistory(m) \/ m \in overlooked
      BY <1>1, <2>2 DEF Poised, Recover, Apply
    <3>2. runs[m] = 0 \/ (runs[m] = 1 /\ m \in overlooked)
      BY <1>1, <1>2, <3>1 DEF Sound
    <3>3. runs'[m] = 1 \/ (runs'[m] = 2 /\ m \in overlooked)
      BY <2>2, <3>2 DEF Recover, Apply, Execute, MigrationInv, TypeOK
    <3>4. done'[m] = Piece
      <4>1. CASE Recover(p, m)
        <5>1. Alter \subseteq done[m] \cup missing[p]
          BY <1>1, <4>1 DEF Poised, Recover
        <5>2. done'[m] = done[m] \cup (missing[p] \cup Completion)
          BY <4>1 DEF Recover, Execute, MigrationInv, TypeOK
        <5>3. done[m] \subseteq Piece /\ missing[p] \subseteq Alter
          BY DEF MigrationInv, TypeOK
        <5> QED  BY <5>1, <5>2, <5>3, LegacyAssumption DEF Completion
      <4>2. CASE Apply(p, m)
        BY <4>2 DEF Apply, Execute, MigrationInv, TypeOK
      <4> QED  BY <2>2, <4>1, <4>2
    <3> QED  BY <1>3, <1>4, <1>5, <1>6, <3>3, <3>4 DEF Sound, Recorded
  <2> QED  BY <1>2, <2>1, <2>2
<1> QED  BY <1>7, <1>8, <1>10, <1>12, <1>13, <1>14

-------------------------------------------------------------------------------
\* The steps that stop a process; a transaction fails by itself only when another
\* process has come first.
LEMMA StoppingHolds ==
  ASSUME MigrationInv, TypeOK', NEW p \in Process,
         StorageFails(p) \/ Crash(p) \/ \E m \in Migration : Current(p, m) /\ Collide(p, m)
  PROVE  /\ Honest(p)' /\ Truthful(p)' /\ (\A k \in Migration : Poised(p, k)')
         /\ OnlyOwn(p) /\ UNCHANGED database
<1>1. CASE StorageFails(p)
  <2>1. Quit(p, "failed") /\ p \in disturbed' /\ UNCHANGED database
    BY <1>1 DEF StorageFails, Quit, Goto
  <2>2. OnlyOwn(p)
    BY <1>1, <2>1, FrameHolds DEF MigrationInv, Resting, Gone, StorageFails
  <2> QED  BY <2>1, <2>2, AfterQuit DEF Gone
<1>2. CASE Crash(p)
  <2>1. Quit(p, "idle") /\ UNCHANGED database
    BY <1>2 DEF Crash
  <2>2. \A q \in Process \ {p} : q \in disturbed => q \in disturbed'
    BY <1>2 DEF Crash
  <2>3. OnlyOwn(p)
    BY <2>1, <2>2, FrameHolds DEF MigrationInv, Resting, Gone
  <2> QED  BY <2>1, <2>3, AfterQuit DEF Gone
<1>3. ASSUME NEW m \in Migration, Current(p, m), Collide(p, m)
      PROVE  /\ Honest(p)' /\ Truthful(p)' /\ (\A k \in Migration : Poised(p, k)')
             /\ OnlyOwn(p) /\ UNCHANGED database
  <2>1. Quit(p, "failed") /\ UNCHANGED <<database, disturbed>>
    BY <1>3 DEF Collide
  <2>2. OnlyOwn(p)
    BY <2>1, FrameHolds DEF MigrationInv, Resting, Gone
  <2>3. Poised(p, m)
    BY DEF MigrationInv
  <2>4. p \in disturbed
    BY <1>3, <2>3 DEF Poised, Collide, CanRecord, Recorded, Writing
  <2> QED  BY <2>1, <2>2, <2>4, AfterQuit DEF Gone
<1> QED  BY <1>1, <1>2, <1>3

\* The steps that start a process.
LEMMA StartingHolds ==
  ASSUME MigrationInv, TypeOK', NEW p \in Process,
         \/ \E w \in {"host", "doctor"}, b \in Build, S \in Profile : Begin(p, w, b, S)
         \/ EnsureCatalog(p)
         \/ LookForCatalog(p) \/ OverlookCatalog(p)
  PROVE  /\ Honest(p)' /\ Truthful(p)' /\ (\A k \in Migration : Poised(p, k)')
         /\ OnlyOwn(p) /\ OnlyAdds /\ Noticed(p)
         /\ \A k \in Migration : Sound(k)'
<1>1. Honest(p) /\ Truthful(p)
  BY DEF MigrationInv
<1>2. ASSUME NEW w \in {"host", "doctor"}, NEW b \in Build, NEW S \in Profile, Begin(p, w, b, S)
      PROVE  /\ Honest(p)' /\ Truthful(p)' /\ (\A k \in Migration : Poised(p, k)')
             /\ OnlyOwn(p) /\ UNCHANGED database
  <2>1. /\ at'[p] = (IF w = "host" THEN "ensure" ELSE "look") /\ mode'[p] = w
        /\ p \notin saw' /\ \A k \in Migration : report'[p][k] = "none"
    BY <1>2 DEF Begin, MigrationInv, TypeOK
  <2>2. OnlyOwn(p)
    BY <1>2 DEF Begin, MigrationInv, TypeOK, OnlyOwn
  <2>3. Honest(p)'
    BY <2>1 DEF Honest, Writing
  <2>4. Truthful(p)'
    BY <2>1 DEF Truthful, TrueOf
  <2>5. \A k \in Migration : Poised(p, k)'
    BY <2>1 DEF Poised, Writing
  <2> QED  BY <1>2, <2>2, <2>3, <2>4, <2>5 DEF Begin
<1>3. CASE EnsureCatalog(p)
  <2>1. mode[p] = "host"
    BY <1>1, <1>3 DEF EnsureCatalog, Honest
  <2>2. /\ at'[p] = (IF todo[p] = {} THEN "serving" ELSE "checksum")
        /\ mode' = mode /\ build' = build /\ todo' = todo /\ missing' = missing
        /\ report' = report /\ disturbed' = disturbed /\ saw' = saw \cup {p}
        /\ hasCatalog' = TRUE /\ catalog' = catalog /\ done' = done /\ marker' = marker /\ runs' = runs
        /\ overlooked' = overlooked
    BY <1>3, <2>1 DEF EnsureCatalog, Proceed, MigrationInv, TypeOK
  <2>3. OnlyOwn(p)
    BY <1>3 DEF EnsureCatalog, Proceed, OnlyOwn, MigrationInv, TypeOK
  <2>4. Honest(p)'
    BY <1>1, <2>1, <2>2 DEF Honest, Writing, Recorded, OwnVersion
  <2>5. Truthful(p)'
    BY <2>1, <2>2 DEF Truthful
  <2>6. \A k \in Migration : Poised(p, k)'
    BY <2>2 DEF Poised, Writing
  <2>7. OnlyAdds /\ Noticed(p) /\ \A k \in Migration : Sound(k)'
    BY <2>2 DEF MigrationInv, OnlyAdds, Noticed, Sound, Recorded, InHistory, HasTable
  <2> QED  BY <2>3, <2>4, <2>5, <2>6, <2>7
<1>4. CASE LookForCatalog(p)
  <2>1. mode[p] = "doctor"
    BY <1>1, <1>4 DEF LookForCatalog, Honest
  <2>2. /\ at'[p] = (IF todo[p] = {} THEN "reported" ELSE IF hasCatalog THEN "checksum" ELSE "history")
        /\ mode' = mode /\ build' = build /\ todo' = todo /\ missing' = missing
        /\ report' = report /\ disturbed' = disturbed
        /\ saw' = IF hasCatalog THEN saw \cup {p} ELSE saw
        /\ UNCHANGED database
    BY <1>4, <2>1 DEF LookForCatalog, Proceed, MigrationInv, TypeOK
  <2>3. OnlyOwn(p)
    BY <1>4 DEF LookForCatalog, Proceed, OnlyOwn, MigrationInv, TypeOK
  <2>4. ~hasCatalog => \A k \in Migration : ~Recorded(k)
    BY DEF MigrationInv, Sound
  <2>5. Honest(p)'
    BY <1>1, <2>1, <2>2, <2>4 DEF Honest, Writing, Recorded, OwnVersion, database
  <2>6. at[p] \notin Gone
    BY <1>4 DEF LookForCatalog, Gone
  <2>7. Truthful(p)'
    BY <1>1, <2>1, <2>2, <2>6
       DEF Truthful, TrueOf, Recorded, OwnVersion, HasTable, HasColumns, database
  <2>8. \A k \in Migration : Poised(p, k)'
    BY <2>2, <2>4 DEF Poised, Writing, Recorded, database
  <2>9. OnlyAdds /\ Noticed(p) /\ \A k \in Migration : Sound(k)'
    BY <2>2, QuietStep
  <2> QED  BY <2>3, <2>5, <2>7, <2>8, <2>9
<1>5. CASE OverlookCatalog(p)
  <2>1. mode[p] = "doctor" /\ at[p] = "look"
    BY <1>1, <1>5 DEF OverlookCatalog, Honest
  <2>2. /\ at'[p] = (IF todo[p] = {} THEN "reported" ELSE "history")
        /\ mode' = mode /\ build' = build /\ todo' = todo /\ missing' = missing
        /\ report' = report /\ p \in disturbed' /\ saw' = saw
        /\ UNCHANGED database
    BY <1>5, <2>1 DEF OverlookCatalog, Proceed, MigrationInv, TypeOK
  <2>3. OnlyOwn(p)
    BY <1>5 DEF OverlookCatalog, Proceed, OnlyOwn, MigrationInv, TypeOK
  <2>4. Honest(p)'
    BY <1>1, <2>1, <2>2 DEF Honest, Writing, database
  <2>5. Truthful(p)'
    BY <2>2 DEF Truthful
  <2>6. \A k \in Migration : Poised(p, k)'
    BY <2>2 DEF Poised, Writing
  <2>7. OnlyAdds /\ Noticed(p) /\ \A k \in Migration : Sound(k)'
    BY <2>2, QuietStep
  <2> QED  BY <2>3, <2>4, <2>5, <2>6, <2>7
<1> QED  BY <1>2, <1>3, <1>4, <1>5, QuietStep

\* Every step of a process keeps the invariant.
LEMMA StepHolds ==
  ASSUME MigrationInv, [Next]_vars
  PROVE  MigrationInv' /\ OnlyAdds
<1>1. TypeOK'
  BY StepType DEF MigrationInv
<1>2. CASE UNCHANGED vars
  <2>1. /\ hasCatalog' = hasCatalog /\ catalog' = catalog /\ done' = done /\ marker' = marker
        /\ runs' = runs /\ overlooked' = overlooked /\ mode' = mode /\ at' = at /\ build' = build /\ saw' = saw /\ todo' = todo
        /\ missing' = missing /\ report' = report /\ disturbed' = disturbed
    BY <1>2 DEF vars, database, process
  <2>2. \A m \in Migration : Sound(m)'
    BY <2>1 DEF MigrationInv, Sound, Recorded, InHistory, HasTable
  <2>3. \A p \in Process, m \in Migration : Poised(p, m)'
    BY <2>1 DEF MigrationInv, Poised, Current, Recorded, InHistory, HasTable, HasColumns
  <2>4. \A p \in Process : Honest(p)' /\ Truthful(p)'
    BY <2>1 DEF MigrationInv, Honest, Truthful, TrueOf, Recorded, OwnVersion, HasTable, HasColumns
  <2>5. OnlyAdds
    BY <2>1 DEF OnlyAdds
  <2> QED  BY <1>1, <2>2, <2>3, <2>4, <2>5 DEF MigrationInv
<1>3. CASE Next
  <2>1. PICK p \in Process :
          \/ \E w \in {"host", "doctor"}, b \in Build, S \in Profile : Begin(p, w, b, S)
          \/ Step(p) \/ StorageFails(p) \/ Crash(p)
    BY <1>3 DEF Next
  <2>2. /\ Honest(p)' /\ Truthful(p)' /\ (\A k \in Migration : Poised(p, k)')
        /\ OnlyOwn(p) /\ OnlyAdds /\ Noticed(p)
        /\ \A k \in Migration : Sound(k)'
    <3>1. CASE \/ \E w \in {"host", "doctor"}, b \in Build, S \in Profile : Begin(p, w, b, S)
               \/ EnsureCatalog(p)
               \/ LookForCatalog(p) \/ OverlookCatalog(p)
      BY <1>1, <3>1, StartingHolds
    <3>2. CASE \/ StorageFails(p) \/ Crash(p)
               \/ \E m \in Migration : Current(p, m) /\ Collide(p, m)
      BY <1>1, <3>2, StoppingHolds, QuietStep
    <3>3. CASE \E m \in Migration :
                 /\ Current(p, m)
                 /\ \/ ReadChecksum(p, m) \/ ReadHistory(p, m) \/ ReadColumns(p, m) \/ Plan(p, m)
                    \/ Overlook(p, m) \/ OverlookColumns(p, m)
      BY <1>1, <3>3, ReadingHolds, QuietStep
    <3>4. CASE \E m \in Migration : Current(p, m) /\ (Bridge(p, m) \/ Recover(p, m) \/ Apply(p, m))
      BY <1>1, <3>4, WritingHolds
    <3> QED  BY <2>1, <3>1, <3>2, <3>3, <3>4 DEF Step, Visit
  <2>3. \A q \in Process \ {p} : Honest(q)' /\ Truthful(q)' /\ \A k \in Migration : Poised(q, k)'
    BY <1>1, <2>2, OthersHold
  <2> QED  BY <1>1, <2>2, <2>3 DEF MigrationInv
<1> QED  BY <1>2, <1>3

\* The invariant holds of a new database and of all an old host may have left.
LEMMA InitHolds ==
  ASSUME Init
  PROVE  MigrationInv
<1>1. TypeOK
  BY InitType
<1>2. \A m \in Migration : Sound(m)
  <2>1. PICK H \in SUBSET (Marked \cup Tabled) : \E D \in [Migration \ H -> SUBSET Piece] :
          /\ done = [m \in Migration |-> IF m \in H THEN Piece ELSE D[m]]
          /\ marker = H \cap Marked
          /\ runs = [m \in Migration |-> IF m \in H THEN 1 ELSE 0]
    BY DEF Init
  <2>2. \A m \in Migration : ~Recorded(m)
    BY DEF Init, Recorded
  <2> QED  BY <2>1, <2>2, LegacyAssumption DEF Sound, InHistory, HasTable
<1>3. \A p \in Process : at[p] = "idle" /\ todo[p] = {} /\ p \notin saw
                        /\ \A m \in Migration : report[p][m] = "none"
  BY DEF Init
<1>4. \A p \in Process, m \in Migration : Poised(p, m)
  BY <1>3 DEF Poised, Current
<1>5. \A p \in Process : Honest(p) /\ Truthful(p)
  BY <1>3 DEF Honest, Truthful, Reading, Writing, Gone
<1> QED  BY <1>1, <1>2, <1>4, <1>5 DEF MigrationInv

\* The inductive invariant behind all that follows, for every value of the constants: what
\* apply_one and verify have read stays true, or the migration has been recorded meanwhile.
THEOREM Invariant == Spec => []MigrationInv
<1>1. Init => MigrationInv
  BY InitHolds
<1>2. MigrationInv /\ [Next]_vars => MigrationInv'
  BY StepHolds
<1> QED  BY <1>1, <1>2, PTL DEF Spec

-------------------------------------------------------------------------------
\* However many processes overlap and wherever they are stopped, no script runs to
\* its end twice, but for one of an old host's that an answer has hidden, which runs
\* once more at most (AppliedOnce of apply_one).
THEOREM OnceOnly == Spec => []AppliedOnce
<1>1. MigrationInv => AppliedOnce
  BY DEF MigrationInv, Sound, AppliedOnce
<1> QED  BY <1>1, Invariant, PTL

\* What is recorded is whole, but for a table that is all an old host left.
THEOREM RecordsAreWhole == Spec => []RecordedIsWhole
<1>1. MigrationInv => RecordedIsWhole
  BY DEF MigrationInv, Sound, RecordedIsWhole
<1> QED  BY <1>1, Invariant, PTL

\* A host that serves finds each of its migrations recorded with its own checksum.
THEOREM ServesItsOwn == Spec => []ServedIsRecorded
<1>1. MigrationInv => ServedIsRecorded
  BY DEF MigrationInv, Honest, ServedIsRecorded, Selected
<1> QED  BY <1>1, Invariant, PTL

\* A start nobody disturbs does not fail, whatever was left in the database.
THEOREM FailureHasCause == Spec => []FailsForCause
<1>1. MigrationInv => FailsForCause
  BY DEF MigrationInv, Honest, FailsForCause
<1> QED  BY <1>1, Invariant, PTL

\* A doctor nobody disturbs says what is so.
THEOREM DoctorTellsTruth == Spec => []DoctorIsRight
<1>1. ASSUME MigrationInv, NEW p \in Process, at[p] = "reported", p \notin disturbed
      PROVE  \A m \in Migration : TrueOf(p, m)
  <2>1. mode[p] = "doctor"
    BY <1>1 DEF MigrationInv, Honest
  <2> QED  BY <1>1, <2>1 DEF MigrationInv, Truthful, Gone
<1>2. MigrationInv => DoctorIsRight
  BY <1>1 DEF DoctorIsRight, TrueOf
<1> QED  BY <1>2, Invariant, PTL

\* No step takes back or rewrites what is recorded or done.
THEOREM NeverBackwards == Spec => ForwardOnly
<1>1. MigrationInv /\ [Next]_vars =>
        [\A m \in Migration : /\ Recorded(m) => catalog'[m] = catalog[m]
                              /\ done[m] \subseteq done'[m]]_vars
  BY StepHolds DEF OnlyAdds
<1> QED  BY <1>1, Invariant, PTL DEF Spec, ForwardOnly

\* A migration is recorded after everything its start selects before it.
THEOREM KeepsOrder == Spec => InOrder
<1> DEFINE A == \A m \in Migration : ~Recorded(m) /\ catalog'[m] # NoVersion =>
                  \E p \in Process :
                    /\ at[p] \in Writing /\ m \in todo[p]
                    /\ \A k \in Selected(p) : Rank[k] < Rank[m] => Recorded(k)
<1>1. ASSUME MigrationInv, Next, NEW m \in Migration, ~Recorded(m), catalog'[m] # NoVersion
      PROVE  \E p \in Process :
               /\ at[p] \in Writing /\ m \in todo[p]
               /\ \A k \in Selected(p) : Rank[k] < Rank[m] => Recorded(k)
  <2>1. catalog' # catalog
    BY <1>1 DEF Recorded
  <2>2. PICK p \in Process, n \in Migration :
          Current(p, n) /\ (Bridge(p, n) \/ Recover(p, n) \/ Apply(p, n))
    <3>1. PICK p \in Process :
            \/ \E w \in {"host", "doctor"}, b \in Build, S \in Profile : Begin(p, w, b, S)
            \/ Step(p) \/ StorageFails(p) \/ Crash(p)
      BY <1>1 DEF Next
    <3>2. Step(p)
      BY <2>1, <3>1 DEF Begin, StorageFails, Crash, database
    <3>3. PICK n \in Migration : Current(p, n) /\ Visit(p, n)
      BY <2>1, <3>2 DEF Step, EnsureCatalog, LookForCatalog, OverlookCatalog, database
    <3>4. ~(\/ ReadChecksum(p, n) \/ ReadHistory(p, n) \/ ReadColumns(p, n) \/ Plan(p, n)
            \/ Overlook(p, n) \/ OverlookColumns(p, n))
      BY <2>1 DEF ReadChecksum, ReadHistory, ReadColumns, Plan, Overlook, OverlookColumns, database
    <3>5. ~Collide(p, n)
      BY <2>1 DEF Collide, database
    <3> QED  BY <3>3, <3>4, <3>5 DEF Visit
  <2>3. at[p] \in Writing /\ catalog' = [catalog EXCEPT ![n] = OwnVersion(p, n)]
    BY <2>2 DEF Bridge, Recover, Apply, Record, Writing
  <2>4. n = m
    BY <1>1, <2>3 DEF Recorded, MigrationInv, TypeOK
  <2>5. mode[p] = "host"
    BY <1>1, <2>3 DEF MigrationInv, Honest
  <2>6. ASSUME NEW k \in Selected(p), Rank[k] < Rank[m]
        PROVE  Recorded(k)
    <3>1. k \in Migration
      BY <1>1, <2>6 DEF Selected, MigrationInv, TypeOK
    <3>2. Rank[k] \in Nat /\ Rank[m] \in Nat
      BY <3>1, RankAssumption
    <3>3. k \notin todo[p]
      <4>1. SUFFICES ASSUME k \in todo[p] PROVE FALSE
        OBVIOUS
      <4>2. Rank[m] <= Rank[k]
        BY <2>2, <2>4, <4>1 DEF Current
      <4> QED  BY <2>6, <3>2, <4>2
    <3>4. catalog[k] = OwnVersion(p, k)
      BY <1>1, <2>5, <2>6, <3>1, <3>3 DEF Selected, MigrationInv, Honest
    <3> QED  BY <1>1, <3>1, <3>4, VersionsRecorded DEF MigrationInv
  <2> QED  BY <2>2, <2>3, <2>4, <2>6 DEF Current
<1>2. MigrationInv /\ [Next]_vars => [A]_vars
  BY <1>1
<1> QED  BY <1>2, Invariant, PTL DEF Spec, InOrder

(***************************************************************************)
(* FileService.  The invariant has three parts.  FilesInv types the state  *)
(* and says which operation can be at which system call; it holds          *)
(* always.  RacedInv holds until a rename overlaps a call it can lose      *)
(* files to: the calls that can lose each other files do not overlap, a    *)
(* file between two names has both, a directory being moved is what the    *)
(* move has read of it, and so every file that was opened has a name.      *)
(* AloneInv holds always and says what the tree is at each system call of  *)
(* a call that runs alone: what the call found, and what it has done.      *)
(***************************************************************************)
\* The last segment of a path, and what lies in it or directly below it.
Name(p)     == p[Len(p)]
Below(r, q) == r = q \/ Parent(r) = q

Trees  == [Paths -> {"absent", "dir"} \cup Inodes]
Phases == {"make", "scan", "entries"}
Places == {"idle", "scan", "entries", "read", "new", "truncate", "write", "mkdir", "stat", "link", "unlink",
           "moving", "rmdir", "remove"}
Frames == [from : Seq(Names), to : Seq(Names), phase : Phases, todo : SUBSET (Names \X BOOLEAN)]
CallRecords ==
  [op : Ops \cup {"none"}, pc : Places, path : Seq(Names), to : Seq(Names), text : Texts \cup {Empty},
   file : Inodes \cup {NoFile}, todo : SUBSET Names, got : SUBSET Names, stack : Seq(Frames), alone : BOOLEAN,
   before : {<<>>} \cup Trees, answer : {"none", "ok", "error", "refused"}]

\* Which operation can be at which system call.
AtItsPlace(k) ==
  /\ k.pc = "idle" => k.op = "none"
  /\ k.pc \in {"scan", "entries"} => k.op = "list"
  /\ k.pc = "new" => k.op \in {"create", "upload"}
  /\ k.pc = "truncate" => k.op = "edit"
  /\ k.pc = "write" => k.op \in {"create", "upload", "edit"} /\ k.file \in Inodes
  /\ k.pc = "mkdir" => k.op = "mkdir"
  /\ k.pc = "read" => k.op \in {"read", "download"}
  /\ k.pc = "stat" => k.op \in {"rename", "delete", "ticket", "download"}
  /\ k.pc \in {"link", "unlink", "moving"} => k.op = "rename"
  /\ k.pc \in {"rmdir", "remove"} => k.op = "delete"
  /\ k.op \notin {"none", "list"} => k.path # <<>>
  /\ k.op = "rename" => k.to \in Paths

\* One directory of a move: it is not moved into itself, and its entries are
\* paths, each to be moved once.
FrameOk(f) ==
  /\ f.from \in Paths /\ ~Below(f.to, f.from)
  /\ f.phase # "entries" => f.todo = {}
  /\ \A e \in f.todo : Append(f.from, e[1]) \in Paths
  /\ \A e, g \in f.todo : e[1] = g[1] => e = g
Inside(g, f) ==
  \E x \in Names : /\ g.from = Append(f.from, x) /\ g.to = Append(f.to, x)
                   /\ \A e \in f.todo : e[1] # x
StackOk(k) ==
  /\ Len(k.stack) \in 1 .. 2
  /\ \A i \in 1 .. Len(k.stack) : FrameOk(k.stack[i])
  /\ k.stack[1].from = k.path /\ k.stack[1].to = k.to
  /\ Len(k.stack) = 2 => k.stack[1].phase = "entries" /\ Inside(k.stack[2], k.stack[1])

\* The frame on top of a move; a move with another one there, with one more, and with one less; a frame
\* without one of its entries.
TopOf(k)        == k.stack[Len(k.stack)]
WithTop(k, f)   == [k EXCEPT !.stack[Len(k.stack)] = f]
WithFrame(k, f) == [k EXCEPT !.stack = Append(@, f)]
WithoutTop(k)   == [k EXCEPT !.stack = Parent(@)]
Without(f, e)   == [f EXCEPT !.todo = @ \ {e}]

CallOk(k) == k \in CallRecords /\ AtItsPlace(k) /\ (k.pc = "moving" => StackOk(k))

\* As long as nothing has raced: calls that can lose each other files do not
\* overlap, ...
Friends(k, m) == ~Rivals(k.op, m.op) /\ ~(k.pc = "moving" /\ Creates(m.op))
\* ... a file between its two names still has both, ...
Linked(t, k) == t[k.path] \in Inodes /\ k.path \in Paths /\ k.to # k.path /\ t[k.to] = t[k.path]
\* ... and a directory being moved is what the move has read of it.
FrameTrue(t, f) ==
  /\ t[f.from] = "dir"
  /\ f.phase = "scan" => \A n \in Names : ~Exists(t, Append(f.to, n))
  /\ \A e \in f.todo : /\ ~Exists(t, Append(f.to, e[1]))
                       /\ IF e[2] THEN IsDir(t, Append(f.from, e[1])) ELSE IsFile(t, Append(f.from, e[1]))
InStep(t, k) ==
  /\ k.pc = "unlink" => Linked(t, k)
  /\ k.pc = "moving" => \A i \in 1 .. Len(k.stack) : FrameTrue(t, k.stack[i])
Named == \A f \in Inodes : fate[f] \in {"open", "stored"} => \E p \in Paths : tree[p] = f

FilesInv ==
  /\ IsTree(tree) /\ data \in [Inodes -> Texts \cup {Empty}]
  /\ fate \in [Inodes -> {"free", "open", "stored", "deleted"}]
  /\ call \in [Callers -> CallRecords] /\ \A c \in Callers : CallOk(call[c])
  /\ \A root \in roots : root.path \in Seq(Names)
  /\ raced \in BOOLEAN
RacedInv ==
  ~raced => /\ \A c, d \in Callers : c # d => Friends(call[c], call[d])
            /\ \A c \in Callers : InStep(tree, call[c])
            /\ Named

\* What a step of an operation may do to the tree: leave it, add to it, or, when
\* the operation moves or deletes, anything.
Grows(t, u)      == \E p \in Paths, v \in {"dir"} \cup Inodes : Free(t, p) /\ u = [t EXCEPT ![p] = v]
Effect(t, u, op) == u = t \/ (Creates(op) /\ Grows(t, u)) \/ op \in {"rename", "delete"}
\* Putting a path's segments together.
LEMMA AppendPath ==
  ASSUME NEW p \in Seq(Names), NEW n \in Names
  PROVE  /\ Append(p, n) \in Seq(Names) /\ Len(Append(p, n)) = Len(p) + 1 /\ Append(p, n) # <<>>
         /\ Parent(Append(p, n)) = p /\ Append(p, n)[Len(p) + 1] = n
<1> DEFINE q == Append(p, n)
<1>1. q \in Seq(Names) /\ Len(q) = Len(p) + 1 /\ q # <<>> /\ q[Len(p) + 1] = n
  OBVIOUS
<1>2. \A i \in 1 .. Len(p) : q[i] = p[i]
  OBVIOUS
<1>3. SubSeq(q, 1, Len(p)) = p
  <2> HIDE DEF q
  <2>1. SubSeq(q, 1, Len(p)) \in Seq(Names) /\ Len(SubSeq(q, 1, Len(p))) = Len(p)
    BY <1>1
  <2>2. \A i \in 1 .. Len(p) : SubSeq(q, 1, Len(p))[i] = p[i]
    BY <1>1, <1>2
  <2> QED
    BY <2>1, <2>2
<1> QED
  BY <1>1, <1>3 DEF Parent

\* A path has one segment or two.
LEMMA PathForm ==
  ASSUME NEW p
  PROVE  p \in Paths <=> p \in Seq(Names) /\ Len(p) \in 1 .. 2
<1>1. ASSUME NEW n \in 1 .. 2, p \in [1 .. n -> Names]
      PROVE  p \in Seq(Names) /\ Len(p) = n
  BY <1>1, SeqDef
<1>2. ASSUME p \in Seq(Names), Len(p) \in 1 .. 2
      PROVE  p \in [1 .. Len(p) -> Names]
  BY <1>2
<1>3. p \in Paths <=> \E n \in 1 .. 2 : p \in [1 .. n -> Names]
  BY DEF Paths, Depth
<1> QED
  BY <1>1, <1>2, <1>3

\* What lies in a path is it, or an entry of it, or the path is the root.
LEMMA WithinForm ==
  ASSUME NEW r \in Paths, NEW q \in Seq(Names)
  PROVE  Within(r, q) <=> q = <<>> \/ r = q \/ (Len(r) = 2 /\ q = Parent(r))
<1>1. r \in Seq(Names) /\ Len(r) \in 1 .. 2
  BY PathForm
<1>2. CASE Len(q) = 0
  BY <1>1, <1>2 DEF Within
<1>3. CASE Len(q) = Len(r)
  <2>1. SubSeq(r, 1, Len(r)) = r
    BY <1>1
  <2>2. Parent(r) # q
    BY <1>1, <1>3 DEF Parent
  <2> QED
    BY <1>1, <1>3, <2>1, <2>2 DEF Within
<1>4. CASE Len(q) > Len(r)
  BY <1>1, <1>4 DEF Within, Parent
<1>5. CASE Len(q) # 0 /\ Len(q) < Len(r)
  <2>0. \A m \in Nat, n \in 1 .. 2 : m # 0 /\ m < n => m = 1 /\ n = 2
    OBVIOUS
  <2>a. Len(q) \in Nat
    OBVIOUS
  <2>1. Len(q) = 1 /\ Len(r) = 2
    BY <1>1, <1>5, <2>0, <2>a
  <2>5. q # <<>>
    BY <2>1
  <2>b. q = r => Len(q) = Len(r)
    BY Zenon
  <2>6. q # r
    BY <2>1, <2>b
  <2>2. SubSeq(r, 1, 1) \in Seq(Names) /\ Len(SubSeq(r, 1, 1)) = 1
    BY <1>1, <2>1
  <2>3. Parent(r) = SubSeq(r, 1, 1)
    BY <2>1 DEF Parent
  <2>4. Within(r, q) <=> SubSeq(r, 1, 1) = q
    BY <2>1 DEF Within
  <2> QED
    BY <2>1, <2>3, <2>4, <2>5, <2>6
<1> QED
  BY <1>2, <1>3, <1>4, <1>5

\* The directory an entry is in, and the entry as its directory's.
LEMMA ParentForm ==
  ASSUME NEW r \in Paths
  PROVE  /\ Parent(r) \in Seq(Names) /\ Len(Parent(r)) = Len(r) - 1 /\ r[Len(r)] \in Names
         /\ r = Append(Parent(r), r[Len(r)])
         /\ Parent(r) = <<>> \/ Parent(r) \in Paths
<1>1. r \in Seq(Names) /\ Len(r) \in 1 .. 2
  BY PathForm
<1>2. Parent(r) \in Seq(Names) /\ Len(Parent(r)) = Len(r) - 1 /\ r[Len(r)] \in Names
  <2>1. Len(r) - 1 \in 0 .. 1 /\ Len(r) \in Nat
    BY <1>1
  <2>2. Parent(r) \in Seq(Names)
    BY <1>1, <2>1 DEF Parent
  <2>3. Len(Parent(r)) = Len(r) - 1
    BY <1>1, <2>1 DEF Parent
  <2>4. r[Len(r)] \in Names
    <3>1. Len(r) \in 1 .. Len(r)
      BY <1>1
    <3> QED
      BY <1>1, <3>1, ElementOfSeq
  <2> QED
    BY <2>2, <2>3, <2>4
<1>3. \A i \in 1 .. Len(r) - 1 : Parent(r)[i] = r[i]
  BY <1>1 DEF Parent
<1>4. r = Append(Parent(r), r[Len(r)])
  <2> DEFINE a == Append(Parent(r), r[Len(r)])
  <2>1. a \in Seq(Names) /\ Len(a) = Len(r)
    BY <1>1, <1>2
  <2>2. \A i \in 1 .. Len(r) : a[i] = r[i]
    BY <1>1, <1>2, <1>3
  <2> HIDE DEF a
  <2>3. a = r
    BY <1>1, <2>1, <2>2
  <2> QED
    BY <2>3 DEF a
<1>5. Parent(r) = <<>> \/ Parent(r) \in Paths
  <2>1. CASE Len(r) = 1
    BY <1>2, <2>1
  <2>2. CASE Len(r) = 2
    BY <1>2, <2>2, PathForm
  <2> QED
    BY <1>1, <2>1, <2>2
<1> QED
  BY <1>2, <1>4, <1>5

\* Two entries of one name are in one directory.
LEMMA EntryInjective ==
  ASSUME NEW p \in Seq(Names), NEW q \in Seq(Names), NEW m \in Names, NEW n \in Names, Append(p, m) = Append(q, n)
  PROVE  p = q /\ m = n
<1>1. Len(p) = Len(q) /\ Parent(Append(p, m)) = p /\ Parent(Append(q, n)) = q
  BY AppendPath
<1> QED
  BY <1>1, AppendPath

\* The facts about paths the rest is built on: a path, ...
LEMMA PathFacts ==
  ASSUME NEW r \in Paths
  PROVE  /\ r \in Seq(Names) /\ r # <<>> /\ Name(r) \in Names /\ r = Append(Parent(r), Name(r))
         /\ Parent(r) \in Seq(Names) /\ Parent(r) # r
         /\ Parent(r) = <<>> \/ (Parent(r) \in Paths /\ Parent(Parent(r)) = <<>>)
<1>1. r \in Seq(Names) /\ Len(r) \in 1 .. 2
  BY PathForm
<1>2. Parent(r) \in Seq(Names) /\ Len(Parent(r)) = Len(r) - 1 /\ Name(r) \in Names /\ r = Append(Parent(r), Name(r))
  BY ParentForm DEF Name
<1>3. r # <<>>
  <2>1. r = <<>> => Len(r) = 0
    BY EmptySeq
  <2>2. \A n \in 1 .. 2 : n # 0
    OBVIOUS
  <2> QED
    BY <1>1, <2>1, <2>2, Zenon
<1>4. Parent(r) # r
  <2>1. Parent(r) = r => Len(Parent(r)) = Len(r)
    BY Zenon
  <2> QED
    BY <1>1, <1>2, <2>1
<1>5. Parent(r) = <<>> \/ (Parent(r) \in Paths /\ Parent(Parent(r)) = <<>>)
  <2>1. CASE Len(r) = 1
    BY <1>2, <2>1
  <2>2. CASE Len(r) = 2
    <3>1. Len(Parent(r)) = 1 /\ Parent(r) \in Paths
      BY <1>2, <2>2, PathForm
    <3>2. Parent(Parent(r)) \in Seq(Names) /\ Len(Parent(Parent(r))) = 0
      BY <3>1, ParentForm
    <3>3. Parent(Parent(r)) = <<>>
      BY <3>2
    <3> QED
      BY <3>1, <3>3
  <2> QED
    BY <1>1, <2>1, <2>2
<1> QED
  BY <1>1, <1>2, <1>3, <1>4, <1>5

\* ... an entry of a directory, ...
LEMMA EntryFacts ==
  ASSUME NEW p \in Seq(Names), NEW n \in Names
  PROVE  /\ Append(p, n) \in Seq(Names) /\ Append(p, n) # <<>> /\ Parent(Append(p, n)) = p /\ Name(Append(p, n)) = n
         /\ Append(p, n) # p
         /\ Append(p, n) \in Paths <=> p = <<>> \/ (p \in Paths /\ Parent(p) = <<>>)
<1> DEFINE q == Append(p, n)
<1>1. q \in Seq(Names) /\ Len(q) = Len(p) + 1 /\ q # <<>> /\ Parent(q) = p /\ q[Len(p) + 1] = n
  BY AppendPath
<1>2. Len(p) \in Nat
  OBVIOUS
<1> HIDE DEF q
<1>3. Name(q) = n
  BY <1>1 DEF Name
<1>4. q # p
  <2>1. q = p => Len(q) = Len(p)
    BY Zenon
  <2> QED
    BY <1>1, <1>2, <2>1
<1>5. q \in Paths <=> Len(p) \in 0 .. 1
  <2>1. q \in Paths <=> Len(p) + 1 \in 1 .. 2
    BY <1>1, PathForm
  <2>2. \A i \in Nat : i + 1 \in 1 .. 2 <=> i \in 0 .. 1
    OBVIOUS
  <2> QED
    BY <1>2, <2>1, <2>2
<1>6. Len(p) = 0 <=> p = <<>>
  OBVIOUS
<1>7. Len(p) = 1 <=> p \in Paths /\ Parent(p) = <<>>
  <2>1. ASSUME Len(p) = 1 PROVE p \in Paths /\ Parent(p) = <<>>
    <3>1. p \in Paths
      BY <2>1, PathForm
    <3>2. Parent(p) \in Seq(Names) /\ Len(Parent(p)) = 0
      BY <2>1, <3>1, ParentForm
    <3>3. Parent(p) = <<>>
      BY <3>2
    <3> QED
      BY <3>1, <3>3
  <2>2. ASSUME p \in Paths, Parent(p) = <<>> PROVE Len(p) = 1
    <3>1. Len(Parent(p)) = Len(p) - 1 /\ Len(Parent(p)) = 0
      BY <2>2, ParentForm
    <3> QED
      BY <1>2, <3>1
  <2> QED
    BY <2>1, <2>2
<1>8. q \in Paths <=> p = <<>> \/ (p \in Paths /\ Parent(p) = <<>>)
  BY <1>2, <1>5, <1>6, <1>7
<1> QED
  BY <1>1, <1>3, <1>4, <1>8 DEF q

\* ... and what lies where.
LEMMA WithinIs ==
  ASSUME NEW r \in Paths, NEW q \in Seq(Names)
  PROVE  Within(r, q) <=> q = <<>> \/ Below(r, q)
<1>1. r \in Seq(Names) /\ Len(r) \in 1 .. 2 /\ Len(Parent(r)) = Len(r) - 1 /\ Parent(r) \in Seq(Names)
  BY PathForm, ParentForm
<1>2. Len(r) = 2 \/ Parent(r) = <<>>
  BY <1>1
<1> QED
  BY <1>2, WithinForm DEF Below

\* A tree's root is its only directory that is no path; files are no directories.
LEMMA TreeFacts ==
  ASSUME NEW t, IsTree(t)
  PROVE  /\ t \in Trees /\ "dir" \notin Inodes /\ "absent" \notin Inodes
         /\ \A p \in Paths : t[p] # "absent" => Parent(p) = <<>> \/ (Parent(p) \in Paths /\ t[Parent(p)] = "dir")
         /\ \A p \in Paths : Exists(t, p) <=> t[p] # "absent"
         /\ \A p \in Paths : Free(t, p) <=> t[p] = "absent" /\ (Parent(p) = <<>> \/ (Parent(p) \in Paths /\ t[Parent(p)] = "dir"))
<1>1. t \in Trees /\ "dir" \notin Inodes /\ "absent" \notin Inodes
  BY FilesAssumption DEF IsTree, Trees
<1>2. \A p \in Paths : p # <<>>
  BY PathFacts
<1>3. \A p \in Paths : t[p] # "absent" => Parent(p) = <<>> \/ (Parent(p) \in Paths /\ t[Parent(p)] = "dir")
  BY DEF IsTree, IsDir
<1>4. \A p \in Paths : Exists(t, p) <=> t[p] # "absent"
  BY <1>1, <1>2 DEF Exists, IsDir, IsFile, Trees
<1>5. \A p \in Paths : Free(t, p) <=> t[p] = "absent" /\ (Parent(p) = <<>> \/ (Parent(p) \in Paths /\ t[Parent(p)] = "dir"))
  BY <1>4 DEF Free, IsDir
<1> QED
  BY <1>1, <1>3, <1>4, <1>5

\* What lies below a path, seen from another.
LEMMA SuffixIs ==
  ASSUME NEW p \in Paths, NEW q \in Paths, NEW r \in Paths, Below(r, q)
  PROVE  p \o SubSeq(r, Len(q) + 1, Len(r)) = IF r = q THEN p ELSE Append(p, Name(r))
<1>a. p \in Seq(Names) /\ q \in Seq(Names) /\ r \in Seq(Names) /\ Name(r) \in Names
  BY PathFacts
<1>1. p \in Seq(Names) /\ q \in Seq(Names) /\ r \in Seq(Names) /\ Name(r) \in Names /\ Len(q) \in Nat /\ Len(r) \in Nat
  BY <1>a, LenProperties
<1>2. CASE r = q
  <2>1. SubSeq(r, Len(r) + 1, Len(r)) = <<>>
    BY <1>1, SubSeqEmpty
  <2>2. p \o <<>> = p
    BY <1>1, ConcatEmptySeq
  <2>3. p \o SubSeq(r, Len(q) + 1, Len(r)) = p \o SubSeq(r, Len(r) + 1, Len(r))
    BY <1>2, Zenon
  <2> QED
    BY <1>2, <2>1, <2>2, <2>3, Zenon
<1>3. CASE r # q
  <2>1. Parent(r) = q /\ Len(Parent(r)) = Len(r) - 1 /\ Len(r) \in 1 .. 2
    BY <1>3, ParentForm, PathForm DEF Below
  <2>2. Len(q) + 1 = Len(r)
    BY <1>1, <2>1
  <2>3. SubSeq(r, Len(r), Len(r)) = <<Name(r)>>
    <3> DEFINE s == SubSeq(r, Len(r), Len(r))
    <3>1. s \in Seq(Names) /\ Len(s) = 1 /\ s[1] = r[Len(r)]
      BY <1>1, <2>1, SubSeqProperties
    <3> HIDE DEF s
    <3>2. s = <<r[Len(r)]>>
      BY <3>1
    <3> QED
      BY <3>2 DEF s, Name
  <2>4. Append(p, Name(r)) = p \o <<Name(r)>>
    BY <1>1, AppendIsConcat
  <2>5. p \o SubSeq(r, Len(q) + 1, Len(r)) = p \o <<Name(r)>>
    BY <2>2, <2>3, Zenon
  <2> QED
    BY <1>3, <2>4, <2>5, Zenon
<1> QED
  BY <1>2, <1>3

\* The system's rename of one path to another, path by path.
LEMMA MovedIs ==
  ASSUME NEW t, NEW p \in Paths, NEW q \in Paths, NEW r \in Paths
  PROVE  Moved(t, p, q)[r] =
           IF Below(r, q) THEN IF r = q THEN t[p] ELSE IF Parent(p) = <<>> THEN t[Append(p, Name(r))] ELSE "absent"
           ELSE IF Below(r, p) THEN "absent" ELSE t[r]
<1>1. p \in Seq(Names) /\ q \in Seq(Names) /\ p # <<>> /\ q # <<>> /\ Name(r) \in Names
  BY PathFacts
<1>2. (Within(r, q) <=> Below(r, q)) /\ (Within(r, p) <=> Below(r, p))
  BY <1>1, WithinIs
<1>3. Append(p, Name(r)) \in Paths <=> Parent(p) = <<>>
  BY <1>1, EntryFacts
<1> DEFINE s == p \o SubSeq(r, Len(q) + 1, Len(r))
<1>4. Moved(t, p, q)[r] = IF Within(r, q) THEN (IF s \in Paths THEN t[s] ELSE "absent")
                          ELSE IF Within(r, p) THEN "absent" ELSE t[r]
  BY DEF Moved
<1>5. Below(r, q) => s = IF r = q THEN p ELSE Append(p, Name(r))
  BY SuffixIs
<1> HIDE DEF s
<1> QED
  BY <1>2, <1>3, <1>4, <1>5

\* It leaves a tree, unless it moves a directory into itself.
LEMMA MovedTree ==
  ASSUME NEW t, IsTree(t), NEW p \in Paths, NEW q \in Paths, Exists(t, p), ~IsDir(t, q), IsDir(t, Parent(q)), ~Below(q, p)
  PROVE  IsTree(Moved(t, p, q))
<1> DEFINE u == Moved(t, p, q)
<1>1. u = [r \in Paths |-> u[r]]
  BY DEF Moved
<1>a. \A r \in Paths : u[r] = IF Below(r, q) THEN IF r = q THEN t[p] ELSE IF Parent(p) = <<>> THEN t[Append(p, Name(r))] ELSE "absent"
                            ELSE IF Below(r, p) THEN "absent" ELSE t[r]
  BY MovedIs
<1> HIDE DEF u
<1>2. /\ t \in Trees /\ t[q] # "dir" /\ t[p] # "absent" /\ Parent(q) # p /\ q # p
      /\ Parent(q) = <<>> \/ (Parent(q) \in Paths /\ t[Parent(q)] = "dir")
  BY TreeFacts DEF IsDir, Below
<1>3. \A r \in Paths : u[r] \in {"absent", "dir"} \cup Inodes
  <2> SUFFICES ASSUME NEW r \in Paths PROVE u[r] \in {"absent", "dir"} \cup Inodes
    OBVIOUS
  <2>1. Name(r) \in Names /\ p \in Seq(Names) /\ (Parent(p) = <<>> => Append(p, Name(r)) \in Paths)
    BY PathFacts, EntryFacts
  <2> QED
    BY <1>2, <1>a, <2>1 DEF Trees
<1>4. \A r \in Paths : u[r] # "absent" => IsDir(u, Parent(r))
  <2> SUFFICES ASSUME NEW r \in Paths, u[r] # "absent", Parent(r) # <<>> PROVE Parent(r) \in Paths /\ u[Parent(r)] = "dir"
    BY DEF IsDir
  <2>1. Parent(r) \in Paths /\ Parent(Parent(r)) = <<>> /\ Name(r) \in Names /\ Parent(r) # r
    BY PathFacts
  <2>2. p # <<>> /\ q # <<>> /\ p \in Seq(Names)
    BY PathFacts
  <2>3. u[Parent(r)] = IF Below(Parent(r), q) THEN IF Parent(r) = q THEN t[p]
                          ELSE IF Parent(p) = <<>> THEN t[Append(p, Name(Parent(r)))] ELSE "absent"
                       ELSE IF Below(Parent(r), p) THEN "absent" ELSE t[Parent(r)]
    BY <1>a, <2>1
  <2>4. CASE r = q
    <3>1. ~Below(Parent(r), q) /\ ~Below(Parent(r), p)
      BY <1>2, <2>1, <2>2, <2>4 DEF Below
    <3> QED
      BY <1>2, <2>1, <2>3, <2>4, <3>1
  <2>5. CASE r # q /\ Parent(r) = q
    <3>1. u[r] = IF Parent(p) = <<>> THEN t[Append(p, Name(r))] ELSE "absent"
      BY <1>a, <2>5 DEF Below
    <3>2. t[Append(p, Name(r))] # "absent" /\ Append(p, Name(r)) \in Paths /\ Parent(Append(p, Name(r))) = p
      BY <2>1, <2>2, <3>1, EntryFacts
    <3>3. t[p] = "dir"
      BY <2>2, <3>2, TreeFacts
    <3> QED
      BY <2>1, <2>3, <2>5, <3>3 DEF Below
  <2>6. CASE ~Below(r, q)
    <3>1. u[r] = t[r] /\ ~Below(r, p)
      BY <1>a, <2>6
    <3>2. t[Parent(r)] = "dir"
      BY <3>1, TreeFacts
    <3>3. ~Below(Parent(r), q) /\ ~Below(Parent(r), p)
      BY <2>1, <2>2, <2>6, <3>1 DEF Below
    <3> QED
      BY <2>1, <2>3, <3>2, <3>3
  <2> QED
    BY <2>4, <2>5, <2>6 DEF Below
<1>5. u \in [Paths -> {"absent", "dir"} \cup Inodes]
  BY <1>1, <1>3
<1>6. IsTree(u)
  BY <1>4, <1>5 DEF IsTree
<1> QED
  BY <1>6 DEF u

\* A file moved to a name that is free takes it and leaves its own.
LEMMA FileMoved ==
  ASSUME NEW t, IsTree(t), NEW p \in Paths, NEW q \in Paths, t[p] \in Inodes, t[q] = "absent"
  PROVE  Moved(t, p, q) = [t EXCEPT ![p] = "absent", ![q] = t[p]]
<1> DEFINE u == Moved(t, p, q)
           v == [t EXCEPT ![p] = "absent", ![q] = t[p]]
<1>1. t \in Trees /\ t[p] # "dir" /\ t[p] # "absent" /\ p # q /\ p \in Seq(Names)
  BY TreeFacts, PathFacts
<1>2. u = [r \in Paths |-> u[r]] /\ v = [r \in Paths |-> v[r]]
  BY <1>1 DEF Moved, Trees
<1>a. \A r \in Paths : u[r] = IF Below(r, q) THEN IF r = q THEN t[p] ELSE IF Parent(p) = <<>> THEN t[Append(p, Name(r))] ELSE "absent"
                            ELSE IF Below(r, p) THEN "absent" ELSE t[r]
  BY MovedIs
<1> HIDE DEF u
<1>3. \A r \in Paths : v[r] = IF r = q THEN t[p] ELSE IF r = p THEN "absent" ELSE t[r]
  BY <1>1 DEF Trees
<1>4. \A r \in Paths : u[r] = v[r]
  <2> SUFFICES ASSUME NEW r \in Paths PROVE u[r] = v[r]
    OBVIOUS
  <2>1. q # <<>> /\ p # <<>> /\ Name(r) \in Names
    BY PathFacts
  <2>2. CASE r = q
    BY <1>3, <1>a, <2>2 DEF Below
  <2>3. CASE r # q /\ Parent(r) = q
    <3>1. t[r] = "absent"
      BY <2>1, <2>3, TreeFacts
    <3>2. Parent(p) = <<>> => t[Append(p, Name(r))] = "absent"
      BY <1>1, <2>1, EntryFacts, TreeFacts
    <3>3. u[r] = "absent"
      BY <1>a, <2>3, <3>2 DEF Below
    <3> QED
      BY <1>3, <2>3, <3>1, <3>3
  <2>4. CASE ~Below(r, q)
    <3>1. Parent(r) = p => t[r] = "absent"
      BY <1>1, <2>1, TreeFacts
    <3>2. u[r] = IF Below(r, p) THEN "absent" ELSE t[r]
      BY <1>a, <2>4
    <3> QED
      BY <1>3, <2>4, <3>1, <3>2 DEF Below
  <2> QED
    BY <2>2, <2>3, <2>4 DEF Below
<1> HIDE DEF v
<1>5. u = v
  BY <1>2, <1>4
<1> QED
  BY <1>5 DEF u, v

\* A name that is free can be given to a directory or a file, ...
LEMMA GrownTree ==
  ASSUME NEW t, IsTree(t), NEW p \in Paths, Free(t, p), NEW v \in {"dir"} \cup Inodes
  PROVE  IsTree([t EXCEPT ![p] = v])
<1> DEFINE u == [t EXCEPT ![p] = v]
<1>1. t \in Trees /\ t[p] = "absent" /\ (Parent(p) = <<>> \/ (Parent(p) \in Paths /\ t[Parent(p)] = "dir"))
  BY TreeFacts
<1>2. u \in Trees /\ u[p] = v /\ \A r \in Paths : r # p => u[r] = t[r]
  BY <1>1 DEF Trees
<1> HIDE DEF u
<1>3. ASSUME NEW r \in Paths, u[r] # "absent" PROVE IsDir(u, Parent(r))
  <2>1. Parent(r) = <<>> \/ (Parent(r) \in Paths /\ t[Parent(r)] = "dir")
    BY <1>1, <1>2, <1>3, TreeFacts
  <2> QED
    BY <1>1, <1>2, <2>1 DEF IsDir
<1>4. IsTree(u)
  BY <1>2, <1>3 DEF IsTree, Trees
<1> QED
  BY <1>4 DEF u

\* ... and one that is a file's or an empty directory's can be taken away.
LEMMA PrunedTree ==
  ASSUME NEW t, IsTree(t), NEW p \in Paths, t[p] \in Inodes \/ Children(t, p) = {}
  PROVE  IsTree([t EXCEPT ![p] = "absent"])
<1> DEFINE u == [t EXCEPT ![p] = "absent"]
<1>1. t \in Trees
  BY TreeFacts
<1>2. u \in Trees /\ u[p] = "absent" /\ \A r \in Paths : r # p => u[r] = t[r]
  BY <1>1 DEF Trees
<1> HIDE DEF u
<1>3. ASSUME NEW r \in Paths, u[r] # "absent" PROVE IsDir(u, Parent(r))
  <2>1. t[r] # "absent" /\ (Parent(r) = <<>> \/ (Parent(r) \in Paths /\ t[Parent(r)] = "dir"))
    BY <1>2, <1>3, TreeFacts
  <2>2. Parent(r) # p \/ Parent(r) = <<>>
    <3>1. SUFFICES ASSUME Parent(r) = p, Parent(r) # <<>> PROVE FALSE
      OBVIOUS
    <3>2. t[p] = "dir"
      BY <2>1, <3>1
    <3>3. Name(r) \in Names /\ Append(p, Name(r)) = r /\ Exists(t, r)
      BY <2>1, <3>1, PathFacts, TreeFacts
    <3>4. Name(r) \in Children(t, p)
      BY <3>3 DEF Children
    <3> QED
      BY <3>2, <3>4, TreeFacts
  <2> QED
    BY <1>2, <2>1, <2>2 DEF IsDir
<1>4. IsTree(u)
  BY <1>2, <1>3 DEF IsTree, Trees
<1> QED
  BY <1>4 DEF u

\* An answer leaves an idle call.
LEMMA IdleOk ==
  ASSUME NEW a \in {"none", "ok", "error", "refused"}
  PROVE  CallOk(Idle(a)) /\ Idle(a).op = "none" /\ Idle(a).pc = "idle"
<1>1. <<>> \in Seq(Names) /\ <<>> \in Seq(Frames)
  OBVIOUS
<1>2. Idle(a) \in CallRecords
  BY <1>1 DEF Idle, CallRecords, Places
<1> QED
  BY <1>2 DEF CallOk, AtItsPlace, Idle

\* What a step of one caller leaves of the calls.
LEMMA PutCalls ==
  ASSUME call \in [Callers -> CallRecords], \A d \in Callers : CallOk(call[d]),
         NEW c \in Callers, NEW r, CallOk(r), Put(c, r)
  PROVE  /\ call' \in [Callers -> CallRecords] /\ \A d \in Callers : CallOk(call'[d])
         /\ call'[c] = r
         /\ \A d \in Callers : d # c => call'[d] = call[d] \/ call'[d] = Idle("none")
<1>1. CallOk(Idle("none"))
  BY IdleOk
<1>2. call' = [d \in Callers |-> IF d = c THEN r ELSE IF Busy(d) THEN call[d] ELSE Idle("none")]
  BY DEF Put
<1> QED
  BY <1>1, <1>2 DEF CallOk

\* A step of a friend leaves what a move or a rename relies on.
LEMMA FriendsKeep ==
  ASSUME NEW t, IsTree(t), NEW u, NEW k, NEW m, CallOk(m), InStep(t, m), Effect(t, u, k.op), Friends(m, k)
  PROVE  InStep(u, m)
<1>1. CASE u = t
  BY <1>1
<1>2. CASE u # t /\ m.pc = "unlink"
  <2>1. m.op = "rename" /\ Linked(t, m) /\ m.to \in Paths
    BY <1>2 DEF CallOk, AtItsPlace, InStep
  <2>2. k.op \notin {"rename", "delete"}
    BY <2>1 DEF Friends, Rivals
  <2>3. PICK p \in Paths, v \in {"dir"} \cup Inodes : Free(t, p) /\ u = [t EXCEPT ![p] = v]
    BY <1>2, <2>2 DEF Effect, Grows
  <2>4. t[p] = "absent" /\ t \in Trees /\ "absent" \notin Inodes
    BY <2>3, TreeFacts
  <2>5. p # m.path /\ p # m.to
    BY <2>1, <2>4 DEF Linked
  <2>6. Linked(u, m)
    BY <2>1, <2>3, <2>4, <2>5 DEF Linked, Trees
  <2> QED
    BY <1>2, <2>6 DEF InStep
<1>3. CASE u # t /\ m.pc = "moving"
  <2>1. m.op = "rename" /\ ~Creates(k.op)
    BY <1>3 DEF CallOk, AtItsPlace, Friends
  <2> QED
    BY <1>3, <2>1 DEF Friends, Rivals, Effect
<1>4. CASE m.pc \notin {"unlink", "moving"}
  BY <1>4 DEF InStep
<1> QED
  BY <1>1, <1>2, <1>3, <1>4

\* A step of a call that stays what it was or ends keeps the invariant when it
\* keeps the tree, the names of files and what the call itself relies on.
LEMMA WorkKeeps ==
  ASSUME FilesInv, RacedInv, NEW c \in Callers, NEW r, CallOk(r), Put(c, r), r.op \in {call[c].op, "none"},
         r.pc = "moving" => call[c].pc = "moving" \/ \A d \in Callers \ {c} : ~raced' => ~Creates(call[d].op),
         raced' \in BOOLEAN, raced => raced', UNCHANGED roots, IsTree(tree'), Effect(tree, tree', call[c].op),
         data' \in [Inodes -> Texts \cup {Empty}], fate' \in [Inodes -> {"free", "open", "stored", "deleted"}],
         ~raced' => InStep(tree', r) /\ Named'
  PROVE  FilesInv' /\ RacedInv'
<1>1. /\ call' \in [Callers -> CallRecords] /\ \A d \in Callers : CallOk(call'[d])
      /\ call'[c] = r
      /\ \A d \in Callers : d # c => call'[d] = call[d] \/ call'[d] = Idle("none")
  BY PutCalls DEF FilesInv
<1>2. FilesInv'
  BY <1>1 DEF FilesInv
<1>3. ASSUME ~raced', NEW a \in Callers, NEW b \in Callers, a # b PROVE Friends(call'[a], call'[b])
  <2>1. Friends(call[a], call[b])
    BY <1>3 DEF RacedInv
  <2>2. call'[a].op \in {call[a].op, "none"} /\ call'[b].op \in {call[b].op, "none"}
    BY <1>1, IdleOk
  <2>3. call'[a].pc = "moving" /\ Creates(call'[b].op) => call[a].pc = "moving" \/ ~Creates(call[b].op)
    BY <1>1, <1>3, IdleOk
  <2> QED
    BY <2>1, <2>2, <2>3 DEF Friends, Rivals, Creates
<1>4. ASSUME ~raced', NEW d \in Callers PROVE InStep(tree', call'[d])
  <2>1. CASE d = c
    BY <1>1, <1>4, <2>1
  <2>2. CASE d # c /\ call'[d] = Idle("none")
    BY <2>2, IdleOk DEF InStep
  <2>3. CASE d # c /\ call'[d] = call[d]
    <3>1. Friends(call[d], call[c]) /\ InStep(tree, call[d]) /\ CallOk(call[d]) /\ IsTree(tree)
      BY <1>4, <2>3 DEF RacedInv, FilesInv
    <3> QED
      BY <2>3, <3>1, FriendsKeep
  <2> QED
    BY <1>1, <2>1, <2>2, <2>3
<1>5. RacedInv'
  BY <1>3, <1>4 DEF RacedInv
<1> QED
  BY <1>2, <1>5

\* A call that goes on while the tree stays as it is.
LEMMA TreeStays ==
  ASSUME FilesInv, RacedInv, NEW c \in Callers, NEW r, CallOk(r), Put(c, r), r.op \in {call[c].op, "none"},
         r.pc = "moving" => call[c].pc = "moving", SameTree, ~raced => InStep(tree, r)
  PROVE  FilesInv' /\ RacedInv'
<1>1. UNCHANGED <<roots, tree, data, fate, raced>>
  BY DEF SameTree, NoFaults
<1>2. IsTree(tree') /\ Effect(tree, tree', call[c].op) /\ raced' \in BOOLEAN /\ (raced => raced')
  BY <1>1 DEF FilesInv, Effect
<1>3. data' \in [Inodes -> Texts \cup {Empty}] /\ fate' \in [Inodes -> {"free", "open", "stored", "deleted"}]
  BY <1>1 DEF FilesInv
<1>4. ~raced' => InStep(tree', r) /\ Named'
  BY <1>1 DEF RacedInv, Named
<1> QED
  BY <1>1, <1>2, <1>3, <1>4, WorkKeeps

\* A call that answers while the tree stays as it is.
LEMMA AnswerStays ==
  ASSUME FilesInv, RacedInv, NEW c \in Callers, NEW a \in {"none", "ok", "error", "refused"}, Answer(c, a), SameTree
  PROVE  FilesInv' /\ RacedInv'
<1>1. CallOk(Idle(a)) /\ Idle(a).op = "none" /\ Idle(a).pc = "idle"
  BY IdleOk
<1>2. Put(c, Idle(a)) /\ InStep(tree, Idle(a))
  BY <1>1 DEF Answer, InStep
<1> QED
  BY <1>1, <1>2, TreeStays

\* A call that fails.
LEMMA FailStays ==
  ASSUME FilesInv, RacedInv, NEW c \in Callers, Fails(c)
  PROVE  FilesInv' /\ RacedInv'
BY AnswerStays DEF Fails

\* A call that moves on to another of its system calls.
LEMMA PlaceOk ==
  ASSUME NEW k, CallOk(k), NEW x \in Places \ {"moving", "idle"}, AtItsPlace([k EXCEPT !.pc = x])
  PROVE  CallOk([k EXCEPT !.pc = x]) /\ [k EXCEPT !.pc = x].op = k.op /\ [k EXCEPT !.pc = x].pc = x
<1>1. k \in CallRecords
  BY DEF CallOk
<1>2. [k EXCEPT !.pc = x] \in CallRecords /\ [k EXCEPT !.pc = x].op = k.op /\ [k EXCEPT !.pc = x].pc = x
  BY <1>1 DEF CallRecords
<1> QED
  BY <1>2 DEF CallOk

\* Listing and reading.
LEMMA ScanKeeps ==
  ASSUME FilesInv, RacedInv, NEW c \in Callers, Scan(c)
  PROVE  FilesInv' /\ RacedInv'
<1>1. PICK k : k = call[c]
  OBVIOUS
<1>2. CallOk(k) /\ k \in CallRecords /\ k.pc = "scan"
  BY <1>1 DEF FilesInv, CallOk, Scan
<1> DEFINE s == Children(tree, k.path) \ HiddenNames
           r == [k EXCEPT !.pc = "entries", !.todo = s]
<1>3. CASE Put(c, r) /\ SameTree
  <2>1. s \in SUBSET Names
    BY DEF Children
  <2>2. r \in CallRecords /\ r.op = k.op /\ r.pc = "entries" /\ r.path = k.path /\ r.to = k.to
    BY <1>2, <2>1 DEF CallRecords, Places
  <2>3. CallOk(r)
    BY <1>2, <2>2 DEF CallOk, AtItsPlace
  <2>4. InStep(tree, r)
    BY <2>2 DEF InStep
  <2> QED
    BY <1>1, <1>3, <2>2, <2>3, <2>4, TreeStays
<1>4. CASE Answer(c, "error") /\ SameTree
  BY <1>4, AnswerStays
<1> QED
  BY <1>1, <1>3, <1>4 DEF Scan

\* A listing's next entry.
LEMMA ListEntryKeeps ==
  ASSUME FilesInv, RacedInv, NEW c \in Callers, ListEntry(c)
  PROVE  FilesInv' /\ RacedInv'
<1>1. PICK k : k = call[c]
  OBVIOUS
<1>2. CallOk(k) /\ k \in CallRecords /\ k.pc = "entries"
  BY <1>1 DEF FilesInv, CallOk, ListEntry
<1>3. SameTree
  BY DEF ListEntry
<1>4. ASSUME NEW n \in k.todo, Put(c, [k EXCEPT !.todo = @ \ {n}, !.got = @ \cup {n}])
      PROVE  FilesInv' /\ RacedInv'
  <2> DEFINE r == [k EXCEPT !.todo = @ \ {n}, !.got = @ \cup {n}]
  <2>2. r \in CallRecords /\ r.op = k.op /\ r.pc = "entries" /\ r.path = k.path /\ r.to = k.to
    BY <1>2 DEF CallRecords, Places
  <2>3. CallOk(r)
    BY <1>2, <2>2 DEF CallOk, AtItsPlace
  <2>4. InStep(tree, r)
    BY <2>2 DEF InStep
  <2> QED
    BY <1>1, <1>3, <1>4, <2>2, <2>3, <2>4, TreeStays
<1>5. \/ Answer(c, "ok") \/ Answer(c, "error")
      \/ \E n \in k.todo : Put(c, [k EXCEPT !.todo = @ \ {n}, !.got = @ \cup {n}])
  <2>1. CASE k.todo = {}
    BY <1>1, <2>1 DEF ListEntry
  <2>2. CASE k.todo # {}
    <3> DEFINE n == CHOOSE n \in k.todo : TRUE
    <3>1. n \in k.todo
      BY <2>2
    <3>2. Put(c, [k EXCEPT !.todo = @ \ {n}, !.got = @ \cup {n}]) \/ Answer(c, "error")
      BY <1>1, <2>2 DEF ListEntry
    <3> QED
      BY <3>1, <3>2
  <2> QED
    BY <2>1, <2>2
<1> QED
  BY <1>3, <1>4, <1>5, AnswerStays

\* A read.
LEMMA ReadKeeps ==
  ASSUME FilesInv, RacedInv, NEW c \in Callers, Read(c)
  PROVE  FilesInv' /\ RacedInv'
<1>1. \E a \in {"ok", "error"} : Answer(c, a) /\ SameTree
  BY DEF Read
<1> QED
  BY <1>1, AnswerStays

\* Metadata decides how a delete or a download goes on.
LEMMA StatDeleteKeeps ==
  ASSUME FilesInv, RacedInv, NEW c \in Callers, StatDelete(c)
  PROVE  FilesInv' /\ RacedInv'
<1>1. PICK k : k = call[c]
  OBVIOUS
<1>2. CallOk(k) /\ k \in CallRecords /\ k.pc = "stat" /\ k.op = "delete" /\ SameTree
  BY <1>1 DEF FilesInv, CallOk, StatDelete, Asked
<1>3. ASSUME NEW x \in {"rmdir", "remove"}, GoTo(c, x)
      PROVE  FilesInv' /\ RacedInv'
  <2> DEFINE r == [k EXCEPT !.pc = x]
  <2>1. x \in Places \ {"moving", "idle"}
    BY DEF Places
  <2>2. r.op = "delete" /\ r.pc = x /\ r.path = k.path
    BY <1>2 DEF CallRecords
  <2>3. AtItsPlace(r)
    BY <1>2, <1>3, <2>2 DEF AtItsPlace, CallOk
  <2>4. CallOk(r) /\ Put(c, r)
    BY <1>1, <1>2, <1>3, <2>1, <2>3, PlaceOk DEF GoTo
  <2>5. InStep(tree, r) /\ r.pc # "moving"
    BY <1>3, <2>2 DEF InStep
  <2> QED
    BY <1>1, <1>2, <2>2, <2>4, <2>5, TreeStays
<1>4. Answer(c, "error") \/ \E x \in {"rmdir", "remove"} : GoTo(c, x)
  BY DEF StatDelete
<1> QED
  BY <1>2, <1>3, <1>4, AnswerStays

\* The metadata of a download.
LEMMA StatDownloadKeeps ==
  ASSUME FilesInv, RacedInv, NEW c \in Callers, StatDownload(c)
  PROVE  FilesInv' /\ RacedInv'
<1>1. PICK k : k = call[c]
  OBVIOUS
<1>2. CallOk(k) /\ k \in CallRecords /\ k.pc = "stat" /\ k.op \in {"ticket", "download"} /\ SameTree
  BY <1>1 DEF FilesInv, CallOk, StatDownload, Asked
<1>3. CASE k.op = "download" /\ GoTo(c, "read")
  <2> DEFINE r == [k EXCEPT !.pc = "read"]
  <2>1. "read" \in Places \ {"moving", "idle"}
    BY DEF Places
  <2>2. r.op = "download" /\ r.pc = "read" /\ r.path = k.path
    BY <1>2, <1>3 DEF CallRecords
  <2>3. AtItsPlace(r)
    BY <1>2, <1>3, <2>2 DEF AtItsPlace, CallOk
  <2>4. CallOk(r) /\ Put(c, r)
    BY <1>1, <1>2, <1>3, <2>1, <2>3, PlaceOk DEF GoTo
  <2>5. InStep(tree, r) /\ r.pc # "moving"
    BY <2>2 DEF InStep
  <2> QED
    BY <1>1, <1>2, <1>3, <2>2, <2>4, <2>5, TreeStays
<1>4. (\E a \in {"ok", "error", "refused"} : Answer(c, a)) \/ (k.op = "download" /\ GoTo(c, "read"))
  BY <1>1, <1>2 DEF StatDownload
<1> QED
  BY <1>2, <1>3, <1>4, AnswerStays

\* A name given to a file or a directory takes no file its name.
LEMMA GrownNamed ==
  ASSUME FilesInv, NEW p \in Paths, Free(tree, p), NEW v \in {"dir"} \cup Inodes, tree' = [tree EXCEPT ![p] = v]
  PROVE  /\ IsTree(tree') /\ Grows(tree, tree') /\ tree[p] = "absent"
         /\ tree'[p] = v /\ \A q \in Paths : q # p => tree'[q] = tree[q]
         /\ \A f \in Inodes : (\E q \in Paths : tree[q] = f) => \E q \in Paths : tree'[q] = f
<1>1. IsTree(tree) /\ tree \in Trees /\ tree[p] = "absent" /\ "absent" \notin Inodes
  BY TreeFacts DEF FilesInv
<1>2. IsTree(tree')
  BY <1>1, GrownTree
<1>3. Grows(tree, tree')
  BY DEF Grows
<1>4. tree'[p] = v /\ \A q \in Paths : q # p => tree'[q] = tree[q]
  BY <1>1 DEF Trees
<1>5. \A f \in Inodes : (\E q \in Paths : tree[q] = f) => \E q \in Paths : tree'[q] = f
  BY <1>1, <1>4
<1> QED
  BY <1>1, <1>2, <1>3, <1>4, <1>5

\* A new file.
LEMMA OpensNewKeeps ==
  ASSUME FilesInv, RacedInv, NEW c \in Callers, call[c].pc \in {"new", "truncate"}, Free(tree, call[c].path),
         OpensNew(c)
  PROVE  FilesInv' /\ RacedInv'
<1>1. PICK k : k = call[c]
  OBVIOUS
<1>2. CallOk(k) /\ k \in CallRecords /\ k.pc \in {"new", "truncate"} /\ k.path \in Paths /\ Creates(k.op)
  BY <1>1 DEF FilesInv, CallOk, AtItsPlace, Free, Creates
<1>3. PICK f \in Unused : /\ tree' = [tree EXCEPT ![k.path] = f] /\ fate' = [fate EXCEPT ![f] = "open"]
                          /\ Put(c, [k EXCEPT !.pc = "write", !.file = f])
                          /\ UNCHANGED <<roots, data, raced>>
  BY <1>1 DEF OpensNew, NoFaults
<1> DEFINE r == [k EXCEPT !.pc = "write", !.file = f]
<1>4. f \in Inodes
  BY DEF Unused
<1>5. r \in CallRecords /\ r.op = k.op /\ r.pc = "write" /\ r.file = f /\ r.path = k.path
  BY <1>2, <1>4 DEF CallRecords, Places
<1>6. CallOk(r)
  BY <1>2, <1>4, <1>5 DEF CallOk, AtItsPlace
<1>7. /\ IsTree(tree') /\ Grows(tree, tree') /\ tree'[k.path] = f
      /\ \A g \in Inodes : (\E q \in Paths : tree[q] = g) => \E q \in Paths : tree'[q] = g
  BY <1>1, <1>2, <1>3, <1>4, GrownNamed
<1>8. fate' \in [Inodes -> {"free", "open", "stored", "deleted"}] /\ \A g \in Inodes : g # f => fate'[g] = fate[g]
  BY <1>3, <1>4 DEF FilesInv
<1>9. ~raced' => InStep(tree', r) /\ Named'
  BY <1>2, <1>3, <1>5, <1>7, <1>8 DEF RacedInv, Named, InStep
<1> HIDE DEF r
<1>10. Put(c, r)
  BY <1>3 DEF r
<1>11. /\ raced' \in BOOLEAN /\ (raced => raced') /\ UNCHANGED roots
       /\ data' \in [Inodes -> Texts \cup {Empty}] /\ Effect(tree, tree', call[c].op)
       /\ r.op \in {call[c].op, "none"} /\ r.pc # "moving"
  BY <1>1, <1>2, <1>3, <1>5, <1>7 DEF FilesInv, Effect
<1> QED
  BY <1>6, <1>7, <1>8, <1>9, <1>10, <1>11, WorkKeeps

\* A creation opens its file.
LEMMA OpenNewKeeps ==
  ASSUME FilesInv, RacedInv, NEW c \in Callers, OpenNew(c)
  PROVE  FilesInv' /\ RacedInv'
BY OpensNewKeeps, FailStays DEF OpenNew

\* An edit opens its file.
LEMMA TruncateKeeps ==
  ASSUME FilesInv, RacedInv, NEW c \in Callers, Truncate(c)
  PROVE  FilesInv' /\ RacedInv'
<1>1. PICK k : k = call[c]
  OBVIOUS
<1>2. CallOk(k) /\ k \in CallRecords /\ k.pc = "truncate" /\ k.op = "edit" /\ k.path # <<>>
  BY <1>1 DEF FilesInv, CallOk, AtItsPlace, Truncate
<1>3. CASE IsFile(tree, k.path)
  <2> DEFINE f == tree[k.path]
             r == [k EXCEPT !.pc = "write", !.file = f]
  <2>1. f \in Inodes
    BY <1>3 DEF IsFile
  <2>2. r \in CallRecords /\ r.op = k.op /\ r.pc = "write" /\ r.file = f /\ r.path = k.path
    BY <1>2, <2>1 DEF CallRecords, Places
  <2>3. CallOk(r)
    BY <1>2, <2>1, <2>2 DEF CallOk, AtItsPlace
  <2>4. Put(c, r) /\ data' = [data EXCEPT ![f] = Empty] /\ UNCHANGED <<roots, tree, fate, raced>>
    BY <1>1, <1>3 DEF Truncate, NoFaults
  <2> HIDE DEF r
  <2>5. data' \in [Inodes -> Texts \cup {Empty}]
    BY <2>1, <2>4 DEF FilesInv
  <2>6. IsTree(tree') /\ Effect(tree, tree', call[c].op) /\ raced' \in BOOLEAN /\ (raced => raced')
    BY <2>4 DEF FilesInv, Effect
  <2>7. fate' \in [Inodes -> {"free", "open", "stored", "deleted"}] /\ (~raced' => InStep(tree', r) /\ Named')
    BY <2>2, <2>4 DEF FilesInv, RacedInv, Named, InStep
  <2>8. r.op \in {call[c].op, "none"} /\ r.pc # "moving" /\ UNCHANGED roots
    BY <1>1, <2>2, <2>4
  <2> QED
    BY <2>3, <2>4, <2>5, <2>6, <2>7, <2>8, WorkKeeps
<1>4. CASE ~IsFile(tree, k.path)
  BY <1>1, <1>2, <1>4, OpensNewKeeps, FailStays DEF Truncate
<1> QED
  BY <1>3, <1>4

\* A step that ends with an answer.
LEMMA AnswerKeeps ==
  ASSUME FilesInv, RacedInv, NEW c \in Callers, NEW a \in {"none", "ok", "error", "refused"}, Answer(c, a),
         UNCHANGED <<roots, raced>>, IsTree(tree'), Effect(tree, tree', call[c].op),
         data' \in [Inodes -> Texts \cup {Empty}], fate' \in [Inodes -> {"free", "open", "stored", "deleted"}],
         ~raced => Named'
  PROVE  FilesInv' /\ RacedInv'
<1>1. CallOk(Idle(a)) /\ Idle(a).op = "none" /\ Idle(a).pc = "idle"
  BY IdleOk
<1>2. Put(c, Idle(a)) /\ InStep(tree', Idle(a))
  BY <1>1 DEF Answer, InStep
<1>3. raced' \in BOOLEAN /\ (raced => raced') /\ UNCHANGED roots /\ (~raced' => InStep(tree', Idle(a)) /\ Named')
  BY <1>2 DEF FilesInv
<1>4. Idle(a).op \in {call[c].op, "none"} /\ Idle(a).pc # "moving"
  BY <1>1
<1> QED
  BY <1>1, <1>2, <1>3, <1>4, WorkKeeps

\* A write stores the file it opened.
LEMMA WriteKeeps ==
  ASSUME FilesInv, RacedInv, NEW c \in Callers, Write(c)
  PROVE  FilesInv' /\ RacedInv'
<1>1. PICK k : k = call[c]
  OBVIOUS
<1>2. CallOk(k) /\ k \in CallRecords /\ k.pc = "write"
  BY <1>1 DEF FilesInv, CallOk, Write
<1>3. k.file \in Inodes /\ k.text \in Texts \cup {Empty}
  BY <1>2 DEF CallOk, AtItsPlace, CallRecords
<1>4. /\ data' = [data EXCEPT ![k.file] = k.text] \/ data' = data
      /\ fate' = [fate EXCEPT ![k.file] = IF @ = "open" THEN "stored" ELSE @]
      /\ Answer(c, "ok") /\ UNCHANGED <<roots, tree, raced>>
  BY <1>1 DEF Write, NoFaults
<1>5. data' \in [Inodes -> Texts \cup {Empty}]
  BY <1>3, <1>4 DEF FilesInv
<1>6. /\ fate' \in [Inodes -> {"free", "open", "stored", "deleted"}]
      /\ \A f \in Inodes : fate'[f] \in {"open", "stored"} => fate[f] \in {"open", "stored"}
  BY <1>3, <1>4 DEF FilesInv
<1>7. ~raced => Named'
  BY <1>4, <1>6 DEF RacedInv, Named
<1>8. IsTree(tree') /\ Effect(tree, tree', call[c].op)
  BY <1>4 DEF FilesInv, Effect
<1> QED
  BY <1>4, <1>5, <1>6, <1>7, <1>8, AnswerKeeps

\* A directory is made.
LEMMA MkdirKeeps ==
  ASSUME FilesInv, RacedInv, NEW c \in Callers, Mkdir(c)
  PROVE  FilesInv' /\ RacedInv'
<1>1. PICK k : k = call[c]
  OBVIOUS
<1>2. k.op = "mkdir"
  BY <1>1 DEF FilesInv, CallOk, AtItsPlace, Mkdir
<1>3. CASE Free(tree, k.path)
  <2>1. /\ tree' = [tree EXCEPT ![k.path] = "dir"] /\ Answer(c, "ok") /\ UNCHANGED <<roots, data, fate, raced>>
        /\ k.path \in Paths
    BY <1>1, <1>3 DEF Mkdir, NoFaults, Free
  <2>2. /\ IsTree(tree') /\ Grows(tree, tree')
        /\ \A f \in Inodes : (\E q \in Paths : tree[q] = f) => \E q \in Paths : tree'[q] = f
    BY <1>3, <2>1, GrownNamed
  <2>3. Effect(tree, tree', call[c].op) /\ data' \in [Inodes -> Texts \cup {Empty}]
    BY <1>1, <1>2, <2>1, <2>2 DEF Effect, Creates, FilesInv
  <2>4. fate' \in [Inodes -> {"free", "open", "stored", "deleted"}] /\ (~raced => Named')
    BY <2>1, <2>2 DEF FilesInv, RacedInv, Named
  <2> QED
    BY <2>1, <2>2, <2>3, <2>4, AnswerKeeps
<1>4. CASE ~Free(tree, k.path)
  BY <1>1, <1>4, FailStays DEF Mkdir
<1> QED
  BY <1>3, <1>4

\* A file is renamed in two steps.
LEMMA LinkKeeps ==
  ASSUME FilesInv, RacedInv, NEW c \in Callers, Link(c)
  PROVE  FilesInv' /\ RacedInv'
<1>1. PICK k : k = call[c]
  OBVIOUS
<1>2. CallOk(k) /\ k \in CallRecords /\ k.pc = "link" /\ k.op = "rename"
  BY <1>1 DEF FilesInv, CallOk, AtItsPlace, Link
<1>3. CASE IsFile(tree, k.path) /\ Free(tree, k.to)
  <2> DEFINE r == [k EXCEPT !.pc = "unlink"]
  <2>1. /\ tree' = [tree EXCEPT ![k.to] = tree[k.path]] /\ Put(c, r) /\ UNCHANGED <<roots, data, fate, raced>>
        /\ k.path \in Paths /\ tree[k.path] \in Inodes /\ k.to \in Paths
    BY <1>1, <1>3 DEF Link, NoFaults, IsFile, Free
  <2>2. /\ IsTree(tree') /\ tree[k.to] = "absent" /\ tree'[k.to] = tree[k.path]
        /\ \A q \in Paths : q # k.to => tree'[q] = tree[q]
        /\ \A f \in Inodes : (\E q \in Paths : tree[q] = f) => \E q \in Paths : tree'[q] = f
    BY <1>3, <2>1, GrownNamed
  <2>3. r.op = "rename" /\ r.pc = "unlink" /\ r.path = k.path /\ r.to = k.to /\ "unlink" \in Places \ {"moving", "idle"}
    BY <1>2 DEF CallRecords, Places
  <2>4. AtItsPlace(r)
    BY <1>2, <2>3 DEF AtItsPlace, CallOk
  <2>5. CallOk(r)
    BY <1>2, <2>3, <2>4, PlaceOk
  <2> HIDE DEF r
  <2>6. k.path # k.to
    BY <2>1, <2>2, TreeFacts DEF FilesInv
  <2>7. InStep(tree', r)
    BY <2>1, <2>2, <2>3, <2>6 DEF InStep, Linked
  <2>8. Effect(tree, tree', call[c].op) /\ data' \in [Inodes -> Texts \cup {Empty}] /\ raced' \in BOOLEAN /\ (raced => raced')
    BY <1>1, <1>2, <2>1 DEF Effect, FilesInv
  <2>9. fate' \in [Inodes -> {"free", "open", "stored", "deleted"}] /\ (~raced' => InStep(tree', r) /\ Named')
    BY <2>1, <2>2, <2>7 DEF FilesInv, RacedInv, Named
  <2>10. r.op \in {call[c].op, "none"} /\ r.pc # "moving" /\ UNCHANGED roots
    BY <1>1, <1>2, <2>1, <2>3
  <2> QED
    BY <2>1, <2>2, <2>5, <2>8, <2>9, <2>10, WorkKeeps
<1>4. CASE ~(IsFile(tree, k.path) /\ Free(tree, k.to))
  BY <1>1, <1>4, FailStays DEF Link
<1> QED
  BY <1>3, <1>4

\* A name is taken away: the file that had it is deleted, or has another.
LEMMA PruneKeeps ==
  ASSUME FilesInv, RacedInv, NEW c \in Callers, call[c].op \in {"rename", "delete"}, NEW p \in Paths,
         tree[p] \in Inodes \/ Children(tree, p) = {}, tree' = [tree EXCEPT ![p] = "absent"], Answer(c, "ok"),
         UNCHANGED <<roots, data, raced>>, fate' \in [Inodes -> {"free", "open", "stored", "deleted"}],
         \A f \in Inodes : fate'[f] \in {"open", "stored"} => fate[f] = fate'[f],
         ~raced /\ tree[p] \in Inodes =>
           fate'[tree[p]] = "deleted" \/ \E q \in Paths : q # p /\ tree[q] = tree[p]
  PROVE  FilesInv' /\ RacedInv'
<1>1. IsTree(tree) /\ tree \in Trees
  BY TreeFacts DEF FilesInv
<1>2. IsTree(tree')
  BY <1>1, PrunedTree
<1>3. \A q \in Paths : q # p => tree'[q] = tree[q]
  BY <1>1 DEF Trees
<1>4. ASSUME ~raced, NEW f \in Inodes, fate'[f] \in {"open", "stored"} PROVE \E q \in Paths : tree'[q] = f
  <2>1. PICK q \in Paths : tree[q] = f
    BY <1>4 DEF RacedInv, Named
  <2>2. PICK s \in Paths : s # p /\ tree[s] = f
    BY <1>4, <2>1
  <2> QED
    BY <1>3, <2>2
<1>5. Effect(tree, tree', call[c].op) /\ data' \in [Inodes -> Texts \cup {Empty}]
  BY DEF Effect, FilesInv
<1>6. ~raced => Named'
  BY <1>4 DEF Named
<1> QED
  BY <1>2, <1>5, <1>6, AnswerKeeps

\* A rename removes the old name of a file that has the new one.
LEMMA UnlinkKeeps ==
  ASSUME FilesInv, RacedInv, NEW c \in Callers, Unlink(c)
  PROVE  FilesInv' /\ RacedInv'
<1>1. PICK k : k = call[c]
  OBVIOUS
<1>2. k.pc = "unlink" /\ k.op = "rename" /\ k.to \in Paths
  BY <1>1 DEF FilesInv, CallOk, AtItsPlace, Unlink
<1>3. CASE IsFile(tree, k.path)
  <2>1. /\ tree' = [tree EXCEPT ![k.path] = "absent"] /\ Answer(c, "ok") /\ UNCHANGED <<roots, data, fate, raced>>
        /\ k.path \in Paths /\ tree[k.path] \in Inodes
    BY <1>1, <1>3 DEF Unlink, NoFaults, IsFile
  <2>2. ~raced => k.to # k.path /\ tree[k.to] = tree[k.path]
    BY <1>1, <1>2 DEF RacedInv, InStep, Linked
  <2>3. fate' \in [Inodes -> {"free", "open", "stored", "deleted"}] /\ \A f \in Inodes : fate[f] = fate'[f]
    BY <2>1 DEF FilesInv
  <2> QED
    BY <1>1, <1>2, <2>1, <2>2, <2>3, PruneKeeps
<1>4. CASE ~IsFile(tree, k.path)
  BY <1>1, <1>4, FailStays DEF Unlink
<1> QED
  BY <1>3, <1>4

\* Deletes.
LEMMA RemoveDirKeeps ==
  ASSUME FilesInv, RacedInv, NEW c \in Callers, RemoveDir(c)
  PROVE  FilesInv' /\ RacedInv'
<1>1. PICK k : k = call[c]
  OBVIOUS
<1>2. k.pc = "rmdir" /\ k.op = "delete" /\ k.path # <<>>
  BY <1>1 DEF FilesInv, CallOk, AtItsPlace, RemoveDir
<1>3. CASE IsDir(tree, k.path) /\ Children(tree, k.path) = {}
  <2>1. /\ tree' = [tree EXCEPT ![k.path] = "absent"] /\ Answer(c, "ok") /\ UNCHANGED <<roots, data, fate, raced>>
        /\ k.path \in Paths /\ tree[k.path] = "dir"
    BY <1>1, <1>2, <1>3 DEF RemoveDir, NoFaults, IsDir
  <2>2. tree[k.path] \notin Inodes
    BY <2>1, TreeFacts DEF FilesInv
  <2>3. fate' \in [Inodes -> {"free", "open", "stored", "deleted"}] /\ \A f \in Inodes : fate[f] = fate'[f]
    BY <2>1 DEF FilesInv
  <2> QED
    BY <1>1, <1>2, <1>3, <2>1, <2>2, <2>3, PruneKeeps
<1>4. CASE ~(IsDir(tree, k.path) /\ Children(tree, k.path) = {})
  BY <1>1, <1>4, FailStays DEF RemoveDir
<1> QED
  BY <1>3, <1>4

\* A deleted file needs no name.
LEMMA RemoveFileKeeps ==
  ASSUME FilesInv, RacedInv, NEW c \in Callers, RemoveFile(c)
  PROVE  FilesInv' /\ RacedInv'
<1>1. PICK k : k = call[c]
  OBVIOUS
<1>2. k.pc = "remove" /\ k.op = "delete"
  BY <1>1 DEF FilesInv, CallOk, AtItsPlace, RemoveFile
<1>3. CASE IsFile(tree, k.path)
  <2>1. /\ tree' = [tree EXCEPT ![k.path] = "absent"] /\ fate' = [fate EXCEPT ![tree[k.path]] = "deleted"]
        /\ Answer(c, "ok") /\ UNCHANGED <<roots, data, raced>>
        /\ k.path \in Paths /\ tree[k.path] \in Inodes
    BY <1>1, <1>3 DEF RemoveFile, NoFaults, IsFile
  <2>2. /\ fate' \in [Inodes -> {"free", "open", "stored", "deleted"}] /\ fate'[tree[k.path]] = "deleted"
        /\ \A f \in Inodes : f # tree[k.path] => fate[f] = fate'[f]
    BY <2>1 DEF FilesInv
  <2>3. \A f \in Inodes : fate'[f] \in {"open", "stored"} => fate[f] = fate'[f]
    BY <2>2
  <2> QED
    BY <1>1, <1>2, <2>1, <2>2, <2>3, PruneKeeps
<1>4. CASE ~IsFile(tree, k.path)
  BY <1>1, <1>4, FailStays DEF RemoveFile
<1> QED
  BY <1>3, <1>4

\* Faults.
LEMMA FaultKeeps ==
  ASSUME FilesInv, RacedInv, NEW c \in Callers, Fault, Answer(c, "none")
  PROVE  FilesInv' /\ RacedInv'
<1>1. UNCHANGED <<roots, tree, data, fate, raced>>
  BY DEF Fault
<1>2. IsTree(tree') /\ Effect(tree, tree', call[c].op)
  BY <1>1 DEF FilesInv, Effect
<1>3. data' \in [Inodes -> Texts \cup {Empty}] /\ fate' \in [Inodes -> {"free", "open", "stored", "deleted"}]
  BY <1>1 DEF FilesInv
<1>4. ~raced => Named'
  BY <1>1 DEF RacedInv, Named
<1> QED
  BY <1>1, <1>2, <1>3, <1>4, AnswerKeeps

\* A crash leaves what is stored.
LEMMA CrashKeeps ==
  ASSUME FilesInv, RacedInv, FilesCrash
  PROVE  FilesInv' /\ RacedInv'
<1>1. UNCHANGED <<roots, tree, data, fate, raced>> /\ call' = [c \in Callers |-> Idle("none")]
  BY DEF Fault, FilesCrash
<1>2. CallOk(Idle("none")) /\ Idle("none").op = "none" /\ Idle("none").pc = "idle"
  BY IdleOk
<1>3. FilesInv'
  BY <1>1, <1>2 DEF FilesInv, CallOk
<1>4. Friends(Idle("none"), Idle("none")) /\ InStep(tree', Idle("none"))
  BY <1>2 DEF Friends, Rivals, InStep
<1>5. RacedInv'
  BY <1>1, <1>4 DEF RacedInv, Named
<1> QED
  BY <1>3, <1>5

\* Sequences of one or two: the last is replaced, a second is added, the second
\* is taken off.
LEMMA SetLast ==
  ASSUME NEW S, NEW s \in Seq(S), Len(s) \in 1 .. 2, NEW x \in S
  PROVE  LET u == [s EXCEPT ![Len(s)] = x]
         IN  u \in Seq(S) /\ Len(u) = Len(s) /\ u[Len(s)] = x /\ \A i \in 1 .. Len(s) : i # Len(s) => u[i] = s[i]
OBVIOUS

\* ... with one more, ...
LEMMA PushLast ==
  ASSUME NEW S, NEW s \in Seq(S), Len(s) = 1, NEW x \in S
  PROVE  Append(s, x) \in Seq(S) /\ Len(Append(s, x)) = 2 /\ Append(s, x)[1] = s[1] /\ Append(s, x)[2] = x
<1>1. Append(s, x) \in Seq(S) /\ Len(Append(s, x)) = Len(s) + 1
  BY AppendProperties
<1>3. Append(s, x)[Len(s) + 1] = x
  BY AppendProperties
<1>2. \A i \in 1 .. Len(s) : Append(s, x)[i] = s[i]
  BY AppendProperties
<1> QED
  BY <1>1, <1>2, <1>3

\* ... and with one less.
LEMMA PopLast ==
  ASSUME NEW S, NEW s \in Seq(S), Len(s) = 2
  PROVE  Parent(s) \in Seq(S) /\ Len(Parent(s)) = 1 /\ Parent(s)[1] = s[1]
BY DEF Parent

\* The stack of a move: the frame on top is replaced, ...
LEMMA TopSet ==
  ASSUME NEW k, CallOk(k), k.pc = "moving", NEW f \in Frames, FrameOk(f),
         f.from = k.stack[Len(k.stack)].from, f.to = k.stack[Len(k.stack)].to
  PROVE  /\ CallOk(WithTop(k, f)) /\ WithTop(k, f).op = k.op /\ WithTop(k, f).pc = "moving"
         /\ Len(WithTop(k, f).stack) = Len(k.stack) /\ WithTop(k, f).stack[Len(k.stack)] = f
         /\ Len(k.stack) = 2 => WithTop(k, f).stack[1] = k.stack[1]
<1> DEFINE n == Len(k.stack)
           r == WithTop(k, f)
           s == [k.stack EXCEPT ![n] = f]
<1>1. k \in CallRecords /\ k.stack \in Seq(Frames) /\ n \in 1 .. 2 /\ StackOk(k)
  BY DEF CallOk, CallRecords, StackOk
<1>2. /\ s \in Seq(Frames) /\ Len(s) = n /\ s[n] = f
      /\ \A i \in 1 .. n : i # n => s[i] = k.stack[i]
  BY <1>1, SetLast
<1>3. r = [k EXCEPT !.stack = s]
  BY <1>1 DEF CallRecords, WithTop
<1> HIDE DEF s, r
<1>4. r \in CallRecords /\ r.op = k.op /\ r.pc = "moving" /\ r.path = k.path /\ r.to = k.to /\ r.stack = s /\ r.file = k.file
  BY <1>1, <1>2, <1>3 DEF CallRecords
<1>5. AtItsPlace(r)
  BY <1>4 DEF CallOk, AtItsPlace
<1>6. n = 2 => s[1] = k.stack[1]
  BY <1>1, <1>2
<1>7. n = 1 \/ n = 2
  BY <1>1
<1>8. StackOk(r)
  <2>1. \A i \in 1 .. Len(s) : FrameOk(s[i])
    BY <1>1, <1>2 DEF StackOk
  <2>2. s[1].from = k.path /\ s[1].to = k.to
    BY <1>1, <1>2, <1>6, <1>7 DEF StackOk
  <2>3. n = 2 => s[1].phase = "entries" /\ Inside(s[2], s[1])
    <3>1. SUFFICES ASSUME n = 2 PROVE s[1].phase = "entries" /\ Inside(s[2], s[1])
      OBVIOUS
    <3>2. k.stack[1].phase = "entries" /\ Inside(k.stack[2], k.stack[1]) /\ s[1] = k.stack[1] /\ s[2] = f
      BY <1>1, <1>2, <1>6, <3>1 DEF StackOk
    <3>3. f.from = k.stack[2].from /\ f.to = k.stack[2].to
      BY <3>1
    <3> QED
      BY <3>2, <3>3 DEF Inside
  <2> QED
    BY <1>1, <1>2, <1>4, <2>1, <2>2, <2>3 DEF StackOk
<1>9. CallOk(r)
  BY <1>4, <1>5, <1>8 DEF CallOk
<1> QED
  BY <1>2, <1>4, <1>6, <1>9 DEF r

\* ... one is put on it, for a directory inside the one on top, ...
LEMMA Pushed ==
  ASSUME NEW k, CallOk(k), k.pc = "moving", Len(k.stack) = 1, NEW f \in Frames, FrameOk(f),
         k.stack[1].phase = "entries", Inside(f, k.stack[1])
  PROVE  /\ CallOk(WithFrame(k, f)) /\ WithFrame(k, f).op = k.op /\ WithFrame(k, f).pc = "moving"
         /\ Len(WithFrame(k, f).stack) = 2 /\ WithFrame(k, f).stack[1] = k.stack[1] /\ WithFrame(k, f).stack[2] = f
<1> DEFINE r == WithFrame(k, f)
           s == Append(k.stack, f)
<1>1. k \in CallRecords /\ k.stack \in Seq(Frames) /\ StackOk(k)
  BY DEF CallOk, CallRecords
<1>2. s \in Seq(Frames) /\ Len(s) = 2 /\ s[1] = k.stack[1] /\ s[2] = f
  BY <1>1, PushLast
<1>3. r = [k EXCEPT !.stack = s]
  BY DEF WithFrame
<1> HIDE DEF s, r
<1>4. r \in CallRecords /\ r.op = k.op /\ r.pc = "moving" /\ r.path = k.path /\ r.to = k.to /\ r.stack = s /\ r.file = k.file
  BY <1>1, <1>2, <1>3 DEF CallRecords
<1>5. AtItsPlace(r)
  BY <1>4 DEF CallOk, AtItsPlace
<1>6. StackOk(r)
  <2>1. FrameOk(s[1])
    BY <1>1, <1>2 DEF StackOk
  <2>2. \A i \in 1 .. 2 : i = 1 \/ i = 2
    OBVIOUS
  <2>3. \A i \in 1 .. Len(s) : FrameOk(s[i])
    BY <1>2, <2>1, <2>2
  <2>4. s[1].from = k.path /\ s[1].to = k.to /\ 2 \in 1 .. 2
    BY <1>1, <1>2 DEF StackOk
  <2> QED
    BY <1>2, <1>4, <2>3, <2>4 DEF StackOk
<1>7. CallOk(r)
  BY <1>4, <1>5, <1>6 DEF CallOk
<1> QED
  BY <1>2, <1>4, <1>7 DEF r

\* ... and the one on top is taken off.
LEMMA Popped ==
  ASSUME NEW k, CallOk(k), k.pc = "moving", Len(k.stack) = 2
  PROVE  /\ CallOk(WithoutTop(k)) /\ WithoutTop(k).op = k.op /\ WithoutTop(k).pc = "moving"
         /\ Len(WithoutTop(k).stack) = 1 /\ WithoutTop(k).stack[1] = k.stack[1]
<1> DEFINE r == WithoutTop(k)
           s == Parent(k.stack)
<1>1. k \in CallRecords /\ k.stack \in Seq(Frames) /\ StackOk(k)
  BY DEF CallOk, CallRecords
<1>2. s \in Seq(Frames) /\ Len(s) = 1 /\ s[1] = k.stack[1]
  BY <1>1, PopLast
<1>3. r = [k EXCEPT !.stack = s]
  BY DEF WithoutTop
<1> HIDE DEF s, r
<1>4. r \in CallRecords /\ r.op = k.op /\ r.pc = "moving" /\ r.path = k.path /\ r.to = k.to /\ r.stack = s /\ r.file = k.file
  BY <1>1, <1>2, <1>3 DEF CallRecords
<1>5. AtItsPlace(r)
  BY <1>4 DEF CallOk, AtItsPlace
<1>6. StackOk(r)
  <2>1. FrameOk(s[1])
    BY <1>1, <1>2 DEF StackOk
  <2>2. \A i \in 1 .. 1 : i = 1
    OBVIOUS
  <2>3. \A i \in 1 .. Len(s) : FrameOk(s[i])
    BY <1>2, <2>1, <2>2
  <2>4. s[1].from = k.path /\ s[1].to = k.to /\ 1 \in 1 .. 2 /\ 1 # 2
    BY <1>1, <1>2 DEF StackOk
  <2> QED
    BY <1>2, <1>4, <2>3, <2>4 DEF StackOk
<1>7. CallOk(r)
  BY <1>4, <1>5, <1>6 DEF CallOk
<1> QED
  BY <1>2, <1>4, <1>7 DEF r

\* What is known of the directory on top of the stack; with two on the stack
\* it has no entries, as they would be too deep.
LEMMA TopFacts ==
  ASSUME NEW k, CallOk(k), k.pc = "moving"
  PROVE  /\ k \in CallRecords /\ k.op = "rename" /\ Len(k.stack) \in 1 .. 2 /\ k.stack[Len(k.stack)] \in Frames
         /\ FrameOk(k.stack[Len(k.stack)])
         /\ Len(k.stack) = 1 \/ Len(k.stack) = 2
         /\ Len(k.stack) = 2 => /\ k.stack[1] \in Frames /\ FrameOk(k.stack[1]) /\ k.stack[1].phase = "entries"
                                /\ Inside(k.stack[2], k.stack[1]) /\ k.stack[2].todo = {}
<1>1. k \in CallRecords /\ k.op = "rename" /\ StackOk(k) /\ k.stack \in Seq(Frames)
  BY DEF CallOk, CallRecords, AtItsPlace
<1>2. Len(k.stack) \in 1 .. 2 /\ (Len(k.stack) = 1 \/ Len(k.stack) = 2) /\ \A i \in 1 .. Len(k.stack) : k.stack[i] \in Frames /\ FrameOk(k.stack[i])
  BY <1>1 DEF StackOk
<1>3. ASSUME Len(k.stack) = 2 PROVE k.stack[2].todo = {}
  <2>1. PICK f, g : f = k.stack[1] /\ g = k.stack[2]
    OBVIOUS
  <2>2. f \in Frames /\ g \in Frames /\ FrameOk(f) /\ FrameOk(g) /\ Inside(g, f)
    BY <1>1, <1>2, <1>3, <2>1 DEF StackOk
  <2>3. PICK x \in Names : g.from = Append(f.from, x)
    BY <2>2 DEF Inside
  <2>4. f.from \in Paths /\ f.from # <<>> /\ f.from \in Seq(Names) /\ g.from \in Paths /\ g.from \in Seq(Names) /\ g.from # <<>>
    BY <2>2, PathFacts DEF FrameOk
  <2>5. Parent(g.from) = f.from
    BY <2>3, <2>4, EntryFacts
  <2>6. \A n \in Names : Append(g.from, n) \notin Paths
    BY <2>4, <2>5, EntryFacts
  <2>7. \A e \in g.todo : e[1] \in Names
    BY <2>2 DEF Frames
  <2>8. g.todo = {}
    BY <2>2, <2>6, <2>7 DEF FrameOk
  <2> QED
    BY <2>1, <2>8
<1> QED
  BY <1>1, <1>2, <1>3 DEF StackOk

\* A rename of a directory starts its move when nothing that creates is busy, or
\* has raced.
LEMMA StatRenameKeeps ==
  ASSUME FilesInv, RacedInv, NEW c \in Callers, StatRename(c)
  PROVE  FilesInv' /\ RacedInv'
<1>1. PICK k : k = call[c]
  OBVIOUS
<1>2. CallOk(k) /\ k \in CallRecords /\ k.pc = "stat" /\ k.op = "rename" /\ k.path # <<>> /\ k.to \in Paths
  BY <1>1 DEF FilesInv, CallOk, AtItsPlace, StatRename, Asked
<1>3. /\ UNCHANGED <<roots, tree, data, fate>> /\ raced' \in BOOLEAN /\ (raced => raced')
      /\ IsDir(tree, k.path) /\ ~raced' => \A d \in Callers \ {c} : ~(Busy(d) /\ Creates(call[d].op))
  BY <1>1 DEF StatRename, NoFaults, FilesInv
<1>4. IsTree(tree') /\ Effect(tree, tree', call[c].op) /\ data' \in [Inodes -> Texts \cup {Empty}]
  BY <1>3 DEF FilesInv, Effect
<1>5. fate' \in [Inodes -> {"free", "open", "stored", "deleted"}] /\ (~raced' => Named')
  BY <1>3 DEF FilesInv, RacedInv, Named
<1>6. ASSUME NEW a \in {"error", "refused"}, Answer(c, a)
      PROVE  FilesInv' /\ RacedInv'
  <2>1. CallOk(Idle(a)) /\ Idle(a).op = "none" /\ Idle(a).pc = "idle"
    BY IdleOk
  <2>2. Put(c, Idle(a)) /\ InStep(tree', Idle(a))
    BY <1>6, <2>1 DEF Answer, InStep
  <2>3. Idle(a).op \in {call[c].op, "none"} /\ Idle(a).pc # "moving"
    BY <2>1
  <2> QED
    BY <1>3, <1>4, <1>5, <2>1, <2>2, <2>3, WorkKeeps
<1>7. CASE GoTo(c, "link")
  <2> DEFINE r == [k EXCEPT !.pc = "link"]
  <2>1. "link" \in Places \ {"moving", "idle"}
    BY DEF Places
  <2>2. r.op = "rename" /\ r.pc = "link" /\ r.path = k.path /\ r.to = k.to
    BY <1>2 DEF CallRecords
  <2>3. AtItsPlace(r)
    BY <1>2, <2>2 DEF AtItsPlace
  <2>4. CallOk(r) /\ Put(c, r)
    BY <1>1, <1>2, <1>7, <2>1, <2>3, PlaceOk DEF GoTo
  <2>5. InStep(tree', r) /\ r.pc # "moving" /\ r.op \in {call[c].op, "none"}
    BY <1>1, <1>2, <2>2 DEF InStep
  <2> QED
    BY <1>3, <1>4, <1>5, <2>4, <2>5, WorkKeeps
<1>8. CASE /\ Exists(tree, k.path) /\ ~IsFile(tree, k.path) /\ ~Within(k.to, k.path)
           /\ Put(c, [k EXCEPT !.pc = "moving", !.stack = <<Frame(k.path, k.to)>>])
  <2> DEFINE f == Frame(k.path, k.to)
             s == <<f>>
             r == [k EXCEPT !.pc = "moving", !.stack = s]
  <2>1. IsDir(tree, k.path) /\ k.path \in Paths /\ tree[k.path] = "dir"
    BY <1>2, <1>8 DEF Exists, IsDir
  <2>2. k.path \in Seq(Names) /\ k.to \in Seq(Names) /\ ~Below(k.to, k.path)
    BY <1>2, <1>8, <2>1, WithinIs, PathFacts
  <2>3. f \in Frames /\ FrameOk(f) /\ f.from = k.path /\ f.to = k.to /\ f.todo = {} /\ f.phase = "make"
    BY <2>1, <2>2 DEF Frame, Frames, FrameOk, Phases
  <2> HIDE DEF f
  <2>4. s \in Seq(Frames) /\ Len(s) = 1 /\ s[1] = f
    BY <2>3
  <2> HIDE DEF s
  <2>5. r \in CallRecords /\ r.op = "rename" /\ r.pc = "moving" /\ r.path = k.path /\ r.to = k.to /\ r.stack = s
    BY <1>2, <2>4 DEF CallRecords, Places
  <2> HIDE DEF r
  <2>6. StackOk(r)
    <3>1. \A i \in 1 .. 1 : i = 1
      OBVIOUS
    <3>2. \A i \in 1 .. Len(s) : FrameOk(s[i])
      BY <2>3, <2>4, <3>1
    <3>3. 1 \in 1 .. 2 /\ 1 # 2
      OBVIOUS
    <3> QED
      BY <2>3, <2>4, <2>5, <3>2, <3>3 DEF StackOk
  <2>7. CallOk(r)
    BY <1>2, <2>5, <2>6 DEF CallOk, AtItsPlace
  <2>8. InStep(tree', r)
    <3>1. FrameTrue(tree, f)
      BY <2>1, <2>3 DEF FrameTrue
    <3>2. \A i \in 1 .. 1 : i = 1
      OBVIOUS
    <3> QED
      BY <1>3, <2>4, <2>5, <3>1, <3>2 DEF InStep
  <2>9. \A d \in Callers \ {c} : ~raced' => ~Creates(call[d].op)
    BY <1>3, <2>1 DEF Busy, FilesInv, CallOk, AtItsPlace, Creates
  <2>10. Put(c, r) /\ r.op \in {call[c].op, "none"}
    BY <1>1, <1>2, <1>8, <2>5 DEF r, s, f
  <2> QED
    BY <1>3, <1>4, <1>5, <2>7, <2>8, <2>9, <2>10, WorkKeeps
<1>9. \/ Answer(c, "error") \/ Answer(c, "refused") \/ GoTo(c, "link")
      \/ /\ Exists(tree, k.path) /\ ~IsFile(tree, k.path) /\ ~Within(k.to, k.path)
         /\ Put(c, [k EXCEPT !.pc = "moving", !.stack = <<Frame(k.path, k.to)>>])
  BY <1>1 DEF StatRename
<1> QED
  BY <1>6, <1>7, <1>8, <1>9

\* The target of a directory's move is made.
LEMMA MakeTargetKeeps ==
  ASSUME FilesInv, RacedInv, NEW c \in Callers, MakeTarget(c)
  PROVE  FilesInv' /\ RacedInv'
<1>1. PICK k : k = call[c]
  OBVIOUS
<1>2. PICK n, f : n = Len(k.stack) /\ f = k.stack[n]
  OBVIOUS
<1>3. /\ CallOk(k) /\ k.pc = "moving" /\ k \in CallRecords /\ k.op = "rename" /\ n \in 1 .. 2 /\ f \in Frames /\ FrameOk(f)
      /\ f.phase = "make" /\ f.todo = {} /\ f.from \in Paths /\ f.from \in Seq(Names)
  <2>1. CallOk(k) /\ k.pc = "moving" /\ f.phase = "make"
    BY <1>1, <1>2 DEF FilesInv, MakeTarget, Moving, Top
  <2>2. k \in CallRecords /\ k.op = "rename" /\ n \in 1 .. 2 /\ f \in Frames /\ FrameOk(f)
    BY <1>2, <2>1, TopFacts
  <2> QED
    BY <2>1, <2>2, PathFacts DEF FrameOk
<1>4. CASE Free(tree, f.to)
  <2> DEFINE g == [f EXCEPT !.phase = "scan"]
             r == WithTop(k, g)
  <2>1. /\ tree' = [tree EXCEPT ![f.to] = "dir"] /\ Put(c, r) /\ UNCHANGED <<roots, data, fate, raced>> /\ f.to \in Paths
    BY <1>1, <1>2, <1>4 DEF MakeTarget, NoFaults, Top, SetTop, Free, WithTop
  <2>2. /\ IsTree(tree) /\ IsTree(tree') /\ tree[f.to] = "absent" /\ tree'[f.to] = "dir"
        /\ \A q \in Paths : q # f.to => tree'[q] = tree[q]
        /\ \A h \in Inodes : (\E q \in Paths : tree[q] = h) => \E q \in Paths : tree'[q] = h
    <3>1. IsTree(tree) /\ "dir" \in {"dir"} \cup Inodes
      BY DEF FilesInv
    <3>2. /\ IsTree(tree') /\ tree[f.to] = "absent" /\ tree'[f.to] = "dir"
          /\ \A q \in Paths : q # f.to => tree'[q] = tree[q]
      <4>1. IsTree(tree') /\ tree[f.to] = "absent"
        BY <1>4, <2>1, <3>1, GrownNamed
      <4>2. tree'[f.to] = "dir"
        BY <1>4, <2>1, <3>1, GrownNamed
      <4>3. \A q \in Paths : q # f.to => tree'[q] = tree[q]
        BY <1>4, <2>1, <3>1, GrownNamed
      <4> QED
        BY <4>1, <4>2, <4>3
    <3>3. \A h \in Inodes : (\E q \in Paths : tree[q] = h) => \E q \in Paths : tree'[q] = h
      BY <1>4, <2>1, <3>1, GrownNamed
    <3> QED
      BY <3>1, <3>2, <3>3
  <2>3. g \in Frames /\ g.from = f.from /\ g.to = f.to /\ g.todo = {} /\ g.phase = "scan" /\ FrameOk(g)
    BY <1>3 DEF Frames, Phases, FrameOk
  <2> HIDE DEF g
  <2>4. /\ CallOk(r) /\ r.op = "rename" /\ r.pc = "moving" /\ Len(r.stack) = n /\ r.stack[n] = g
        /\ n = 2 => r.stack[1] = k.stack[1]
    BY <1>2, <1>3, <2>3, TopSet
  <2> HIDE DEF r
  <2>5. ASSUME ~raced PROVE InStep(tree', r)
    <3>1. \A i \in 1 .. n : FrameTrue(tree, k.stack[i])
      BY <1>1, <1>2, <1>3, <2>5 DEF RacedInv, InStep
    <3>a. n \in 1 .. n /\ (n = 2 => 1 \in 1 .. n)
      BY <1>3
    <3>2. FrameTrue(tree, f)
      BY <1>2, <3>1, <3>a
    <3>3. FrameTrue(tree', g)
      <4>1. tree'[f.from] = "dir"
        BY <1>3, <2>2, <3>2 DEF FrameTrue
      <4>2. ASSUME NEW x \in Names PROVE ~Exists(tree', Append(f.to, x))
        <5>1. f.to \in Seq(Names) /\ f.to # <<>>
          BY <2>1, PathFacts
        <5>2. /\ Append(f.to, x) # <<>> /\ Parent(Append(f.to, x)) = f.to /\ Append(f.to, x) # f.to
          BY <5>1, EntryFacts
        <5>3. Append(f.to, x) \in Paths => tree[Append(f.to, x)] = "absent"
          BY <2>2, <5>1, <5>2, TreeFacts
        <5>4. Append(f.to, x) \in Paths => tree'[Append(f.to, x)] = "absent"
          BY <2>2, <5>2, <5>3
        <5> QED
          BY <2>2, <5>2, <5>4, TreeFacts DEF Exists, IsDir, IsFile
      <4> QED
        BY <2>3, <4>1, <4>2 DEF FrameTrue
    <3>4. ASSUME n = 2 PROVE FrameTrue(tree', k.stack[1])
      <4>1. PICK h : h = k.stack[1]
        OBVIOUS
      <4>2. h \in Frames /\ FrameOk(h) /\ h.phase = "entries" /\ Inside(f, h) /\ FrameTrue(tree, h)
        <5>1. FrameTrue(tree, h)
          BY <3>1, <3>4, <3>a, <4>1
        <5>2. k.stack[2] = f /\ Len(k.stack) = 2
          BY <1>2, <3>4
        <5> QED
          BY <1>3, <4>1, <5>1, <5>2, TopFacts
      <4>3. PICK x \in Names : f.to = Append(h.to, x) /\ \A e \in h.todo : e[1] # x
        BY <4>2 DEF Inside
      <4>4. h.from \in Paths /\ h.to \in Seq(Names) /\ \A e \in h.todo : e[1] \in Names /\ Append(h.from, e[1]) \in Paths
        BY <4>2 DEF Frames, FrameOk
      <4>5. tree'[h.from] = "dir"
        BY <2>2, <4>2, <4>4 DEF FrameTrue
      <4>6. ASSUME NEW e \in h.todo
            PROVE  /\ ~Exists(tree', Append(h.to, e[1]))
                   /\ IF e[2] THEN IsDir(tree', Append(h.from, e[1])) ELSE IsFile(tree', Append(h.from, e[1]))
        <5>1. Append(h.to, e[1]) # f.to
          BY <4>3, <4>4, EntryInjective
        <5>2. ~Exists(tree', Append(h.to, e[1]))
          BY <2>2, <4>2, <5>1 DEF FrameTrue, Exists, IsDir, IsFile
        <5>3. Append(h.from, e[1]) # f.to
          <6>1. Append(h.from, e[1]) \in Paths /\ Append(h.from, e[1]) # <<>>
            BY <4>4, PathFacts
          <6>2. tree[Append(h.from, e[1])] # "absent"
            BY <2>2, <4>2, <6>1, TreeFacts DEF FrameTrue, IsDir, IsFile
          <6> QED
            BY <2>2, <6>2
        <5> QED
          BY <2>2, <4>2, <4>4, <5>2, <5>3 DEF FrameTrue, IsDir, IsFile
      <4> QED
        BY <4>1, <4>2, <4>5, <4>6 DEF FrameTrue
    <3>5. \A i \in 1 .. n : i = n \/ (n = 2 /\ i = 1)
      BY <1>3
    <3>6. \A i \in 1 .. n : FrameTrue(tree', r.stack[i])
      BY <2>4, <3>3, <3>4, <3>5
    <3> QED
      BY <2>4, <3>6 DEF InStep
  <2>6. Effect(tree, tree', call[c].op) /\ data' \in [Inodes -> Texts \cup {Empty}] /\ raced' \in BOOLEAN /\ (raced => raced')
    BY <1>1, <1>3, <2>1 DEF Effect, FilesInv
  <2>7. fate' \in [Inodes -> {"free", "open", "stored", "deleted"}] /\ (~raced' => InStep(tree', r) /\ Named')
    BY <2>1, <2>2, <2>5 DEF FilesInv, RacedInv, Named
  <2>8. r.op \in {call[c].op, "none"} /\ call[c].pc = "moving" /\ UNCHANGED roots
    BY <1>1, <1>3, <2>1, <2>4
  <2> QED
    BY <2>1, <2>2, <2>4, <2>6, <2>7, <2>8, WorkKeeps
<1>5. CASE ~Free(tree, f.to)
  BY <1>1, <1>2, <1>5, FailStays DEF MakeTarget, Top
<1> QED
  BY <1>4, <1>5

\* The entries of a directory being moved are read, each with whether it is a
\* directory.
LEMMA ScanSourceKeeps ==
  ASSUME FilesInv, RacedInv, NEW c \in Callers, ScanSource(c)
  PROVE  FilesInv' /\ RacedInv'
<1>1. PICK k : k = call[c]
  OBVIOUS
<1>2. PICK n, f : n = Len(k.stack) /\ f = k.stack[n]
  OBVIOUS
<1>3. /\ CallOk(k) /\ k.pc = "moving" /\ k \in CallRecords /\ k.op = "rename" /\ n \in 1 .. 2 /\ f \in Frames /\ FrameOk(f)
      /\ f.phase = "scan" /\ f.from \in Paths /\ f.from \in Seq(Names) /\ (n = 2 => f.todo = {})
      /\ IsTree(tree) /\ SameTree
  <2>1. CallOk(k) /\ k.pc = "moving" /\ f.phase = "scan" /\ SameTree /\ IsTree(tree)
    BY <1>1, <1>2 DEF FilesInv, ScanSource, Moving, Top
  <2>2. k \in CallRecords /\ k.op = "rename" /\ n \in 1 .. 2 /\ f \in Frames /\ FrameOk(f) /\ (n = 2 => f.todo = {})
    BY <1>2, <2>1, TopFacts
  <2> QED
    BY <2>1, <2>2, PathFacts DEF FrameOk
<1> DEFINE s == {<<m, IsDir(tree, Append(f.from, m))>> : m \in Children(tree, f.from)}
           g == [f EXCEPT !.phase = "entries", !.todo = s]
           r == WithTop(k, g)
<1>4. CASE Put(c, r)
  <2>1. /\ \A e \in s : /\ e[1] \in Names /\ Append(f.from, e[1]) \in Paths
                        /\ IF e[2] THEN IsDir(tree, Append(f.from, e[1])) ELSE IsFile(tree, Append(f.from, e[1]))
        /\ \A e, h \in s : e[1] = h[1] => e = h
        /\ s \in SUBSET (Names \X BOOLEAN)
    <3>1. \A m \in Children(tree, f.from) : m \in Names /\ Exists(tree, Append(f.from, m)) /\ Append(f.from, m) # <<>>
      BY <1>3, EntryFacts DEF Children
    <3>2. \A m \in Children(tree, f.from) : Append(f.from, m) \in Paths
      BY <3>1 DEF Exists, IsDir, IsFile
    <3>3. \A p : IsDir(tree, p) \in BOOLEAN
      BY DEF IsDir
    <3>4. \A m \in Children(tree, f.from) : IsDir(tree, Append(f.from, m)) \/ IsFile(tree, Append(f.from, m))
      BY <3>1 DEF Exists
    <3>5. ASSUME NEW e \in s
          PROVE  \E m \in Children(tree, f.from) : e = <<m, IsDir(tree, Append(f.from, m))>>
      OBVIOUS
    <3>6. ASSUME NEW e \in s
          PROVE  /\ e[1] \in Children(tree, f.from) /\ e[2] = IsDir(tree, Append(f.from, e[1]))
                 /\ e = <<e[1], IsDir(tree, Append(f.from, e[1]))>>
      BY <3>5
    <3> HIDE DEF s
    <3>7. \A e, h \in s : e[1] = h[1] => e = h
      BY <3>6
    <3>8. s \in SUBSET (Names \X BOOLEAN)
      BY <3>1, <3>3, <3>6
    <3>9. \A e \in s : e[1] \in Names /\ Append(f.from, e[1]) \in Paths
      BY <3>1, <3>2, <3>6
    <3>10. \A e \in s : IF e[2] THEN IsDir(tree, Append(f.from, e[1])) ELSE IsFile(tree, Append(f.from, e[1]))
      BY <3>4, <3>6
    <3> QED
      BY <3>7, <3>8, <3>9, <3>10
  <2> HIDE DEF s
  <2>2. g \in Frames /\ g.from = f.from /\ g.to = f.to /\ g.todo = s /\ g.phase = "entries"
    BY <1>3, <2>1 DEF Frames, Phases
  <2>3. FrameOk(g)
    BY <1>3, <2>1, <2>2 DEF FrameOk
  <2> HIDE DEF g
  <2>4. /\ CallOk(r) /\ r.op = "rename" /\ r.pc = "moving" /\ Len(r.stack) = n /\ r.stack[n] = g
        /\ n = 2 => r.stack[1] = k.stack[1]
    BY <1>2, <1>3, <2>2, <2>3, TopSet
  <2> HIDE DEF r
  <2>5. ASSUME ~raced PROVE InStep(tree, r)
    <3>1. \A i \in 1 .. n : FrameTrue(tree, k.stack[i])
      BY <1>1, <1>2, <1>3, <2>5 DEF RacedInv, InStep
    <3>a. n \in 1 .. n /\ (n = 2 => 1 \in 1 .. n) /\ \A i \in 1 .. n : i = n \/ (n = 2 /\ i = 1)
      BY <1>3
    <3>2. FrameTrue(tree, f)
      BY <1>2, <3>1, <3>a
    <3>3. FrameTrue(tree, g)
      BY <1>3, <2>1, <2>2, <3>2 DEF FrameTrue
    <3>4. \A i \in 1 .. n : FrameTrue(tree, r.stack[i])
      BY <2>4, <3>1, <3>3, <3>a
    <3> QED
      BY <2>4, <3>4 DEF InStep
  <2>6. r.op \in {call[c].op, "none"} /\ call[c].pc = "moving"
    BY <1>1, <1>3, <2>4
  <2> QED
    BY <1>3, <1>4, <2>4, <2>5, <2>6, TreeStays
<1>5. CASE Answer(c, "error")
  BY <1>3, <1>5, AnswerStays
<1>6. Put(c, r) \/ Answer(c, "error")
  BY <1>1, <1>2 DEF ScanSource, Top, SetTop, WithTop
<1> QED
  BY <1>4, <1>5, <1>6

\* What a move's next entry is: where it is and where it goes.
LEMMA EntryPaths ==
  ASSUME NEW f \in Frames, FrameOk(f), NEW e \in f.todo
  PROVE  /\ e[1] \in Names /\ e[2] \in BOOLEAN /\ Append(f.from, e[1]) \in Paths
         /\ f.from \in Seq(Names) /\ f.to \in Seq(Names) /\ f.phase = "entries"
         /\ Parent(Append(f.from, e[1])) = f.from /\ Parent(Append(f.to, e[1])) = f.to
         /\ Append(f.from, e[1]) # f.from /\ Append(f.to, e[1]) # f.to
         /\ ~Below(Append(f.to, e[1]), Append(f.from, e[1]))
<1>1. e[1] \in Names /\ e[2] \in BOOLEAN /\ Append(f.from, e[1]) \in Paths /\ f.from \in Seq(Names) /\ f.to \in Seq(Names)
      /\ f.phase = "entries" /\ ~Below(f.to, f.from)
  BY DEF Frames, FrameOk
<1>2. /\ Parent(Append(f.from, e[1])) = f.from /\ Parent(Append(f.to, e[1])) = f.to
      /\ Append(f.from, e[1]) # f.from /\ Append(f.to, e[1]) # f.to
  BY <1>1, EntryFacts
<1>3. ~Below(Append(f.to, e[1]), Append(f.from, e[1]))
  BY <1>1, <1>2 DEF Below
<1> QED
  BY <1>1, <1>2, <1>3

\* An entry is taken from those to do.
LEMMA EntryTaken ==
  ASSUME NEW k, CallOk(k), k.pc = "moving", NEW f, f = TopOf(k), NEW e \in f.todo
  PROVE  /\ Len(k.stack) = 1 /\ f \in Frames /\ FrameOk(f) /\ k \in CallRecords /\ k.op = "rename"
         /\ Without(f, e) \in Frames /\ Without(f, e).from = f.from /\ Without(f, e).to = f.to
         /\ Without(f, e).phase = "entries" /\ Without(f, e).todo = f.todo \ {e}
         /\ CallOk(WithTop(k, Without(f, e))) /\ WithTop(k, Without(f, e)).op = "rename"
         /\ WithTop(k, Without(f, e)).pc = "moving" /\ Len(WithTop(k, Without(f, e)).stack) = 1
         /\ WithTop(k, Without(f, e)).stack[1] = Without(f, e)
<1> DEFINE g == Without(f, e)
<1>1. Len(k.stack) = 1 /\ f \in Frames /\ FrameOk(f) /\ k \in CallRecords /\ k.op = "rename"
  BY TopFacts DEF TopOf
<1>2. g \in Frames /\ g.from = f.from /\ g.to = f.to /\ g.phase = "entries" /\ g.todo = f.todo \ {e}
  BY <1>1, EntryPaths DEF Frames, Without
<1> HIDE DEF g
<1>3. FrameOk(g)
  BY <1>1, <1>2 DEF FrameOk
<1>4. g.from = k.stack[Len(k.stack)].from /\ g.to = k.stack[Len(k.stack)].to
  BY <1>2 DEF TopOf
<1>5. /\ CallOk(WithTop(k, g)) /\ WithTop(k, g).op = k.op /\ WithTop(k, g).pc = "moving"
      /\ Len(WithTop(k, g).stack) = Len(k.stack) /\ WithTop(k, g).stack[Len(k.stack)] = g
  BY <1>2, <1>3, <1>4, TopSet
<1> QED
  BY <1>1, <1>2, <1>5 DEF g

\* Two entries go from and to different places.
LEMMA EntriesApart ==
  ASSUME NEW f \in Frames, FrameOk(f), NEW e \in f.todo, NEW d \in f.todo, d # e
  PROVE  /\ d[1] \in Names /\ d[1] # e[1] /\ Append(f.from, d[1]) \in Paths
         /\ Append(f.from, d[1]) # Append(f.from, e[1]) /\ Append(f.to, d[1]) # Append(f.to, e[1])
<1>1. d[1] \in Names /\ e[1] \in Names /\ d[1] # e[1] /\ Append(f.from, d[1]) \in Paths
  BY DEF FrameOk, Frames
<1>2. f.from \in Seq(Names) /\ f.to \in Seq(Names)
  BY DEF Frames
<1> QED
  BY <1>1, <1>2, EntryInjective

\* A directory inside the directory is entered.
LEMMA EnterKeeps ==
  ASSUME FilesInv, RacedInv, NEW c \in Callers, NEW k, k = call[c], k.pc = "moving",
         NEW f, f = TopOf(k), NEW e \in f.todo, e[2], SameTree,
         Put(c, WithFrame(WithTop(k, Without(f, e)), Frame(Append(f.from, e[1]), Append(f.to, e[1]))))
  PROVE  FilesInv' /\ RacedInv'
<1> DEFINE p == Append(f.from, e[1])
           q == Append(f.to, e[1])
           h == Frame(p, q)
           g == Without(f, e)
           m == WithTop(k, g)
           r == WithFrame(m, h)
<1>0. Put(c, r)
  OBVIOUS
<1>1. CallOk(k)
  BY DEF FilesInv
<1>2. /\ Len(k.stack) = 1 /\ f \in Frames /\ FrameOk(f) /\ k \in CallRecords /\ k.op = "rename"
      /\ g \in Frames /\ g.from = f.from /\ g.to = f.to /\ g.phase = "entries" /\ g.todo = f.todo \ {e}
      /\ CallOk(m) /\ m.op = "rename" /\ m.pc = "moving" /\ Len(m.stack) = 1 /\ m.stack[1] = g
  BY <1>1, EntryTaken
<1> HIDE DEF m, g
<1>3. /\ e[1] \in Names /\ p \in Paths /\ f.from \in Seq(Names) /\ f.to \in Seq(Names) /\ f.phase = "entries" /\ ~Below(q, p)
  BY <1>2, EntryPaths
<1>4. p \in Seq(Names) /\ q \in Seq(Names)
  BY <1>3, AppendPath
<1>6. h \in Frames /\ h.from = p /\ h.to = q /\ h.todo = {} /\ h.phase = "make" /\ FrameOk(h)
  BY <1>3, <1>4 DEF Frame, Frames, FrameOk, Phases
<1>7. Inside(h, g)
  <2>1. \A d \in g.todo : d[1] # e[1]
    BY <1>2 DEF FrameOk
  <2> QED
    <3>1. h.from = Append(g.from, e[1]) /\ h.to = Append(g.to, e[1])
      BY <1>2, <1>6
    <3> QED
      BY <1>3, <2>1, <3>1 DEF Inside
<1> HIDE DEF h
<1>8. CallOk(r) /\ r.op = "rename" /\ r.pc = "moving" /\ Len(r.stack) = 2 /\ r.stack[1] = g /\ r.stack[2] = h
  <2>1. m.stack[1].phase = "entries" /\ Inside(h, m.stack[1])
    BY <1>2, <1>7
  <2>2. CallOk(r) /\ r.op = m.op /\ r.pc = "moving" /\ Len(r.stack) = 2 /\ r.stack[1] = m.stack[1] /\ r.stack[2] = h
    BY <1>2, <1>6, <2>1, Pushed
  <2> QED
    BY <1>2, <2>2
<1> HIDE DEF r
<1>9. ASSUME ~raced PROVE InStep(tree, r)
  <2>1. FrameTrue(tree, f)
    <3>1. \A i \in 1 .. Len(k.stack) : FrameTrue(tree, k.stack[i])
      BY <1>9 DEF RacedInv, InStep
    <3> QED
      BY <1>2, <3>1 DEF TopOf
  <2>2. FrameTrue(tree, g)
    BY <1>2, <2>1 DEF FrameTrue
  <2>3. IsDir(tree, p) /\ p # <<>>
    BY <1>3, <2>1, PathFacts DEF FrameTrue
  <2>4. FrameTrue(tree, h)
    BY <1>6, <2>3 DEF FrameTrue, IsDir
  <2>5. \A i \in 1 .. 2 : i = 1 \/ i = 2
    OBVIOUS
  <2> QED
    BY <1>8, <2>2, <2>4, <2>5 DEF InStep
<1>10. r.op \in {call[c].op, "none"} /\ call[c].pc = "moving"
  BY <1>2, <1>8
<1> QED
  BY <1>0, <1>8, <1>9, <1>10, TreeStays

\* An entry that is a file goes to its new directory.
LEMMA MoveFileKeeps ==
  ASSUME FilesInv, RacedInv, NEW c \in Callers, NEW k, k = call[c], k.pc = "moving",
         NEW f, f = TopOf(k), NEW e \in f.todo, ~e[2],
         Exists(tree, Append(f.from, e[1])), Append(f.to, e[1]) \in Paths, IsDir(tree, Parent(Append(f.to, e[1]))),
         ~IsDir(tree, Append(f.to, e[1])), tree' = Moved(tree, Append(f.from, e[1]), Append(f.to, e[1])),
         Put(c, WithTop(k, Without(f, e))),
         UNCHANGED <<roots, data, fate, raced>>
  PROVE  FilesInv' /\ RacedInv'
<1> DEFINE p == Append(f.from, e[1])
           q == Append(f.to, e[1])
           g == Without(f, e)
           r == WithTop(k, g)
<1>0. Put(c, r)
  OBVIOUS
<1>1. CallOk(k) /\ IsTree(tree)
  BY DEF FilesInv
<1>2. /\ Len(k.stack) = 1 /\ f \in Frames /\ FrameOk(f) /\ k \in CallRecords /\ k.op = "rename"
      /\ g \in Frames /\ g.from = f.from /\ g.to = f.to /\ g.phase = "entries" /\ g.todo = f.todo \ {e}
      /\ CallOk(r) /\ r.op = "rename" /\ r.pc = "moving" /\ Len(r.stack) = 1 /\ r.stack[1] = g
  BY <1>1, EntryTaken
<1>3. /\ e[1] \in Names /\ p \in Paths /\ f.from \in Seq(Names) /\ f.to \in Seq(Names) /\ ~Below(q, p)
      /\ p # f.from /\ f.from \in Paths
  BY <1>2, EntryPaths DEF FrameOk
<1>4. tree' = Moved(tree, p, q) /\ Exists(tree, p) /\ q \in Paths /\ IsDir(tree, Parent(q)) /\ ~IsDir(tree, q)
  OBVIOUS
<1>5. \A d \in g.todo : /\ d[1] \in Names /\ d[1] # e[1] /\ Append(f.from, d[1]) \in Paths /\ d \in f.todo
                        /\ Append(f.from, d[1]) # p /\ Append(f.to, d[1]) # q
  <2>1. ASSUME NEW d \in g.todo PROVE d \in f.todo /\ d # e
    BY <1>2
  <2> QED
    BY <1>2, <2>1, EntriesApart
<1> HIDE DEF p, q, g, r
<1>6. IsTree(tree')
  BY <1>1, <1>3, <1>4, MovedTree
<1>7. ASSUME ~raced PROVE InStep(tree', r) /\ Named'
  <2>1. FrameTrue(tree, f)
    <3>1. \A i \in 1 .. Len(k.stack) : FrameTrue(tree, k.stack[i])
      BY <1>7 DEF RacedInv, InStep
    <3> QED
      BY <1>2, <3>1 DEF TopOf
  <2>2. tree[p] \in Inodes /\ ~Exists(tree, q)
    BY <1>3, <2>1 DEF FrameTrue, IsFile, p, q
  <2>3. tree[q] = "absent" /\ tree \in Trees /\ "dir" \notin Inodes /\ "absent" \notin Inodes
    BY <1>1, <1>4, <2>2, TreeFacts
  <2>4. tree' = [tree EXCEPT ![p] = "absent", ![q] = tree[p]]
    BY <1>1, <1>3, <1>4, <2>2, <2>3, FileMoved
  <2>5. p # q
    BY <2>2, <2>3
  <2>6. tree'[p] = "absent" /\ tree'[q] = tree[p] /\ \A s \in Paths : s # p /\ s # q => tree'[s] = tree[s]
    BY <1>3, <1>4, <2>3, <2>4, <2>5 DEF Trees
  <2>7. FrameTrue(tree', g)
    <3>1. tree'[f.from] = "dir"
      BY <1>3, <2>1, <2>3, <2>6 DEF FrameTrue
    <3>2. ASSUME NEW d \in g.todo
          PROVE  /\ ~Exists(tree', Append(f.to, d[1]))
                 /\ IF d[2] THEN IsDir(tree', Append(f.from, d[1])) ELSE IsFile(tree', Append(f.from, d[1]))
      <4>1. PICK x, y : x = Append(f.from, d[1]) /\ y = Append(f.to, d[1])
        OBVIOUS
      <4>2. x \in Paths /\ x # p /\ y # q /\ ~Exists(tree, y) /\ IF d[2] THEN IsDir(tree, x) ELSE IsFile(tree, x)
        BY <1>5, <2>1, <4>1 DEF FrameTrue
      <4>3. y # <<>> /\ (y \in Paths => tree[y] = "absent")
        BY <1>1, <4>2, TreeFacts DEF Exists, IsDir
      <4>4. y \in Paths => tree'[y] = "absent"
        BY <2>6, <4>2, <4>3
      <4>5. ~Exists(tree', y)
        BY <2>3, <4>3, <4>4 DEF Exists, IsDir, IsFile
      <4>6. x # <<>> /\ x # q
        BY <2>3, <4>2, PathFacts DEF IsDir, IsFile
      <4>7. tree'[x] = tree[x]
        BY <2>6, <4>2, <4>6
      <4> QED
        BY <4>1, <4>2, <4>5, <4>7 DEF IsDir, IsFile
    <3> QED
      BY <1>2, <3>1, <3>2 DEF FrameTrue
  <2>8. \A i \in 1 .. 1 : i = 1
    OBVIOUS
  <2>9. InStep(tree', r)
    BY <1>2, <2>7, <2>8 DEF InStep
  <2>10. ASSUME NEW h \in Inodes, fate[h] \in {"open", "stored"} PROVE \E s \in Paths : tree'[s] = h
    <3>1. PICK s \in Paths : tree[s] = h
      BY <1>7, <2>10 DEF RacedInv, Named
    <3>2. s # q
      BY <2>3, <3>1
    <3> QED
      BY <1>4, <2>6, <3>1, <3>2
  <2>11. Named'
    BY <2>10 DEF Named
  <2> QED
    BY <2>9, <2>11
<1>8. Effect(tree, tree', call[c].op) /\ data' \in [Inodes -> Texts \cup {Empty}] /\ raced' \in BOOLEAN /\ (raced => raced')
  BY <1>2 DEF Effect, FilesInv
<1>9. fate' \in [Inodes -> {"free", "open", "stored", "deleted"}]
  BY DEF FilesInv
<1>10. r.op \in {call[c].op, "none"} /\ call[c].pc = "moving" /\ UNCHANGED roots
  BY <1>2
<1> QED
  BY <1>0, <1>2, <1>6, <1>7, <1>8, <1>9, <1>10, WorkKeeps

\* What MoveEntry does, entry by entry.
LEMMA MoveEntrySplit ==
  ASSUME NEW c \in Callers, NEW k, k = call[c], NEW f, f = TopOf(k), MoveEntry(c)
  PROVE  /\ k.pc = "moving" /\ f.phase = "entries"
         /\ \E e \in f.todo :
              LET m == WithTop(k, Without(f, e))
                  p == Append(f.from, e[1])
                  q == Append(f.to, e[1])
              IN  \/ e[2] /\ SameTree /\ Put(c, WithFrame(m, Frame(p, q)))
                  \/ /\ ~e[2] /\ Exists(tree, p) /\ q \in Paths /\ IsDir(tree, Parent(q)) /\ ~IsDir(tree, q)
                     /\ tree' = Moved(tree, p, q) /\ Put(c, m)
                     /\ UNCHANGED <<roots, data, fate, raced>>
                  \/ /\ ~e[2] /\ ~(Exists(tree, p) /\ q \in Paths /\ IsDir(tree, Parent(q)) /\ ~IsDir(tree, q))
                     /\ Fails(c)
<1>1. k.pc = "moving" /\ f.phase = "entries" /\ f.todo # {}
  BY DEF MoveEntry, Moving, Top, TopOf
<1> DEFINE e == CHOOSE e \in f.todo : TRUE
           m == WithTop(k, Without(f, e))
           p == Append(f.from, e[1])
           q == Append(f.to, e[1])
<1>2. e \in f.todo
  BY <1>1
<1>3. IF e[2] THEN Put(c, WithFrame(m, Frame(p, q))) /\ SameTree
      ELSE IF Exists(tree, p) /\ q \in Paths /\ IsDir(tree, Parent(q)) /\ ~IsDir(tree, q)
      THEN tree' = Moved(tree, p, q) /\ Put(c, m) /\ UNCHANGED <<data, fate, raced>> /\ NoFaults
      ELSE Fails(c)
  BY DEF MoveEntry, Top, SetTop, TopOf, WithTop, WithFrame, Without
<1>4. NoFaults => UNCHANGED roots
  BY DEF NoFaults
<1> QED
  BY <1>1, <1>2, <1>3, <1>4

\* An entry is entered or moved.
LEMMA MoveEntryKeeps ==
  ASSUME FilesInv, RacedInv, NEW c \in Callers, MoveEntry(c)
  PROVE  FilesInv' /\ RacedInv'
<1>1. PICK k : k = call[c]
  OBVIOUS
<1>2. PICK f : f = TopOf(k)
  OBVIOUS
<1>3. k.pc = "moving"
  BY <1>1, <1>2, MoveEntrySplit
<1>4. CASE Fails(c)
  BY <1>4, FailStays
<1>5. ASSUME NEW e \in f.todo, e[2], SameTree,
             Put(c, WithFrame(WithTop(k, Without(f, e)), Frame(Append(f.from, e[1]), Append(f.to, e[1]))))
      PROVE  FilesInv' /\ RacedInv'
  BY <1>1, <1>2, <1>3, <1>5, EnterKeeps
<1>6. ASSUME NEW e \in f.todo, ~e[2],
             Exists(tree, Append(f.from, e[1])), Append(f.to, e[1]) \in Paths, IsDir(tree, Parent(Append(f.to, e[1]))),
             ~IsDir(tree, Append(f.to, e[1])), tree' = Moved(tree, Append(f.from, e[1]), Append(f.to, e[1])),
             Put(c, WithTop(k, Without(f, e))),
             UNCHANGED <<roots, data, fate, raced>>
      PROVE  FilesInv' /\ RacedInv'
  BY <1>1, <1>2, <1>3, <1>6, MoveFileKeeps
<1> QED
  BY <1>1, <1>2, <1>4, <1>5, <1>6, MoveEntrySplit

\* An emptied directory goes, and with it its move.
LEMMA RemoveSourceKeeps ==
  ASSUME FilesInv, RacedInv, NEW c \in Callers, RemoveSource(c)
  PROVE  FilesInv' /\ RacedInv'
<1>1. PICK k : k = call[c]
  OBVIOUS
<1>2. PICK n, f : n = Len(k.stack) /\ f = k.stack[n]
  OBVIOUS
<1>3. /\ CallOk(k) /\ k.pc = "moving" /\ k \in CallRecords /\ k.op = "rename" /\ n \in 1 .. 2 /\ f \in Frames /\ FrameOk(f)
      /\ f.from \in Paths /\ f.from # <<>> /\ IsTree(tree) /\ (n = 1 \/ n = 2)
  <2>1. CallOk(k) /\ k.pc = "moving" /\ IsTree(tree)
    BY <1>1, <1>2 DEF FilesInv, RemoveSource, Moving, Top
  <2>2. k \in CallRecords /\ k.op = "rename" /\ n \in 1 .. 2 /\ f \in Frames /\ FrameOk(f) /\ (n = 1 \/ n = 2)
    BY <1>2, <2>1, TopFacts
  <2> QED
    BY <2>1, <2>2, PathFacts DEF FrameOk
<1>4. CASE IsDir(tree, f.from) /\ Children(tree, f.from) = {}
  <2>1. /\ tree' = [tree EXCEPT ![f.from] = "absent"] /\ UNCHANGED <<roots, data, fate, raced>> /\ tree[f.from] = "dir"
        /\ IF n = 1 THEN Answer(c, "ok") ELSE Put(c, WithoutTop(k))
    BY <1>1, <1>2, <1>3, <1>4 DEF RemoveSource, NoFaults, Top, IsDir, WithoutTop
  <2>2. tree[f.from] \notin Inodes /\ tree \in Trees /\ "absent" \notin Inodes
    BY <1>3, <2>1, TreeFacts
  <2>3. fate' \in [Inodes -> {"free", "open", "stored", "deleted"}] /\ \A h \in Inodes : fate[h] = fate'[h]
    BY <2>1 DEF FilesInv
  <2>4. CASE n = 1
    BY <1>1, <1>3, <1>4, <2>1, <2>2, <2>3, <2>4, PruneKeeps
  <2>5. CASE n = 2
    <3> DEFINE r == WithoutTop(k)
    <3>1. CallOk(r) /\ r.op = "rename" /\ r.pc = "moving" /\ Len(r.stack) = 1 /\ r.stack[1] = k.stack[1]
      BY <1>2, <1>3, <2>5, Popped
    <3>2. Put(c, r)
      BY <2>1, <2>5
    <3> HIDE DEF r
    <3>3. IsTree(tree')
      BY <1>3, <1>4, <2>1, PrunedTree
    <3>4. tree'[f.from] = "absent" /\ \A q \in Paths : q # f.from => tree'[q] = tree[q]
      BY <1>3, <2>1, <2>2 DEF Trees
    <3>5. ASSUME ~raced PROVE InStep(tree', r)
      <4>1. PICK h : h = k.stack[1]
        OBVIOUS
      <4>2. h \in Frames /\ FrameOk(h) /\ h.phase = "entries" /\ Inside(f, h)
        BY <1>2, <1>3, <2>5, <4>1, TopFacts
      <4>3. FrameTrue(tree, h)
        <5>1. \A i \in 1 .. 2 : FrameTrue(tree, k.stack[i])
          BY <1>1, <1>2, <1>3, <2>5, <3>5 DEF RacedInv, InStep
        <5>2. 1 \in 1 .. 2
          OBVIOUS
        <5> QED
          BY <4>1, <5>1, <5>2
      <4>4. PICK x \in Names : f.from = Append(h.from, x) /\ \A e \in h.todo : e[1] # x
        BY <4>2 DEF Inside
      <4>5. h.from \in Paths /\ h.from \in Seq(Names) /\ \A e \in h.todo : e[1] \in Names /\ Append(h.from, e[1]) \in Paths
        BY <4>2 DEF Frames, FrameOk
      <4>6. h.from # f.from
        BY <4>4, <4>5, EntryFacts
      <4>7. ASSUME NEW e \in h.todo
            PROVE  /\ ~Exists(tree', Append(h.to, e[1]))
                   /\ IF e[2] THEN IsDir(tree', Append(h.from, e[1])) ELSE IsFile(tree', Append(h.from, e[1]))
        <5>1. Append(h.from, e[1]) # f.from
          BY <4>4, <4>5, EntryInjective
        <5>2. PICK y : y = Append(h.to, e[1])
          OBVIOUS
        <5>3. y # <<>> /\ (y \in Paths => tree[y] = "absent")
          <6>1. ~Exists(tree, y)
            BY <4>3, <5>2 DEF FrameTrue
          <6> QED
            BY <1>3, <6>1, TreeFacts DEF Exists, IsDir
        <5>4. y \in Paths => tree'[y] = "absent"
          BY <3>4, <5>3
        <5>5. ~Exists(tree', y)
          BY <3>3, <5>3, <5>4, TreeFacts DEF Exists, IsDir, IsFile
        <5> QED
          BY <3>4, <4>3, <4>5, <5>1, <5>2, <5>5 DEF FrameTrue, IsDir, IsFile
      <4>8. FrameTrue(tree', h)
        BY <3>4, <4>2, <4>3, <4>5, <4>6, <4>7 DEF FrameTrue
      <4>9. \A i \in 1 .. 1 : i = 1
        OBVIOUS
      <4> QED
        BY <3>1, <4>1, <4>8, <4>9 DEF InStep
    <3>6. ASSUME ~raced PROVE Named'
      <4>1. ASSUME NEW h \in Inodes, fate'[h] \in {"open", "stored"} PROVE \E s \in Paths : tree'[s] = h
        <5>1. PICK s \in Paths : tree[s] = h
          BY <2>3, <3>6, <4>1 DEF RacedInv, Named
        <5> QED
          BY <2>2, <3>4, <5>1
      <4> QED
        BY <4>1 DEF Named
    <3>7. Effect(tree, tree', call[c].op) /\ data' \in [Inodes -> Texts \cup {Empty}] /\ raced' \in BOOLEAN /\ (raced => raced')
      BY <1>1, <1>3, <2>1 DEF Effect, FilesInv
    <3>8. r.op \in {call[c].op, "none"} /\ call[c].pc = "moving" /\ UNCHANGED roots /\ (~raced' => InStep(tree', r) /\ Named')
      BY <1>1, <1>3, <2>1, <3>1, <3>5, <3>6
    <3> QED
      BY <2>3, <3>1, <3>2, <3>3, <3>7, <3>8, WorkKeeps
  <2> QED
    BY <1>3, <2>4, <2>5
<1>5. CASE ~(IsDir(tree, f.from) /\ Children(tree, f.from) = {})
  BY <1>1, <1>2, <1>5, FailStays DEF RemoveSource, Top
<1> QED
  BY <1>4, <1>5

\* A call that passed its checks.
NewCall(root, op, rel, torel, text, lone) ==
  [Idle("none") EXCEPT
     !.op = op, !.pc = FirstStep(op), !.path = root.path \o rel,
     !.to = IF op = "rename" THEN root.path \o torel ELSE <<>>,
     !.text = text, !.alone = lone, !.before = IF lone THEN tree ELSE <<>>]

\* A call admitted is one at its first system call.
LEMMA NewCallOk ==
  ASSUME FilesInv, NEW root \in roots, NEW op \in Ops, NEW rel \in Seq(Names), NEW torel \in Seq(Names),
         NEW text \in Texts, NEW lone \in BOOLEAN, Admits(root, op, rel, torel),
         op = "rename" => Fits(root, torel)
  PROVE  /\ CallOk(NewCall(root, op, rel, torel, text, lone)) /\ NewCall(root, op, rel, torel, text, lone).op = op
         /\ NewCall(root, op, rel, torel, text, lone).pc \notin {"moving", "unlink"}
<1>1. root.path \in Seq(Names) /\ tree \in Trees
  BY TreeFacts DEF FilesInv
<1> DEFINE p == root.path \o rel
           q == root.path \o torel
           x == FirstStep(op)
           r == NewCall(root, op, rel, torel, text, lone)
<1>2. p \in Seq(Names) /\ q \in Seq(Names) /\ Len(p) = Len(root.path) + Len(rel) /\ Len(q) = Len(root.path) + Len(torel)
  BY <1>1, ConcatProperties
<1>3. op # "list" => p # <<>>
  <2>1. op # "list" => rel # <<>>
    BY DEF Admits, ResolvesExisting, ResolvesForCreate
  <2>2. rel # <<>> => Len(rel) > 0
    OBVIOUS
  <2>3. Len(root.path) \in Nat /\ Len(rel) \in Nat
    BY <1>1
  <2>4. rel # <<>> => Len(p) # 0
    BY <1>2, <2>2, <2>3
  <2> QED
    BY <1>2, <2>1, <2>4, EmptySeq
<1>4. op = "rename" => q \in Paths
  <2>1. op = "rename" => torel # <<>> /\ Len(q) <= 2
    BY DEF Admits, ResolvesForCreate, Fits, Depth
  <2>2. torel # <<>> => Len(torel) > 0
    OBVIOUS
  <2>3. Len(root.path) \in Nat /\ Len(torel) \in Nat
    BY <1>1
  <2>4. op = "rename" => Len(q) \in 1 .. 2
    BY <1>2, <2>1, <2>2, <2>3
  <2> QED
    BY <1>2, <2>4, PathForm
<1>5. /\ x \in {"scan", "new", "truncate", "read", "mkdir", "stat"}
      /\ x = "scan" => op = "list"
      /\ x = "new" => op \in {"create", "upload"}
      /\ x = "truncate" => op = "edit"
      /\ x = "mkdir" => op = "mkdir"
      /\ x = "read" => op = "read"
      /\ x = "stat" => op \in {"rename", "delete", "ticket", "download"}
  BY DEF FirstStep, Ops
<1>0. r = [Idle("none") EXCEPT !.op = op, !.pc = x, !.path = p, !.to = IF op = "rename" THEN q ELSE <<>>,
                               !.text = text, !.alone = lone, !.before = IF lone THEN tree ELSE <<>>]
  BY DEF NewCall
<1> HIDE DEF p, q, x, r
<1>6. CallOk(Idle("none")) /\ Idle("none") \in CallRecords
  BY IdleOk DEF CallOk
<1>7. <<>> \in Seq(Names) /\ x \in Places
  BY <1>5 DEF Places
<1>8. r \in CallRecords /\ r.op = op /\ r.pc = x /\ r.path = p /\ (op = "rename" => r.to = q)
  <2>1. PICK t, b : t = (IF op = "rename" THEN q ELSE <<>>) /\ b = (IF lone THEN tree ELSE <<>>)
    OBVIOUS
  <2>2. t \in Seq(Names) /\ b \in {<<>>} \cup Trees /\ (op = "rename" => t = q)
    BY <1>1, <1>2, <1>7, <2>1
  <2>3. PICK k \in CallRecords : k = Idle("none")
    BY <1>6
  <2>4. r = [k EXCEPT !.op = op, !.pc = x, !.path = p, !.to = t, !.text = text, !.alone = lone, !.before = b]
    BY <1>0, <2>1, <2>3
  <2> QED
    BY <1>2, <1>7, <2>2, <2>3, <2>4 DEF CallRecords
<1>9. AtItsPlace(r)
  BY <1>3, <1>4, <1>5, <1>8 DEF AtItsPlace, Ops
<1>10. CallOk(r) /\ r.op = op /\ r.pc \notin {"moving", "unlink"}
  BY <1>5, <1>8, <1>9 DEF CallOk
<1> QED
  BY <1>10 DEF r

\* A call that is no longer alone is what it was.
LEMMA NoLongerAlone ==
  ASSUME NEW k, CallOk(k)
  PROVE  LET r == [k EXCEPT !.alone = FALSE, !.before = <<>>]
         IN  /\ CallOk(r) /\ r.op = k.op /\ r.pc = k.pc
             /\ \A t : InStep(t, k) => InStep(t, r)
<1> DEFINE r == [k EXCEPT !.alone = FALSE, !.before = <<>>]
<1>1. k \in CallRecords
  BY DEF CallOk
<1>2. r \in CallRecords /\ r.op = k.op /\ r.pc = k.pc /\ r.path = k.path /\ r.to = k.to /\ r.stack = k.stack /\ r.file = k.file
  BY <1>1 DEF CallRecords
<1> HIDE DEF r
<1>3. CallOk(r)
  BY <1>2 DEF CallOk, AtItsPlace, StackOk
<1>4. \A t : InStep(t, k) => InStep(t, r)
  BY <1>2 DEF InStep, Linked
<1> QED
  BY <1>2, <1>3, <1>4 DEF r

\* A call, admitted or refused.
LEMMA CallKeeps ==
  ASSUME FilesInv, RacedInv, NEW c \in Callers, NEW root \in roots, NEW op \in Ops, NEW rel \in Seq(Names),
         NEW torel \in Seq(Names), NEW text \in Texts, op = "rename" => Fits(root, torel),
         Call(c, root, op, rel, torel, text)
  PROVE  FilesInv' /\ RacedInv'
<1> DEFINE others == {d \in Callers \ {c} : Busy(d)}
           lone == others = {}
           r == NewCall(root, op, rel, torel, text, lone)
           cut(k) == [k EXCEPT !.alone = FALSE, !.before = <<>>]
           admitted == Admits(root, op, rel, torel)
<1>1. /\ UNCHANGED <<roots, tree, data, fate>>
      /\ call' = [d \in Callers |->
                    IF d = c THEN IF admitted THEN r ELSE Idle("refused")
                    ELSE IF admitted /\ Busy(d) THEN cut(call[d]) ELSE IF Busy(d) THEN call[d] ELSE Idle("none")]
      /\ raced' = \/ raced
                  \/ \E d \in others : Rivals(op, call[d].op) \/ (Moving(d) /\ Creates(op))
  BY DEF Call, NewCall
<1>2. lone \in BOOLEAN
  OBVIOUS
<1>3. admitted => CallOk(r) /\ r.op = op /\ r.pc \notin {"moving", "unlink"}
  <2> HIDE DEF lone, others
  <2>1. admitted => CallOk(r)
    BY <1>2, NewCallOk
  <2>2. admitted => r.op = op
    BY <1>2, NewCallOk
  <2>3. admitted => r.pc \notin {"moving", "unlink"}
    BY <1>2, NewCallOk
  <2> QED
    BY <2>1, <2>2, <2>3
<1>4. \A d \in Callers : /\ CallOk(call[d])
                         /\ CallOk(cut(call[d])) /\ cut(call[d]).op = call[d].op /\ cut(call[d]).pc = call[d].pc
                         /\ \A t : InStep(t, call[d]) => InStep(t, cut(call[d]))
  BY NoLongerAlone DEF FilesInv
<1>5. \A a \in {"none", "refused"} : CallOk(Idle(a)) /\ Idle(a).op = "none" /\ Idle(a).pc = "idle"
  BY IdleOk
<1> HIDE DEF r, cut, admitted, lone
<1>6. /\ \A d \in Callers : d # c => \/ call'[d] = Idle("none")
                                     \/ Busy(d) /\ (call'[d] = call[d] \/ call'[d] = cut(call[d]))
      /\ call'[c] = Idle("refused") \/ (admitted /\ call'[c] = r)
  BY <1>1
<1>7. /\ \A d \in Callers : d # c => /\ CallOk(call'[d])
                                     /\ \/ call'[d].op = "none" /\ call'[d].pc = "idle"
                                        \/ Busy(d) /\ call'[d].op = call[d].op /\ call'[d].pc = call[d].pc
      /\ CallOk(call'[c]) /\ call'[c].op \in {op, "none"} /\ call'[c].pc \notin {"moving", "unlink"}
  BY <1>3, <1>4, <1>5, <1>6
<1>8. raced' \in BOOLEAN
  BY <1>1 DEF FilesInv
<1>9. \A d \in Callers : CallOk(call'[d]) /\ call'[d] \in CallRecords
  BY <1>7 DEF CallOk
<1>10. FilesInv'
  BY <1>1, <1>8, <1>9 DEF FilesInv
<1>11. ASSUME ~raced', NEW a \in Callers, NEW b \in Callers, a # b PROVE Friends(call'[a], call'[b])
  <2>1. ~raced /\ \A d \in Callers : d # c /\ Busy(d) => ~Rivals(op, call[d].op) /\ ~(call[d].pc = "moving" /\ Creates(op))
    BY <1>1, <1>11 DEF Moving
  <2>2. Friends(call[a], call[b])
    BY <1>11, <2>1 DEF RacedInv
  <2>3. CASE a # c /\ b # c
    BY <1>7, <2>2, <2>3 DEF Friends, Rivals, Creates
  <2>4. CASE a = c
    BY <1>7, <1>11, <2>1, <2>4 DEF Friends, Rivals, Creates
  <2>5. CASE b = c
    BY <1>7, <1>11, <2>1, <2>5 DEF Friends, Rivals, Creates
  <2> QED
    BY <2>3, <2>4, <2>5
<1>12. ASSUME ~raced', NEW d \in Callers PROVE InStep(tree', call'[d])
  <2>1. InStep(tree, call[d])
    BY <1>1, <1>12 DEF RacedInv
  <2>2. CASE call'[d].pc \notin {"moving", "unlink"}
    BY <2>2 DEF InStep
  <2>3. CASE call'[d].pc \in {"moving", "unlink"}
    BY <1>1, <1>4, <1>5, <1>6, <1>7, <2>1, <2>3
  <2> QED
    BY <2>2, <2>3
<1>13. RacedInv'
  BY <1>1, <1>11, <1>12 DEF RacedInv, Named
<1> QED
  BY <1>10, <1>13

\* A call, whatever it is.
LEMMA CallsKeep ==
  ASSUME FilesInv, RacedInv, NEW c \in Callers, Calls(c)
  PROVE  FilesInv' /\ RacedInv'
<1>1. Rels \subseteq Seq(Names) /\ <<>> \in Seq(Names)
  BY FilesAssumption
<1>2. ASSUME NEW root \in roots, NEW rel \in Rels, NEW op \in Ops \ {"rename"}, NEW x \in Texts,
             Call(c, root, op, rel, <<>>, x)
      PROVE  FilesInv' /\ RacedInv'
  BY <1>1, <1>2, CallKeeps
<1>3. ASSUME NEW root \in roots, NEW rel \in Rels, NEW torel \in Rels, NEW x \in Texts, Fits(root, torel),
             Call(c, root, "rename", rel, torel, x)
      PROVE  FilesInv' /\ RacedInv'
  <2>1. "rename" \in Ops
    BY DEF Ops
  <2> QED
    BY <1>1, <1>3, <2>1, CallKeeps
<1> QED
  BY <1>2, <1>3 DEF Calls

\* The service's start.
LEMMA FilesStart ==
  ASSUME FilesInit
  PROVE  FilesInv /\ RacedInv
<1>1. IsTree(tree) /\ tree \in Trees /\ "dir" \notin Inodes /\ "absent" \notin Inodes
  <2>1. IsTree(tree)
    BY SeedsAssumption DEF FilesInit
  <2> QED
    BY <2>1, TreeFacts
<1>2. call = [c \in Callers |-> Idle("none")] /\ raced = FALSE
  BY DEF FilesInit
<1>3. CallOk(Idle("none")) /\ Idle("none") \in CallRecords /\ Idle("none").op = "none" /\ Idle("none").pc = "idle"
  BY IdleOk DEF CallOk
<1>4. /\ data \in [Inodes -> Texts \cup {Empty}] /\ fate \in [Inodes -> {"free", "open", "stored", "deleted"}]
      /\ \A f \in Inodes : fate[f] # "free" => \E p \in Paths : tree[p] = f
  <2>1. (CHOOSE x \in Texts : TRUE) \in Texts
    BY FilesAssumption
  <2> QED
    BY <2>1 DEF FilesInit
<1>5. \A root \in roots : root.path \in Seq(Names)
  <2>1. PICK cfg \in Configs : FromManifest(cfg, tree) /\ roots = Roots(cfg)
    BY DEF FilesInit
  <2>2. \A i \in DOMAIN cfg : cfg[i].path = <<>> \/ cfg[i].path \in Paths
    BY <2>1 DEF FromManifest, IsDir
  <2>3. \A p \in Paths : p \in Seq(Names)
    BY PathFacts
  <2>4. <<>> \in Seq(Names)
    OBVIOUS
  <2> QED
    BY <2>1, <2>2, <2>3, <2>4 DEF Roots
<1>6. FilesInv
  BY <1>1, <1>2, <1>3, <1>4, <1>5 DEF FilesInv
<1>7. RacedInv
  BY <1>2, <1>3, <1>4 DEF RacedInv, Friends, Rivals, InStep, Named
<1> QED
  BY <1>6, <1>7

\* Every step keeps the invariant.
LEMMA FilesStep ==
  ASSUME FilesInv, RacedInv, [FilesNext]_fileVars
  PROVE  FilesInv' /\ RacedInv'
<1>1. CASE UNCHANGED fileVars
  <2>1. UNCHANGED <<roots, tree, data, fate, call, raced>>
    BY <1>1 DEF fileVars
  <2>2. FilesInv'
    BY <2>1 DEF FilesInv
  <2>3. RacedInv'
    BY <2>1 DEF RacedInv, Named
  <2> QED
    BY <2>2, <2>3
<1>2. CASE FilesCrash
  BY <1>2, CrashKeeps
<1>3. ASSUME NEW c \in Callers, Calls(c) PROVE FilesInv' /\ RacedInv'
  BY <1>3, CallsKeep
<1>4. ASSUME NEW c \in Callers, WriteFails(c) \/ Dropped(c) PROVE FilesInv' /\ RacedInv'
  BY <1>4, FaultKeeps DEF WriteFails, Dropped
<1>5. ASSUME NEW c \in Callers, Work(c) PROVE FilesInv' /\ RacedInv'
  <2>1. CASE Scan(c)
    BY <2>1, ScanKeeps
  <2>2. CASE ListEntry(c)
    BY <2>2, ListEntryKeeps
  <2>3. CASE Read(c)
    BY <2>3, ReadKeeps
  <2>4. CASE OpenNew(c)
    BY <2>4, OpenNewKeeps
  <2>5. CASE Truncate(c)
    BY <2>5, TruncateKeeps
  <2>6. CASE Write(c)
    BY <2>6, WriteKeeps
  <2>7. CASE Mkdir(c)
    BY <2>7, MkdirKeeps
  <2>8. CASE StatRename(c)
    BY <2>8, StatRenameKeeps
  <2>9. CASE StatDelete(c)
    BY <2>9, StatDeleteKeeps
  <2>10. CASE StatDownload(c)
    BY <2>10, StatDownloadKeeps
  <2>11. CASE Link(c)
    BY <2>11, LinkKeeps
  <2>12. CASE Unlink(c)
    BY <2>12, UnlinkKeeps
  <2>13. CASE MakeTarget(c)
    BY <2>13, MakeTargetKeeps
  <2>14. CASE ScanSource(c)
    BY <2>14, ScanSourceKeeps
  <2>15. CASE MoveEntry(c)
    BY <2>15, MoveEntryKeeps
  <2>16. CASE RemoveSource(c)
    BY <2>16, RemoveSourceKeeps
  <2>17. CASE RemoveDir(c)
    BY <2>17, RemoveDirKeeps
  <2>18. CASE RemoveFile(c)
    BY <2>18, RemoveFileKeeps
  <2> QED
    BY <1>5, <2>1, <2>2, <2>3, <2>4, <2>5, <2>6, <2>7, <2>8, <2>9, <2>10, <2>11, <2>12, <2>13, <2>14, <2>15, <2>16,
       <2>17, <2>18 DEF Work
<1> QED
  BY <1>1, <1>2, <1>3, <1>4, <1>5 DEF FilesNext

\* Whatever interleaves, fails or stops, the tree stays a tree: only a directory
\* holds entries.
THEOREM FilesTyped == FilesSpec => []FilesTypeOK
<1>1. FilesInit => FilesInv /\ RacedInv
  BY FilesStart
<1>2. FilesInv /\ RacedInv /\ [FilesNext]_fileVars => FilesInv' /\ RacedInv'
  BY FilesStep
<1>3. FilesInv => FilesTypeOK
  BY DEF FilesInv, FilesTypeOK, CallRecords
<1> QED
  BY <1>1, <1>2, <1>3, PTL DEF FilesSpec

\* A file reported stored has a name until it is deleted, unless a rename
\* overlapped a call it can lose files to.
THEOREM FilesKept == FilesSpec => []KeptUnlessRaced
<1>1. FilesInit => FilesInv /\ RacedInv
  BY FilesStart
<1>2. FilesInv /\ RacedInv /\ [FilesNext]_fileVars => FilesInv' /\ RacedInv'
  BY FilesStep
<1>3. RacedInv => KeptUnlessRaced
  BY DEF RacedInv, KeptUnlessRaced, Named
<1> QED
  BY <1>1, <1>2, <1>3, PTL DEF FilesSpec

\* What a step of the work on a call does to the tree and to the files' contents.
OneName(t, u)  == \E p \in Paths, v \in {"absent", "dir"} \cup Inodes :
                    (v = "absent" \/ Free(t, p)) /\ u = [t EXCEPT ![p] = v]
MovesEntry(c)  == /\ Moving(c)
                  /\ \E p, q \in Paths : /\ Parent(q) = Top(c).to /\ ~IsDir(tree, q)
                                         /\ tree' = Moved(tree, p, q)
WritesTo(c, f) == call[c].op = "edit" \/ (call[c].pc = "write" /\ call[c].file = f)

\* A file is opened under a name that was free.
LEMMA OpensNewNames ==
  ASSUME NEW c \in Callers, Free(tree, call[c].path), OpensNew(c)
  PROVE  OneName(tree, tree') /\ UNCHANGED data
<1>1. PICK f \in Unused : tree' = [tree EXCEPT ![call[c].path] = f]
  BY DEF OpensNew
<1>2. call[c].path \in Paths /\ f \in Inodes
  BY DEF Unused, Free
<1> QED
  BY <1>1, <1>2 DEF OneName, OpensNew

\* What the work on a call does to names and contents.
LEMMA WorkNames ==
  ASSUME FilesInv, NEW c \in Callers, Work(c)
  PROVE  /\ UNCHANGED tree \/ OneName(tree, tree') \/ MovesEntry(c)
         /\ \A f \in Inodes : data'[f] # data[f] => WritesTo(c, f)
<1>0. ASSUME Fails(c) \/ SameTree PROVE UNCHANGED <<tree, data>>
  BY <1>0 DEF Fails, SameTree
<1>1. CASE Scan(c) \/ ListEntry(c) \/ Read(c) \/ StatDelete(c) \/ StatDownload(c) \/ ScanSource(c)
  BY <1>0, <1>1 DEF Scan, ListEntry, Read, StatDelete, StatDownload, ScanSource
<1>2. CASE StatRename(c)
  BY <1>2 DEF StatRename
<1>3. CASE OpenNew(c)
  BY <1>0, <1>3, OpensNewNames DEF OpenNew
<1>4. CASE Truncate(c)
  <2>1. call[c].op = "edit"
    BY <1>4 DEF Truncate, FilesInv, CallOk, AtItsPlace
  <2>2. UNCHANGED tree \/ OneName(tree, tree')
    BY <1>0, <1>4, OpensNewNames DEF Truncate
  <2> QED
    BY <2>1, <2>2 DEF WritesTo
<1>5. CASE Write(c)
  <2>1. call[c].pc = "write" /\ call[c].file \in Inodes
    BY <1>5 DEF Write, FilesInv, CallOk, AtItsPlace
  <2>2. /\ UNCHANGED tree
        /\ data' = [data EXCEPT ![call[c].file] = call[c].text] \/ UNCHANGED data
    BY <1>5 DEF Write
  <2> QED
    BY <2>1, <2>2 DEF WritesTo, FilesInv
<1>6. CASE Mkdir(c)
  <2>1. Fails(c) \/ (Free(tree, call[c].path) /\ tree' = [tree EXCEPT ![call[c].path] = "dir"] /\ UNCHANGED data)
    BY <1>6 DEF Mkdir
  <2> QED
    BY <1>0, <2>1 DEF OneName, Free
<1>7. CASE Link(c)
  <2>1. \/ Fails(c)
        \/ /\ IsFile(tree, call[c].path) /\ Free(tree, call[c].to) /\ UNCHANGED data
           /\ tree' = [tree EXCEPT ![call[c].to] = tree[call[c].path]]
    BY <1>7 DEF Link
  <2> QED
    BY <1>0, <2>1 DEF OneName, Free, IsFile
<1>8. CASE MakeTarget(c)
  <2>1. Fails(c) \/ (Free(tree, Top(c).to) /\ tree' = [tree EXCEPT ![Top(c).to] = "dir"] /\ UNCHANGED data)
    BY <1>8 DEF MakeTarget
  <2> QED
    BY <1>0, <2>1 DEF OneName, Free
<1>9. CASE Unlink(c) \/ RemoveFile(c)
  <2>1. \/ Fails(c)
        \/ IsFile(tree, call[c].path) /\ tree' = [tree EXCEPT ![call[c].path] = "absent"] /\ UNCHANGED data
    BY <1>9 DEF Unlink, RemoveFile
  <2> QED
    BY <1>0, <2>1 DEF OneName, IsFile
<1>10. CASE RemoveDir(c)
  <2>1. call[c].path # <<>>
    BY <1>10 DEF RemoveDir, FilesInv, CallOk, AtItsPlace
  <2>2. \/ Fails(c)
        \/ IsDir(tree, call[c].path) /\ tree' = [tree EXCEPT ![call[c].path] = "absent"] /\ UNCHANGED data
    BY <1>10 DEF RemoveDir
  <2> QED
    BY <1>0, <2>1, <2>2 DEF OneName, IsDir
<1>11. CASE RemoveSource(c)
  <2>1. CallOk(call[c]) /\ call[c].pc = "moving"
    BY <1>11 DEF RemoveSource, Moving, FilesInv
  <2>2. Top(c).from \in Paths
    BY <2>1, TopFacts DEF Top, FrameOk
  <2>3. Fails(c) \/ (tree' = [tree EXCEPT ![Top(c).from] = "absent"] /\ UNCHANGED data)
    BY <1>11 DEF RemoveSource
  <2> QED
    BY <1>0, <2>2, <2>3 DEF OneName
<1>12. CASE MoveEntry(c)
  <2>1. PICK k : k = call[c]
    OBVIOUS
  <2>2. PICK f : f = TopOf(k)
    OBVIOUS
  <2>3. CallOk(k) /\ k.pc = "moving" /\ f = Top(c) /\ Moving(c)
    BY <1>12, <2>1, <2>2, MoveEntrySplit DEF FilesInv, Top, TopOf, Moving
  <2>4. f \in Frames /\ FrameOk(f)
    BY <2>2, <2>3, TopFacts DEF TopOf
  <2>5. CASE Fails(c)
    BY <1>0, <2>5
  <2>6. CASE SameTree
    BY <1>0, <2>6
  <2>7. ASSUME NEW e \in f.todo, Append(f.to, e[1]) \in Paths, ~IsDir(tree, Append(f.to, e[1])),
               tree' = Moved(tree, Append(f.from, e[1]), Append(f.to, e[1])), UNCHANGED data
        PROVE  MovesEntry(c)
    <3>1. Append(f.from, e[1]) \in Paths /\ Parent(Append(f.to, e[1])) = f.to
      BY <2>4, EntryPaths
    <3> QED
      BY <2>3, <2>7, <3>1 DEF MovesEntry
  <2> QED
    BY <1>12, <2>1, <2>2, <2>5, <2>6, <2>7, MoveEntrySplit
<1> QED
  BY <1>1, <1>2, <1>3, <1>4, <1>5, <1>6, <1>7, <1>8, <1>9, <1>10, <1>11, <1>12 DEF Work

\* A step gives a name in use to another file only by moving a directory's entry
\* onto it, and changes a stored file only by editing or by the write that
\* created it.
LEMMA StepNames ==
  ASSUME FilesInv, FilesNext
  PROVE  /\ \A p \in Paths : Replaces(tree, tree', p) => \E c \in Callers : Moving(c) /\ Parent(p) = Top(c).to
         /\ \A f \in Inodes : fate[f] = "stored" /\ data'[f] # data[f] => \E c \in Callers : WritesTo(c, f)
<1>1. IsTree(tree) /\ tree \in Trees /\ "dir" \notin Inodes /\ "absent" \notin Inodes
  BY TreeFacts DEF FilesInv
<1>2. CASE UNCHANGED <<tree, data>>
  BY <1>2 DEF Replaces
<1>3. ASSUME NEW c \in Callers, Work(c)
      PROVE  /\ \A p \in Paths : Replaces(tree, tree', p) => Moving(c) /\ Parent(p) = Top(c).to
             /\ \A f \in Inodes : data'[f] # data[f] => WritesTo(c, f)
  <2>1. UNCHANGED tree => \A p \in Paths : ~Replaces(tree, tree', p)
    BY DEF Replaces
  <2>2. ASSUME OneName(tree, tree'), NEW p \in Paths PROVE ~Replaces(tree, tree', p)
    <3>1. PICK q \in Paths, v \in {"absent", "dir"} \cup Inodes :
            (v = "absent" \/ Free(tree, q)) /\ tree' = [tree EXCEPT ![q] = v]
      BY <2>2 DEF OneName
    <3>2. tree'[q] = v /\ (p # q => tree'[p] = tree[p])
      BY <1>1, <3>1 DEF Trees
    <3>3. v = "absent" \/ tree[q] = "absent"
      BY <1>1, <3>1, TreeFacts
    <3> QED
      BY <1>1, <3>2, <3>3 DEF Replaces, IsFile
  <2>3. ASSUME MovesEntry(c), NEW r \in Paths, Replaces(tree, tree', r) PROVE Moving(c) /\ Parent(r) = Top(c).to
    <3>1. PICK p \in Paths, q \in Paths : Parent(q) = Top(c).to /\ ~IsDir(tree, q) /\ tree' = Moved(tree, p, q)
      BY <2>3 DEF MovesEntry
    <3>2. tree[r] \in Inodes /\ tree'[r] \in Inodes /\ tree'[r] # tree[r]
      BY <2>3 DEF Replaces, IsFile
    <3>3. Below(r, q)
      <4>1. ~Below(r, q) => tree'[r] = IF Below(r, p) THEN "absent" ELSE tree[r]
        BY <3>1, MovedIs
      <4> QED
        BY <1>1, <3>2, <4>1
    <3>4. Parent(r) # q
      <4>1. tree[r] # "absent" /\ q # <<>>
        BY <1>1, <3>2, PathFacts
      <4>2. tree[q] # "dir"
        BY <3>1 DEF IsDir
      <4> QED
        BY <1>1, <4>1, <4>2, TreeFacts
    <3> QED
      BY <2>3, <3>1, <3>3, <3>4 DEF Below, MovesEntry
  <2> QED
    BY <1>3, <2>1, <2>2, <2>3, WorkNames
<1>4. ASSUME NEW c \in Callers, Calls(c) \/ WriteFails(c) \/ Dropped(c) PROVE UNCHANGED <<tree, data>>
  <2>1. ASSUME NEW root, NEW op, NEW rel, NEW torel, NEW x, Call(c, root, op, rel, torel, x) PROVE UNCHANGED <<tree, data>>
    BY <2>1 DEF Call
  <2>2. Calls(c) => UNCHANGED <<tree, data>>
    BY <2>1 DEF Calls
  <2> QED
    BY <1>4, <2>2 DEF WriteFails, Dropped, Fault
<1>5. FilesCrash => UNCHANGED <<tree, data>>
  BY DEF FilesCrash, Fault
<1> QED
  BY <1>2, <1>3, <1>4, <1>5 DEF FilesNext

\* No call gives a name in use to another file, or empties a file behind its
\* name, but for the moves, edits and writes that say so.
THEOREM FilesKeepNames == FilesSpec => NamesKeepTheirFile
<1>1. FilesInit => FilesInv /\ RacedInv
  BY FilesStart
<1>2. FilesInv /\ RacedInv /\ [FilesNext]_fileVars => FilesInv' /\ RacedInv'
  BY FilesStep
<1>3. FilesInv /\ [FilesNext]_fileVars =>
        [/\ \A p \in Paths : Replaces(tree, tree', p) => \E c \in Callers : Moving(c) /\ Parent(p) = Top(c).to
         /\ \A f \in Inodes : fate[f] = "stored" /\ data'[f] # data[f] =>
              \E c \in Callers : \/ call[c].op = "edit"
                                 \/ call[c].pc = "write" /\ call[c].file = f]_fileVars
  BY StepNames DEF WritesTo
<1> QED
  BY <1>1, <1>2, <1>3, PTL DEF FilesSpec, NamesKeepTheirFile

(***************************************************************************)
(* A call that runs alone.  The tree is what it found, as far as its       *)
(* system calls have got.                                                  *)
(***************************************************************************)

\* A directory half moved: these of its entries are left, and those have come.
HalfwayAt(b, p, q, left, come, r) ==
  IF r = p \/ r = q THEN "dir"
  ELSE IF Parent(r) = p THEN (IF Name(r) \in left THEN b[r] ELSE "absent")
  ELSE IF Parent(r) = q
       THEN (IF Name(r) \in come /\ Append(p, Name(r)) \in Paths THEN b[Append(p, Name(r))] ELSE "absent")
  ELSE b[r]
Halfway(b, p, q, left, come) == [r \in Paths |-> HalfwayAt(b, p, q, left, come, r)]

\* There is room for a directory's entries where it goes.
Roomy(b, k) == IsDir(b, k.path) /\ Children(b, k.path) # {} => Parent(k.to) = <<>>

\* What a move was told of a directory's entries is so.
Left(f) == {e[1] : e \in f.todo}
ToldTrue(b, f) ==
  \A e \in f.todo : LET r == Append(f.from, e[1]) IN b[r] # "absent" /\ (e[2] <=> b[r] = "dir")

\* The move of a directory, with one directory on the stack and with two.
OneMoved(t, b, f) ==
  /\ f.phase = "make" => t = b
  /\ f.phase = "scan" => Free(b, f.to) /\ t = [b EXCEPT ![f.to] = "dir"]
  /\ f.phase = "entries" => /\ Free(b, f.to) /\ ToldTrue(b, f)
                            /\ t = Halfway(b, f.from, f.to, Left(f), Names \ Left(f))
TwoMoved(t, b, f, g) ==
  /\ Free(b, f.to) /\ ToldTrue(b, f)
  /\ \E x \in Names :
       /\ g.from = Append(f.from, x) /\ g.to = Append(f.to, x) /\ x \notin Left(f) /\ b[Append(f.from, x)] = "dir"
       /\ t = Halfway(b, f.from, f.to, Left(f) \cup {x},
                      Names \ (IF g.phase = "make" THEN Left(f) \cup {x} ELSE Left(f)))

Exactly(t, k) ==
  /\ IsTree(k.before)
  /\ k.pc \notin {"write", "unlink", "moving"} => t = k.before
  /\ k.pc = "scan" => k.got = {}
  /\ k.pc = "entries" => k.got \cup k.todo = Children(t, k.path) \ HiddenNames
  /\ k.pc = "truncate" => Exists(t, k.path)
  /\ k.pc = "write" =>
       IF k.op = "edit" THEN t = k.before
       ELSE ~Exists(k.before, k.path) /\ t = [k.before EXCEPT ![k.path] = k.file]
  /\ k.op = "rename" => Roomy(k.before, k)
  /\ k.pc = "link" => IsFile(t, k.path)
  /\ k.pc = "unlink" =>
       IsFile(k.before, k.path) /\ Free(k.before, k.to) /\ t = [k.before EXCEPT ![k.to] = k.before[k.path]]
  /\ k.pc = "moving" =>
       /\ k.before[k.path] = "dir"
       /\ Len(k.stack) = 1 => OneMoved(t, k.before, k.stack[1])
       /\ Len(k.stack) = 2 => TwoMoved(t, k.before, k.stack[1], k.stack[2])

AloneInv ==
  \A c \in Callers : Busy(c) /\ call[c].alone =>
    Exactly(tree, call[c]) /\ \A d \in Callers \ {c} : ~Busy(d)

\* What a call that ran alone has to say after a step.
Kept(c) ==
  IF call'[c].pc = "idle" THEN Promise(call[c], call'[c].answer, tree') ELSE Exactly(tree', call'[c])

\* An answer that keeps the promise is all a call that ends has to give.
LEMMA AloneAnswers ==
  ASSUME NEW c \in Callers, NEW a, Answer(c, a), Promise(call[c], a, tree')
  PROVE  Kept(c)
<1>1. call'[c] = Idle(a)
  BY DEF Answer, Put
<1>2. Idle(a).pc = "idle" /\ Idle(a).answer = a
  BY DEF Idle
<1> QED
  BY <1>1, <1>2 DEF Kept

\* A call that goes on has to leave the tree as its next system call finds it.
LEMMA AloneGoes ==
  ASSUME NEW c \in Callers, NEW r, Put(c, r), r.pc # "idle", Exactly(tree', r)
  PROVE  Kept(c)
<1>1. call'[c] = r
  BY DEF Put
<1> QED
  BY <1>1 DEF Kept

\* A call that fails before it has done anything leaves the tree as it found it.
LEMMA AloneFails ==
  ASSUME NEW c \in Callers, NEW a \in {"error", "refused"}, Answer(c, a), UNCHANGED tree, tree = call[c].before
  PROVE  Kept(c)
<1>1. Promise(call[c], a, tree')
  BY DEF Promise
<1> QED
  BY <1>1, AloneAnswers

\* A listing reads its directory, ...
LEMMA ScanAlone ==
  ASSUME FilesInv, NEW c \in Callers, Exactly(tree, call[c]), Scan(c)
  PROVE  Kept(c)
<1>1. PICK k : k = call[c]
  OBVIOUS
<1>2. k \in CallRecords /\ k.pc = "scan" /\ k.op = "list" /\ UNCHANGED tree /\ tree = k.before /\ k.got = {}
  BY <1>1 DEF FilesInv, CallOk, AtItsPlace, Scan, SameTree, Exactly
<1> DEFINE s == Children(tree, k.path) \ HiddenNames
           r == [k EXCEPT !.pc = "entries", !.todo = s]
<1>3. CASE Put(c, r)
  <2>1. /\ r.pc = "entries" /\ r.op = "list" /\ r.todo = s /\ r.got = {} /\ r.path = k.path /\ r.before = k.before
    BY <1>2 DEF CallRecords
  <2> HIDE DEF r
  <2>2. Exactly(tree', r)
    BY <1>1, <1>2, <2>1 DEF Exactly
  <2> QED
    BY <1>3, <2>1, <2>2, AloneGoes
<1>4. CASE Answer(c, "error")
  BY <1>1, <1>2, <1>4, AloneFails
<1> QED
  BY <1>1, <1>3, <1>4 DEF Scan

\* ... and then each entry, all of them there as nothing else runs.
LEMMA ListEntryAlone ==
  ASSUME FilesInv, NEW c \in Callers, Exactly(tree, call[c]), ListEntry(c)
  PROVE  Kept(c)
<1>1. PICK k : k = call[c]
  OBVIOUS
<1>2. /\ k \in CallRecords /\ k.pc = "entries" /\ k.op = "list" /\ UNCHANGED tree /\ tree = k.before
      /\ k.got \cup k.todo = Children(tree, k.path) \ HiddenNames
  BY <1>1 DEF FilesInv, CallOk, AtItsPlace, ListEntry, SameTree, Exactly
<1>3. CASE k.todo = {}
  <2>1. Answer(c, "ok") /\ k.got = Children(tree, k.path) \ HiddenNames
    BY <1>1, <1>2, <1>3 DEF ListEntry
  <2>2. Promise(k, "ok", tree')
    BY <1>2, <2>1 DEF Promise
  <2> QED
    BY <1>1, <2>1, <2>2, AloneAnswers
<1>4. CASE k.todo # {}
  <2> DEFINE n == CHOOSE n \in k.todo : TRUE
             r == [k EXCEPT !.todo = @ \ {n}, !.got = @ \cup {n}]
  <2>1. n \in k.todo
    BY <1>4
  <2>2. Exists(tree, Append(k.path, n))
    BY <1>2, <2>1 DEF Children
  <2>3. Put(c, r)
    BY <1>1, <1>4, <2>2 DEF ListEntry
  <2> HIDE DEF n
  <2>4. /\ r.pc = "entries" /\ r.op = "list" /\ r.todo = k.todo \ {n} /\ r.got = k.got \cup {n}
        /\ r.path = k.path /\ r.before = k.before
    BY <1>2 DEF CallRecords
  <2> HIDE DEF r
  <2>5. r.got \cup r.todo = k.got \cup k.todo
    BY <2>1, <2>4
  <2>6. Exactly(tree', r)
    BY <1>1, <1>2, <2>4, <2>5 DEF Exactly
  <2> QED
    BY <2>3, <2>4, <2>6, AloneGoes
<1> QED
  BY <1>3, <1>4

\* A read changes nothing.
LEMMA ReadAlone ==
  ASSUME FilesInv, NEW c \in Callers, Exactly(tree, call[c]), Read(c)
  PROVE  Kept(c)
<1>1. call[c].pc = "read" /\ call[c].op \in {"read", "download"} /\ UNCHANGED tree /\ tree = call[c].before
  BY DEF FilesInv, CallOk, AtItsPlace, Read, SameTree, Exactly
<1>2. \A a : Promise(call[c], a, tree')
  BY <1>1 DEF Promise
<1> QED
  BY <1>2, AloneAnswers DEF Read

\* Nor does a ticket or what goes before a download, ...
LEMMA StatDownloadAlone ==
  ASSUME FilesInv, NEW c \in Callers, Exactly(tree, call[c]), StatDownload(c)
  PROVE  Kept(c)
<1>1. PICK k : k = call[c]
  OBVIOUS
<1>2. /\ k \in CallRecords /\ k.pc = "stat" /\ k.op \in {"ticket", "download"} /\ UNCHANGED tree /\ tree = k.before
      /\ IsTree(k.before)
  BY <1>1 DEF FilesInv, CallOk, StatDownload, Asked, SameTree, Exactly
<1>3. \A a : Promise(k, a, tree')
  BY <1>2 DEF Promise
<1>4. CASE GoTo(c, "read")
  <2> DEFINE r == [k EXCEPT !.pc = "read"]
  <2>1. r.pc = "read" /\ r.op = k.op /\ r.before = k.before
    BY <1>2 DEF CallRecords
  <2>2. Put(c, r)
    BY <1>1, <1>4 DEF GoTo
  <2> HIDE DEF r
  <2>3. Exactly(tree', r)
    BY <1>2, <2>1 DEF Exactly
  <2> QED
    BY <2>1, <2>2, <2>3, AloneGoes
<1>5. GoTo(c, "read") \/ \E a : Answer(c, a)
  BY DEF StatDownload
<1> QED
  BY <1>1, <1>3, <1>4, <1>5, AloneAnswers

\* ... or what goes before a delete.
LEMMA StatDeleteAlone ==
  ASSUME FilesInv, NEW c \in Callers, Exactly(tree, call[c]), StatDelete(c)
  PROVE  Kept(c)
<1>1. PICK k : k = call[c]
  OBVIOUS
<1>2. /\ k \in CallRecords /\ k.pc = "stat" /\ k.op = "delete" /\ UNCHANGED tree /\ tree = k.before
      /\ IsTree(k.before)
  BY <1>1 DEF FilesInv, CallOk, StatDelete, Asked, SameTree, Exactly
<1>3. ASSUME NEW x \in {"rmdir", "remove"}, GoTo(c, x) PROVE Kept(c)
  <2> DEFINE r == [k EXCEPT !.pc = x]
  <2>1. r.pc = x /\ r.op = k.op /\ r.before = k.before
    BY <1>2 DEF CallRecords
  <2>2. Put(c, r)
    BY <1>1, <1>3 DEF GoTo
  <2> HIDE DEF r
  <2>3. Exactly(tree', r)
    BY <1>2, <1>3, <2>1 DEF Exactly
  <2> QED
    BY <1>3, <2>1, <2>2, <2>3, AloneGoes
<1>4. Answer(c, "error") \/ \E x \in {"rmdir", "remove"} : GoTo(c, x)
  BY DEF StatDelete
<1> QED
  BY <1>1, <1>2, <1>3, <1>4, AloneFails

\* A file is created where there was none.
LEMMA OpenNewAlone ==
  ASSUME FilesInv, NEW c \in Callers, Exactly(tree, call[c]), OpenNew(c)
  PROVE  Kept(c)
<1>1. PICK k : k = call[c]
  OBVIOUS
<1>2. k \in CallRecords /\ k.pc = "new" /\ k.op \in {"create", "upload"} /\ tree = k.before /\ IsTree(k.before)
  BY <1>1 DEF FilesInv, CallOk, AtItsPlace, OpenNew, Exactly
<1>3. CASE Free(tree, k.path)
  <2>1. PICK f \in Unused : tree' = [tree EXCEPT ![k.path] = f] /\ Put(c, [k EXCEPT !.pc = "write", !.file = f])
    BY <1>1, <1>3 DEF OpenNew, OpensNew
  <2> DEFINE r == [k EXCEPT !.pc = "write", !.file = f]
  <2>2. r.pc = "write" /\ r.op = k.op /\ r.before = k.before /\ r.path = k.path /\ r.file = f
    BY <1>2 DEF CallRecords
  <2>3. Put(c, r) /\ ~Exists(tree, k.path)
    BY <1>3, <2>1 DEF Free
  <2> HIDE DEF r
  <2>4. Exactly(tree', r)
    BY <1>2, <2>1, <2>2, <2>3 DEF Exactly
  <2> QED
    BY <2>2, <2>3, <2>4, AloneGoes
<1>4. CASE Fails(c)
  BY <1>1, <1>2, <1>4, AloneFails DEF Fails, SameTree
<1> QED
  BY <1>1, <1>3, <1>4 DEF OpenNew

\* An edit that runs alone finds its file, and never creates one.
LEMMA TruncateAlone ==
  ASSUME FilesInv, NEW c \in Callers, Exactly(tree, call[c]), Truncate(c)
  PROVE  Kept(c)
<1>1. PICK k : k = call[c]
  OBVIOUS
<1>2. /\ k \in CallRecords /\ k.pc = "truncate" /\ k.op = "edit" /\ tree = k.before /\ IsTree(k.before)
      /\ Exists(tree, k.path)
  BY <1>1 DEF FilesInv, CallOk, AtItsPlace, Truncate, Exactly
<1>3. CASE IsFile(tree, k.path)
  <2> DEFINE r == [k EXCEPT !.pc = "write", !.file = tree[k.path]]
  <2>1. r.pc = "write" /\ r.op = k.op /\ r.before = k.before /\ r.path = k.path
    BY <1>2 DEF CallRecords
  <2>2. Put(c, r) /\ UNCHANGED tree
    BY <1>1, <1>3 DEF Truncate
  <2> HIDE DEF r
  <2>3. Exactly(tree', r)
    BY <1>2, <2>1, <2>2 DEF Exactly
  <2> QED
    BY <2>1, <2>2, <2>3, AloneGoes
<1>4. CASE ~IsFile(tree, k.path)
  <2>1. Fails(c)
    BY <1>1, <1>2, <1>4 DEF Truncate, Free
  <2> QED
    BY <1>1, <1>2, <2>1, AloneFails DEF Fails, SameTree
<1> QED
  BY <1>3, <1>4

\* The write ends what the opening began.
LEMMA WriteAlone ==
  ASSUME FilesInv, NEW c \in Callers, Exactly(tree, call[c]), Write(c)
  PROVE  Kept(c)
<1>1. PICK k : k = call[c]
  OBVIOUS
<1>2. /\ k.pc = "write" /\ k.op \in {"create", "upload", "edit"} /\ UNCHANGED tree
      /\ k.op = "edit" => tree = k.before
      /\ k.op # "edit" => ~Exists(k.before, k.path) /\ tree = [k.before EXCEPT ![k.path] = k.file]
  BY <1>1 DEF FilesInv, CallOk, AtItsPlace, Write, Exactly
<1>3. Promise(k, "ok", tree')
  BY <1>2 DEF Promise
<1> QED
  BY <1>1, <1>3, AloneAnswers DEF Write

\* A directory is made, or the tree is as it was.
LEMMA MkdirAlone ==
  ASSUME FilesInv, NEW c \in Callers, Exactly(tree, call[c]), Mkdir(c)
  PROVE  Kept(c)
<1>1. PICK k : k = call[c]
  OBVIOUS
<1>2. k.op = "mkdir" /\ tree = k.before
  BY <1>1 DEF FilesInv, CallOk, AtItsPlace, Mkdir, Exactly
<1>3. CASE Free(tree, k.path)
  <2>1. Answer(c, "ok") /\ tree' = [k.before EXCEPT ![k.path] = "dir"]
    BY <1>1, <1>2, <1>3 DEF Mkdir
  <2>2. Promise(k, "ok", tree')
    BY <1>2, <2>1 DEF Promise
  <2> QED
    BY <1>1, <2>1, <2>2, AloneAnswers
<1>4. CASE Fails(c)
  BY <1>1, <1>2, <1>4, AloneFails DEF Fails, SameTree
<1> QED
  BY <1>1, <1>3, <1>4 DEF Mkdir

\* A file or an empty directory is removed, or the tree is as it was.
LEMMA RemoveAlone ==
  ASSUME FilesInv, NEW c \in Callers, Exactly(tree, call[c]), RemoveDir(c) \/ RemoveFile(c)
  PROVE  Kept(c)
<1>1. PICK k : k = call[c]
  OBVIOUS
<1>2. k.op = "delete" /\ tree = k.before
  BY <1>1 DEF FilesInv, CallOk, AtItsPlace, RemoveDir, RemoveFile, Exactly
<1>3. CASE Answer(c, "ok") /\ tree' = [tree EXCEPT ![k.path] = "absent"]
  <2>1. Promise(k, "ok", tree')
    BY <1>2, <1>3 DEF Promise
  <2> QED
    BY <1>1, <1>3, <2>1, AloneAnswers
<1>4. CASE Fails(c)
  BY <1>1, <1>2, <1>4, AloneFails DEF Fails, SameTree
<1> QED
  BY <1>1, <1>3, <1>4 DEF RemoveDir, RemoveFile

\* A directory that goes to a free path outside it: neither holds the other.
Apart(b, p, q) ==
  /\ IsTree(b) /\ p \in Paths /\ q \in Paths /\ p # q /\ Parent(p) # q /\ Parent(q) # p
  /\ b[p] = "dir" /\ b[q] = "absent"
  /\ \A r \in Paths : Parent(r) = q => b[r] = "absent"

\* It is where a directory is moved to a free path not inside it.
LEMMA ApartIs ==
  ASSUME NEW b, IsTree(b), NEW p \in Paths, NEW q, Free(b, q), b[p] = "dir", ~Below(q, p)
  PROVE  Apart(b, p, q)
<1>1. q \in Paths /\ "dir" # "absent"
  BY DEF Free
<1>2. b[q] = "absent" /\ (Parent(q) = <<>> \/ (Parent(q) \in Paths /\ b[Parent(q)] = "dir"))
  BY <1>1, TreeFacts
<1>3. q # <<>>
  BY <1>1, PathFacts
<1>4. \A r \in Paths : Parent(r) = q => b[r] = "absent"
  BY <1>1, <1>2, <1>3, TreeFacts
<1>5. p # q /\ Parent(q) # p
  BY DEF Below
<1>6. Parent(p) # q
  BY <1>4
<1> QED
  BY <1>1, <1>2, <1>4, <1>5, <1>6 DEF Apart

\* Trees that have the same at every path are the same.
LEMMA SamePaths ==
  ASSUME NEW t, NEW u, t = [r \in Paths |-> t[r]], u = [r \in Paths |-> u[r]], \A r \in Paths : t[r] = u[r]
  PROVE  t = u
OBVIOUS

\* A tree with one path changed.
LEMMA OneChanged ==
  ASSUME NEW t, t = [r \in Paths |-> t[r]], NEW p \in Paths, NEW v, NEW u, u = [t EXCEPT ![p] = v]
  PROVE  u = [r \in Paths |-> u[r]] /\ \A r \in Paths : u[r] = IF r = p THEN v ELSE t[r]
OBVIOUS

\* What is at the paths of a directory half moved.
LEMMA HalfwayPaths ==
  ASSUME NEW b, NEW p, NEW q, NEW L, NEW C
  PROVE  /\ Halfway(b, p, q, L, C) = [r \in Paths |-> Halfway(b, p, q, L, C)[r]]
         /\ \A r \in Paths : Halfway(b, p, q, L, C)[r] = HalfwayAt(b, p, q, L, C, r)
BY DEF Halfway

\* A tree is a function on the paths.
LEMMA TreeIsFunction == ASSUME NEW b, IsTree(b) PROVE b = [r \in Paths |-> b[r]]
BY DEF IsTree

\* An entry of a directory, in it and in the one it goes to.
LEMMA EntryApart ==
  ASSUME NEW b, NEW p, NEW q, Apart(b, p, q), NEW n \in Names
  PROVE  /\ Append(p, n) # p /\ Append(p, n) # q /\ Parent(Append(p, n)) = p /\ Name(Append(p, n)) = n
         /\ Append(q, n) # p /\ Append(q, n) # q /\ Parent(Append(q, n)) = q /\ Name(Append(q, n)) = n
         /\ Append(p, n) # Append(q, n) /\ Append(p, n) # <<>>
<1>1. p \in Seq(Names) /\ q \in Seq(Names) /\ p # q /\ Parent(p) # q /\ Parent(q) # p
  BY PathFacts DEF Apart
<1>2. Append(p, n) # p /\ Parent(Append(p, n)) = p /\ Name(Append(p, n)) = n /\ Append(p, n) # <<>>
  BY <1>1, EntryFacts
<1>3. Append(q, n) # q /\ Parent(Append(q, n)) = q /\ Name(Append(q, n)) = n
  BY <1>1, EntryFacts
<1> QED
  BY <1>1, <1>2, <1>3

\* A path below another is made of it and its name.
LEMMA EntryOf ==
  ASSUME NEW r \in Paths, NEW p, Parent(r) = p
  PROVE  Name(r) \in Names /\ r = Append(p, Name(r))
BY PathFacts

\* A tree with another thing at a path.
Changed(t, p, v) == [t EXCEPT ![p] = v]

\* The scan of the directory: nothing has come, everything is left.
LEMMA ScanHalfway ==
  ASSUME NEW b, NEW p, NEW q, Apart(b, p, q), NEW L, L = Children(Changed(b, q, "dir"), p)
  PROVE  /\ Changed(b, q, "dir") = Halfway(b, p, q, L, Names \ L)
         /\ \A n \in L : /\ b[Append(p, n)] # "absent"
                         /\ IsDir(Changed(b, q, "dir"), Append(p, n)) <=> b[Append(p, n)] = "dir"
<1> DEFINE t == [b EXCEPT ![q] = "dir"]
           u == Halfway(b, p, q, L, Names \ L)
<1>1. /\ b = [r \in Paths |-> b[r]] /\ p \in Paths /\ q \in Paths /\ p # q /\ b[p] = "dir" /\ Parent(q) # p
      /\ \A r \in Paths : Parent(r) = q => b[r] = "absent"
  BY TreeIsFunction DEF Apart
<1>0. t = Changed(b, q, "dir") /\ L = Children(t, p)
  BY DEF Changed
<1>2. t = [r \in Paths |-> t[r]] /\ \A r \in Paths : t[r] = IF r = q THEN "dir" ELSE b[r]
  BY <1>1, OneChanged
<1> HIDE DEF t
<1>3. u = [r \in Paths |-> u[r]] /\ \A r \in Paths : u[r] = HalfwayAt(b, p, q, L, Names \ L, r)
  BY HalfwayPaths
<1>a. b \in Trees /\ "dir" \notin Inodes /\ "absent" \notin Inodes
  BY TreeFacts DEF Apart
<1>4. \A n \in Names : n \in L <=> Append(p, n) \in Paths /\ b[Append(p, n)] # "absent"
  <2> TAKE n \in Names
  <2>1. Append(p, n) # q /\ Append(p, n) # <<>>
    BY EntryApart
  <2>2. CASE Append(p, n) \in Paths
    <3>1. t[Append(p, n)] = b[Append(p, n)] /\ b[Append(p, n)] \in {"absent", "dir"} \cup Inodes
      BY <1>2, <1>a, <2>1, <2>2 DEF Trees
    <3> QED
      BY <1>0, <1>a, <2>1, <2>2, <3>1 DEF Children, Exists, IsDir, IsFile
  <2> QED
    BY <1>0, <2>1, <2>2 DEF Children, Exists, IsDir, IsFile
<1>5. L \subseteq Names
  BY <1>0 DEF Children
<1>6. ASSUME NEW n \in L
      PROVE  b[Append(p, n)] # "absent" /\ (IsDir(t, Append(p, n)) <=> b[Append(p, n)] = "dir")
  <2>0. n \in Names
    BY <1>5
  <2>1. Append(p, n) # q /\ Append(p, n) # <<>> /\ Append(p, n) \in Paths /\ b[Append(p, n)] # "absent"
    BY <1>4, <1>6, <2>0, EntryApart
  <2>2. t[Append(p, n)] = b[Append(p, n)]
    BY <1>2, <2>1
  <2> QED
    BY <2>1, <2>2 DEF IsDir
<1> HIDE DEF u
<1>7. ASSUME NEW r \in Paths PROVE t[r] = u[r]
  <2>1. u[r] = HalfwayAt(b, p, q, L, Names \ L, r) /\ t[r] = IF r = q THEN "dir" ELSE b[r]
    BY <1>2, <1>3
  <2>2. CASE r = p \/ r = q
    BY <1>1, <2>1, <2>2 DEF HalfwayAt
  <2>3. CASE r # p /\ r # q /\ Parent(r) = p
    <3>1. r = Append(p, Name(r)) /\ Name(r) \in Names
      BY <2>3, EntryOf
    <3>2. Name(r) \in L <=> b[r] # "absent"
      BY <1>4, <3>1
    <3> QED
      BY <2>1, <2>3, <3>2 DEF HalfwayAt
  <2>4. CASE r # p /\ r # q /\ Parent(r) = q
    <3>1. Name(r) \in Names /\ b[r] = "absent" /\ Parent(r) # p
      BY <1>1, <2>4, EntryOf
    <3>2. Name(r) \notin L /\ Append(p, Name(r)) \in Paths => b[Append(p, Name(r))] = "absent"
      BY <1>4, <3>1
    <3> QED
      BY <2>1, <2>4, <3>1, <3>2 DEF HalfwayAt
  <2>5. CASE r # p /\ r # q /\ Parent(r) # p /\ Parent(r) # q
    BY <2>1, <2>5 DEF HalfwayAt
  <2> QED
    BY <2>2, <2>3, <2>4, <2>5
<1>8. t = u
  BY <1>2, <1>3, <1>7, SamePaths
<1> QED
  BY <1>0, <1>6, <1>8 DEF u

\* An entry leaves the directory, ...
LEMMA Leaves ==
  ASSUME NEW b, NEW p, NEW q, Apart(b, p, q), NEW L, NEW C, NEW x \in Names, Append(p, x) \in Paths
  PROVE  Changed(Halfway(b, p, q, L, C), Append(p, x), "absent") = Halfway(b, p, q, L \ {x}, C)
<1> DEFINE t == Halfway(b, p, q, L, C)
           v == Halfway(b, p, q, L \ {x}, C)
           e == Append(p, x)
           u == [t EXCEPT ![e] = "absent"]
<1>1. t = [r \in Paths |-> t[r]] /\ \A r \in Paths : t[r] = HalfwayAt(b, p, q, L, C, r)
  BY HalfwayPaths
<1>2. v = [r \in Paths |-> v[r]] /\ \A r \in Paths : v[r] = HalfwayAt(b, p, q, L \ {x}, C, r)
  BY HalfwayPaths
<1>3. e \in Paths /\ e # p /\ e # q /\ Parent(e) = p /\ Name(e) = x
  BY EntryApart
<1> HIDE DEF t, v, e
<1>4. u = [r \in Paths |-> u[r]] /\ \A r \in Paths : u[r] = IF r = e THEN "absent" ELSE t[r]
  BY <1>1, <1>3, OneChanged
<1> HIDE DEF u
<1>5. ASSUME NEW r \in Paths PROVE u[r] = v[r]
  <2>1. CASE r = e
    BY <1>2, <1>3, <1>4, <2>1 DEF HalfwayAt
  <2>2. CASE r # e /\ Parent(r) = p
    <3>1. Name(r) # x
      BY <2>2, EntryOf DEF e
    <3> QED
      BY <1>1, <1>2, <1>4, <2>2, <3>1 DEF HalfwayAt
  <2>3. CASE Parent(r) # p
    BY <1>1, <1>2, <1>3, <1>4, <2>3 DEF HalfwayAt
  <2> QED
    BY <2>1, <2>2, <2>3
<1>6. u = v
  BY <1>2, <1>4, <1>5, SamePaths
<1> QED
  BY <1>6 DEF t, u, v, e, Changed

\* ... and comes to the other.
LEMMA Comes ==
  ASSUME NEW b, NEW p, NEW q, Apart(b, p, q), NEW L, NEW C, NEW x \in Names, Append(p, x) \in Paths,
         Append(q, x) \in Paths
  PROVE  Changed(Halfway(b, p, q, L, C), Append(q, x), b[Append(p, x)]) = Halfway(b, p, q, L, C \cup {x})
<1> DEFINE t == Halfway(b, p, q, L, C)
           v == Halfway(b, p, q, L, C \cup {x})
           e == Append(q, x)
           w == b[Append(p, x)]
           u == [t EXCEPT ![e] = w]
<1>1. t = [r \in Paths |-> t[r]] /\ \A r \in Paths : t[r] = HalfwayAt(b, p, q, L, C, r)
  BY HalfwayPaths
<1>2. v = [r \in Paths |-> v[r]] /\ \A r \in Paths : v[r] = HalfwayAt(b, p, q, L, C \cup {x}, r)
  BY HalfwayPaths
<1>3. e \in Paths /\ e # p /\ e # q /\ Parent(e) = q /\ Name(e) = x /\ p # q
  BY EntryApart DEF Apart
<1> HIDE DEF t, v, e, w
<1>4. u = [r \in Paths |-> u[r]] /\ \A r \in Paths : u[r] = IF r = e THEN w ELSE t[r]
  BY <1>1, <1>3, OneChanged
<1> HIDE DEF u
<1>5. ASSUME NEW r \in Paths PROVE u[r] = v[r]
  <2>1. CASE r = e
    BY <1>2, <1>3, <1>4, <2>1 DEF HalfwayAt, w
  <2>2. CASE r # e /\ Parent(r) = q
    <3>1. Name(r) # x
      BY <2>2, EntryOf DEF e
    <3> QED
      BY <1>1, <1>2, <1>4, <2>2, <3>1 DEF HalfwayAt
  <2>3. CASE Parent(r) # q
    BY <1>1, <1>2, <1>3, <1>4, <2>3 DEF HalfwayAt
  <2> QED
    BY <2>1, <2>2, <2>3
<1>6. u = v
  BY <1>2, <1>4, <1>5, SamePaths
<1> QED
  BY <1>6 DEF t, u, v, e, w, Changed

\* What stands in a directory half moved.
LEMMA HalfwayEntries ==
  ASSUME NEW b, NEW p, NEW q, Apart(b, p, q), NEW L, NEW C, NEW t, t = Halfway(b, p, q, L, C)
  PROVE  /\ t[p] = "dir" /\ t[q] = "dir"
         /\ \A n \in Names : Append(p, n) \in Paths => t[Append(p, n)] = IF n \in L THEN b[Append(p, n)] ELSE "absent"
         /\ \A n \in Names : Append(q, n) \in Paths =>
              t[Append(q, n)] = IF n \in C /\ Append(p, n) \in Paths THEN b[Append(p, n)] ELSE "absent"
<1>1. p \in Paths /\ q \in Paths /\ p # q /\ \A r \in Paths : t[r] = HalfwayAt(b, p, q, L, C, r)
  BY HalfwayPaths DEF Apart
<1>2. t[p] = "dir" /\ t[q] = "dir"
  BY <1>1 DEF HalfwayAt
<1>3. ASSUME NEW n \in Names, Append(p, n) \in Paths
      PROVE  t[Append(p, n)] = IF n \in L THEN b[Append(p, n)] ELSE "absent"
  <2> DEFINE e == Append(p, n)
  <2>1. e \in Paths /\ e # p /\ e # q /\ Parent(e) = p /\ Name(e) = n
    BY <1>3, EntryApart
  <2> HIDE DEF e
  <2>2. t[e] = IF n \in L THEN b[e] ELSE "absent"
    BY <1>1, <2>1 DEF HalfwayAt
  <2> QED
    BY <2>2 DEF e
<1>4. ASSUME NEW n \in Names, Append(q, n) \in Paths
      PROVE  t[Append(q, n)] = IF n \in C /\ Append(p, n) \in Paths THEN b[Append(p, n)] ELSE "absent"
  <2> DEFINE e == Append(q, n)
  <2>1. e \in Paths /\ e # p /\ e # q /\ Parent(e) = q /\ Name(e) = n
    BY <1>4, EntryApart
  <2> HIDE DEF e
  <2>2. t[e] = IF n \in C /\ Append(p, n) \in Paths THEN b[Append(p, n)] ELSE "absent"
    BY <1>1, <2>1 DEF HalfwayAt
  <2> QED
    BY <2>2 DEF e
<1> QED
  BY <1>2, <1>3, <1>4

\* The source goes when everything has come: the directory has been moved.
LEMMA SourceGone ==
  ASSUME NEW b, NEW p, NEW q, Apart(b, p, q)
  PROVE  Changed(Halfway(b, p, q, {}, Names), p, "absent") = Moved(b, p, q)
<1> DEFINE t == Halfway(b, p, q, {}, Names)
           v == Moved(b, p, q)
           u == [t EXCEPT ![p] = "absent"]
<1>1. t = [r \in Paths |-> t[r]] /\ \A r \in Paths : t[r] = HalfwayAt(b, p, q, {}, Names, r)
  BY HalfwayPaths
<1>2. /\ p \in Paths /\ q \in Paths /\ p # q /\ Parent(p) # q /\ Parent(q) # p /\ b[p] = "dir"
      /\ p \in Seq(Names) /\ p # <<>>
  BY PathFacts DEF Apart
<1>3. v = [r \in Paths |-> v[r]]
  BY DEF Moved
<1>4. \A r \in Paths : v[r] =
        IF Below(r, q) THEN IF r = q THEN b[p] ELSE IF Parent(p) = <<>> THEN b[Append(p, Name(r))] ELSE "absent"
        ELSE IF Below(r, p) THEN "absent" ELSE b[r]
  BY <1>2, MovedIs
<1> HIDE DEF t, v
<1>5. u = [r \in Paths |-> u[r]] /\ \A r \in Paths : u[r] = IF r = p THEN "absent" ELSE t[r]
  BY <1>1, <1>2, OneChanged
<1> HIDE DEF u
<1>6. ASSUME NEW r \in Paths PROVE u[r] = v[r]
  <2>1. CASE r = p
    BY <1>2, <1>4, <1>5, <2>1 DEF Below
  <2>2. CASE r = q
    BY <1>1, <1>2, <1>4, <1>5, <2>2 DEF Below, HalfwayAt
  <2>3. CASE r # p /\ r # q /\ Parent(r) = p
    BY <1>1, <1>2, <1>4, <1>5, <2>3 DEF Below, HalfwayAt
  <2>4. CASE r # p /\ r # q /\ Parent(r) = q
    <3>1. Name(r) \in Names /\ (Append(p, Name(r)) \in Paths <=> Parent(p) = <<>>)
      BY <1>2, <2>4, EntryOf, EntryFacts
    <3> QED
      BY <1>1, <1>2, <1>4, <1>5, <2>4, <3>1 DEF Below, HalfwayAt
  <2>5. CASE r # p /\ r # q /\ Parent(r) # p /\ Parent(r) # q
    BY <1>1, <1>4, <1>5, <2>5 DEF Below, HalfwayAt
  <2> QED
    BY <2>1, <2>2, <2>3, <2>4, <2>5
<1>7. u = v
  BY <1>3, <1>5, <1>6, SamePaths
<1> QED
  BY <1>7 DEF t, u, v, Changed

\* A rename starts with nothing done.
LEMMA StatRenameAlone ==
  ASSUME FilesInv, NEW c \in Callers, Exactly(tree, call[c]), StatRename(c)
  PROVE  Kept(c)
<1>1. PICK k : k = call[c]
  OBVIOUS
<1>2. /\ k \in CallRecords /\ k.pc = "stat" /\ k.op = "rename" /\ UNCHANGED tree /\ tree = k.before
      /\ IsTree(k.before) /\ Roomy(k.before, k) /\ k.path # <<>>
  BY <1>1 DEF FilesInv, CallOk, AtItsPlace, StatRename, Asked, Exactly
<1>3. CASE \E a \in {"error", "refused"} : Answer(c, a)
  BY <1>1, <1>2, <1>3, AloneFails
<1>4. CASE IsFile(tree, k.path) /\ GoTo(c, "link")
  <2> DEFINE r == [k EXCEPT !.pc = "link"]
  <2>1. r.pc = "link" /\ r.op = k.op /\ r.before = k.before /\ r.path = k.path /\ r.to = k.to
    BY <1>2 DEF CallRecords
  <2>2. Put(c, r)
    BY <1>1, <1>4 DEF GoTo
  <2> HIDE DEF r
  <2>3. Exactly(tree', r)
    BY <1>2, <1>4, <2>1 DEF Exactly, Roomy
  <2> QED
    BY <2>1, <2>2, <2>3, AloneGoes
<1>5. ASSUME Exists(tree, k.path), ~IsFile(tree, k.path),
             Put(c, [k EXCEPT !.pc = "moving", !.stack = <<Frame(k.path, k.to)>>])
      PROVE  Kept(c)
  <2> DEFINE f == Frame(k.path, k.to)
             r == [k EXCEPT !.pc = "moving", !.stack = <<f>>]
  <2>1. /\ r.pc = "moving" /\ r.op = k.op /\ r.before = k.before /\ r.path = k.path /\ r.to = k.to
        /\ r.stack = <<f>>
    BY <1>2 DEF CallRecords
  <2>2. f.phase = "make"
    BY DEF Frame
  <2>3. Put(c, r)
    BY <1>5
  <2>4. k.before[k.path] = "dir"
    BY <1>2, <1>5 DEF Exists, IsDir
  <2> HIDE DEF r, f
  <2>5. Len(r.stack) = 1 /\ r.stack[1] = f
    BY <2>1
  <2>6. OneMoved(tree', k.before, f)
    BY <1>2, <2>2 DEF OneMoved
  <2>7. Exactly(tree', r)
    BY <1>2, <2>1, <2>4, <2>5, <2>6 DEF Exactly, Roomy
  <2> QED
    BY <2>1, <2>3, <2>7, AloneGoes
<1> QED
  BY <1>1, <1>3, <1>4, <1>5 DEF StatRename

\* A file renamed alone gets its second name, or nothing is done, ...
LEMMA LinkAlone ==
  ASSUME FilesInv, NEW c \in Callers, Exactly(tree, call[c]), Link(c)
  PROVE  Kept(c)
<1>1. PICK k : k = call[c]
  OBVIOUS
<1>2. /\ k \in CallRecords /\ k.pc = "link" /\ k.op = "rename" /\ tree = k.before
      /\ IsTree(k.before) /\ Roomy(k.before, k)
  BY <1>1 DEF FilesInv, CallOk, AtItsPlace, Link, Exactly
<1>3. CASE IsFile(tree, k.path) /\ Free(tree, k.to)
  <2> DEFINE r == [k EXCEPT !.pc = "unlink"]
  <2>1. r.pc = "unlink" /\ r.op = k.op /\ r.before = k.before /\ r.path = k.path /\ r.to = k.to
    BY <1>2 DEF CallRecords
  <2>2. Put(c, r) /\ tree' = [k.before EXCEPT ![k.to] = k.before[k.path]]
    BY <1>1, <1>2, <1>3 DEF Link
  <2> HIDE DEF r
  <2>3. Exactly(tree', r)
    BY <1>2, <1>3, <2>1, <2>2 DEF Exactly, Roomy
  <2> QED
    BY <2>1, <2>2, <2>3, AloneGoes
<1>4. CASE Fails(c)
  BY <1>1, <1>2, <1>4, AloneFails DEF Fails, SameTree
<1> QED
  BY <1>1, <1>3, <1>4 DEF Link

\* ... and loses the first, which is still its own.
LEMMA UnlinkAlone ==
  ASSUME FilesInv, NEW c \in Callers, Exactly(tree, call[c]), Unlink(c)
  PROVE  Kept(c)
<1>1. PICK k : k = call[c]
  OBVIOUS
<1>2. PICK b, p, q : b = k.before /\ p = k.path /\ q = k.to
  OBVIOUS
<1>3. /\ k.pc = "unlink" /\ k.op = "rename" /\ IsTree(b) /\ IsFile(b, p) /\ Free(b, q)
      /\ tree = [b EXCEPT ![q] = b[p]]
  BY <1>1, <1>2 DEF FilesInv, CallOk, AtItsPlace, Unlink, Exactly
<1>4. p \in Paths /\ q \in Paths /\ b[p] \in Inodes /\ b[q] = "absent" /\ b \in Trees /\ "absent" \notin Inodes
  BY <1>3, TreeFacts DEF IsFile, Free
<1>5. p # q /\ tree[p] = b[p]
  BY <1>3, <1>4 DEF Trees
<1>6. IsFile(tree, p)
  BY <1>4, <1>5 DEF IsFile
<1>7. Answer(c, "ok") /\ tree' = [tree EXCEPT ![p] = "absent"]
  BY <1>1, <1>2, <1>6 DEF Unlink
<1>8. tree' = [b EXCEPT ![p] = "absent", ![q] = b[p]]
  BY <1>3, <1>4, <1>5, <1>7 DEF Trees
<1>9. tree' = Moved(b, p, q)
  BY <1>3, <1>4, <1>8, FileMoved
<1>10. Promise(k, "ok", tree')
  BY <1>2, <1>3, <1>9 DEF Promise
<1> QED
  BY <1>1, <1>7, <1>10, AloneAnswers

\* A move that goes on.
LEMMA MoveGoes ==
  ASSUME NEW c \in Callers, NEW k, k = call[c], k.pc = "moving", k.op = "rename", Exactly(tree, k),
         NEW r, Put(c, r), r.pc = "moving", r.op = "rename",
         r.before = k.before, r.path = k.path, r.to = k.to,
         Len(r.stack) = 1 => OneMoved(tree', k.before, r.stack[1]),
         Len(r.stack) = 2 => TwoMoved(tree', k.before, r.stack[1], r.stack[2])
  PROVE  Kept(c)
<1>1. IsTree(k.before) /\ Roomy(k.before, k) /\ k.before[k.path] = "dir"
  BY DEF Exactly
<1>2. Roomy(r.before, r)
  BY <1>1 DEF Roomy
<1>3. Exactly(tree', r)
  BY <1>1, <1>2 DEF Exactly
<1> QED
  BY <1>3, AloneGoes

\* What stays of a call when its stack changes.
LEMMA StackChanges ==
  ASSUME NEW k \in CallRecords, NEW f
  PROVE  /\ WithTop(k, f).before = k.before /\ WithTop(k, f).path = k.path /\ WithTop(k, f).to = k.to
         /\ WithFrame(k, f).before = k.before /\ WithFrame(k, f).path = k.path /\ WithFrame(k, f).to = k.to
         /\ WithoutTop(k).before = k.before /\ WithoutTop(k).path = k.path /\ WithoutTop(k).to = k.to
BY DEF WithTop, WithFrame, WithoutTop, CallRecords

\* The first directory of a move alone: where it is from, where it goes and
\* what is known of both.
LEMMA FirstFrame ==
  ASSUME NEW k, CallOk(k), k.pc = "moving", NEW t, Exactly(t, k), NEW f, f = k.stack[1]
  PROVE  /\ f \in Frames /\ FrameOk(f) /\ f.from = k.path /\ f.to = k.to /\ k.op = "rename" /\ k \in CallRecords
         /\ IsTree(k.before) /\ k.before[f.from] = "dir" /\ f.from \in Paths /\ ~Below(f.to, f.from)
         /\ Free(k.before, f.to) => Apart(k.before, f.from, f.to)
         /\ Children(k.before, f.from) # {} => Parent(f.to) = <<>>
<1>1. /\ k \in CallRecords /\ k.op = "rename" /\ Len(k.stack) \in 1 .. 2 /\ StackOk(k)
      /\ IsTree(k.before) /\ Roomy(k.before, k) /\ k.before[k.path] = "dir"
  BY TopFacts DEF Exactly, CallOk
<1>2. f \in Frames
  <2>1. k.stack \in Seq(Frames) /\ 1 \in 1 .. Len(k.stack)
    BY <1>1 DEF CallRecords
  <2> QED
    BY <2>1, ElementOfSeq
<1>3. FrameOk(f) /\ f.from = k.path /\ f.to = k.to
  BY <1>1 DEF StackOk
<1>4. f.from \in Paths /\ ~Below(f.to, f.from)
  BY <1>3 DEF FrameOk
<1>5. Free(k.before, f.to) => Apart(k.before, f.from, f.to)
  BY <1>1, <1>3, <1>4, ApartIs
<1>6. Children(k.before, f.from) # {} => Parent(f.to) = <<>>
  <2>1. f.from # <<>>
    BY <1>4, PathFacts
  <2> QED
    BY <1>1, <1>3, <1>4, <2>1 DEF Roomy, IsDir
<1> QED
  BY <1>1, <1>2, <1>3, <1>4, <1>5, <1>6

\* Where the entries of a directory go there is room for them.
LEMMA RoomForEntry ==
  ASSUME NEW b, NEW p, NEW q, Apart(b, p, q), Children(b, p) # {} => Parent(q) = <<>>,
         NEW n \in Names, Append(p, n) \in Paths, b[Append(p, n)] # "absent"
  PROVE  Append(q, n) \in Paths
<1>1. Exists(b, Append(p, n)) /\ q \in Paths /\ q \in Seq(Names)
  BY TreeFacts, PathFacts DEF Apart
<1>2. Parent(q) = <<>>
  BY <1>1 DEF Children
<1> QED
  BY <1>1, <1>2, EntryFacts

\* What is left when an entry has been taken.
LEMMA LeftTaken ==
  ASSUME NEW b, NEW f \in Frames, FrameOk(f), NEW e \in f.todo, ToldTrue(b, f), NEW g, g = Without(f, e)
  PROVE  /\ g.from = f.from /\ g.to = f.to /\ g.phase = f.phase /\ Left(g) = Left(f) \ {e[1]} /\ e[1] \in Left(f)
         /\ ToldTrue(b, g) /\ Left(f) \subseteq Names /\ b[Append(f.from, e[1])] # "absent"
         /\ e[2] <=> b[Append(f.from, e[1])] = "dir"
<1>1. g.from = f.from /\ g.to = f.to /\ g.phase = f.phase /\ g.todo = f.todo \ {e}
  BY DEF Without, Frames
<1>2. Left(f) \subseteq Names /\ e[1] \in Left(f)
  BY DEF Left, Frames
<1>3. \A d \in f.todo : d[1] = e[1] => d = e
  BY DEF FrameOk
<1>4. Left(g) = Left(f) \ {e[1]}
  BY <1>1, <1>3 DEF Left
<1>5. ToldTrue(b, g)
  BY <1>1 DEF ToldTrue
<1>6. b[Append(f.from, e[1])] # "absent" /\ (e[2] <=> b[Append(f.from, e[1])] = "dir")
  BY DEF ToldTrue
<1> QED
  BY <1>1, <1>2, <1>4, <1>5, <1>6

\* A directory entered by a move: what it is, where it goes, and that the tree
\* has it in the first place.
SecondIs(t, b, f, g, x) ==
  /\ g.from = Append(f.from, x) /\ g.to = Append(f.to, x) /\ x \notin Left(f)
  /\ g.from \in Paths /\ g.to \in Paths /\ b[g.from] = "dir"
  /\ Apart(b, f.from, f.to)
  /\ t = Halfway(b, f.from, f.to, Left(f) \cup {x}, Names \ (IF g.phase = "make" THEN Left(f) \cup {x} ELSE Left(f)))
  /\ t[g.from] = "dir" /\ t[f.to] = "dir" /\ t[g.to] = IF g.phase = "make" THEN "absent" ELSE "dir"
  /\ \A n \in Names : Append(g.from, n) \notin Paths

\* Of a second directory on the stack of a move alone, that much is known.
LEMMA SecondFrame ==
  ASSUME NEW k, CallOk(k), k.pc = "moving", NEW t, Exactly(t, k), Len(k.stack) = 2
  PROVE  \E x \in Names : SecondIs(t, k.before, k.stack[1], k.stack[2], x)
<1>0. PICK f, g : f = k.stack[1] /\ g = k.stack[2]
  OBVIOUS
<1>1. PICK b : b = k.before
  OBVIOUS
<1>2. TwoMoved(t, b, f, g)
  BY <1>0, <1>1 DEF Exactly
<1>3. PICK x \in Names :
       /\ g.from = Append(f.from, x) /\ g.to = Append(f.to, x) /\ x \notin Left(f) /\ b[Append(f.from, x)] = "dir"
       /\ t = Halfway(b, f.from, f.to, Left(f) \cup {x},
                      Names \ (IF g.phase = "make" THEN Left(f) \cup {x} ELSE Left(f)))
  BY <1>2 DEF TwoMoved
<1>4. Free(b, f.to)
  BY <1>2 DEF TwoMoved
<1>5. Apart(b, f.from, f.to) /\ (Children(b, f.from) # {} => Parent(f.to) = <<>>)
  BY <1>0, <1>1, <1>4, FirstFrame
<1>6. g.from \in Paths
  <2>1. 2 \in 1 .. Len(k.stack) /\ StackOk(k)
    BY DEF CallOk
  <2> QED
    BY <1>0, <2>1 DEF StackOk, FrameOk
<1>7. b[Append(f.from, x)] # "absent"
  BY <1>3
<1>8. g.to \in Paths
  BY <1>3, <1>5, <1>6, <1>7, RoomForEntry
<1> DEFINE C == Names \ (IF g.phase = "make" THEN Left(f) \cup {x} ELSE Left(f))
<1>9. t[g.from] = "dir" /\ t[f.to] = "dir" /\ t[g.to] = IF g.phase = "make" THEN "absent" ELSE "dir"
  <2>1. x \in C <=> g.phase # "make"
    BY <1>3
  <2>2. t = Halfway(b, f.from, f.to, Left(f) \cup {x}, C)
    BY <1>3
  <2> HIDE DEF C
  <2>a. PICK p, q, L : p = f.from /\ q = f.to /\ L = Left(f) \cup {x}
    OBVIOUS
  <2>b. Apart(b, p, q) /\ t = Halfway(b, p, q, L, C) /\ x \in L
    BY <1>5, <2>2, <2>a
  <2>c. t[q] = "dir"
    BY <2>b, HalfwayEntries
  <2>d. \A n \in Names : Append(p, n) \in Paths => t[Append(p, n)] = IF n \in L THEN b[Append(p, n)] ELSE "absent"
    BY <2>b, HalfwayEntries
  <2>e. \A n \in Names : Append(q, n) \in Paths =>
          t[Append(q, n)] = IF n \in C /\ Append(p, n) \in Paths THEN b[Append(p, n)] ELSE "absent"
    BY <2>b, HalfwayEntries
  <2>f. t[g.from] = "dir"
    BY <1>3, <1>6, <2>a, <2>b, <2>d
  <2>g. t[g.to] = IF g.phase = "make" THEN "absent" ELSE "dir"
    BY <1>3, <1>6, <1>8, <2>1, <2>a, <2>e
  <2> QED
    BY <2>a, <2>c, <2>f, <2>g
<1>10. \A n \in Names : Append(g.from, n) \notin Paths
  <2>1. f.from \in Paths
    BY <1>5 DEF Apart
  <2>2. f.from \in Seq(Names) /\ f.from # <<>> /\ g.from \in Seq(Names) /\ g.from # <<>>
    BY <1>6, <2>1, PathFacts
  <2>3. Parent(g.from) = f.from
    BY <1>3, <2>2, EntryFacts
  <2> QED
    BY <2>2, <2>3, EntryFacts
<1>11. SecondIs(t, b, f, g, x)
  BY <1>3, <1>5, <1>6, <1>8, <1>9, <1>10 DEF SecondIs
<1> QED
  BY <1>0, <1>1, <1>11

\* The target is made, the first one or that of a directory inside.
LEMMA MakeTargetAlone ==
  ASSUME FilesInv, NEW c \in Callers, Exactly(tree, call[c]), MakeTarget(c)
  PROVE  Kept(c)
<1>1. PICK k : k = call[c]
  OBVIOUS
<1>2. PICK n, f : n = Len(k.stack) /\ f = k.stack[n]
  OBVIOUS
<1>3. CallOk(k) /\ k.pc = "moving" /\ f.phase = "make" /\ Exactly(tree, k)
  BY <1>1, <1>2 DEF FilesInv, MakeTarget, Moving, Top
<1>4. k \in CallRecords /\ k.op = "rename" /\ (n = 1 \/ n = 2) /\ f \in Frames /\ FrameOk(f)
  BY <1>2, <1>3, TopFacts
<1> DEFINE g == [f EXCEPT !.phase = "scan"]
           r == WithTop(k, g)
<1>5. g \in Frames /\ g.from = f.from /\ g.to = f.to /\ g.todo = f.todo /\ g.phase = "scan" /\ FrameOk(g)
  BY <1>3, <1>4 DEF Frames, Phases, FrameOk
<1>6. IF Free(tree, f.to) THEN tree' = [tree EXCEPT ![f.to] = "dir"] /\ Put(c, r) ELSE Fails(c)
  BY <1>1, <1>2 DEF MakeTarget, Top, SetTop, WithTop
<1>7. r.before = k.before /\ r.path = k.path /\ r.to = k.to
  BY <1>4, StackChanges
<1> HIDE DEF g
<1>8. /\ r.op = "rename" /\ r.pc = "moving" /\ Len(r.stack) = n /\ r.stack[n] = g
      /\ n = 2 => r.stack[1] = k.stack[1]
  BY <1>2, <1>3, <1>4, <1>5, TopSet
<1> HIDE DEF r
<1>9. CASE n = 1
  <2>1. OneMoved(tree, k.before, f) /\ tree = k.before
    BY <1>2, <1>3, <1>9 DEF Exactly, OneMoved
  <2>2. CASE Free(tree, f.to)
    <3>1. OneMoved(tree', k.before, g)
      BY <1>5, <1>6, <2>1, <2>2 DEF OneMoved
    <3> QED
      BY <1>1, <1>3, <1>4, <1>6, <1>7, <1>8, <1>9, <2>2, <3>1, MoveGoes
  <2>3. CASE ~Free(tree, f.to)
    BY <1>1, <1>6, <2>1, <2>3, AloneFails DEF Fails, SameTree
  <2> QED
    BY <2>2, <2>3
<1>10. CASE n = 2
  <2>1. PICK b, h : b = k.before /\ h = k.stack[1]
    OBVIOUS
  <2>2. PICK x \in Names :
           /\ f.from = Append(h.from, x) /\ f.to = Append(h.to, x) /\ x \notin Left(h)
           /\ f.from \in Paths /\ f.to \in Paths /\ b[f.from] = "dir"
           /\ Apart(b, h.from, h.to)
           /\ tree = Halfway(b, h.from, h.to, Left(h) \cup {x}, Names \ (Left(h) \cup {x}))
           /\ tree[h.to] = "dir" /\ tree[f.to] = "absent"
    <3>1. PICK x \in Names : SecondIs(tree, b, h, f, x)
      BY <1>2, <1>3, <1>10, <2>1, SecondFrame
    <3> QED
      BY <1>3, <3>1 DEF SecondIs
  <2>3. Free(tree, f.to)
    <3>1. h.to \in Paths /\ h.to \in Seq(Names)
      BY <2>2, PathFacts DEF Apart
    <3>2. Parent(f.to) = h.to
      BY <2>2, <3>1, EntryFacts
    <3>3. IsTree(tree)
      BY DEF FilesInv
    <3> QED
      BY <2>2, <3>1, <3>2, <3>3, TreeFacts
  <2>4. Put(c, r) /\ tree' = [tree EXCEPT ![f.to] = "dir"]
    BY <1>6, <2>3
  <2>5. tree' = Halfway(b, h.from, h.to, Left(h) \cup {x}, (Names \ (Left(h) \cup {x})) \cup {x})
    <3>1. PICK p, q, L, C : p = h.from /\ q = h.to /\ L = Left(h) \cup {x} /\ C = Names \ L
      OBVIOUS
    <3>2. Apart(b, p, q) /\ Append(p, x) \in Paths /\ Append(q, x) \in Paths
      BY <2>2, <3>1
    <3>3. tree' = Changed(Halfway(b, p, q, L, C), Append(q, x), b[Append(p, x)])
      BY <2>2, <2>4, <3>1 DEF Changed
    <3>4. tree' = Halfway(b, p, q, L, C \cup {x})
      BY <3>2, <3>3, Comes
    <3> QED
      BY <3>1, <3>4
  <2>6. (Names \ (Left(h) \cup {x})) \cup {x} = Names \ Left(h)
    BY <2>2
  <2>7. Free(b, h.to) /\ ToldTrue(b, h)
    BY <1>2, <1>3, <1>10, <2>1 DEF Exactly, TwoMoved
  <2>8. TwoMoved(tree', b, h, g)
    BY <1>5, <2>2, <2>5, <2>6, <2>7 DEF TwoMoved
  <2>9. Len(r.stack) = 1 => OneMoved(tree', k.before, r.stack[1])
    BY <1>8, <1>10
  <2>10. Len(r.stack) = 2 => TwoMoved(tree', k.before, r.stack[1], r.stack[2])
    BY <1>8, <1>10, <2>1, <2>8
  <2> QED
    BY <1>1, <1>3, <1>4, <1>7, <1>8, <2>4, <2>9, <2>10, MoveGoes
<1> QED
  BY <1>4, <1>9, <1>10

\* A move with one directory on the stack, among its entries.
OneIs(t, b, f) ==
  /\ Free(b, f.to) /\ Apart(b, f.from, f.to) /\ ToldTrue(b, f)
  /\ t = Halfway(b, f.from, f.to, Left(f), Names \ Left(f))
  /\ f.from \in Paths /\ f.to \in Paths /\ t[f.from] = "dir" /\ t[f.to] = "dir"
  /\ \A n \in Names : Append(f.from, n) \in Paths =>
       t[Append(f.from, n)] = IF n \in Left(f) THEN b[Append(f.from, n)] ELSE "absent"
  /\ \A n \in Left(f) : Append(f.to, n) \in Paths => t[Append(f.to, n)] = "absent"
  /\ \A n \in Names : Append(f.from, n) \in Paths /\ b[Append(f.from, n)] # "absent" => Append(f.to, n) \in Paths

\* Of the only directory on the stack of a move alone, that much is known.
LEMMA OneFrame ==
  ASSUME NEW k, CallOk(k), k.pc = "moving", NEW t, Exactly(t, k), Len(k.stack) = 1, k.stack[1].phase = "entries"
  PROVE  OneIs(t, k.before, k.stack[1])
<1>1. PICK f, b : f = k.stack[1] /\ b = k.before
  OBVIOUS
<1>2. Free(b, f.to) /\ ToldTrue(b, f) /\ t = Halfway(b, f.from, f.to, Left(f), Names \ Left(f))
  BY <1>1 DEF Exactly, OneMoved
<1>3. Apart(b, f.from, f.to) /\ (Children(b, f.from) # {} => Parent(f.to) = <<>>) /\ f \in Frames
  BY <1>1, <1>2, FirstFrame
<1>4. PICK p, q, L, C : p = f.from /\ q = f.to /\ L = Left(f) /\ C = Names \ L
  OBVIOUS
<1>5. Apart(b, p, q) /\ t = Halfway(b, p, q, L, C) /\ p \in Paths /\ q \in Paths /\ L \subseteq Names
  BY <1>2, <1>3, <1>4 DEF Apart, Left, Frames
<1>6. t[p] = "dir" /\ t[q] = "dir"
  BY <1>5, HalfwayEntries
<1>7. \A n \in Names : Append(p, n) \in Paths => t[Append(p, n)] = IF n \in L THEN b[Append(p, n)] ELSE "absent"
  BY <1>5, HalfwayEntries
<1>8. \A n \in Names : Append(q, n) \in Paths =>
        t[Append(q, n)] = IF n \in C /\ Append(p, n) \in Paths THEN b[Append(p, n)] ELSE "absent"
  BY <1>5, HalfwayEntries
<1>9. \A n \in L : Append(q, n) \in Paths => t[Append(q, n)] = "absent"
  BY <1>4, <1>5, <1>8
<1>10. \A n \in Names : Append(p, n) \in Paths /\ b[Append(p, n)] # "absent" => Append(q, n) \in Paths
  BY <1>3, <1>4, <1>5, RoomForEntry
<1>11. OneIs(t, b, f)
  BY <1>2, <1>3, <1>4, <1>5, <1>6, <1>7, <1>9, <1>10 DEF OneIs
<1> QED
  BY <1>1, <1>11

\* The scan tells everything the directory holds.
LEMMA ScanSourceAlone ==
  ASSUME FilesInv, NEW c \in Callers, Exactly(tree, call[c]), ScanSource(c)
  PROVE  Kept(c)
<1>1. PICK k : k = call[c]
  OBVIOUS
<1>2. PICK n, f : n = Len(k.stack) /\ f = k.stack[n]
  OBVIOUS
<1>3. CallOk(k) /\ k.pc = "moving" /\ f.phase = "scan" /\ Exactly(tree, k) /\ UNCHANGED tree
  BY <1>1, <1>2 DEF FilesInv, ScanSource, Moving, Top, SameTree
<1>4. k \in CallRecords /\ k.op = "rename" /\ (n = 1 \/ n = 2) /\ f \in Frames /\ FrameOk(f)
  BY <1>2, <1>3, TopFacts
<1> DEFINE s == {<<m, IsDir(tree, Append(f.from, m))>> : m \in Children(tree, f.from)}
           g == [f EXCEPT !.phase = "entries", !.todo = s]
           r == WithTop(k, g)
<1>5. IF IsDir(tree, f.from) THEN Put(c, r) ELSE Answer(c, "error")
  BY <1>1, <1>2 DEF ScanSource, Top, SetTop, WithTop
<1>6. r.before = k.before /\ r.path = k.path /\ r.to = k.to
  BY <1>4, StackChanges
<1>7. g.from = f.from /\ g.to = f.to /\ g.phase = "entries" /\ g.todo = s
  BY <1>4 DEF Frames
<1>8. /\ r.op = "rename" /\ r.pc = "moving" /\ Len(r.stack) = n /\ r.stack[n] = g
      /\ n = 2 => r.stack[1] = k.stack[1]
  <2>1. k.stack \in Seq(Frames) /\ k.op = "rename" /\ k.pc = "moving"
    BY <1>3, <1>4 DEF CallRecords
  <2>2. r.op = k.op /\ r.pc = k.pc /\ r.stack = [k.stack EXCEPT ![Len(k.stack)] = g]
    BY <1>4 DEF WithTop, CallRecords
  <2> HIDE DEF r, g
  <2>3. Len(r.stack) = n /\ r.stack[n] = g /\ (n = 2 => r.stack[1] = k.stack[1])
    BY <1>2, <1>4, <2>1, <2>2
  <2> QED
    BY <2>1, <2>2, <2>3
<1>9. /\ Left(g) = Children(tree, f.from)
      /\ \A e \in g.todo : e[1] \in Left(g) /\ e[2] = IsDir(tree, Append(f.from, e[1]))
  <2>1. \A e \in s : e[1] \in Children(tree, f.from) /\ e[2] = IsDir(tree, Append(f.from, e[1]))
    OBVIOUS
  <2>2. \A m \in Children(tree, f.from) : <<m, IsDir(tree, Append(f.from, m))>> \in s
    OBVIOUS
  <2> HIDE DEF s, g
  <2>3. \A m \in Children(tree, f.from) : \E e \in s : e[1] = m
    BY <2>2
  <2>4. Left(g) = Children(tree, f.from)
    BY <1>7, <2>1, <2>3 DEF Left
  <2> QED
    BY <1>7, <2>1, <2>4
<1> HIDE DEF r, g, s
<1>10. CASE n = 1
  <2>1. PICK b : b = k.before
    OBVIOUS
  <2>2. Free(b, f.to) /\ tree = [b EXCEPT ![f.to] = "dir"]
    BY <1>2, <1>3, <1>10, <2>1 DEF Exactly, OneMoved
  <2>3. Apart(b, f.from, f.to) /\ f.from \in Paths
    BY <1>2, <1>3, <1>10, <2>1, <2>2, FirstFrame
  <2>4. /\ b \in Trees /\ b[f.from] = "dir" /\ f.from # f.to
    BY <2>3, TreeFacts DEF Apart
  <2>5. IsDir(tree, f.from)
    BY <2>2, <2>3, <2>4 DEF IsDir, Trees
  <2>a. tree = Changed(b, f.to, "dir")
    BY <2>2 DEF Changed
  <2>b. Left(g) = Children(Changed(b, f.to, "dir"), f.from)
    BY <1>9, <2>a
  <2>6. tree = Halfway(b, f.from, f.to, Left(g), Names \ Left(g))
    BY <2>3, <2>a, <2>b, ScanHalfway
  <2>7. \A m \in Left(g) : b[Append(f.from, m)] # "absent" /\ (IsDir(tree, Append(f.from, m)) <=> b[Append(f.from, m)] = "dir")
    BY <2>3, <2>a, <2>b, ScanHalfway
  <2>8. ToldTrue(b, g)
    BY <1>7, <1>9, <2>7 DEF ToldTrue
  <2>9. OneMoved(tree', b, g)
    BY <1>3, <1>7, <2>2, <2>6, <2>8 DEF OneMoved
  <2>10. Len(r.stack) = 1 => OneMoved(tree', k.before, r.stack[1])
    BY <1>8, <1>10, <2>1, <2>9
  <2>11. Len(r.stack) = 2 => TwoMoved(tree', k.before, r.stack[1], r.stack[2])
    BY <1>8, <1>10
  <2> QED
    BY <1>1, <1>3, <1>4, <1>5, <1>6, <1>8, <2>5, <2>10, <2>11, MoveGoes
<1>11. CASE n = 2
  <2>1. PICK b, h : b = k.before /\ h = k.stack[1]
    OBVIOUS
  <2>2. PICK x \in Names : SecondIs(tree, b, h, f, x)
    BY <1>2, <1>3, <1>11, <2>1, SecondFrame
  <2>3. /\ f.from = Append(h.from, x) /\ f.to = Append(h.to, x) /\ x \notin Left(h)
        /\ f.from \in Paths /\ b[f.from] = "dir" /\ tree[f.from] = "dir"
        /\ tree = Halfway(b, h.from, h.to, Left(h) \cup {x}, Names \ Left(h))
    BY <1>3, <2>2 DEF SecondIs
  <2>4. IsDir(tree, f.from)
    BY <2>3 DEF IsDir
  <2>5. Free(b, h.to) /\ ToldTrue(b, h)
    BY <1>2, <1>3, <1>11, <2>1 DEF Exactly, TwoMoved
  <2>6. TwoMoved(tree', b, h, g)
    BY <1>3, <1>7, <2>3, <2>5 DEF TwoMoved
  <2>7. Len(r.stack) = 1 => OneMoved(tree', k.before, r.stack[1])
    BY <1>8, <1>11
  <2>8. Len(r.stack) = 2 => TwoMoved(tree', k.before, r.stack[1], r.stack[2])
    BY <1>8, <1>11, <2>1, <2>6
  <2> QED
    BY <1>1, <1>3, <1>4, <1>5, <1>6, <1>8, <2>4, <2>7, <2>8, MoveGoes
<1> QED
  BY <1>4, <1>10, <1>11

\* The move enters a directory inside the directory.
LEMMA EnterAlone ==
  ASSUME NEW c \in Callers, NEW k, k = call[c], CallOk(k), k.pc = "moving", Exactly(tree, k),
         NEW f, f = TopOf(k), NEW e \in f.todo, e[2], UNCHANGED tree,
         Put(c, WithFrame(WithTop(k, Without(f, e)), Frame(Append(f.from, e[1]), Append(f.to, e[1]))))
  PROVE  Kept(c)
<1> DEFINE h == Frame(Append(f.from, e[1]), Append(f.to, e[1]))
           g == Without(f, e)
           m == WithTop(k, g)
           r == WithFrame(m, h)
<1>0. Put(c, r)
  OBVIOUS
<1>1. /\ Len(k.stack) = 1 /\ f \in Frames /\ FrameOk(f) /\ k \in CallRecords /\ k.op = "rename"
      /\ CallOk(m) /\ m.op = "rename" /\ m.pc = "moving" /\ Len(m.stack) = 1 /\ m.stack[1] = g
  BY EntryTaken
<1>2. f.phase = "entries" /\ f = k.stack[1]
  BY <1>1, EntryPaths DEF TopOf
<1>3. PICK b, x : b = k.before /\ x = e[1]
  OBVIOUS
<1>4. OneIs(tree, b, f)
  BY <1>1, <1>2, <1>3, OneFrame
<1>5. Free(b, f.to) /\ ToldTrue(b, f) /\ tree = Halfway(b, f.from, f.to, Left(f), Names \ Left(f))
  BY <1>4 DEF OneIs
<1>6. /\ g.from = f.from /\ g.to = f.to /\ Left(g) = Left(f) \ {x} /\ x \in Left(f)
      /\ ToldTrue(b, g) /\ Left(f) \subseteq Names /\ b[Append(f.from, x)] = "dir"
  BY <1>1, <1>3, <1>5, LeftTaken
<1>7. h.from = Append(f.from, x) /\ h.to = Append(f.to, x) /\ h.phase = "make"
  BY <1>3 DEF Frame
<1>8. m \in CallRecords
  BY <1>1 DEF CallOk
<1>9. r.before = k.before /\ r.path = k.path /\ r.to = k.to
  <2>1. m.before = k.before /\ m.path = k.path /\ m.to = k.to
    BY <1>1, StackChanges
  <2> HIDE DEF m
  <2>2. r.before = m.before /\ r.path = m.path /\ r.to = m.to
    BY <1>8, StackChanges
  <2> QED
    BY <2>1, <2>2
<1> HIDE DEF m, g, h
<1>10. r.op = "rename" /\ r.pc = "moving" /\ Len(r.stack) = 2 /\ r.stack[1] = g /\ r.stack[2] = h
  <2>1. r.op = m.op /\ r.pc = m.pc /\ r.stack = Append(m.stack, h)
    BY <1>8 DEF WithFrame, CallRecords
  <2>2. m.stack \in Seq(Frames)
    BY <1>8 DEF CallRecords
  <2> HIDE DEF r
  <2>3. Len(r.stack) = 2 /\ r.stack[1] = g /\ r.stack[2] = h
    BY <1>1, <2>1, <2>2
  <2> QED
    BY <1>1, <2>1, <2>3
<1> HIDE DEF r
<1>11. Left(g) \cup {x} = Left(f)
  BY <1>6
<1>12. TwoMoved(tree', b, g, h)
  <2>1. tree' = Halfway(b, g.from, g.to, Left(g) \cup {x}, Names \ (Left(g) \cup {x}))
    BY <1>5, <1>6, <1>11
  <2>2. Free(b, g.to) /\ ToldTrue(b, g)
    BY <1>5, <1>6
  <2>3. x \in Names /\ x \notin Left(g) /\ b[Append(g.from, x)] = "dir"
    BY <1>6
  <2>4. h.from = Append(g.from, x) /\ h.to = Append(g.to, x)
    BY <1>6, <1>7
  <2>5. (IF h.phase = "make" THEN Left(g) \cup {x} ELSE Left(g)) = Left(g) \cup {x}
    BY <1>7
  <2> QED
    BY <2>1, <2>2, <2>3, <2>4, <2>5, Zenon DEF TwoMoved
<1>13. Len(r.stack) = 1 => OneMoved(tree', k.before, r.stack[1])
  BY <1>10
<1>14. Len(r.stack) = 2 => TwoMoved(tree', k.before, r.stack[1], r.stack[2])
  BY <1>3, <1>10, <1>12
<1> QED
  BY <1>0, <1>1, <1>9, <1>10, <1>13, <1>14, MoveGoes

\* Where the next entry of a move is, and that it can be moved.
LEMMA EntryCanMove ==
  ASSUME NEW k, CallOk(k), k.pc = "moving", Exactly(tree, k), IsTree(tree),
         NEW f, f = TopOf(k), NEW e \in f.todo, ~e[2]
  PROVE  /\ OneIs(tree, k.before, f) /\ e[1] \in Left(f) /\ e[1] \in Names
         /\ Append(f.from, e[1]) \in Paths /\ Append(f.to, e[1]) \in Paths
         /\ tree[Append(f.from, e[1])] = k.before[Append(f.from, e[1])] /\ tree[Append(f.from, e[1])] \in Inodes
         /\ tree[Append(f.to, e[1])] = "absent"
         /\ Exists(tree, Append(f.from, e[1])) /\ IsDir(tree, Parent(Append(f.to, e[1])))
         /\ ~IsDir(tree, Append(f.to, e[1]))
<1>1. Len(k.stack) = 1 /\ f \in Frames /\ FrameOk(f)
  BY EntryTaken
<1>2. PICK b, x : b = k.before /\ x = e[1]
  OBVIOUS
<1>3. /\ x \in Names /\ Append(f.from, x) \in Paths /\ f.to \in Seq(Names) /\ f.phase = "entries"
      /\ Parent(Append(f.to, x)) = f.to
  BY <1>1, <1>2, EntryPaths
<1>4. OneIs(tree, b, f)
  BY <1>1, <1>2, <1>3, OneFrame DEF TopOf
<1>5. ToldTrue(b, f) /\ Apart(b, f.from, f.to)
  BY <1>4 DEF OneIs
<1>6. x \in Left(f) /\ b[Append(f.from, x)] # "absent" /\ b[Append(f.from, x)] # "dir"
  BY <1>1, <1>2, <1>5, LeftTaken
<1>7. Append(f.to, x) \in Paths
  BY <1>3, <1>4, <1>6 DEF OneIs
<1>8. tree[Append(f.from, x)] = b[Append(f.from, x)] /\ tree[Append(f.to, x)] = "absent" /\ tree[f.to] = "dir" /\ f.to \in Paths
  BY <1>3, <1>4, <1>6, <1>7 DEF OneIs
<1>9. tree[Append(f.from, x)] \in Inodes
  BY <1>3, <1>6, <1>8, TreeFacts DEF Trees
<1>10. Exists(tree, Append(f.from, x)) /\ IsDir(tree, f.to)
  BY <1>3, <1>8, <1>9 DEF Exists, IsFile, IsDir
<1>11. ~IsDir(tree, Append(f.to, x))
  <2>1. Append(f.to, x) # <<>>
    BY <1>7, PathFacts
  <2> QED
    BY <1>8, <2>1 DEF IsDir
<1> QED
  BY <1>2, <1>3, <1>4, <1>6, <1>7, <1>8, <1>9, <1>10, <1>11

\* The move of a file of the directory.
LEMMA MoveFileAlone ==
  ASSUME NEW c \in Callers, NEW k, k = call[c], CallOk(k), k.pc = "moving", Exactly(tree, k), IsTree(tree),
         NEW f, f = TopOf(k), NEW e \in f.todo, ~e[2],
         tree' = Moved(tree, Append(f.from, e[1]), Append(f.to, e[1])), Put(c, WithTop(k, Without(f, e)))
  PROVE  Kept(c)
<1> DEFINE g == Without(f, e)
           r == WithTop(k, g)
<1>0. Put(c, r)
  OBVIOUS
<1>1. /\ Len(k.stack) = 1 /\ f \in Frames /\ FrameOk(f) /\ k \in CallRecords /\ k.op = "rename"
      /\ g.phase = "entries" /\ r.op = "rename" /\ r.pc = "moving" /\ Len(r.stack) = 1 /\ r.stack[1] = g
  BY EntryTaken
<1>2. r.before = k.before /\ r.path = k.path /\ r.to = k.to
  BY <1>1, StackChanges
<1>3. PICK b, x, p, q, L, C : b = k.before /\ x = e[1] /\ p = f.from /\ q = f.to /\ L = Left(f) /\ C = Names \ L
  OBVIOUS
<1>4. OneIs(tree, b, f) /\ x \in L /\ x \in Names
  BY <1>3, EntryCanMove
<1>5. /\ Append(p, x) \in Paths /\ Append(q, x) \in Paths
      /\ tree[Append(p, x)] = b[Append(p, x)] /\ tree[Append(p, x)] \in Inodes /\ tree[Append(q, x)] = "absent"
  BY <1>3, EntryCanMove
<1>6. Free(b, q) /\ ToldTrue(b, f) /\ Apart(b, p, q) /\ tree = Halfway(b, p, q, L, C)
  BY <1>3, <1>4 DEF OneIs
<1>7. g.from = p /\ g.to = q /\ Left(g) = L \ {x} /\ ToldTrue(b, g)
  BY <1>1, <1>3, <1>6, LeftTaken
<1> HIDE DEF g, r
<1>8. tree' = Changed(Changed(tree, Append(p, x), "absent"), Append(q, x), b[Append(p, x)])
  <2>1. tree' = [tree EXCEPT ![Append(p, x)] = "absent", ![Append(q, x)] = tree[Append(p, x)]]
    <3>1. PICK y, z : y = Append(p, x) /\ z = Append(q, x)
      OBVIOUS
    <3>2. y \in Paths /\ z \in Paths /\ tree[y] \in Inodes /\ tree[z] = "absent" /\ tree' = Moved(tree, y, z)
      BY <1>3, <1>5, <3>1
    <3>3. Moved(tree, y, z) = [tree EXCEPT ![y] = "absent", ![z] = tree[y]]
      BY <3>2, FileMoved
    <3> QED
      BY <3>1, <3>2, <3>3
  <2> QED
    BY <1>5, <2>1 DEF Changed
<1>9. Changed(tree, Append(p, x), "absent") = Halfway(b, p, q, L \ {x}, C)
  BY <1>4, <1>5, <1>6, Leaves
<1>10. Changed(Halfway(b, p, q, L \ {x}, C), Append(q, x), b[Append(p, x)]) = Halfway(b, p, q, L \ {x}, C \cup {x})
  BY <1>4, <1>5, <1>6, Comes
<1>11. C \cup {x} = Names \ (L \ {x})
  BY <1>3, <1>4
<1>12. tree' = Halfway(b, p, q, L \ {x}, Names \ (L \ {x}))
  BY <1>8, <1>9, <1>10, <1>11
<1>13. OneMoved(tree', b, g)
  BY <1>1, <1>6, <1>7, <1>12 DEF OneMoved
<1>14. Len(r.stack) = 1 => OneMoved(tree', k.before, r.stack[1])
  BY <1>1, <1>3, <1>13
<1>15. Len(r.stack) = 2 => TwoMoved(tree', k.before, r.stack[1], r.stack[2])
  BY <1>1
<1> QED
  BY <1>0, <1>1, <1>2, <1>14, <1>15, MoveGoes

\* An entry of a directory moves, or is entered.
LEMMA MoveEntryAlone ==
  ASSUME FilesInv, NEW c \in Callers, Exactly(tree, call[c]), MoveEntry(c)
  PROVE  Kept(c)
<1>1. PICK k : k = call[c]
  OBVIOUS
<1>2. PICK f : f = TopOf(k)
  OBVIOUS
<1>3. k.pc = "moving"
  BY <1>1, <1>2, MoveEntrySplit
<1>4. CallOk(k) /\ Exactly(tree, k) /\ IsTree(tree)
  BY <1>1 DEF FilesInv
<1>5. ASSUME NEW e \in f.todo, e[2], SameTree,
             Put(c, WithFrame(WithTop(k, Without(f, e)), Frame(Append(f.from, e[1]), Append(f.to, e[1]))))
      PROVE  Kept(c)
  <2>1. UNCHANGED tree
    BY <1>5 DEF SameTree
  <2> QED
    BY <1>1, <1>2, <1>3, <1>4, <1>5, <2>1, EnterAlone
<1>6. ASSUME NEW e \in f.todo, ~e[2],
             tree' = Moved(tree, Append(f.from, e[1]), Append(f.to, e[1])), Put(c, WithTop(k, Without(f, e)))
      PROVE  Kept(c)
  BY <1>1, <1>2, <1>3, <1>4, <1>6, MoveFileAlone
<1>7. \A e \in f.todo : ~e[2] =>
        /\ Exists(tree, Append(f.from, e[1])) /\ Append(f.to, e[1]) \in Paths
        /\ IsDir(tree, Parent(Append(f.to, e[1]))) /\ ~IsDir(tree, Append(f.to, e[1]))
  BY <1>2, <1>3, <1>4, EntryCanMove
<1> QED
  BY <1>1, <1>2, <1>5, <1>6, <1>7, MoveEntrySplit

\* A directory is removed when its entries are gone: inside, the move goes on; on top, it is done.
LEMMA RemoveSourceAlone ==
  ASSUME FilesInv, NEW c \in Callers, Exactly(tree, call[c]), RemoveSource(c)
  PROVE  Kept(c)
<1>1. PICK k : k = call[c]
  OBVIOUS
<1>2. PICK n, f : n = Len(k.stack) /\ f = k.stack[n]
  OBVIOUS
<1>3. /\ CallOk(k) /\ k.pc = "moving" /\ f.phase = "entries" /\ f.todo = {} /\ Exactly(tree, k) /\ IsTree(tree)
  BY <1>1, <1>2 DEF FilesInv, RemoveSource, Moving, Top
<1>4. k \in CallRecords /\ k.op = "rename" /\ (n = 1 \/ n = 2) /\ f \in Frames /\ FrameOk(f)
  BY <1>2, <1>3, TopFacts
<1>5. IF IsDir(tree, f.from) /\ Children(tree, f.from) = {}
      THEN /\ tree' = Changed(tree, f.from, "absent")
           /\ IF n = 1 THEN Answer(c, "ok") ELSE Put(c, WithoutTop(k))
      ELSE Fails(c)
  BY <1>1, <1>2 DEF RemoveSource, Top, WithoutTop, Changed
<1>6. PICK b : b = k.before
  OBVIOUS
<1>7. CASE n = 1
  <2>1. OneIs(tree, b, f) /\ Left(f) = {} /\ f.from = k.path /\ f.to = k.to
    BY <1>2, <1>3, <1>6, <1>7, OneFrame, FirstFrame DEF Left
  <2>2. PICK p, q : p = f.from /\ q = f.to
    OBVIOUS
  <2>3. /\ Apart(b, p, q) /\ tree = Halfway(b, p, q, {}, Names) /\ p \in Paths /\ tree[p] = "dir"
        /\ \A m \in Names : Append(p, m) \in Paths => tree[Append(p, m)] = "absent"
    <3>1. Names \ {} = Names
      OBVIOUS
    <3> QED
      BY <2>1, <2>2, <3>1 DEF OneIs
  <2>4. Children(tree, p) = {}
    <3>1. p \in Seq(Names)
      BY <2>3, PathFacts
    <3>2. \A m \in Names : Append(p, m) # <<>>
      BY <3>1, EntryFacts
    <3>3. \A m \in Names : ~Exists(tree, Append(p, m))
      BY <1>3, <2>3, <3>2, TreeFacts DEF Exists, IsDir, IsFile
    <3> QED
      BY <3>3 DEF Children
  <2>5. IsDir(tree, p)
    BY <2>3 DEF IsDir
  <2>6. Answer(c, "ok") /\ tree' = Changed(tree, p, "absent")
    BY <1>5, <1>7, <2>2, <2>4, <2>5
  <2>7. tree' = Moved(b, p, q)
    BY <2>3, <2>6, SourceGone
  <2>8. Promise(k, "ok", tree')
    BY <1>4, <1>6, <2>1, <2>2, <2>7 DEF Promise
  <2> QED
    BY <1>1, <2>6, <2>8, AloneAnswers
<1>8. CASE n = 2
  <2>1. PICK h : h = k.stack[1]
    OBVIOUS
  <2>2. PICK x \in Names : SecondIs(tree, b, h, f, x)
    BY <1>2, <1>3, <1>6, <1>8, <2>1, SecondFrame
  <2>3. PICK p, q, L : p = h.from /\ q = h.to /\ L = Left(h)
    OBVIOUS
  <2>4. /\ f.from = Append(p, x) /\ x \notin L /\ f.from \in Paths /\ tree[f.from] = "dir" /\ Apart(b, p, q)
        /\ tree = Halfway(b, p, q, L \cup {x}, Names \ L)
        /\ \A m \in Names : Append(f.from, m) \notin Paths
    BY <1>3, <2>2, <2>3 DEF SecondIs
  <2>5. IsDir(tree, f.from)
    BY <2>4 DEF IsDir
  <2>6. Children(tree, f.from) = {}
    <3>1. f.from \in Seq(Names)
      BY <2>4, PathFacts
    <3>2. \A m \in Names : Append(f.from, m) # <<>>
      BY <3>1, EntryFacts
    <3> QED
      BY <2>4, <3>2 DEF Children, Exists, IsDir, IsFile
  <2>7. Put(c, WithoutTop(k)) /\ tree' = Changed(tree, Append(p, x), "absent")
    BY <1>5, <1>8, <2>4, <2>5, <2>6
  <2>8. tree' = Halfway(b, p, q, (L \cup {x}) \ {x}, Names \ L)
    <3>1. PICK M, C : M = L \cup {x} /\ C = Names \ L
      OBVIOUS
    <3>2. Changed(Halfway(b, p, q, M, C), Append(p, x), "absent") = Halfway(b, p, q, M \ {x}, C)
      BY <2>4, Leaves
    <3> QED
      BY <2>4, <2>7, <3>1, <3>2
  <2>9. (L \cup {x}) \ {x} = L
    BY <2>4
  <2>10. Free(b, q) /\ ToldTrue(b, h)
    BY <1>2, <1>3, <1>6, <1>8, <2>1, <2>3 DEF Exactly, TwoMoved
  <2>11. h.phase = "entries"
    BY <1>2, <1>3, <1>8, <2>1, TopFacts
  <2>12. OneMoved(tree', b, h)
    BY <2>3, <2>8, <2>9, <2>10, <2>11 DEF OneMoved
  <2> DEFINE r == WithoutTop(k)
  <2>13. r.op = "rename" /\ r.pc = "moving" /\ Len(r.stack) = 1 /\ r.stack[1] = h
    BY <1>2, <1>3, <1>4, <1>8, <2>1, Popped
  <2>14. r.before = k.before /\ r.path = k.path /\ r.to = k.to
    BY <1>4, StackChanges
  <2>15. Put(c, r)
    BY <2>7
  <2> HIDE DEF r
  <2>16. Len(r.stack) = 1 => OneMoved(tree', k.before, r.stack[1])
    BY <1>6, <2>12, <2>13
  <2>17. Len(r.stack) = 2 => TwoMoved(tree', k.before, r.stack[1], r.stack[2])
    BY <2>13
  <2> QED
    BY <1>1, <1>3, <1>4, <2>13, <2>14, <2>15, <2>16, <2>17, MoveGoes
<1> QED
  BY <1>4, <1>7, <1>8

\* Every step of a call that runs alone.
LEMMA WorkAlone ==
  ASSUME FilesInv, NEW c \in Callers, Exactly(tree, call[c]), Work(c)
  PROVE  Kept(c)
BY ScanAlone, ListEntryAlone, ReadAlone, StatDownloadAlone, StatDeleteAlone, OpenNewAlone, TruncateAlone,
   WriteAlone, MkdirAlone, RemoveAlone, StatRenameAlone, LinkAlone, UnlinkAlone, MakeTargetAlone, ScanSourceAlone,
   MoveEntryAlone, RemoveSourceAlone DEF Work

\* A call that is let in while no other is under way.
LEMMA NewCallAlone ==
  ASSUME FilesInv, NEW root \in roots, NEW op \in Ops, NEW rel \in Seq(Names), NEW torel \in Seq(Names),
         NEW text \in Texts, NEW lone \in BOOLEAN, lone, Admits(root, op, rel, torel),
         CallOk(NewCall(root, op, rel, torel, text, lone)), NewCall(root, op, rel, torel, text, lone).op = op,
         op = "rename" => /\ Fits(root, torel)
                          /\ Len(root.path \o torel) + Height(tree, root.path \o rel) <= Depth
  PROVE  Exactly(tree, NewCall(root, op, rel, torel, text, lone))
<1> DEFINE r == NewCall(root, op, rel, torel, text, lone)
           p == root.path \o rel
           q == root.path \o torel
<1>1. CallOk(r) /\ r.op = op
  OBVIOUS
<1>2. /\ r.pc = FirstStep(op) /\ r.path = p /\ (op = "rename" => r.to = q) /\ r.before = tree /\ r.got = {}
  BY DEF NewCall, Idle
<1>3. FirstStep(op) \in {"scan", "new", "truncate", "read", "mkdir", "stat"} /\ (FirstStep(op) = "truncate" => op = "edit")
  BY DEF FirstStep, Ops
<1>4. op = "edit" => Exists(tree, p)
  BY DEF Admits, ResolvesExisting
<1>5. op = "rename" => Roomy(tree, r)
  <2>1. SUFFICES ASSUME op = "rename", IsDir(tree, p), Children(tree, p) # {} PROVE Parent(q) = <<>>
    BY <1>2 DEF Roomy
  <2>2. q \in Paths
    BY <1>1, <1>2, <2>1 DEF CallOk, AtItsPlace
  <2>3. Len(q) \in 1 .. 2 /\ Parent(q) \in Seq(Names) /\ Len(Parent(q)) = Len(q) - 1
    BY <2>2, PathForm, ParentForm
  <2>4. Height(tree, p) = 1
    BY <2>1 DEF Height
  <2>5. Len(q) + 1 <= 2
    BY <2>1, <2>4 DEF Depth
  <2> HIDE DEF q
  <2>6. Len(Parent(q)) = 0
    BY <2>3, <2>5
  <2> QED
    BY <2>3, <2>6, EmptySeq
<1>6. IsTree(tree)
  BY DEF FilesInv
<1> HIDE DEF r, p, q
<1>7. Exactly(tree, r)
  BY <1>1, <1>2, <1>3, <1>4, <1>5, <1>6 DEF Exactly
<1> QED
  BY <1>7 DEF r

\* A call that comes in, admitted or refused.
LEMMA CallAlone ==
  ASSUME FilesInv, AloneInv, NEW c \in Callers, NEW root \in roots, NEW op \in Ops, NEW rel \in Seq(Names),
         NEW torel \in Seq(Names), NEW text \in Texts, op = "rename" => Fits(root, torel),
         Call(c, root, op, rel, torel, text)
  PROVE  /\ AloneInv' /\ ~Busy(c)
         /\ \A d \in Callers : Busy(d) => call'[d].pc # "idle"
<1> DEFINE others == {d \in Callers \ {c} : Busy(d)}
           lone == others = {}
           r == NewCall(root, op, rel, torel, text, lone)
           cut(k) == [k EXCEPT !.alone = FALSE, !.before = <<>>]
           admitted == Admits(root, op, rel, torel)
<1>1. /\ UNCHANGED tree /\ ~Busy(c)
      /\ call' = [d \in Callers |->
                    IF d = c THEN IF admitted THEN r ELSE Idle("refused")
                    ELSE IF admitted /\ Busy(d) THEN cut(call[d]) ELSE IF Busy(d) THEN call[d] ELSE Idle("none")]
      /\ op = "rename" => Len(root.path \o torel) + Height(tree, root.path \o rel) <= Depth
  BY DEF Call, NewCall
<1>2. admitted /\ lone => Exactly(tree, r)
  <2>1. lone \in BOOLEAN
    OBVIOUS
  <2> HIDE DEF lone, others
  <2>2. admitted => CallOk(r)
    BY <2>1, NewCallOk
  <2>3. admitted => r.op = op
    BY <2>1, NewCallOk
  <2> QED
    BY <1>1, <2>1, <2>2, <2>3, NewCallAlone
<1>3. r.alone = lone
  BY DEF NewCall, Idle
<1>4. \A d \in Callers : cut(call[d]).alone = FALSE /\ cut(call[d]).pc = call[d].pc
  BY DEF FilesInv, CallRecords
<1>5. \A a : Idle(a).pc = "idle"
  BY DEF Idle
<1>6. lone => \A d \in Callers : d # c => ~Busy(d)
  OBVIOUS
<1> HIDE DEF r, cut, admitted, lone, others
<1>7. /\ \A d \in Callers : d # c => \/ ~Busy(d) /\ call'[d] = Idle("none")
                                     \/ Busy(d) /\ admitted /\ call'[d] = cut(call[d])
                                     \/ Busy(d) /\ ~admitted /\ call'[d] = call[d]
      /\ (~admitted /\ call'[c] = Idle("refused")) \/ (admitted /\ call'[c] = r)
  BY <1>1
<1>8. ASSUME NEW d \in Callers, call'[d].pc # "idle", call'[d].alone
      PROVE  Exactly(tree', call'[d]) /\ \A e \in Callers \ {d} : call'[e].pc = "idle"
  <2>1. CASE d = c
    <3>1. admitted /\ call'[c] = r /\ lone
      BY <1>3, <1>5, <1>7, <1>8, <2>1
    <3>2. Exactly(tree', call'[c])
      BY <1>1, <1>2, <3>1
    <3> QED
      BY <1>5, <1>6, <1>7, <2>1, <3>1, <3>2
  <2>2. CASE d # c
    <3>1. Busy(d) /\ ~admitted /\ call'[d] = call[d]
      BY <1>4, <1>5, <1>7, <1>8, <2>2
    <3>2. Exactly(tree, call[d]) /\ \A e \in Callers \ {d} : ~Busy(e)
      BY <1>8, <3>1 DEF AloneInv
    <3>3. \A e \in Callers \ {d} : call'[e].pc = "idle"
      BY <1>5, <1>7, <3>1, <3>2
    <3> QED
      BY <1>1, <3>1, <3>2, <3>3
  <2> QED
    BY <2>1, <2>2
<1>9. AloneInv'
  BY <1>8 DEF AloneInv, Busy
<1>10. \A d \in Callers : Busy(d) => call'[d].pc # "idle"
  BY <1>1, <1>4, <1>7 DEF Busy
<1> QED
  BY <1>1, <1>9, <1>10

\* A call that comes in, whatever it is.
LEMMA CallsAlone ==
  ASSUME FilesInv, AloneInv, NEW c \in Callers, Calls(c)
  PROVE  /\ AloneInv' /\ ~Busy(c)
         /\ \A d \in Callers : Busy(d) => call'[d].pc # "idle"
<1>1. Rels \subseteq Seq(Names) /\ <<>> \in Seq(Names) /\ "rename" \in Ops
  BY FilesAssumption DEF Ops
<1>2. \E root \in roots, op \in Ops, rel \in Seq(Names), torel \in Seq(Names), x \in Texts :
        (op = "rename" => Fits(root, torel)) /\ Call(c, root, op, rel, torel, x)
  BY <1>1 DEF Calls
<1> QED
  BY <1>2, CallAlone

\* A step of the work on a call leaves it, or ends it, as it started.
LEMMA WorkPuts ==
  ASSUME FilesInv, NEW c \in Callers, Work(c)
  PROVE  Busy(c) /\ \E r : Put(c, r) /\ (r.pc = "idle" \/ r.alone = call[c].alone)
<1>1. PICK k : k = call[c]
  OBVIOUS
<1>2. k \in CallRecords
  BY <1>1 DEF FilesInv
<1> DEFINE Same(r) == r.pc = "idle" \/ r.alone = k.alone
           Puts == \E r : Put(c, r) /\ Same(r)
<1>3. ASSUME NEW a, Answer(c, a) PROVE Puts
  <2>1. Idle(a).pc = "idle"
    BY DEF Idle
  <2> QED
    BY <1>3, <2>1 DEF Answer
<1>4. Fails(c) => Puts
  BY <1>3 DEF Fails
<1>5. \A x : GoTo(c, x) => Puts
  <2>1. \A x : [k EXCEPT !.pc = x].alone = k.alone
    BY <1>2 DEF CallRecords
  <2> QED
    BY <1>1, <2>1 DEF GoTo
<1>6. OpensNew(c) => Puts
  <2>1. \A f : [k EXCEPT !.pc = "write", !.file = f].alone = k.alone
    BY <1>2 DEF CallRecords
  <2> QED
    BY <1>1, <2>1 DEF OpensNew
<1>7. \A f : SetTop(c, f).alone = k.alone
  BY <1>1, <1>2 DEF SetTop, CallRecords
<1>8. Scan(c) => Puts
  <2>1. \A s : [k EXCEPT !.pc = "entries", !.todo = s].alone = k.alone
    BY <1>2 DEF CallRecords
  <2> QED
    BY <1>1, <1>3, <2>1 DEF Scan
<1>9. ListEntry(c) => Puts
  <2>1. \A n : [k EXCEPT !.todo = @ \ {n}, !.got = @ \cup {n}].alone = k.alone
    BY <1>2 DEF CallRecords
  <2> QED
    BY <1>1, <1>3, <2>1 DEF ListEntry
<1>10. Truncate(c) => Puts
  <2>1. \A f : [k EXCEPT !.pc = "write", !.file = f].alone = k.alone
    BY <1>2 DEF CallRecords
  <2> QED
    BY <1>1, <1>4, <1>6, <2>1 DEF Truncate
<1>11. StatRename(c) => Puts
  <2>1. \A s : [k EXCEPT !.pc = "moving", !.stack = s].alone = k.alone
    BY <1>2 DEF CallRecords
  <2> QED
    BY <1>1, <1>3, <1>5, <2>1 DEF StatRename
<1>12. Link(c) => Puts
  <2>1. [k EXCEPT !.pc = "unlink"].alone = k.alone
    BY <1>2 DEF CallRecords
  <2> QED
    BY <1>1, <1>4, <2>1 DEF Link
<1>13. MakeTarget(c) => Puts
  BY <1>4, <1>7 DEF MakeTarget
<1>14. ScanSource(c) => Puts
  BY <1>3, <1>7 DEF ScanSource
<1>15. MoveEntry(c) => Puts
  <2>1. \A f, g : [SetTop(c, f) EXCEPT !.stack = Append(@, g)].alone = k.alone
    BY <1>1, <1>2 DEF SetTop, CallRecords
  <2> QED
    BY <1>4, <1>7, <2>1 DEF MoveEntry
<1>16. RemoveSource(c) => Puts
  <2>1. [k EXCEPT !.stack = Parent(@)].alone = k.alone
    BY <1>2 DEF CallRecords
  <2> QED
    BY <1>1, <1>3, <1>4, <2>1 DEF RemoveSource
<1>17. OpenNew(c) => Puts
  BY <1>4, <1>6 DEF OpenNew
<1>18. Read(c) \/ Write(c) \/ Unlink(c) \/ RemoveDir(c) \/ RemoveFile(c) \/ Mkdir(c) => Puts
  BY <1>3, <1>4 DEF Read, Write, Unlink, RemoveDir, RemoveFile, Mkdir
<1>19. StatDelete(c) \/ StatDownload(c) => Puts
  BY <1>3, <1>5 DEF StatDelete, StatDownload
<1>20. Puts
  BY <1>8, <1>9, <1>10, <1>11, <1>12, <1>13, <1>14, <1>15, <1>16, <1>17, <1>18, <1>19 DEF Work
<1>21. Busy(c)
  BY DEF Work, Busy, Moving, Asked, Scan, ListEntry, Read, OpenNew, Truncate, Write, Mkdir, StatRename, StatDelete,
         StatDownload, Link, Unlink, MakeTarget, ScanSource, MoveEntry, RemoveSource, RemoveDir, RemoveFile
<1> QED
  BY <1>1, <1>20, <1>21

\* A step of the work on a call, as the calls that run alone see it.
LEMMA WorkStays ==
  ASSUME FilesInv, AloneInv, NEW c \in Callers, Work(c)
  PROVE  /\ AloneInv'
         /\ \A d \in Callers : Busy(d) /\ call[d].alone /\ call'[d].pc = "idle" => d = c /\ Kept(c)
<1>1. PICK r : Put(c, r) /\ (r.pc = "idle" \/ r.alone = call[c].alone)
  BY WorkPuts
<1>2. Busy(c)
  BY WorkPuts
<1>3. Idle("none").pc = "idle"
  BY DEF Idle
<1>4. /\ call'[c] = r
      /\ \A d \in Callers : d # c => call'[d] = IF Busy(d) THEN call[d] ELSE Idle("none")
  BY <1>1 DEF Put
<1>5. \A d \in Callers : Busy(d) /\ call[d].alone => d = c /\ Kept(c)
  <2>1. ASSUME NEW d \in Callers, Busy(d), call[d].alone PROVE d = c
    BY <1>2, <2>1 DEF AloneInv
  <2>2. Busy(c) /\ call[c].alone => Kept(c)
    BY WorkAlone DEF AloneInv
  <2> QED
    BY <2>1, <2>2
<1>6. ASSUME NEW d \in Callers, call'[d].pc # "idle", call'[d].alone
      PROVE  Exactly(tree', call'[d]) /\ \A e \in Callers \ {d} : call'[e].pc = "idle"
  <2>1. CASE d # c
    <3>1. Busy(d) /\ call[d].alone
      BY <1>3, <1>4, <1>6, <2>1
    <3> QED
      BY <1>5, <2>1, <3>1
  <2>2. CASE d = c
    <3>1. call[c].alone
      BY <1>1, <1>4, <1>6, <2>2
    <3>2. Kept(c) /\ \A e \in Callers \ {c} : ~Busy(e)
      BY <1>2, <1>5, <3>1 DEF AloneInv
    <3>3. Exactly(tree', call'[c])
      BY <1>6, <2>2, <3>2 DEF Kept
    <3> QED
      BY <1>3, <1>4, <2>2, <3>2, <3>3
  <2> QED
    BY <2>1, <2>2
<1>7. AloneInv'
  BY <1>6 DEF AloneInv, Busy
<1> QED
  BY <1>5, <1>7

\* A fault, as the calls that run alone see it.
LEMMA FaultStays ==
  ASSUME FilesInv, AloneInv, NEW c \in Callers, WriteFails(c) \/ Dropped(c)
  PROVE  /\ AloneInv'
         /\ \A d \in Callers : Busy(d) /\ call[d].alone /\ call'[d].pc = "idle" => call'[d].answer = "none"
<1>1. Busy(c) /\ UNCHANGED tree /\ Put(c, Idle("none"))
  BY DEF WriteFails, Dropped, Fault, Answer, Busy
<1>2. Idle("none").pc = "idle" /\ Idle("none").answer = "none"
  BY DEF Idle
<1>3. /\ call'[c] = Idle("none")
      /\ \A d \in Callers : d # c => call'[d] = IF Busy(d) THEN call[d] ELSE Idle("none")
  BY <1>1 DEF Put
<1>4. \A d \in Callers : Busy(d) /\ call[d].alone => d = c
  BY <1>1 DEF AloneInv
<1>5. ASSUME NEW d \in Callers, call'[d].pc # "idle" PROVE ~call'[d].alone
  BY <1>2, <1>3, <1>4, <1>5
<1>6. AloneInv'
  BY <1>5 DEF AloneInv, Busy
<1> QED
  BY <1>2, <1>3, <1>4, <1>6

\* What the steps do to the calls that run alone, and what those promised.
Exact ==
  \A c \in Callers : Busy(c) /\ call[c].alone /\ call'[c].pc = "idle" /\ call'[c].answer # "none"
    => Promise(call[c], call'[c].answer, tree')

\* Every step keeps AloneInv and the promise.
LEMMA AloneStep ==
  ASSUME FilesInv, AloneInv, FilesNext
  PROVE  AloneInv' /\ Exact
<1>1. CASE FilesCrash
  <2>1. call' = [c \in Callers |-> Idle("none")]
    BY <1>1 DEF FilesCrash
  <2>2. Idle("none").pc = "idle" /\ Idle("none").answer = "none"
    BY DEF Idle
  <2>3. AloneInv'
    BY <2>1, <2>2 DEF AloneInv, Busy
  <2>4. Exact
    BY <2>1, <2>2 DEF Exact
  <2> QED
    BY <2>3, <2>4
<1>2. ASSUME NEW c \in Callers, Calls(c) PROVE AloneInv' /\ Exact
  <2>1. AloneInv' /\ \A d \in Callers : Busy(d) => call'[d].pc # "idle"
    BY <1>2, CallsAlone
  <2>2. Exact
    BY <2>1 DEF Exact
  <2> QED
    BY <2>1, <2>2
<1>3. ASSUME NEW c \in Callers, WriteFails(c) \/ Dropped(c) PROVE AloneInv' /\ Exact
  <2>1. AloneInv'
    BY <1>3, FaultStays
  <2>2. \A d \in Callers : Busy(d) /\ call[d].alone /\ call'[d].pc = "idle" => call'[d].answer = "none"
    BY <1>3, FaultStays
  <2>3. Exact
    BY <2>2 DEF Exact
  <2> QED
    BY <2>1, <2>3
<1>4. ASSUME NEW c \in Callers, Work(c) PROVE AloneInv' /\ Exact
  <2>1. AloneInv'
    BY <1>4, WorkStays
  <2>2. \A d \in Callers : Busy(d) /\ call[d].alone /\ call'[d].pc = "idle" => d = c /\ Kept(c)
    BY <1>4, WorkStays
  <2>3. call'[c].pc = "idle" /\ Kept(c) => Promise(call[c], call'[c].answer, tree')
    BY DEF Kept
  <2>4. Exact
    BY <2>2, <2>3 DEF Exact
  <2> QED
    BY <2>1, <2>4
<1> QED
  BY <1>1, <1>2, <1>3, <1>4 DEF FilesNext

\* A call that overlapped no other and was not interrupted did all it was asked
\* to, a directory's move every entry of it, or left the tree as it was.
THEOREM FilesExact == FilesSpec => AloneIsExact
<1>1. FilesInit => FilesInv /\ RacedInv
  BY FilesStart
<1>2. FilesInv /\ RacedInv /\ [FilesNext]_fileVars => FilesInv' /\ RacedInv'
  BY FilesStep
<1>3. FilesInit => AloneInv
  <2>1. Idle("none").pc = "idle"
    BY DEF Idle
  <2> QED
    BY <2>1 DEF FilesInit, AloneInv, Busy
<1>4. FilesInv /\ AloneInv /\ [FilesNext]_fileVars => AloneInv'
  <2>1. AloneInv /\ UNCHANGED fileVars => AloneInv'
    BY DEF fileVars, AloneInv, Busy
  <2> QED
    BY <2>1, AloneStep
<1>5. FilesInv /\ AloneInv /\ [FilesNext]_fileVars =>
        [\A c \in Callers : Busy(c) /\ call[c].alone /\ call'[c].pc = "idle" /\ call'[c].answer # "none"
           => Promise(call[c], call'[c].answer, tree')]_fileVars
  BY AloneStep DEF Exact
<1> QED
  BY <1>1, <1>2, <1>3, <1>4, <1>5, PTL DEF FilesSpec, AloneIsExact
================================================================================
