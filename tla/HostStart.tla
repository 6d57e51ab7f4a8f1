------------------------------- MODULE HostStart -------------------------------
(***************************************************************************)
(* How a host starts (sushi-cli/src/app.rs, bootstrap_with_options): the   *)
(* profile is resolved, the manifests are read, the migrations of what it  *)
(* selects are collected and applied, the builtins and then the plugins    *)
(* are activated in the order of the profile, and the policy is compiled.  *)
(* A start that fails anywhere ends the process and keeps what it has      *)
(* written; the next start, of the same profile or of another, goes on     *)
(* from that database.  A host that serves lets plugins be switched on     *)
(* and off.                                                                *)
(*                                                                         *)
(* PluginLifecycle has the steps inside an activation and a toggle, and    *)
(* what may interrupt them; MigrationRunner those of a migration.  Here    *)
(* each is one step that succeeds or fails.                                *)
(***************************************************************************)
EXTENDS RuntimeProfile

CONSTANTS
  Documents,  \* the profiles and overlays a start may be given
  Broken,     \* the plugins whose manifest cannot be read
  Name,       \* Name[l]: the name the manifest of l gives
  Official,   \* the plugins under official/
  Writing,    \* the plugins whose manifest asks to write to the database
  Script,     \* Script[l]: the numbers of the migrations of l
  MaxStarts,
  MaxToggles

ASSUME HostAssumption ==
  /\ Broken \cup Official \cup Writing \subseteq Lua
  /\ DOMAIN Name = Lua /\ DOMAIN Script = Lua
  /\ MaxStarts \in Nat /\ MaxToggles \in Nat

(* The bundles and overlays of a document are vectors of the parsed file. *)
ASSUME DocumentAssumption == \A d \in Documents :
  /\ d.bundles \in Seq(Range(d.bundles)) /\ d.overlays \in Seq(Range(d.overlays))
  /\ d.cli \in Seq(Range(d.cli)) /\ \A k \in DOMAIN d.cli : d.cli[k] \in Seq(Range(d.cli[k]))

VARIABLES
  stage,      \* how far the start has come
  documents,  \* what the start was given
  entries,    \* the resolved profile
  at,         \* the entry that is next
  todo,       \* the migrations that are still to be applied
  opened,     \* there is a database file
  applied,    \* the migrations that are in the database
  row,        \* row[n]: the governance row of n
  info,       \* info[n]: what the host knows of n
  required,   \* the names that may not be switched
  status,     \* status[n]: the state the runtime host gives the plugin n
  published,  \* the ids of the entries whose capabilities are published
  ran,        \* the plugins whose code this host has run
  starts, toggles

memory == <<entries, at, todo, info, required, status, published, ran>>
vars == <<stage, documents, memory, opened, applied, row, starts, toggles>>

NoDocuments == [found |-> FALSE, bundles |-> <<>>, overlays |-> <<>>, cli |-> <<>>]
NameOf(e) == IF IsBuiltin(e) THEN e.source ELSE Name[e.source]
Names == Builtin \cup {Name[l] : l \in Lua}
Entry(i) == entries[i]
LuaEntries == {i \in DOMAIN entries : ~IsBuiltin(Entry(i))}

Row == [enabled : BOOLEAN, loaded : BOOLEAN]
Known(f, n) == n \in DOMAIN f
Put(f, n, r) == [k \in DOMAIN f \cup {n} |-> IF k = n THEN r ELSE f[k]]
Nothing == [n \in {} |-> TRUE]

(* The migrations of the factories; the SQL says which tables each needs.  *)
Shipped(key) ==
  CASE key = "host-core"  -> {1, 8}
    [] key = "policy"     -> {3, 6}
    [] key = "menu-admin" -> {4, 5, 9}
    [] OTHER              -> {}
Needs(m) ==
  CASE m \in {1, 4, 9} -> {}
    [] m \in {5, 6}    -> {1, 3}
    [] m = 8           -> {1, 3, 6}
    [] OTHER           -> {1}

(* Builtins without a route, page, command or transport publish nothing. *)
Silent == {"host-core", "policy"}

(* The rows of plugin_state have their columns from 008. *)
Governed == 8 \in applied
Permitted == 6 \in applied

Init ==
  /\ stage = "off" /\ documents = NoDocuments
  /\ entries = <<>> /\ at = 1 /\ todo = {}
  /\ opened = FALSE /\ applied = {} /\ row = Nothing
  /\ info = Nothing /\ required = {} /\ status = Nothing
  /\ published = {} /\ ran = {}
  /\ starts = 0 /\ toggles = 0

(* The process ends: its memory goes, the database stays. *)
Gone ==
  /\ stage' = "off" /\ documents' = NoDocuments
  /\ entries' = <<>> /\ at' = 1 /\ todo' = {}
  /\ info' = Nothing /\ required' = {} /\ status' = Nothing
  /\ published' = {} /\ ran' = {}
Failed == Gone /\ UNCHANGED <<opened, applied, row, starts, toggles>>

(***************************************************************************)
(* Before the database.                                                    *)
(***************************************************************************)
Read ==
  /\ stage = "off" /\ starts < MaxStarts
  /\ \E d \in Documents : documents' = d /\ entries' = Resolve(d).entries
                          /\ stage' = IF Resolve(d).ok THEN "resolved" ELSE "refused"
  /\ starts' = starts + 1
  /\ UNCHANGED <<at, todo, info, required, status, published, ran, opened, applied, row, toggles>>

Refuse == stage = "refused" /\ Failed

Selects(e) == e.enabled /\ (IsBuiltin(e) \/ e.approved)

(* Every plugin of the profile is loaded, the disabled ones too. *)
Mountable ==
  /\ \A i \in LuaEntries :
       /\ Entry(i).source \notin Broken
       /\ Entry(i).enabled /\ Entry(i).required => Entry(i).approved
  /\ \A i, j \in LuaEntries : NameOf(Entry(i)) = NameOf(Entry(j)) => i = j

Mount ==
  /\ stage = "resolved"
  /\ IF Mountable
     THEN /\ stage' = "mounted" /\ documents' = NoDocuments
          /\ status' = [n \in {NameOf(Entry(i)) : i \in LuaEntries} |->
               IF \E i \in LuaEntries : NameOf(Entry(i)) = n /\ Selects(Entry(i))
               THEN "migrating" ELSE "discovered"]
          /\ UNCHANGED <<entries, at, todo, info, required, published, ran,
                         opened, applied, row, starts, toggles>>
     ELSE Failed

(* load_lua_migrations: what a plugin with migrations must be allowed. *)
MayMigrate(e) ==
  Script[e.source] # {} => e.source \in Official \cap Writing /\ e.writes

MigrationsOf(e) == IF IsBuiltin(e) THEN Shipped(e.source) ELSE Script[e.source]
SelectedOnes == {i \in DOMAIN entries : Selects(Entry(i))}
\* Mutant: what an administrator has switched off is not migrated.
CatalogOfSwitchedOn == UNION {MigrationsOf(Entry(i)) :
  i \in {j \in SelectedOnes : NameOf(Entry(j)) \in DOMAIN row => row[NameOf(Entry(j))].enabled}}
Catalog == UNION {MigrationsOf(Entry(i)) : i \in SelectedOnes}

Collect ==
  /\ stage = "mounted"
  /\ IF \A i \in SelectedOnes \cap LuaEntries : MayMigrate(Entry(i))
     THEN /\ stage' = "collected" /\ todo' = Catalog
          /\ UNCHANGED <<documents, entries, at, info, required, status, published, ran,
                         opened, applied, row, starts, toggles>>
     ELSE Failed

(***************************************************************************)
(* The database and its migrations, in the order of their numbers.         *)
(***************************************************************************)
(* validate_unique_migrations, once the catalog table is there. *)
Repeats == \E i, j \in SelectedOnes :
  i # j /\ Entry(i).source = Entry(j).source /\ MigrationsOf(Entry(i)) # {}

Open ==
  /\ stage = "collected"
  /\ opened' = TRUE
  /\ IF Repeats
     THEN Gone /\ UNCHANGED <<applied, row, starts, toggles>>
     ELSE /\ stage' = "migrating"
          /\ UNCHANGED <<documents, memory, applied, row, starts, toggles>>

Apply ==
  /\ stage = "migrating" /\ todo # {}
  /\ LET m == CHOOSE m \in todo : \A k \in todo : m <= k
     IN IF m \in applied \/ Needs(m) \subseteq applied
        THEN /\ applied' = applied \cup {m} /\ todo' = todo \ {m}
             /\ UNCHANGED <<stage, documents, entries, at, info, required, status, published, ran,
                            opened, row, starts, toggles>>
        ELSE Failed

Migrated ==
  /\ stage = "migrating" /\ todo = {}
  /\ stage' = IF entries = <<>> THEN "policy" ELSE "builtins"
  /\ status' = [n \in DOMAIN status |-> IF status[n] = "migrating" THEN "resolved" ELSE status[n]]
  /\ UNCHANGED <<documents, entries, at, todo, info, required, published, ran,
                 opened, applied, row, starts, toggles>>

(***************************************************************************)
(* The governance row of an entry.  Without its columns nothing is read or *)
(* written, and the host goes by what it knows.                            *)
(***************************************************************************)
\* Mutants: a required entry keeps its row; every start writes the default.
UpsertKeepingRequired(e) ==
  LET n == NameOf(e)
  IN [enabled |-> e.enabled /\ (Known(row, n) => row[n].enabled),
      loaded  |-> Known(row, n) /\ row[n].loaded]
UpsertDefault(e) ==
  [enabled |-> e.enabled, loaded |-> Known(row, NameOf(e)) /\ row[NameOf(e)].loaded]
Upsert(e) ==
  LET n == NameOf(e)
      kept == IF Known(row, n) THEN row[n].enabled ELSE e.enabled
  IN [enabled |-> e.required \/ (e.enabled /\ kept),
      loaded  |-> Known(row, n) /\ row[n].loaded]

Registered(e) ==
  LET n == NameOf(e)
  IN IF Governed THEN Upsert(e)
     ELSE IF Known(info, n) THEN info[n]
     ELSE [enabled |-> IsBuiltin(e) => e.enabled, loaded |-> FALSE]

(* The row and the info of e once it is registered and marked as loaded or not. *)
Mark(e, loaded) ==
  LET r == [Registered(e) EXCEPT !.loaded = loaded]
  IN /\ info' = Put(info, NameOf(e), r)
     /\ row' = IF Governed THEN Put(row, NameOf(e), r) ELSE row
SetRequired(e) ==
  required' = IF e.required THEN required \cup {NameOf(e)} ELSE required \ {NameOf(e)}

RegisteredOnly(e) == row' = IF Governed THEN Put(row, NameOf(e), Registered(e)) ELSE row

(***************************************************************************)
(* The builtins.  A second entry of one factory finds its keys taken.      *)
(***************************************************************************)
Taken(e) == e.source \notin Silent
  /\ \E i \in DOMAIN entries : Entry(i).id \in published /\ Entry(i).source = e.source

Advance == IF at < Len(entries) THEN at' = at + 1 /\ UNCHANGED stage
         ELSE at' = 1 /\ stage' = IF stage = "builtins" THEN "plugins" ELSE "policy"

ActivateBuiltin ==
  /\ stage = "builtins"
  /\ LET e == Entry(at)
     IN CASE ~(e.enabled /\ IsBuiltin(e)) ->
               Advance /\ UNCHANGED <<info, required, row, published, status, ran,
                                    documents, entries, todo, opened, applied, starts, toggles>>
          [] e.enabled /\ IsBuiltin(e) /\ Taken(e) ->
               RegisteredOnly(e) /\ Gone /\ UNCHANGED <<opened, applied, starts, toggles>>
          [] OTHER ->
               /\ SetRequired(e) /\ Mark(e, e.source # "policy") /\ Advance
               /\ published' = published \cup {e.id}
               /\ UNCHANGED <<status, ran, documents, entries, todo, opened, applied, starts, toggles>>

(***************************************************************************)
(* The plugins.                                                            *)
(***************************************************************************)
SkipEntry ==
  /\ stage = "plugins" /\ IsBuiltin(Entry(at))
  /\ Advance
  /\ UNCHANGED <<info, required, row, published, status, ran, documents, entries, todo,
                 opened, applied, starts, toggles>>

\* Mutant: the row keeps what the last run said of it.
LeaveUnmarked(e, s) ==
  /\ SetRequired(e) /\ Mark(e, Registered(e).loaded) /\ Advance
  /\ status' = Put(status, NameOf(e), s)
  /\ UNCHANGED <<published, documents, entries, todo, opened, applied, starts, toggles>>
(* The plugin is registered, not activated, and left in the state s. *)
Leave(e, s) ==
  /\ SetRequired(e) /\ Mark(e, FALSE) /\ Advance
  /\ status' = Put(status, NameOf(e), s)
  /\ UNCHANGED <<published, documents, entries, todo, opened, applied, starts, toggles>>

LeaveDisabled ==
  /\ stage = "plugins" /\ ~IsBuiltin(Entry(at)) /\ ~Entry(at).enabled
  /\ Leave(Entry(at), "inactive") /\ UNCHANGED ran

LeaveUnapproved ==
  /\ stage = "plugins" /\ ~IsBuiltin(Entry(at)) /\ Entry(at).enabled /\ ~Entry(at).approved
  /\ Leave(Entry(at), "failed") /\ UNCHANGED ran

Turn(e) == stage = "plugins" /\ ~IsBuiltin(e) /\ Selects(e)

(* plugin_runtime_enabled cannot be read: nobody asks whether e is required. *)
LeaveUngoverned ==
  /\ Turn(Entry(at)) /\ ~Governed
  /\ Leave(Entry(at), "failed") /\ UNCHANGED ran

LeaveSwitchedOff ==
  /\ Turn(Entry(at)) /\ Governed
  /\ ~Upsert(Entry(at)).enabled /\ ~Entry(at).required
  /\ Leave(Entry(at), "inactive") /\ UNCHANGED ran

Activable(e) == Governed /\ (Upsert(e).enabled \/ e.required)

ActivatePlugin ==
  LET e == Entry(at)
  IN /\ Turn(e) /\ Activable(e)
     /\ SetRequired(e) /\ Mark(e, TRUE) /\ Advance
     /\ status' = Put(status, NameOf(e), "active")
     /\ published' = published \cup {e.id}
     /\ ran' = ran \cup {NameOf(e)}
     /\ UNCHANGED <<documents, entries, todo, opened, applied, starts, toggles>>

FailPlugin ==
  LET e == Entry(at)
  IN /\ Turn(e) /\ Activable(e)
     /\ IF e.required
        THEN /\ row' = Put(row, NameOf(e), [Registered(e) EXCEPT !.loaded = FALSE])
             /\ Gone /\ UNCHANGED <<opened, applied, starts, toggles>>
        ELSE Leave(e, "failed") /\ ran' = ran \cup {NameOf(e)}

(* from_source cannot make a VM: its `?` returns with the state as it is and *)
(* the row of a required entry as it was registered.                         *)
FailWithoutVm ==
  LET e == Entry(at)
  IN /\ Turn(e) /\ Activable(e)
     /\ IF e.required
        THEN RegisteredOnly(e) /\ Gone /\ UNCHANGED <<opened, applied, starts, toggles>>
        ELSE Leave(e, "activating") /\ UNCHANGED ran

(* refresh_policy *)
CompilePolicy ==
  /\ stage = "policy"
  /\ IF Permitted
     THEN /\ stage' = "serving"
          /\ info' = [n \in DOMAIN info |->
               IF n = "policy" THEN [info[n] EXCEPT !.loaded = TRUE] ELSE info[n]]
          /\ row' = [n \in DOMAIN row |->
               IF n = "policy" /\ Known(info, n) /\ Governed
               THEN [row[n] EXCEPT !.loaded = TRUE] ELSE row[n]]
          /\ UNCHANGED <<documents, entries, at, todo, required, status, published, ran,
                         opened, applied, starts, toggles>>
     ELSE Failed

(***************************************************************************)
(* A host that serves: set_plugin_enabled, for whatever the host knows by  *)
(* name.  The runtime host has a source for every plugin of the profile,   *)
(* the disabled and unapproved ones too, and none for a builtin.           *)
(***************************************************************************)
Called(n) == {i \in LuaEntries : NameOf(Entry(i)) = n}

MaySwitch(n, e) ==
  /\ stage = "serving" /\ toggles < MaxToggles
  /\ n \in DOMAIN info \ required
  /\ info[n] # [enabled |-> e, loaded |-> e]
  /\ Governed \/ info[n].enabled = e

Switched(n, e, loaded, s) ==
  LET r == [enabled |-> e, loaded |-> loaded]
  IN /\ info' = Put(info, n, r)
     /\ row' = IF Governed THEN Put(row, n, r) ELSE row
     /\ status' = Put(status, n, s)
     /\ toggles' = toggles + 1
     /\ UNCHANGED <<stage, documents, entries, at, todo, required, opened, applied, starts>>

SwitchOff(n) ==
  /\ MaySwitch(n, FALSE)
  /\ Switched(n, FALSE, FALSE, "inactive")
  /\ published' = published \ {Entry(i).id : i \in Called(n)}
  /\ UNCHANGED ran

SwitchOnPlugin(n) ==
  /\ MaySwitch(n, TRUE)
  /\ \E i \in Called(n) :
       /\ Entry(i).approved
       /\ \/ Switched(n, TRUE, TRUE, "active") /\ published' = published \cup {Entry(i).id}
          \/ Switched(n, TRUE, FALSE, "failed") /\ UNCHANGED published
       /\ ran' = ran \cup {n}

SwitchOnUnapproved(n) ==
  /\ MaySwitch(n, TRUE)
  /\ \E i \in Called(n) : ~Entry(i).approved
  /\ Switched(n, TRUE, FALSE, "failed") /\ UNCHANGED <<published, ran>>

SwitchOnWithoutVm(n) ==
  /\ MaySwitch(n, TRUE)
  /\ \E i \in Called(n) : Entry(i).approved
  /\ Switched(n, TRUE, FALSE, "activating") /\ UNCHANGED <<published, ran>>

(* A builtin switched back on ends in an error, with its intent kept. *)
SwitchOnBuiltin(n) ==
  /\ MaySwitch(n, TRUE) /\ Called(n) = {}
  /\ Switched(n, TRUE, FALSE, "activating") /\ UNCHANGED <<published, ran>>

Stop == stage # "off" /\ Failed

Next ==
  \/ Read \/ Refuse \/ Mount \/ Collect \/ Open \/ Apply \/ Migrated
  \/ ActivateBuiltin \/ SkipEntry
  \/ LeaveDisabled \/ LeaveUnapproved \/ LeaveUngoverned \/ LeaveSwitchedOff
  \/ ActivatePlugin \/ FailPlugin \/ FailWithoutVm \/ CompilePolicy
  \/ \E n \in Names : \/ SwitchOff(n) \/ SwitchOnPlugin(n) \/ SwitchOnUnapproved(n)
                      \/ SwitchOnWithoutVm(n) \/ SwitchOnBuiltin(n)
  \/ Stop

Spec == Init /\ [][Next]_vars

(***************************************************************************)
(* Properties                                                              *)
(***************************************************************************)
Stages == {"off", "resolved", "refused", "mounted", "collected", "migrating",
           "builtins", "plugins", "policy", "serving"}

(* Every variable keeps its type, and an off host remembers nothing. *)
TypeOK ==
  /\ stage \in Stages
  /\ documents \in Documents \cup {NoDocuments}
  /\ at \in 1 .. Len(entries) + 1
  /\ opened \in BOOLEAN /\ (applied # {} => opened)
  /\ row \in [DOMAIN row -> Row] /\ info \in [DOMAIN info -> Row]
  /\ DOMAIN row \cup DOMAIN info \cup required \cup DOMAIN status \cup ran \subseteq Names
  /\ published \subseteq Ids(entries)
  /\ stage = "off" => entries = <<>> /\ published = {} /\ DOMAIN info = {}

(* What docs/wiki/guides/profile-composition.md says a profile adds up to. *)
Base(d) == FlattenSeq([k \in DOMAIN d.bundles |-> Bundle[d.bundles[k]]])
Edits(d) == d.overlays \o FlattenSeq(d.cli)
Composed(d) ==
  LET last(id, default) ==
        LET named == {k \in DOMAIN Edits(d) : Edits(d)[k].id = id}
        IN IF named = {} THEN default ELSE Edits(d)[CHOOSE k \in named : \A j \in named : j <= k]
  IN [i \in DOMAIN Base(d) |-> last(Base(d)[i].id, Base(d)[i])]
Acceptable(d) ==
  /\ d.found /\ \A k \in DOMAIN d.bundles : d.bundles[k] \in DOMAIN Bundle
  /\ \A e \in Range(Base(d)) \cup Range(Edits(d)) : Sound(e)
  /\ Distinct(Base(d)) /\ Distinct(d.overlays) /\ \A k \in DOMAIN d.cli : Distinct(d.cli[k])
  /\ Ids(Edits(d)) \subseteq Ids(Base(d))
  /\ MountsOnce(Composed(d))

(* The profile is the entries of the bundles in their order, each replaced *)
(* in its place by the last overlay that names it, of the profile or of    *)
(* the command line; it is refused exactly when a document breaks a rule.  *)
(* The code gets there by one pass of pushes and replacements.             *)
ResolvesAsDeclared ==
  /\ stage = "resolved" => Acceptable(documents) /\ entries = Composed(documents)
  /\ stage = "refused" => ~Acceptable(documents)

(* No check keeps a plugin from having the name of a builtin, and then the  *)
(* two have one row and one place in the plugin list.                      *)
HasItsName(e) == \A f \in Range(entries) : NameOf(f) = NameOf(e) => (IsBuiltin(f) <=> IsBuiltin(e))

(* A host whose database has the governance tables serves every entry its  *)
(* profile requires: published, loaded, switched on and not switchable,    *)
(* whatever rows an earlier profile or administrator has left.  An entry   *)
(* that shares its name with a builtin or plugin is excepted.              *)
ServesWhatItRequires ==
  stage = "serving" /\ Governed =>
    \A e \in Range(entries) : e.enabled /\ e.required /\ HasItsName(e) =>
      /\ e.id \in published /\ NameOf(e) \in required
      /\ info[NameOf(e)] = [enabled |-> TRUE, loaded |-> TRUE]

(* While a host serves, what is published of a plugin, what its row and    *)
(* the plugin list say and the state of the runtime host agree, also when  *)
(* the row comes from an earlier run that left it as loaded.  A plugin     *)
(* that got no VM is said to be activating for good, where the guide has   *)
(* Active or Failed (docs/wiki/guides/plugin-lifecycle.md:10); but nothing *)
(* of it is published or loaded.  One called "policy" is marked loaded by  *)
(* refresh_policy and excepted.                                            *)
StatusTellsTruth ==
  stage = "serving" =>
    \A e \in Range(entries) : ~IsBuiltin(e) /\ NameOf(e) # "policy" =>
      LET n == NameOf(e)
      IN /\ status[n] \in {"active", "inactive", "failed", "activating"}
         /\ (status[n] = "active") = (e.id \in published)
         /\ info[n].loaded = (e.id \in published)
         /\ Governed => row[n] = info[n]

(* Only an administrator, or a profile that requires or disables the       *)
(* entry, changes whether it is switched on; no start, failed or complete, *)
(* forgets a choice or a row.                                              *)
Overridden(n) == \E e \in Range(entries) : NameOf(e) = n /\ (e.required \/ ~e.enabled)
IntentKept ==
  [][\A n \in DOMAIN row :
       /\ n \in DOMAIN row'
       /\ row'[n].enabled # row[n].enabled => toggles' # toggles \/ Overridden(n)]_vars

(* No code of a plugin the profile enables runs before the plugin's        *)
(* migrations are in the database, be it at the start or when it is        *)
(* switched on later, after whatever starts and choices have left it off.  *)
(* A plugin the profile disables can be switched on too, and then runs     *)
(* without them (set_plugin_enabled asks for no migration).                *)
MigratedBeforeRun ==
  \A e \in Range(entries) :
    ~IsBuiltin(e) /\ e.enabled /\ NameOf(e) \in ran => Script[e.source] \subseteq applied
=============================================================================
