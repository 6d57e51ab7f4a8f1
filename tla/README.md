# Formal models of the sushi plugin host

sushi is a host for plugins: builtin ones, compiled into it, and Lua ones, which it loads
from directories a runtime profile names. A plugin contributes HTTP routes, admin pages, CLI
commands, menu entries, asset roots, event handlers and background tasks. This directory
models, in TLA+, how these contributions come and go while requests are being served, checks
the models with TLC and proves some of their properties with TLAPS.

`PROJECT.json` maps every definition that models code to its source lines and lists the
runs, the mutants that show each property can fail, and the hazards the properties are for.
Paths below are relative to `src/crates/`.

## Inventory

| Component | State | Operations | Correct when |
|---|---|---|---|
| Capability registry (`sushi-core/src/runtime/registry.rs`) | one immutable snapshot behind an `RwLock`, a commit mutex | stage, prepare, publish, commit (merge), remove owner, (un)subscribe | no commit or removal is lost; an exclusive key has one registration; host keys belong to builtins |
| Background tasks (`runtime/task.rs`) | tasks by owner, each with a signal and an abort handle | spawn, self-removal, cancel by owner, by registration, all | a cancelled task stops; a live task can be found; cancellation returns |
| Lifecycle host (`lua/loader.rs`, `context.rs`, `plugin/manager.rs`) | VMs, handles, statuses, one lock per plugin | enable, disable, reload | one whole generation is published, or nothing; answers are true |
| Host start (`sushi-cli/src/app.rs`, `runtime/profile.rs`, `*/builtin.rs`) | the resolved profile, the set of required plugins | resolve overlays, prepare, migrate, activate builtins and plugins | a host that serves has all it requires; administrators' choices survive |
| Governance (`plugin/state_repository.rs`, `plugin/repository.rs`) | `plugin_state` rows, an info cache | upsert at start, intent, loaded flag | the row agrees with what runs |
| Migrations (`runtime/migration.rs`, `storage/sqlite.rs`) | the catalog table, the history of old hosts, the schema itself | apply at every start, verify by doctor | each script runs once, whole and in order; an undisturbed start succeeds |
| Authorization (`auth/*`) | roles, permissions, grants and bindings in SQLite; a compiled snapshot in memory | edit roles and permissions, bind, compile, replace | grants follow permissions; the snapshot in use follows the database |
| Requests (`sushi-api/src/router.rs`, `sushi-admin/src/router.rs`, `auth/middleware.rs`, `auth/jwt.rs`) | none of their own; a pinned snapshot and runtime per request; tokens at the clients | log in, refresh, authorize, match, guard, call | a request needs the key of what answers it, and runs the code whose route it matched |
| Scripts (`lua/bindings.rs`, `lua/adapters/*`, `lua/loader.rs`, `plugin/mod.rs`) | entries and handlers of one VM | register, require, read, check, publish | what is published stays within the grants and calls the functions it was made with |
| Admin menu (`sushi-admin/src/routes/menu.rs`) | menu rows, their mapping to contributions | project, sweep, edit | stored rows follow contributions; administrators' rows stay |
| File service (`sushi-core/src/fs/mod.rs`) | a directory tree | list, read, download, create, edit, upload, mkdir, rename, delete | no file is lost or replaced by another |
| Event bus (`registry/event.rs`) | in the capability snapshot | on, off, emit | handlers live as long as their owner |
| Storage (`storage/sqlite.rs`) | one connection behind a mutex | execute, query, transaction, each on a blocking thread | - |
| Templates, logs, config, gateway, pages, CLI | little or none | conversion, I/O, one call each | - |

How they interact: bootstrap reads the profile, migrates, activates the builtins and then
the Lua plugins. An activation runs the plugin's script in a fresh VM, stages what it
registers, prepares the commit (taking the commit mutex), writes the plugin's policy
bindings, publishes VM and snapshot, writes the loaded flag, starts the background tasks and
installs a handle. A disable undoes this in the opposite order. Toggles arrive as HTTP
requests to the admin pages, so several can be under way, and the server drops the future of
a request whose client has gone. Requests to plugin routes read the snapshot without any
lock and then read the governance row; before that, the middleware has decided by another
snapshot, the authorizer's, which is compiled from the tables when roles change and not when
plugins do. Every listing of the menu writes: it projects the contributions of the moment
into the stored rows.

What is hard here: multi-step operations over memory and database without a common
transaction; futures dropped at any await; SQLite calls on blocking threads that outlive the
futures that asked for them; background tasks that end, panic and are aborted while they are
being counted; crashes between database writes; two snapshots of different ages in one
request; entries of a script that nobody checks until it has ended; and requests in flight
across all of this.

## Modules

| Module | Models | Runs |
|---|---|---|
| `CapabilityStore` | what the registry promises: an atomic store of claims and subscriptions | `registry` |
| `CapabilityRegistry` | the registry with its callers, locks and staged commits | `registry` |
| `TaskRegistry` | tasks, entries and overlapping cancellations | `tasks` |
| `PluginLifecycle` | one plugin: bootstrap, toggles, reloads, dispatches, database, drops and crashes | `lifecycle`, `lifecycle_toggles` |
| `MigrationRunner` | processes that apply or verify the migrations of one database | `migrations` |
| `RuntimeProfile` | the resolution of bundles and overlays, as operators | `start` |
| `HostStart` | extends it by whole starts, toggles and restarts over one database | `start` |
| `AccessControl` | roles, permissions, grants, bindings, accounts and the authorizer's snapshot | `access` |
| `HttpRouting` | how registered patterns and policy bindings match paths, as operators | `scripts`, `requests` |
| `HostRoutes` | extends it by what the host reserves and serves itself | `scripts`, `requests` |
| `PluginScript` | what a plugin's script registers, and what is published of it | `scripts` |
| `HostRequests` | a request through both routers, sessions, and what changes meanwhile | `requests` |
| `AdminMenu` | listings and edits of the stored menu | `menu` |
| `FileService` | the file browser's calls over one small tree | `files`, `files_moves` |
| `*Proofs` | the theorems: eight modules, each about the module it is named for, but for the next two | - |
| `RuntimeProofs` | the theorems about `CapabilityRegistry` and `TaskRegistry` | - |
| `StorageProofs` | the theorems about `MigrationRunner` and `FileService` | - |
| `MC*` | constants, bounds and symmetry for TLC | - |

### CapabilityRegistry

A caller stages a request (an activation replaces everything its owner has, a merge adds to
it), waits for `commit_lock` (`Acquire`), validates against the current snapshot and builds
the next one (`Build`, or `Reject` on a conflict), and publishes it (`Publish`) or drops it
(`Abandon`). Between `Build` and `Publish` the code writes to the database, so a caller may
stay there for any time. Removals take the same path without a conflict check. `current` is
the published snapshot, `next[c]` the one inside caller c's `PendingCapabilityCommit`. All
exclusive kinds (transport, route, page, command, menu id, template root, static root)
follow the same rule in the code and are one set of `Keys`; `ReservedKeys` are those kept
for the host. The overlap of HTTP patterns is not modelled: a key stands for a method and a
path.

The registry implements `CapabilityStore`, in which each operation is one atomic step:
`StoreOf` forgets ids, sources, locks and pending commits.

### TaskRegistry

Each task goes from `unspawned` through `parked` (at an await) and `polling` to `removing`
and `ended`, or panics, or is aborted. Each cancellation `call[k]` lists (`List`), signals
(`Signal`), waits until its targets have left the registry (`Observe`) or its deadline
passes (`Expire`), aborts (`Abort`) and sweeps the entries (`Sweep`); `cancel_all` repeats
this for each owner it listed (`Continue`). `tokio::spawn` and abort are external: an abort
takes effect only where the body awaits. Time is the choice between `Observe` and `Expire`,
so every deadline is covered. `due` is a history variable: what was registered when the call
began.

### PluginLifecycle

`call[c].at` is the place in `set_plugin_enabled`, `reload` or `bootstrap` at which
operation c awaits; each action runs from there to the next await on the database, the
commit lock or plugin code. A generation is a number given to each VM. `row` and `policy`
are the database, `late` the writes of dropped operations that have not landed, `caps`,
`vm`, `handle`, `tasks`, `status` and `lock` the memory of the host. An activation commits
the bindings on a blocking thread (`Bind`) and publishes VM and snapshot when it resumes
(`Publish`): on a reload the bindings of the new generation stand beside the routes of the
old one in between, and the operation may be dropped there. `StartActivating`,
`StartSkipping` and `StartUnread` are the branches of bootstrap for the entry of the
profile, which may be edited between two starts. A crash forgets the memory. A dispatch
matches a route in the snapshot, reads the row and runs in the runtime its registration
holds.

Left out: background tasks that end by themselves (`TaskRegistry` has them; here a task runs
until it is stopped), the handle's cancellation token (nothing in the repository waits for it), the
`plugin_info` cache (only read when the database is unreadable), and other plugins, which
meet this one only at the commit lock. An abandoned write is modelled as a set, so writes
may land in any order.

### MigrationRunner

Every process that bootstraps, the server and each CLI command, is a `host` that applies the
migrations of its profile; `doctor` only verifies. `at[p]` is the next step of process p on
its current migration, the least by rank of those in `todo[p]`: read the recorded checksum,
look for a trace in the history of the old hosts, look at the columns, plan the recovery,
and then commit one of three transactions (`Bridge`, `Recover`, `Apply`). Each of these is a
separate statement or transaction in the code, and other processes run in between. `done[m]`
is the set of statements of a script whose effect is in the database: those in `Alter` fail
when they run again, the others do not. A transaction is one step; it fails as a whole
(`Collide`) if the migration has been recorded meanwhile, because the catalog has a primary
key, or if a column is already there. An error while the rows of an answer are fetched is
swallowed (`storage/sqlite.rs:152`), so every read may also miss a record, a trace of an old
host or some columns (`OverlookCatalog`, `Overlook`, `OverlookColumns`); a statement that
cannot be prepared or executed ends the run (`StorageFails`). In the other modules a read is
complete or fails. `disturbed`, `runs` and `overlooked` are history variables.

`Init` is every database an old host may have left. The old hosts are not in the repository;
from the comments and tests of `migration.rs` it is assumed that they ran the scripts
statement by statement, ran only the repository's own scripts and stopped within at most one
of them. Not modelled: `load_lua_migrations` (which plugins may bring migrations), the
validation of descriptors, and what the scripts contain.

### RuntimeProfile and HostStart

`Resolve` is `RuntimeProfile::resolve` and what it calls: bundles are appended, overlays
replace in place, and each list and the result are checked. `HostStart` is
`bootstrap_with_options` from there on, one action per phase and per entry: `Mount` prepares
the plugins, `Collect` and `Apply` gather and run the migrations, `ActivateBuiltin`,
`ActivatePlugin` and the `Leave...` actions are what may become of an entry and of its
governance row, `CompilePolicy` ends the start; `SwitchOff` and the `SwitchOn...` actions
are the branches of `set_plugin_enabled`. `Stop` may come at any time; the database stays. A
failed phase ends the process. An activation, a toggle and a migration are one step that
succeeds or fails; their interleavings are in `PluginLifecycle` and `MigrationRunner`. An
activation that cannot even make a VM leaves by `?` (`loader.rs:217`), past the code that
records a failure: `FailWithoutVm` and `SwitchOnWithoutVm` leave the status at Activating.
No check of the code keeps a Lua plugin from having the name of a builtin; one plugin of the
run is named `policy`.

### AccessControl

`req[c].at` is the statement at which a request of an administrator stands. Replacing a
role's permissions deletes, inserts and rebuilds derived grants in four kinds of statement;
creating and deleting roles, permissions and users are one to three. After some of them the
handler compiles a new snapshot with three reads (`Refresh`) and puts it in place
(`ReplaceSnapshot`). The plugin's bindings are replaced in one transaction by the loader
(`BindPlugin`). `astray` and `behind` are history variables: they name the histories after
which grants need not follow permissions, or the snapshot the tables. `Seeds` is what the
migrations may leave: `005_menus_rbac` assigns permissions and `006_unified_policy_v2`
derives grants from those assigned by then and adds grants of its own, and a profile may run
them in either order, or over a database whose roles were edited. The roles that start with
grants and permissions apart are `astray` until their permissions are next replaced.

### HttpRouting, HostRoutes and HostRequests

`Matches`, `Score`, `Best` and `Overlap` translate `runtime/registry.rs`; `BindingCovers`
and what is around it translate `auth/authorizer.rs`, which reads the same text by other
rules. `HostRoutes` lists `HOST_RESERVED_HTTP_ROUTES`, what the builtins register and what
the migrations seed. In `HostRequests` one request goes from its arrival through the
authorization by the snapshot of bindings, the match by the snapshot of capabilities and the
guard by the governance row to its answer; between two of these the plugin may be switched
on and off, activated with any accepted script or taken down, a role's key given or taken,
the host restarted, time pass and the user be deleted. An activation binds and then
publishes (`Bind`, `Publish`), a deactivation retracts and then erases (`Retract`, `Erase`),
and either may be dropped between its two steps (`Abandon`). A login reads the user
(`FindUser`) and issues the tokens later (`Login`, or `Mistyped`). Requests are answered one
after the other, so one login at most is under way.

### PluginScript

A behaviour is one script: calls of the `sushi.*` functions that its permissions put into
its VM, tables it hands to `sushi.capability.register`, and modules it requires. `Activate`
reads the entries surface by surface, checks and stages them and publishes all or nothing.
Afterwards its handlers may call the same functions, to no effect but on the handlers table.
A statement passed to `sushi.db` has the class the gateway guesses, by which it is let
through, and the class of what it does (`Statements`): the gateway takes the first keyword it
knows, so the two may differ, and no property bounds what a statement does. The script
itself may call `sushi.db` too: it gets an error, since it cannot wait, but the statement has
been queued by then.
`perms` is the intersection of manifest, trust ceiling and grants. `ManifestRecord` and
`EntryRecord` are what deserialization and the tables of a script can hold.

### AdminMenu

`req[c].at` is the statement a request stands at. A listing takes the contributions of the
moment, goes through them in published order, parents first, looks up the row of each, takes
over a row with its route or label, aligns or inserts and maps it, then removes what is
mapped and no longer contributed, and answers. None of this is in a transaction. `settled`,
`adopted` and `litter` are history variables.

### FileService

`pc` is the system call an operation awaits next; the check of its path is one step before.
A directory rename is a loop inside one poll and holds the VM of its plugin (`VmFree`), but
not that of another plugin over the same root. The writes of `create_text` and
`write_upload` are not flushed (`fs/mod.rs:293`, `:357`): the call may be answered although
its content never gets to the file (`Write`). That such a write comes after the answer,
beside later calls, is not modelled. `alone`, `before` and `raced` are history variables.

## What the runs check

Type invariants are stated in every module and proved, and no run repeats them. All runs but
`files_moves` are expected to pass.

* `registry` (0.14 million states, with fairness): a builtin and a Lua owner compete for an
  ordinary and a host key through two callers and three requests, which is enough for one
  request to be pending while another is committed or removed and a third arrives.
  `PendingIsCurrent`, the refinement `ImplementsStore`, `EveryRequestEnds`. The bounds are
  small because safety is proved for all of them.
* `tasks`: two tasks, two owners, two overlapping cancellations: `DueAreSettled`, and under
  fairness `CallsEnd` and `DueStop`. Two cancellations of one owner, and a task spawned
  between list and sweep, are the interesting cases; both fit into two tasks. `FirstFirst`
  names the task that is spawned and the cancellation that begins first, since symmetry
  reduction is not sound for liveness.
* `lifecycle` (2.4 million states): three requests of two callers to enable, disable or
  reload, two starts, any one database call failing, two dropped operations, one dispatch.
  `OneGeneration`, `TasksAccounted`, `PolicyCovers` and `NoCallOnceDisabled` are about
  behaviours without a dropped operation (`Undropped`); `InactiveIsEmpty` and
  `DeadNeverSeen` are about all. `PolicyCovers` names the window between `Bind` and
  `Publish`, in which the bindings are those of the generation to come. Plugin code and VM creation may fail at any time.
* `lifecycle_toggles` (with fairness): four requests, toggles only, as the host itself
  offers them (nothing but tests calls `reload`), and a dropped one. `LoadedMeansPublished`
  and `RequiredServes` when nothing is dropped and no database call fails (`Calm`),
  `RequestsEnd` always.
* `migrations` (2.7 million states): two processes start again and again, with two builds
  and two profiles, over two migrations: the menu (bridged by its table alone) and the plugin
  governance (bridged by name, or two columns and the rest, recoverable). Over a new database
  both are applied as any other is, so these are all the ways `apply_one` treats a
  migration; two columns allow a partial recovery and an answer with one column missing, and
  one profile leaves out the menu, so that it is recorded after a later one. `RecordedIsWhole`,
  `ServedIsRecorded`, `FailsForCause`, `DoctorIsRight`. The state space is finite without a
  bound.
* `start` (0.22 million states): three starts, each of any of some 360 profiles (bundles in
  both orders and twice, overlays that disable, replace, duplicate, break or take away
  approval, those of the command line), stopped anywhere, and two toggles. Three starts
  allow a row to outlive the profile that made it and to be found again. One of the plugins
  bears the name of a builtin.
  `ResolvesAsDeclared` compares the code's single pass with the rules of
  `docs/wiki/guides/profile-composition.md`; `ServesWhatItRequires`, `StatusTellsTruth`,
  `MigratedBeforeRun`, `IntentKept`.
* `access` (1.6 million states): two administrators, four requests, one failing statement,
  one replacement of bindings and a restart, over a seeded and a custom role and permission:
  the least in which a permission can be deleted, created again and meet its old grant. Two
  seeds, one with grants and assignments in step and one with them apart.
  `GrantsFollowPermissions`, `SnapshotFollowsTables`, `OtherGrantsStay`.
* `menu` (1.8 million states): three requests of two clients, two toggles and a fault, over
  four contributions of three owners, two with the same route and two whose parent comes
  later. The owner of the system group can be switched too, as a profile may make it
  optional; its row from the migrations then stands in for the parent. The administrator's
  row looks like a plugin's group and has a route only one row may have.
  `MenuFollowsPlugins`, `NoGhostRows`, `OwnRowsStay`, `AloneListingAnswers`.
* `scripts` (93 thousand states): every script of two calls, over every API function, eleven
  raw tables and a module, under six manifests. Two calls are enough for one to disturb the
  key of the other. `PublishesWithinGrants`, `EachCallsItsOwn`.
* `requests` (1.6 million states): four changes around a request to any of some twenty URLs,
  or six units of time and three logins; one of the three scripts is refused, one ends a
  pattern in a literal with a star and declares a page with a slash to spare at its end.
  Four changes are enough to switch the plugin on, activate one script, reload another and
  compile a policy between its two steps.
  `BuiltinsKeepTheirKeys` and `WorkspaceFollowsPages`, in every state of an operation;
  `HolderIsServed`, `SessionEnds`.
* `files` (0.3 million states): three calls of two callers in one VM or two and one fault,
  over three trees two names deep. `NamesKeepTheirFile`, `KeptUnlessRaced`, `AloneIsExact`.
* `files_moves` is expected to fail: `RenameOverwritesNothing` is what the tests and names
  of `fs/mod.rs` say, but a file created in the new directory while a directory rename moves
  its entries is replaced by the entry of its name.

Deadlock is checked in `migrations` and `requests`, where something can always go on, and in
no other run: there the bounds on requests, tasks, calls and starts end every behaviour.

### What the properties leave out

The conditions in the properties are histories in which the code does something else. Each
was found as a counterexample of the property without the condition.

* Lifecycle: a VM that cannot be created leaves the status at Activating without an error
  (`loader.rs:217`), where `docs/wiki/guides/plugin-lifecycle.md:10` has every activation end
  in Active or Failed: `StatusTellsTruth` allows it of a plugin that is neither published nor
  loaded, and of no other. Between the commit of the bindings and the
  publication of a reload, requests meet the old routes with the new bindings stored. An enable dropped between publication and its write leaves a published
  plugin that is marked as not loaded, without tasks (`manager.rs:213`). After two dropped
  toggles a disable can find nothing to do and answer with success while the plugin serves
  (`context.rs:327`). When the governance row cannot be read at start, the entry is skipped
  even when it is required (`app.rs:319`). With a failing database call, or a `reload` of a
  disabled plugin followed by a failing enable, `LoadedMeansPublished` does not hold either.
* Start: a Lua plugin with the name of a builtin shares its governance row and its place in
  the plugin list (`ServesWhatItRequires` excepts such entries), and one named `policy` is
  marked loaded by the compilation of the policy (`StatusTellsTruth` excepts it). A plugin that the profile disables can be switched on and then runs without its
  migrations. `ServesWhatItRequires` speaks of a database with script 008; without it the
  rows cannot be read and required plugins are skipped. An optional builtin switched off and
  on again is answered with an error and marked as not loaded while it is published. The
  bindings of a plugin that the profile disables stay in the tables.
* Migrations: of two overlapping starts that apply the same migration, the loser fails with
  the catalog's key violation, although the database is as it wanted (`FailsForCause` speaks
  of undisturbed starts). The bridge by table name takes a menu an old host had not finished
  seeding for complete (`RecordedIsWhole` excepts it). A doctor beside a host may mix two
  states of the database (`DoctorIsRight` speaks of undisturbed ones). When an answer hides
  the trace of an old host, a script that had run to its end is run once more.
* Access: a role may start with grants apart from its permissions, as the migrations leave it
  (`006_unified_policy_v2.sql:109` grants without looking at the permissions). A role that is deleted keeps opening its routes until the next refresh
  (`docs/wiki/guides/auth-rbac.md:111` says otherwise); activating a plugin refreshes
  nothing; of two overlapping refreshes the older may stay; a deleted permission that is
  created again finds its old grants; a user may be created with a role while that role is
  being deleted (`rbac.rs:237`).
* Requests: the partial routes of the admin pages have no guard of their own
  (`auth-rbac.md:114`): they are decided by bindings like every other. A binding that ends
  in a literal with a star covers more than the route it was made for. A plugin page may be
  declared with a slash to spare at its end, as `/admin/config/`: the check against the
  reserved routes compares segment by segment, an empty last one included
  (`registry.rs:1572`), while its binding is compared without it (`authorizer.rs:184`) and
  covers the reserved path. Both are the wide entries of `WideKeys`, whose keys the
  properties except. DELETE `/api/users/*` takes more paths than are reserved. A holder of a plugin page's key may get the page and
  not the same page through the workspace. A refresh copies the claims of the old token, and
  a login that has read the user issues tokens although the user is deleted meanwhile
  (`auth.rs:46-50`, `login.rs:128-143`). Who holds the key of a page may be refused it when
  the authorizer's snapshot is compiled between the two steps of an operation on the plugin
  (`HolderIsServed` speaks of snapshots of the bindings of what is published), and where
  routes and bindings read a pattern by different rules (stars, and `{}`, which is a
  parameter of a route and a literal of a binding).
* Scripts: what SQL a permission lets through is a guess at its first keyword. Direct writes
  of a script to the global `sushi.__handlers` are not modelled.
* Menu: switching from one plugin to another with the same route, without a listing in
  between, makes every listing fail at the second mapping of one row; a contribution under
  another plugin's group makes every listing fail once that plugin is disabled; overlapping
  listings leave rows that belong to nobody; rows of an administrator that a contribution
  takes over are deleted with the plugin.
* Files: check and use are apart, so overlapping renames can drop a file uploaded again
  under the old name, an edit that races a rename creates the old name again, and a failed
  write leaves a partial file that makes the retry a conflict.

## Fairness

`CapabilityRegistry`: weak fairness of a caller's own steps (its future is polled), strong
fairness of `Acquire`, because tokio's mutex queues its waiters in order of arrival. A
pending commit is published or dropped once its caller's database write returns.
`TaskRegistry`: weak fairness of each cancellation and of a task that is removing itself or
has been aborted; nothing is assumed of task bodies, except in `DueStop`, which is about
bodies that keep yielding. `PluginLifecycle`: weak fairness of each operation's next step,
strong fairness of entering the lifecycle lock. No fairness is stated in the other modules:
their requests and starts are finite lists of statements, and what is hard about them is
what they leave behind.

## What is proved

All theorems hold for every value of the constants that satisfies the named assumptions:
special values are no members of the sets they are special in, bounds are naturals, and the
data has the shape the code gives it (what the migrations seed refers to what they seed,
documents are lists, menu orders differ, manifests and entries have their fields). TLC
evaluates each assumption on the run of its module. One theorem, `RowTellsPublished`, has a
hypothesis of its own, which is stated with it below.

* `RuntimeProofs`, of the capability registry: `TypeCorrect`, `KeysUnique`, `HostKeys`, `PendingNeverStale`.
  The inductive invariant adds to them `LockHeld`: the lock names the one caller that is
  past `Acquire`. It is needed because a pending commit stays current only as long as nobody
  else can publish; uniqueness of keys then follows for `Publish` from the fact that what is
  published was built, without a conflict, from the snapshot that is still current.
  `RegistryImplementsStore` proves the refinement: every `Publish` is one `CapabilityStore`
  operation, every other step a stutter. It also needs that subscription ids are drawn below
  `nextSub`.
* `RuntimeProofs`, of the tasks: `TasksTyped`, `NoTaskOrphaned`, `CancellationSettles`. The
  inductive invariant has, for each cancellation, what is settled at each of its stages: at
  `sweep` every live target has been aborted, at `list` every due task is settled or belongs
  to an owner still to come. The steps of other processes are shown once to be benign: they
  never unsettle a task.
* `StorageProofs`, of the migrations: `TypeCorrect`, `OnceOnly`, `RecordsAreWhole`, `ServesItsOwn`,
  `FailureHasCause`, `DoctorTellsTruth`, `NeverBackwards`, `KeepsOrder`: every property the
  run checks and four more, for any processes, migrations, scripts and old hosts, whatever rows
  are missing from an answer. `OnceOnly` therefore counts runs: no script runs to its end
  twice, but one whose trace was overlooked, and that one not a third time. They
  assume that ranks are distinct (`RankAssumption`), that only migrations noted by name are
  recoverable (`LegacyAssumption`) and that every build has a checksum for each migration
  (`VersionAssumption`). A process acts on what it has read earlier, so the inductive
  invariant says what is left of that: it still holds, or the migration has been recorded
  meanwhile or overlooked, and the process is disturbed (`Poised`). To it belong that a script that ran to
  its end can be found again (`Sound`), that a host reports what is recorded (`Honest`) and
  that an undisturbed doctor's words are so (`Truthful`). `OthersHold` shows once that a
  commit of one process keeps all of this for every other.
* `PluginLifecycleProofs`, for any number of callers, requests, drops, faults, crashes and
  late writes. `TypeCorrect`, `InactiveHoldsNothing` and `DeadStayUnseen` hold whatever is
  dropped. Their inductive invariant `IInv` says, for each place an operation can be at, how
  far a deactivation has come (`Progress`: no capability once they are removed, then no task,
  then no VM), that the status is not inactive while a plugin is being put up or taken down,
  and that a generation not yet published is in none of the host's tables; `Counted`, that
  every generation in sight has been counted, makes a new one new. Only the holder of the
  lifecycle lock changes any of this, so one operation's step leaves the progress of the
  others as it was (`OthersProgress`).
  `DeadStayUnseen` adds to it that a failed generation has been counted and was at no place
  from which it could have been published, so that no request can have matched it.
  `NoHalfPlugin`, `HandleListsTasks`, `BindingsCover` and `DisabledIsNotCalled` add what holds as long as nothing has been dropped: `Roles`, which
  operation can be at which place; `Whole(c)`, what memory looks like at each place of an
  operation (one generation in snapshot, VM map, handle and tasks, or exactly which of them
  is ahead); `Steady`, that bindings are those of what is published, or of what is about to be, and that an answered
  disable leaves the row disabled. `RequiredIsServed` and `RowTellsPublished` add `CalmInv`,
  for a host in which no database call fails either: a required plugin stays published, and
  the row tells what is published between two operations. The second has the hypothesis that
  no reload is offered (`"reload" \notin Kinds`), which is so in the `lifecycle_toggles` run
  and in the host, and without which the property fails.
* `AccessControlProofs`: `TypeCorrect`, `GrantsAreDerived`, `SnapshotDecidesAsTables`,
  `OtherGrantsAreLeft`: every property of the run, for any administrators, roles and
  permissions and whatever the migrations have left. `GrantsInv` says which of the two inclusions between derived grants and
  permissions is broken for a role, namely only while one of its replacements stands at the
  statements that restore it. `SnapshotInv` says that the copies a refresh has read so far
  are still what the tables hold, or a history variable owns up to it. The seeded roles and
  permissions are assumed to be finitely many, since ids number them.
* `HostStartProofs`: `TypeCorrect`, `ResolutionIsAsDeclared`, `RunsWhatIsMigrated`,
  `IntentIsKept`, `StatusIsTrue`, `RequiredAreServed`: every property of the run, for any
  builtins, plugins, bundles, documents and number of starts. `ResolvesAsDeclared` compares
  the folds of `RuntimeProfile` with a declarative definition; what a fold over a list of any
  length computes is shown by induction over the sets of its first elements (`SetInduction`,
  `FoldSteps`), and then for one overlay (`Edited`), one document and all of them. For the
  rest, `ProfileInv` says that the entries in use are the resolution of what was read,
  `MigratedInv` that the migrations of the selected entries are applied or still to come,
  `PublishedInv` that only entries whose turn has come are published, and `TruthInv` and
  `RequiredInv` state the two properties for the entries that are done, so that they can be
  carried through a start. Plugins with the name of a builtin, which no check of the code
  refuses, are covered: the properties except the entries that share a governance row.
* `AdminMenuProofs`: `TypeCorrect`, `NoGhosts`, `OwnRowsAreKept`, `MenuFollowsTheSnapshot`,
  `AListingAloneAnswers`, for any contributions, plugins, seeds, edits and clients. `NoGhostRows` is inductive by
  itself over well-typed tables. `OwnRowsStay` needs that whatever is mapped, read as stale
  or about to be dropped has been adopted (`AdoptedInv`). `MenuFollowsPlugins` speaks of a
  listing that nothing overlapped; `AloneInv` says what such a listing may rely on at each
  of its statements: its snapshot is the current one, what it has not mapped is still ahead
  of it, a route it inserts for is free, what it has read as stale is what is stale. From
  its end on, `SettledInv` says that further listings find nothing to do. `AnswerInv` says
  why such a listing can fail only on what it has found: what it has been through is mapped
  where it has noted, what waits has its parent in the snapshot, not yet projected if the
  round has moved nothing, and the parent and the row in its hands are there. A round that
  moves nothing is therefore a circle of parents, which no check of the code refuses before
  and which the property names.
* `PluginScriptProofs`: `TypeCorrect`, `StaysWithinGrants`, `EachItsOwnFunction`: both
  properties of the run, for scripts, modules, handlers and manifests without bound. The
  grants bound what is published, not what SQL is run. A call
  of any API function is shown to be a `CallStep`: at most one entry, under a fresh key it
  has stored its function at or with a key of a table's own. The first theorem rests on
  `GrantsClamp`: what is granted is within manifest, ceiling and grants; the next on
  `NumberedApart` and `KeysApart`: each adapter gives its unnamed functions different keys,
  in a namespace of its own, which no call uses, so that the function stored last under such
  a key is the only one.

* `HostRequestsProofs`: `TypeCorrect`, `BuiltinsKept`, `WorkspaceFollows`, `HolderServed`,
  `SessionsEnd`: every property of the run, for any plugins' scripts, URLs, roles, grants and
  changes on the way. The invariant has four parts beside the types. `Tables`: what is
  published, and what the snapshot in use was compiled from, are accepted contracts (the
  scripts' entries), and the rows are those of a contract, of the one about to be published
  while there is one. `RequestOk`: what answers
  was found by its router in some published state, and the keys that let its caller in cover
  the path. `Refusal`: a request nothing changed under was refused by a snapshot of the
  tables there are. `Sessions`: no token lives longer than the login it comes from allows, and
  a login found its user before the deletion. Everything else
  is about patterns. A binding that is not wide and covers a reserved path belongs to a
  pattern that overlaps a reserved one (`CoveringIsReserved`), which acceptance refuses; so
  only seeded bindings are left there, and the tables of builtins, seeds and reserved routes
  are gone through shape by shape (`BuiltinNeeds`, `SeedNeeds`). The assumptions say that
  words are literals and that a script's entries are ones a plugin can make.
* `StorageProofs`, of the files: `FilesTyped`, `FilesKept`, `FilesKeepNames`, `FilesExact`,
  for any callers, machines, names, manifests and trees. `FilesInv` types the state and says which
  operation can stand at which system call, what is on the stack of a directory move and
  that a file being written was opened by nobody else as new; it always holds. `RacedInv`
  holds until a rename overlaps a call it can lose files to: the calls that could lose each
  other's files do not overlap, a file between two names still has the second one, and a
  directory under way holds no file but those its move has listed, so that removing it loses
  none. The theorem about names needs only the first part. `AloneInv`, for `FilesExact`, says
  what the tree is at each system call of a call that runs alone: the tree it found with what
  it has done so far. For a directory's move that is `Halfway`: these entries are still in
  the old directory, those have come to the new one, and with a second directory on the
  stack its name is in both. The last removal then leaves what the system's own rename would
  (`SourceGone`), and no step after the first can fail, since every entry moved has room and
  a free name where it goes.

Model-checked only: the liveness properties `EveryRequestEnds`, `CallsEnd`, `DueStop` and
`RequestsEnd` and their fairness (`ENABLED` is beyond the provers). Every invariant and
every action property of a passing run is a theorem.

## Plan

1. Done: registry, tasks, lifecycle of one plugin, migrations, start, access control,
   scripts, requests, menu, files.
2. Theorems. Done: every safety and action property the runs check, and the refinement of
   `CapabilityStore`.
3. Further modelling: an abstract ledger that `MigrationRunner` refines; two plugins that
   meet at one role's keys.

## Not modelled

Templates and rendering, static files, log lines, the configuration value, HTTP clients and
value conversion of the Lua API, the text of SQL statements and its classification, TOML
parsing, and the wording of answers: they convert data or do I/O, and keep no state the
models could relate. Signatures are taken to be sound, symbolic links are excluded by
`deny_symlink`. The scripts of migrations are opaque but for the tables and columns they
need. A CLI command is a second process on the same database; it is modelled for the
migrations it runs and not for its effect on the governance rows of a host that serves
meanwhile. `emit` of the event bus reads one snapshot and calls its handlers; nothing in the
repository orders it against the removal of an owner.
