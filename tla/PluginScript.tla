---------------------------- MODULE PluginScript ----------------------------
(***************************************************************************)
(* What a Lua plugin's script becomes.  The script calls the sushi.* API   *)
(* (lua/bindings.rs) or sushi.capability.register, whose entries nobody    *)
(* checks until the script has ended; then the adapters read the entries,  *)
(* surface by surface, the loader checks and stages them, and they are     *)
(* published with their policy bindings, or nothing is.                    *)
(*                                                                         *)
(* A function is the number of the call that made it.  A path, a command, *)
(* an event or a menu id is a sequence, <<>> when it is blank or missing.  *)
(* A handler key is a pair: the prefix of a generated one and its number,  *)
(* or <<"own", n>> for a name of the script's own.                         *)
(***************************************************************************)
EXTENDS HostRoutes, TLC

CONSTANTS
  Manifests,     \* plugins on disk: [kind, schema, declared, scopes, grants]
  Others,        \* what other plugins have published
  PolicyKeys,    \* policy keys a script may name
  ApiRoutes,     \* what scripts pass to sushi.api.route: [method, path]
  Pages,         \* paths they pass to sushi.admin.page and sushi.web.page
  Commands,      \* names they pass to sushi.cli.command
  Events,        \* events they pass to sushi.event.on
  RawEntries,    \* tables they pass to sushi.capability.register
  Modules,       \* modules they require; a module registers Module[m]
  Module,
  Statements,    \* SQL they pass to sushi.db: [seen, does], the class the gateway
                 \* guesses and the class of what the statement does
  MaxCalls       \* bound: calls of one script

NoKey  == <<"none", 0>>     \* handler_key is nil
BadKey == <<"other", 0>>    \* handler_key is not a string
Prefixes    == {"h", "api", "admin", "cli", "web", "own"}
HandlerKeys == Prefixes \X (0 .. MaxCalls)

\* What a plugin's plugin.toml says of it, and what the profile grants it.
DatabaseLevels == {"none", "read", "write", "admin"}
Granting == {"yes", "no", "unset"}
ManifestRecord ==
  [kind: {"official", "third_party"}, schema: Nat, scopes: SUBSET STRING,
   declared: [routes: BOOLEAN, commands: BOOLEAN, admin: BOOLEAN, database: DatabaseLevels],
   grants: [approved: BOOLEAN, routes: Granting, commands: Granting, admin: Granting,
            database: DatabaseLevels \cup {"unset", "unknown"}]]

\* An entry of the registry, a table of the script's or one of a call's; fn is the
\* function in it, if there is one.
Tables == RawEntries \cup {Module[m] : m \in Modules}
EntryRecord ==
  [surface: {"api", "cli", "admin", "web", "event"} \cup {e.surface : e \in Tables},
   kind: {"none", "page", "subscribe"} \cup {e.kind : e \in Tables},
   method: {"none", "GET"} \cup {r.method : r \in ApiRoutes} \cup {e.method : e \in Tables},
   target: Pages \cup Commands \cup Events \cup {r.path : r \in ApiRoutes} \cup {e.target : e \in Tables},
   handler: {"nil", "string", "function", "other"},
   key: HandlerKeys \cup {NoKey, BadKey},
   policy: PolicyKeys \cup {"none"},
   public: BOOLEAN,
   assets: {"none", "missing", "unsafe"},
   fn: 0 .. MaxCalls]

\* The gateway classifies a statement by the first keyword it knows in its text,
\* which need not be what the statement does: so the two are apart.
SqlClasses == {"read", "write", "admin"}
NoSql == [seen |-> "none", does |-> "none"]

ASSUME ScriptAssumption ==
  /\ MaxCalls \in Nat
  /\ Manifests \subseteq ManifestRecord
  /\ Tables \subseteq EntryRecord
  /\ Statements \subseteq [seen: SqlClasses, does: SqlClasses]
  /\ \A e \in Others : e.plugin \notin {"host", "self"}

VARIABLES
  phase,       \* "skipped" | "script" | "served" | "failed"
  manifest,    \* the plugin's manifest and what the profile grants it
  calls,       \* calls made so far
  entries,     \* sushi.__contract_registry
  handlers,    \* sushi.__handlers: the function under each key, 0 for none
  cache,       \* modules that require has loaded
  published,   \* the plugin's contributions in the capability snapshot
  bindings,    \* its rows of policy_bindings
  dbOp         \* the statement that has been run last

vars == <<phase, manifest, calls, entries, handlers, cache, published, bindings, dbOp>>

-------------------------------------------------------------------------------
\* DatabasePermission::rank, and the minimum by it.
Levels == <<"none", "read", "write", "admin">>
Level(d) == CHOOSE i \in 1 .. 4 : Levels[i] = d
Lower(c, d) == IF Level(c) <= Level(d) THEN c ELSE d

\* host_ceiling and clamp_to: a third-party plugin gets no more than writes.
Ceiling(kind) == IF kind = "official" THEN "admin" ELSE "write"
ClampTo(m) == [m.declared EXCEPT !.database = Lower(@, Ceiling(m.kind))]

\* clamp_to_grants: a grant that is not given, or not understood, takes nothing
\* away; without an approval nothing is left.
Nothing == [routes |-> FALSE, commands |-> FALSE, admin |-> FALSE, database |-> "none"]
ParseDatabaseGrant(d, g) == IF g \in {"unset", "unknown"} THEN d ELSE Lower(d, g)
ClampToGrants(p, g) ==
  IF ~g.approved THEN Nothing
  ELSE [routes   |-> p.routes /\ g.routes # "no",
        commands |-> p.commands /\ g.commands # "no",
        admin    |-> p.admin /\ g.admin # "no",
        database |-> ParseDatabaseGrant(p.database, g.database)]
Granted(m) == ClampToGrants(ClampTo(m), m.grants)
perms == Granted(manifest)

\* validate_schema, and the approval without which a plugin is not activated.
Loadable(m) == m.schema = 1 /\ m.grants.approved

Init ==
  /\ manifest \in Manifests
  /\ phase = IF Loadable(manifest) THEN "script" ELSE "skipped"
  /\ calls = 0 /\ entries = <<>>
  /\ handlers = [k \in HandlerKeys |-> 0]
  /\ cache = {} /\ published = {} /\ bindings = {} /\ dbOp = NoSql

-------------------------------------------------------------------------------
\* Calls of the script, and of its handlers when they run later: the API stays
\* in the VM, but nobody reads the entries again.
Calling == phase \in {"script", "served"} /\ calls < MaxCalls /\ calls' = calls + 1
This == calls + 1

\* An error ends the script unless the script catches it.
Raise == phase' \in (IF phase = "script" THEN {"script", "failed"} ELSE {phase})

Raw(surface, kind, method, target, handler, key, policy, public, assets) ==
  [surface |-> surface, kind |-> kind, method |-> method, target |-> target, handler |-> handler,
   key |-> key, policy |-> policy, public |-> public, assets |-> assets, fn |-> This]
AppendEntry(e) == entries' = Append(entries, e)
\* next_handler_key: the namespaced calls keep their function under a fresh key.
Store == handlers' = [handlers EXCEPT ![<<"h", This>>] = This]
Elsewhere == UNCHANGED <<manifest, cache, published, bindings, dbOp>>

ApiRoute ==
  /\ Calling /\ perms.routes /\ Store /\ Elsewhere
  /\ \E r \in ApiRoutes, k \in PolicyKeys \cup {"none"}, public \in BOOLEAN :
       IF k # "none" /\ public THEN Raise /\ UNCHANGED entries
       ELSE /\ AppendEntry(Raw("api", "none", r.method, r.path, "string", <<"h", This>>, k, public, "none"))
            /\ UNCHANGED phase

CliCommand ==
  /\ Calling /\ perms.commands /\ Store /\ Elsewhere
  /\ \E c \in Commands, k \in PolicyKeys \cup {"none"} :
       AppendEntry(Raw("cli", "none", "none", c, "string", <<"h", This>>, k, FALSE, "none"))
  /\ UNCHANGED phase

AdminPage ==
  /\ Calling /\ perms.admin /\ Store /\ Elsewhere
  /\ \E p \in Pages, k \in PolicyKeys \cup {"none"} :
       AppendEntry(Raw("admin", "none", "GET", p, "string", <<"h", This>>, k, FALSE, "none"))
  /\ UNCHANGED phase

\* sushi.web is there for routes alone too, and its page then refuses.
\* validate_asset_path refuses what is no safe relative path.
WebPage ==
  /\ Calling /\ (perms.admin \/ perms.routes) /\ Elsewhere
  /\ \E p \in Pages, k \in PolicyKeys \cup {"none"}, a \in {"none", "missing", "unsafe"} :
       IF ~perms.admin \/ a = "unsafe" THEN Raise /\ UNCHANGED <<entries, handlers>>
       ELSE /\ Store
            /\ AppendEntry(Raw("web", "page", "GET", p, "string", <<"h", This>>, k, FALSE, a))
            /\ UNCHANGED phase

EventOn ==
  /\ Calling /\ Elsewhere
  /\ \E e \in Events :
       IF e = <<>> THEN Raise /\ UNCHANGED <<entries, handlers>>
       ELSE /\ Store
            /\ AppendEntry(Raw("event", "subscribe", "none", e, "nil", <<"h", This>>, "none", FALSE, "none"))
            /\ UNCHANGED phase

\* sushi.capability.register takes any table, whatever the plugin may do.
WithFunction(e) == [e EXCEPT !.fn = IF e.handler = "function" THEN This ELSE 0]
CapabilityRegister ==
  /\ Calling /\ Elsewhere
  /\ \E e \in RawEntries : AppendEntry(WithFunction(e))
  /\ UNCHANGED <<phase, handlers>>

\* The script's require runs a module when it is not in the cache, and caches it
\* after that: one that failed after it registered runs again when asked again.
Require ==
  /\ Calling
  /\ \E m \in Modules :
       \/ m \in cache /\ UNCHANGED <<phase, entries, cache>>
       \/ /\ m \notin cache
          /\ AppendEntry(WithFunction(Module[m]))
          /\ \/ cache' = cache \cup {m} /\ UNCHANGED phase
             \/ Raise /\ UNCHANGED cache
  /\ UNCHANGED <<manifest, handlers, published, bindings, dbOp>>

-------------------------------------------------------------------------------
\* The adapters: the entries of each surface, and the key its function gets.
Of(surface) == {i \in DOMAIN entries : entries[i].surface = surface}
Unnamed(i)  == entries[i].handler = "function" /\ entries[i].key = NoKey
Resolve(prefix, S, i) ==
  IF Unnamed(i) THEN <<prefix, Cardinality({j \in S : j <= i /\ Unnamed(j)})>> ELSE entries[i].key
\* resolve_handler_key refuses other values, and a nil without a handler_key.
BadHandler(i) ==
  \/ entries[i].key = BadKey
  \/ entries[i].handler = "other"
  \/ entries[i].handler = "nil" /\ entries[i].key = NoKey

AdminEntries == Of("admin")
CliEntries   == Of("cli")
ApiEntries   == Of("api")
MenuEntries  == Of("menu")
WebEntries   == {i \in Of("web") : entries[i].kind = "page"}
EventEntries == {i \in Of("event") : entries[i].kind = "subscribe"}
AdminKey(i) == Resolve("admin", AdminEntries, i)
CliKey(i)   == Resolve("cli", CliEntries, i)
WebKey(i)   == Resolve("web", WebEntries, i)
\* Mutant of ApiKey: routes number their functions with the pages' prefix.
ApiKeyOfPages(i) == Resolve("web", ApiEntries, i)
ApiKey(i)   == Resolve("api", ApiEntries, i)
EventKey(i) == entries[i].key
Malformed ==
  \/ \E i \in AdminEntries \cup CliEntries \cup WebEntries \cup ApiEntries : BadHandler(i)
  \/ \E i \in Of("event") : entries[i].key = BadKey
  \/ \E i \in EventEntries : entries[i].key = NoKey

\* A function is stored under its key when its adapter comes by: the pages of
\* sushi.admin first, then commands, pages of sushi.web and routes.
Turn(i) == CASE i \in AdminEntries -> 1 [] i \in CliEntries -> 2 [] i \in WebEntries -> 3 [] OTHER -> 4
KeyOf(i) == CASE i \in AdminEntries -> AdminKey(i) [] i \in CliEntries -> CliKey(i)
              [] i \in WebEntries -> WebKey(i) [] i \in EventEntries -> EventKey(i) [] OTHER -> ApiKey(i)
Storing(k) == {i \in AdminEntries \cup CliEntries \cup WebEntries \cup ApiEntries :
                 entries[i].handler = "function" /\ KeyOf(i) = k}
After(i, j) == Turn(i) > Turn(j) \/ (Turn(i) = Turn(j) /\ i >= j)
Resolved ==
  [k \in HandlerKeys |->
     IF Storing(k) = {} THEN handlers[k]
     ELSE entries[CHOOSE i \in Storing(k) : \A j \in Storing(k) : After(i, j)].fn]

\* The checks of the entries as a whole, against the effective permissions.
\* Mutant of Ungranted: menu entries are not looked at.
UngrantedButMenus ==
  \/ ~perms.routes /\ ApiEntries # {}
  \/ ~perms.admin /\ (AdminEntries # {} \/ WebEntries # {})
  \/ ~perms.commands /\ CliEntries # {}
Ungranted ==
  \/ ~perms.routes /\ ApiEntries # {}
  \/ ~perms.admin /\ (AdminEntries # {} \/ WebEntries # {} \/ MenuEntries # {})
  \/ ~perms.commands /\ CliEntries # {}

-------------------------------------------------------------------------------
\* Staging.  The scopes of the manifest are the keys its patterns match.
OutOfScope(i) == entries[i].policy # "none" /\ entries[i].policy \notin manifest.scopes
Contribution(i, kind, surface, method) ==
  [plugin |-> "self", kind |-> kind, surface |-> surface, method |-> method, path |-> entries[i].target,
   key |-> entries[i].policy, public |-> entries[i].public, handler |-> KeyOf(i), fn |-> entries[i].fn]

\* stage_api_route_binding, stage_admin_page_binding, stage_cli_command_binding,
\* stage_menu_contribution and stage_event_subscription.
StageRoute(i)   == Contribution(i, "route", SurfaceOf(entries[i].target), entries[i].method)
StagePage(i)    == Contribution(i, "page", "admin", "GET")
StageCommand(i) == Contribution(i, "command", "cli", "none")
StageMenu(i)    == [Contribution(i, "menu", "admin", "none") EXCEPT !.handler = NoKey, !.fn = 0]
StageEvent(i)   == [Contribution(i, "event", "none", "none") EXCEPT !.key = "none"]
Blank(i) == entries[i].target = <<>>
\* resolve_page_assets: a file that is not there, or no relative path.
BadAssets(i) == entries[i].assets \in {"missing", "unsafe"}
Unstageable ==
  \/ \E i \in ApiEntries : Blank(i) \/ OutOfScope(i) \/ (entries[i].public /\ entries[i].policy # "none")
  \/ \E i \in WebEntries \cup AdminEntries : Blank(i) \/ OutOfScope(i) \/ BadAssets(i)
  \/ \E i \in CliEntries \cup MenuEntries : Blank(i) \/ OutOfScope(i)
  \/ \E i \in EventEntries : Blank(i)

Staged ==
  {StageRoute(i) : i \in ApiEntries} \cup {StagePage(i) : i \in WebEntries \cup AdminEntries} \cup
  {StageCommand(i) : i \in CliEntries} \cup {StageMenu(i) : i \in MenuEntries} \cup
  {StageEvent(i) : i \in EventEntries}

\* Two of the same kind for one target; two subscriptions to an event are fine.
SameTarget(i, j) ==
  /\ i # j /\ entries[i].target = entries[j].target
  /\ \/ {i, j} \subseteq WebEntries \cup AdminEntries
     \/ {i, j} \subseteq ApiEntries /\ entries[i].method = entries[j].method
     \/ {i, j} \subseteq CliEntries
     \/ {i, j} \subseteq MenuEntries
Taken(kind, e) == \E f \in Others : f.kind = kind /\ f.path = e.path
CommandRefused(e) == e.path[1] \in ReservedCommands \/ Taken("command", e)
Refused(e) ==
  \/ e.kind = "page" /\ PageRefused(Others \cup Builtins, e)
  \/ e.kind = "route" /\ RouteRefused(Others \cup Builtins, e)
  \/ e.kind = "command" /\ CommandRefused(e)
  \/ e.kind = "menu" /\ Taken("menu", e)
Conflicting == (\E i, j \in DOMAIN entries : SameTarget(i, j)) \/ (\E e \in Staged : Refused(e))

\* replace_plugin_policy_bindings inserts one row for each contribution with a
\* policy; the index over all columns refuses the same row twice.
Bound(S) == {e \in S : e.key # "none" /\ e.kind \in {"route", "page", "command"}}
Row(e) == [surface |-> e.surface, method |-> e.method, path |-> e.path, key |-> e.key]
DuplicateRow == \E e, f \in Bound(Staged) : e # f /\ Row(e) = Row(f)

Rejected == Malformed \/ Ungranted \/ Unstageable \/ Conflicting \/ DuplicateRow

\* LuaPlugin::activate, from the end of the script on.
Activate ==
  /\ phase = "script"
  /\ IF Rejected THEN phase' = "failed" /\ UNCHANGED <<published, bindings>>
     ELSE phase' = "served" /\ published' = Staged /\ bindings' = {Row(e) : e \in Bound(Staged)}
  /\ handlers' = Resolved
  /\ UNCHANGED <<manifest, calls, entries, cache, dbOp>>

\* sushi.db: the gateway refuses what it takes for more than the permission.
\* The script itself runs outside a coroutine and cannot wait for an answer, so it
\* gets an error; but the call has been polled once by then, and the statement is
\* on its way to a blocking thread, which runs it whatever becomes of the script.
GatewayAllows(d, s) == Level(s.seen) <= Level(d)
DbCall ==
  /\ phase \in {"script", "served"} /\ perms.database # "none"
  /\ \E s \in Statements : GatewayAllows(perms.database, s) /\ dbOp' = s
  /\ Raise
  /\ UNCHANGED <<manifest, calls, entries, handlers, cache, published, bindings>>

Next == ApiRoute \/ CliCommand \/ AdminPage \/ WebPage \/ EventOn \/ CapabilityRegister \/ Require
        \/ Activate \/ DbCall
Spec == Init /\ [][Next]_vars

-------------------------------------------------------------------------------
\* The types, that only a plugin that serves has anything published or bound, and
\* that one which is skipped has run nothing.
TypeOK ==
  /\ phase \in {"skipped", "script", "served", "failed"} /\ manifest \in Manifests /\ calls \in 0 .. MaxCalls
  /\ Len(entries) <= calls /\ handlers \in [HandlerKeys -> 0 .. MaxCalls] /\ cache \subseteq Modules
  /\ phase # "served" => published = {} /\ bindings = {}
  /\ dbOp \in Statements \cup {NoSql}
  /\ phase = "skipped" => entries = <<>> /\ dbOp = NoSql

\* Whatever the script calls or registers, with or without catching errors, what
\* is published stays within what the manifest declares, the plugin's directory
\* allows and the profile grants, and policies within the declared scopes.  (The
\* SQL is not bounded like that: the gateway guesses what a statement does.)
Allowed(what) == manifest.declared[what] /\ manifest.grants.approved /\ manifest.grants[what] # "no"
NeedFor == [route |-> "routes", page |-> "admin", menu |-> "admin", command |-> "commands"]
PublishesWithinGrants ==
  \A c \in published :
    /\ c.kind # "event" => Allowed(NeedFor[c.kind])
    /\ c.key # "none" => c.key \in manifest.scopes

\* Every contribution made with a function calls that function, as long as it
\* is published and whatever the handlers register later, unless the script
\* gave the handler key a name of its own: the last function under a name wins.
NamedKeys == {e.key : e \in Tables}
EachCallsItsOwn ==
  \A c \in published :
    c.kind # "menu" /\ c.handler \notin NamedKeys => c.fn # 0 /\ handlers[c.handler] = c.fn
===============================================================================
