---------------------------- MODULE MCPluginScript ----------------------------
(***************************************************************************)
(* PluginScript with paths that overlap reserved ones and paths that do    *)
(* not, entries of every surface, and manifests from both directories.     *)
(***************************************************************************)
EXTENDS PluginScript

MCParams == {"{id}", "{plugin}"}
MCStars == {"*", "{*module}"}
MCNamedStars == {"{*module}"}
MCSegmentOrder ==
  <<"", "*", "7", "admin", "admin-login", "api", "assets", "auth", "config", "create", "dashboard", "favicon.ico",
    "favicon.svg", "form", "index.html", "kv", "login", "logs", "me", "menu", "menus", "notes", "pages", "partials",
    "permissions", "plugins", "refresh", "roles", "state", "table", "update", "users", "workspace",
    "{*module}", "{id}", "{plugin}">>

MCBegins == "*" :> {MCSegmentOrder[i] : i \in 1 .. Len(MCSegmentOrder)}

All == [routes |-> TRUE, commands |-> TRUE, admin |-> TRUE, database |-> "admin"]
Yes == [approved |-> TRUE, routes |-> "unset", commands |-> "unset", admin |-> "yes", database |-> "unset"]
Manifest(kind, declared, grants) ==
  [kind |-> kind, schema |-> 1, declared |-> declared, scopes |-> {"notes.read"}, grants |-> grants]
MCManifests ==
  {Manifest("official", All, Yes),
   Manifest("third_party", All, [Yes EXCEPT !.admin = "no", !.commands = "yes", !.database = "unknown"]),
   Manifest("third_party", [All EXCEPT !.routes = FALSE], [Yes EXCEPT !.commands = "no", !.database = "read"]),
   Manifest("official", [All EXCEPT !.commands = FALSE, !.database = "read"], [Yes EXCEPT !.routes = "no"]),
   Manifest("official", All, [Yes EXCEPT !.approved = FALSE]),
   [Manifest("official", All, Yes) EXCEPT !.schema = 2]}

MCPolicyKeys == {"notes.read", "kv.read"}
MCApiRoutes ==
  {[method |-> "GET", path |-> <<"api", "notes">>], [method |-> "GET", path |-> <<"admin", "notes">>],
   [method |-> "POST", path |-> <<"api", "{id}", "login">>]}
MCPages    == {<<"admin", "notes">>, <<"admin", "{id}">>}
MCCommands == {<<"notes">>, <<"serve">>}
MCEvents   == {<<"saved">>, <<>>}
MCOthers   == {Entry("kv", "page", "GET", <<"admin", "kv">>, "admin.kv.manage", FALSE),
               Entry("kv", "route", "GET", <<"api", "kv", "*">>, "api.kv.read", FALSE)}

Given(surface, kind, method, target, handler, key, policy) ==
  [surface |-> surface, kind |-> kind, method |-> method, target |-> target, handler |-> handler,
   key |-> key, policy |-> policy, public |-> FALSE, assets |-> "none", fn |-> 0]
MCRawEntries ==
  {Given("api", "none", "GET", <<"api", "users", "*">>, "function", NoKey, "none"),
   Given("api", "none", "POST", <<"api", "notes">>, "function", NoKey, "notes.read"),
   Given("api", "none", "DELETE", <<"api", "users", "{id}", "*">>, "function", <<"own", 1>>, "none"),
   Given("web", "page", "GET", <<"admin", "notes", "*">>, "function", NoKey, "none"),
   Given("admin", "none", "GET", <<"admin", "kv">>, "nil", <<"h", 2>>, "none"),
   Given("admin", "none", "GET", <<"admin", "notes", "7">>, "function", <<"own", 1>>, "notes.read"),
   Given("cli", "none", "none", <<"tidy">>, "function", NoKey, "none"),
   Given("menu", "none", "none", <<"notes">>, "nil", NoKey, "notes.read"),
   Given("event", "subscribe", "none", <<"saved">>, "function", <<"own", 1>>, "none"),
   Given("web", "widget", "GET", <<>>, "other", BadKey, "none"),
   Given("api", "none", "GET", <<>>, "other", NoKey, "none")}

\* A statement that says at once what it does, of each class, and one that does not.
MCStatements ==
  {[seen |-> c, does |-> c] : c \in SqlClasses} \cup {[seen |-> "read", does |-> "write"]}

MCModules == {"routes"}
MCModule  == [x \in MCModules |-> Given("api", "none", "PUT", <<"api", "notes">>, "function", NoKey, "none")]
===============================================================================
