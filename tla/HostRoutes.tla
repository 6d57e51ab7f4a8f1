------------------------------ MODULE HostRoutes ------------------------------
(***************************************************************************)
(* What the host itself serves: the routes it reserves, the pages and      *)
(* routes its builtins register, and the policy bindings and grants the    *)
(* migrations seed.  A builtin page or route is a record as plugins' are.  *)
(***************************************************************************)
EXTENDS HttpRouting

IdParam     == "{id}"
PluginParam == "{plugin}"
ModuleStar  == "{*module}"

\* The words of the paths below, none of which is a parameter or has a star.
HostWords ==
  {"admin", "admin-login", "api", "assets", "auth", "config", "create", "dashboard", "favicon.ico", "favicon.svg",
   "form", "index.html", "kv", "login", "logs", "me", "menu", "menus", "pages", "partials", "permissions", "plugins",
   "refresh", "roles", "state", "table", "update", "users", "workspace"}
ASSUME WordsAssumption ==
  /\ (HostWords \cup {Gap}) \cap (Params \cup Stars \cup DOMAIN Begins) = {}
  /\ {IdParam, PluginParam} \subseteq Params /\ ModuleStar \in NamedStars /\ "*" \in Stars \ NamedStars

Reserve(surface, method, paths) ==
  {[surface |-> surface, method |-> method, path |-> p] : p \in paths}

\* HOST_RESERVED_HTTP_ROUTES, the API surface, the pages, and the rest of admin.
ReservedApi ==
  Reserve("api", "GET", {<<Gap>>, <<"favicon.ico">>, <<"favicon.svg">>, <<"index.html">>,
                         <<"admin-login">>, <<"api", "auth", "me">>, <<"api", "users">>}) \cup
  Reserve("api", "POST", {<<"admin-login">>, <<"api", "auth", "login">>,
                          <<"api", "auth", "refresh">>, <<"api", "users">>}) \cup
  Reserve("api", "DELETE", {<<"api", "users", IdParam>>})
ReservedPages ==
  Reserve("admin", "GET",
    {<<"admin">>, <<"admin", Gap>>, <<"admin", "workspace", ModuleStar>>, <<"admin", "plugins", PluginParam>>} \cup
    {<<"admin", p>> : p \in {"plugins", "users", "roles", "permissions", "config", "logs", "menus"}} \cup
    {<<"admin", "api", p>> : p \in {"config", "logs", "menu", "plugins"}} \cup
    {<<"admin", "api", "workspace", "assets">>, <<"admin", "api", "plugins", PluginParam, "pages">>})
Partial(p, last) == <<"admin", "partials", p, last>>
ReservedPartials ==
  Reserve("admin", "GET", {Partial(p, "table") : p \in {"users", "roles", "permissions", "plugins", "menus"}} \cup
                          {Partial("roles", IdParam) \o <<"permissions", "form">>}) \cup
  Reserve("admin", "POST", {Partial(p, "create") : p \in {"users", "roles", "permissions", "menus"}} \cup
                           {Partial(p, IdParam) \o <<"update">> : p \in {"roles", "permissions", "menus"}} \cup
                           {Partial("roles", IdParam) \o <<"permissions">>}) \cup
  Reserve("admin", "DELETE", {Partial(p, IdParam) : p \in {"users", "roles", "permissions", "menus"}})
ReservedActions ==
  Reserve("admin", "POST", {<<"admin", "api", "menu">>}) \cup
  Reserve("admin", "PUT", {<<"admin", "api", "menu", IdParam>>}) \cup
  Reserve("admin", "DELETE", {<<"admin", "api", "menu", IdParam>>}) \cup
  Reserve("admin", "PATCH", {<<"admin", "api", "plugins", PluginParam, "state">>})
Reserved == ReservedApi \cup ReservedPages \cup ReservedPartials \cup ReservedActions

ReservedCommands == {"serve", "plugin", "config", "seed", "inspect", "doctor"}

-------------------------------------------------------------------------------
Entry(plugin, kind, method, path, key, public) ==
  [plugin |-> plugin, kind |-> kind, surface |-> IF kind = "page" THEN "admin" ELSE SurfaceOf(path),
   method |-> method, path |-> path, key |-> key, public |-> public]
Page(path, key)          == Entry("host", "page", "GET", path, key, FALSE)
Route(method, path, key) == Entry("host", "route", method, path, key, FALSE)
Open(method, path)       == Entry("host", "route", method, path, "none", TRUE)
Table(p, key)            == Route("GET", Partial(p, "table"), key)
Create(p, key)           == Route("POST", Partial(p, "create"), key)
Update(p, key)           == Route("POST", Partial(p, IdParam) \o <<"update">>, key)
Delete(p, key)           == Route("DELETE", Partial(p, IdParam), key)

\* register_builtin_capabilities of each page of the administration.
Dashboard   == {Page(<<"admin", Gap>>, "admin.dashboard.view")}
Users       == {Page(<<"admin", "users">>, "admin.users.view"), Table("users", "admin.users.view"),
                Create("users", "admin.users.manage"), Delete("users", "admin.users.manage")}
Roles       == {Page(<<"admin", "roles">>, "admin.roles.view"), Table("roles", "admin.roles.view"),
                Create("roles", "admin.roles.manage"), Update("roles", "admin.roles.manage"),
                Delete("roles", "admin.roles.manage"),
                Route("GET", Partial("roles", IdParam) \o <<"permissions", "form">>, "admin.roles.view"),
                Route("POST", Partial("roles", IdParam) \o <<"permissions">>, "admin.roles.manage")}
Permissions == {Page(<<"admin", "permissions">>, "admin.permissions.view"),
                Table("permissions", "admin.permissions.view"), Create("permissions", "admin.permissions.manage"),
                Update("permissions", "admin.permissions.manage"), Delete("permissions", "admin.permissions.manage")}
MenuPage    == {Page(<<"admin", "menus">>, "admin.menus.view"), Table("menus", "admin.menus.view"),
                Create("menus", "admin.menus.manage"), Update("menus", "admin.menus.manage"),
                Delete("menus", "admin.menus.manage")}
MenuApi     == {Route("GET", <<"admin", "api", "menu">>, "admin.menus.view"),
                Route("POST", <<"admin", "api", "menu">>, "admin.menus.manage"),
                Route("PUT", <<"admin", "api", "menu", IdParam>>, "admin.menus.manage"),
                Route("DELETE", <<"admin", "api", "menu", IdParam>>, "admin.menus.manage")}
Plugins     == {Page(<<"admin", "plugins">>, "admin.plugins.view"),
                Page(<<"admin", "plugins", PluginParam>>, "admin.plugins.view"),
                Table("plugins", "admin.plugins.view"),
                Route("GET", <<"admin", "api", "plugins">>, "admin.plugins.view"),
                Route("GET", <<"admin", "api", "plugins", PluginParam, "pages">>, "admin.plugins.view")}
Governance  == {Route("PATCH", <<"admin", "api", "plugins", PluginParam, "state">>, "admin.plugins.manage")}
Logs        == {Page(<<"admin", "logs">>, "admin.logs.view"), Route("GET", <<"admin", "api", "logs">>, "admin.logs.view")}
Config      == {Page(<<"admin", "config">>, "admin.config.view"),
                Route("GET", <<"admin", "api", "config">>, "admin.config.view")}
Workspace   == {Route("GET", <<"admin", "workspace", ModuleStar>>, "none"),
                Route("GET", <<"admin", "api", "workspace", "assets">>, "admin.plugins.view")}
AdminLogin  == {Open("GET", <<"admin-login">>), Open("POST", <<"admin-login">>)}
Auth        == {Open("POST", <<"api", "auth", "login">>), Open("POST", <<"api", "auth", "refresh">>),
                Route("GET", <<"api", "auth", "me">>, "api.auth.me")}
ApiUsers    == {Route("GET", <<"api", "users">>, "api.users.read"), Route("POST", <<"api", "users">>, "api.users.manage"),
                Route("DELETE", <<"api", "users", "*">>, "api.users.manage")}
Builtins == UNION {Dashboard, Users, Roles, Permissions, MenuPage, MenuApi, Plugins, Governance, Logs, Config,
                   Workspace, AdminLogin, Auth, ApiUsers}

-------------------------------------------------------------------------------
\* The bindings migrations 006 and 008 seed: those of the builtin routes that
\* have a key, but with {id} where the route of DELETE /api/users has a star, and
\* one for each module of the workspace.
BindingOf(e) == [surface |-> e.surface, method |-> e.method, path |-> e.path, key |-> e.key]
\* Mutant of WorkspaceKey: every module is open to whom the dashboard is.
WorkspaceKeyAlike == [m \in {"dashboard", "users", "roles", "permissions", "plugins", "kv", "config", "logs", "menus"}
                        |-> "admin.dashboard.view"]
WorkspaceKey == [dashboard |-> "admin.dashboard.view", users |-> "admin.users.view", roles |-> "admin.roles.view",
                 permissions |-> "admin.permissions.view", plugins |-> "admin.plugins.view", kv |-> "admin.kv.manage",
                 config |-> "admin.config.view", logs |-> "admin.logs.view", menus |-> "admin.menus.view"]
SeedBindings ==
  {BindingOf(e) : e \in {f \in Builtins : f.key # "none" /\ ~(f.method = "DELETE" /\ f.surface = "api")}} \cup
  {[surface |-> "api", method |-> "DELETE", path |-> <<"api", "users", IdParam>>, key |-> "api.users.manage"]} \cup
  {[surface |-> "admin", method |-> "GET", path |-> <<"admin", "workspace", m>>, key |-> WorkspaceKey[m]]
     : m \in DOMAIN WorkspaceKey} \cup
  {[surface |-> "admin", method |-> "GET", path |-> <<"admin", "workspace", "plugins", PluginParam>>,
    key |-> "admin.plugins.view"]}

SeedKeys == {b.key : b \in SeedBindings}
EditorKeys == {"admin.dashboard.view", "admin.users.view", "admin.users.manage", "admin.roles.view",
               "admin.permissions.view", "admin.plugins.view", "admin.kv.manage", "admin.logs.view",
               "admin.menus.view", "api.users.read", "api.users.manage", "api.auth.me", "cli.plugins.read"}
ViewerKeys == {"admin.dashboard.view", "admin.logs.view", "admin.menus.view", "api.auth.me"}
SeedGrants == ({"admin"} \X SeedKeys) \cup ({"editor"} \X EditorKeys) \cup ({"viewer"} \X ViewerKeys)

-------------------------------------------------------------------------------
\* conflicting_reserved_http_route: a pattern no plugin may register, because
\* some request would match it and a reserved one.
\* Mutant of Reserves: only the reserved pattern itself is refused.
ReservesItself(surface, method, path) ==
  \E r \in Reserved : r.surface = surface /\ r.method = method /\ path = r.path
Reserves(surface, method, path) ==
  \E r \in Reserved : r.surface = surface /\ r.method = method /\ Overlap(path, r.path)

\* validate_http_routes and validate_admin_pages: what one owner stages is refused
\* when a path is reserved, staged twice, or another owner's; a page and a route
\* are not compared with each other.
PageRefused(all, e) ==
  \/ Reserves("admin", "GET", e.path)
  \/ \E f \in all : f.kind = "page" /\ f.plugin # e.plugin /\ f.path = e.path
RouteRefused(all, e) ==
  \/ Reserves(e.surface, e.method, e.path)
  \/ \E f \in all : f.kind = "route" /\ f.plugin # e.plugin /\ f.method = e.method /\ f.path = e.path

\* plugin_admin_fallback and plugin_api_dispatch: who answers a request.  A page
\* goes before any route on GET.
PageAt(all, path) == Best({e \in all : e.kind = "page"}, path)
RouteAt(all, surface, method, path) == MatchHttp({e \in all : e.kind = "route"}, surface, method, path)
Answering(all, surface, method, path) ==
  IF surface = "admin" /\ method = "GET" /\ PageAt(all, path) # {} THEN PageAt(all, path)
  ELSE RouteAt(all, surface, method, path)
===============================================================================
