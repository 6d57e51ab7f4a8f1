---------------------------- MODULE HostRequests ----------------------------
(***************************************************************************)
(* How a request goes through the host: the middleware of the admin router *)
(* and the dispatch of the API router, which share the capability snapshot *)
(* and the authorizer's, while one plugin is enabled, reloaded, disabled,  *)
(* a role's keys change, the host restarts and tokens age.  The authorizer *)
(* compiles its snapshot only when a role changes and at a start, never    *)
(* when a plugin's bindings do.                                            *)
(*                                                                         *)
(* An operation on the plugin has two steps that show: an activation       *)
(* commits the bindings and then publishes, a deactivation retracts and    *)
(* then erases the bindings.  It holds the plugin's lifecycle lock, and    *)
(* the server may drop it in between.                                      *)
(*                                                                         *)
(* There is one user, with one role, and one request at a time, between    *)
(* whose steps everything else may happen.                                 *)
(***************************************************************************)
EXTENDS HostRoutes

CONSTANTS
  Scripts,      \* what the plugin's scripts would publish, each a set of entries
  PluginKeys,   \* policy keys that migrations do not seed
  UserRoles,    \* roles the user may have
  AccessTtl, RefreshTtl,
  Leeway,       \* what jsonwebtoken's default validation adds
  Bounds        \* of a behaviour: [changes, time, logins] and its urls, [surface, method, path]

\* The plugin's entries are its own, and every path has a segment.
Segments == {SegmentOrder[i] : i \in DOMAIN SegmentOrder}
IsPath(p) == p \in Seq(Segments) /\ p # <<>>
IsOwn(e)  == /\ e = Entry("self", e.kind, e.method, e.path, e.key, e.public) /\ IsPath(e.path)
             /\ e.kind \in {"page", "route"} /\ (e.kind = "page" => e.method = "GET")

ASSUME RequestsAssumption ==
  /\ AccessTtl \in Nat /\ RefreshTtl \in Nat /\ Leeway \in Nat
  /\ \A C \in Scripts : \A e \in C : IsOwn(e)
  /\ \A b \in Bounds : \A u \in b.urls : IsPath(u.path)
  /\ "none" \notin PluginKeys

\* What the host accepts of it.
Accepted(e) == ~(IF e.kind = "page" THEN PageRefused(Builtins, e) ELSE RouteRefused(Builtins, e))
Contracts   == {C \in Scripts : \A e \in C : Accepted(e)}

None    == "none"
Never   == -1
NoToken == [type |-> None, exp |-> 0]
NoUrl   == [surface |-> None, method |-> None, path |-> <<>>]
NoEntry == [plugin |-> None]
NoOperation == [at |-> None, script |-> {}]

VARIABLES
  role,        \* the user's, which its tokens name
  enabled,     \* the plugin's row in plugin_state
  published,   \* its contributions in the capability snapshot
  rows,        \* its rows of policy_bindings
  operation,   \* on the plugin, between its two steps
  held,        \* the plugin's keys that the role holds in role_policy_keys
  snapshot,    \* the authorizer's: [rows, held]
  tokens,      \* what has been issued: [type, exp]
  now,
  removed,     \* when the user was deleted
  session,     \* history: when the last login found the user, and issued its tokens
  request,
  used         \* history: what of the bounds is used up, and the bounds

vars == <<role, enabled, published, rows, operation, held, snapshot, tokens, now, removed, session, request, used>>
policy == <<enabled, published, rows, operation, held, snapshot>>

-------------------------------------------------------------------------------
Idle == [stage |-> "idle", url |-> NoUrl, token |-> NoToken, entry |-> NoEntry, by |-> {},
         via |-> "router", steady |-> TRUE, at |-> 0, status |-> None]
Is(stage)   == request.stage = stage
Set(stage)  == request' = [request EXCEPT !.stage = stage]
Answer(status) == request' = [request EXCEPT !.stage = "answered", !.status = status]
url == request.url

All == Builtins \cup published

\* The keys by which the role is let in, as the authorizer's snapshot has it.
SeededFor(r) == {g[2] : g \in {h \in SeedGrants : h[1] = r}}
Compile == [rows |-> rows, held |-> held]
\* The authorizer's snapshot is of the tables, and the tables of what is published.
Rows(C) == {BindingOf(e) : e \in {f \in C : f.key # None}}
Current == snapshot = Compile /\ rows = Rows(published)
LetInBy(u) == CoveringKeys(SeedBindings \cup snapshot.rows, u.surface, u.method, u.path)
                \cap (SeededFor(role) \cup snapshot.held)

\* verify_token, and what both routers make of its claims.
Verified(t) == t # NoToken /\ t.exp >= now - Leeway
Opens(t) == Verified(t) /\ t.type = "access"

Init ==
  /\ role \in UserRoles
  /\ enabled = FALSE /\ published = {} /\ rows = {} /\ held = {} /\ snapshot = [rows |-> {}, held |-> {}]
  /\ operation = NoOperation
  /\ tokens = {} /\ now = 0 /\ removed = Never /\ session = [found |-> Never, issued |-> Never]
  /\ request = Idle
  /\ used \in [changes : {0}, logins : {0}, max : Bounds]

Arrive ==
  /\ Is("idle")
  /\ \E u \in used.max.urls, t \in tokens \cup {NoToken} :
       request' = [Idle EXCEPT !.stage = "received", !.url = u, !.token = t]
  /\ UNCHANGED <<role, policy, tokens, now, removed, session, used>>

Done ==
  /\ Is("answered")
  /\ request' = Idle
  /\ UNCHANGED <<role, policy, tokens, now, removed, session, used>>

-------------------------------------------------------------------------------
\* admin_auth_middleware, and the redirects that need no token.
Canonical == {<<Gap>>, <<"index.html">>, <<"admin">>}
AdminLoginPath == <<"admin-login">>
Redirect == Is("received") /\ url.path \in Canonical /\ Answer("redirected")

Middleware ==
  /\ Is("received") /\ url.surface = "admin" /\ url.path \notin Canonical
  /\ IF ~Opens(request.token) THEN Answer("redirected")
     ELSE IF role # "admin" /\ LetInBy(url) = {} THEN
       request' = [request EXCEPT !.stage = "answered", !.status = "403", !.at = now,
                                  !.steady = @ /\ Current]
     ELSE request' = [request EXCEPT !.stage = "passed", !.by = LetInBy(url), !.at = now,
                                     !.steady = @ /\ Current]

\* plugin_admin_fallback reads the capability snapshot after the middleware.
MatchAdmin ==
  /\ Is("passed")
  /\ LET found == Answering(All, "admin", url.method, url.path)
     IN  IF found = {} THEN Answer("404")
         ELSE \E e \in found : request' = [request EXCEPT !.stage = "checked", !.entry = e]

\* admin_login_dispatch: no token at all, but only for a public route.
MatchLogin ==
  /\ Is("received") /\ url.path = AdminLoginPath
  /\ LET found == RouteAt(All, "api", url.method, url.path)
     IN  IF found = {} THEN Answer("405")
         ELSE \E e \in found :
           IF ~e.public THEN Answer("500")
           ELSE request' = [request EXCEPT !.stage = "checked", !.entry = e]

\* plugin_api_dispatch: first the route, then the token and the authorizer.
MatchApi ==
  /\ Is("received") /\ url.surface = "api" /\ url.path \notin Canonical \cup {AdminLoginPath}
  /\ LET found == RouteAt(All, "api", url.method, url.path)
     IN  IF found = {} THEN Answer("404")
         ELSE \E e \in found :
           request' = [request EXCEPT !.stage = IF e.public THEN "checked" ELSE "matched", !.entry = e]

CheckApi ==
  /\ Is("matched")
  /\ IF ~Opens(request.token) THEN Answer("401")
     ELSE request' = [request EXCEPT
            !.stage = IF LetInBy(url) = {} THEN "answered" ELSE "checked",
            !.status = IF LetInBy(url) = {} THEN "403" ELSE None,
            !.by = LetInBy(url), !.at = now, !.steady = @ /\ Current]

\* A body above the limit is refused before the handler is called.
Body == Is("checked") /\ url.method # "GET" /\ Answer("413")

-------------------------------------------------------------------------------
\* workspace_partial: the host's modules are templates; any other module is the
\* page below /admin of that name, looked up anew.
WorkspaceRoute == CHOOSE e \in Workspace : e.key = None
Module == Trimmed(SubSeq(url.path, 3, Len(url.path)))
IsTemplate == Len(Module) = 1 /\ Module[1] \in DOMAIN WorkspaceKey
ModulePath == IF Module = <<"dashboard">> THEN <<"admin", Gap>> ELSE <<"admin">> \o Module
PageOfModule ==
  IF Module = <<>> \/ PageAt(All, ModulePath) = {} THEN Answer("404")
  ELSE \E e \in PageAt(All, ModulePath) : request' = [request EXCEPT !.entry = e, !.via = "workspace"]

\* login_response, admin login and refresh_response, as far as tokens go.  A login
\* reads the user and then, elsewhere, checks the password and issues the tokens.
Issue(type) == [type |-> type, exp |-> now + (IF type = "access" THEN AccessTtl ELSE RefreshTtl)]
LoginPath   == <<"api", "auth", "login">>
RefreshPath == <<"api", "auth", "refresh">>
IsLogin(u)  == u.method = "POST" /\ u.path \in {LoginPath, AdminLoginPath}
MayIssue == used.logins < used.max.logins /\ used' = [used EXCEPT !.logins = @ + 1]
FindUser ==
  /\ IsLogin(url) /\ removed = Never /\ used.logins < used.max.logins
  /\ Set("found") /\ session' = [session EXCEPT !.found = now]
Login ==
  /\ Is("found") /\ MayIssue /\ Answer("served")
  /\ tokens' = tokens \cup {Issue(k) : k \in IF url.path = LoginPath THEN {"access", "refresh"} ELSE {"access"}}
  /\ session' = [session EXCEPT !.issued = now]
\* Mutant of Refreshable: an access token is renewed as well.
RefreshableAny(t) == Verified(t)
Refreshable(t) == Verified(t) /\ t.type = "refresh"
Refresh ==
  /\ url.path = RefreshPath /\ MayIssue /\ Answer("served")
  /\ \E t \in tokens : Refreshable(t) /\ tokens' = tokens \cup {Issue("access")}

\* The handlers of the host: three of them issue tokens, or refuse.
Handler ==
  \/ FindUser /\ UNCHANGED <<tokens, used>>
  \/ Refresh /\ UNCHANGED session
  \/ (IsLogin(url) \/ url.path = RefreshPath) /\ Answer("401") /\ UNCHANGED <<tokens, session, used>>
  \/ ~IsLogin(url) /\ url.path # RefreshPath /\ Answer("served") /\ UNCHANGED <<tokens, session, used>>

\* dispatch_http_request_registration and dispatch_admin_request_registration:
\* the guard reads the plugin's row; the host's own parts are enabled throughout.
Dispatch ==
  /\ Is("checked")
  /\ IF request.entry.plugin = "self" /\ ~enabled THEN Answer("disabled") /\ UNCHANGED <<tokens, session, used>>
     ELSE IF request.entry = WorkspaceRoute /\ ~IsTemplate THEN PageOfModule /\ UNCHANGED <<tokens, session, used>>
     ELSE Handler

\* A password that does not fit.
Mistyped == Is("found") /\ Answer("401")

Step ==
  /\ \/ /\ \/ Redirect \/ Middleware \/ MatchAdmin \/ MatchLogin \/ MatchApi \/ CheckApi \/ Body \/ Mistyped
        /\ UNCHANGED <<tokens, session, used>>
     \/ Dispatch
     \/ Login
  /\ UNCHANGED <<role, policy, now, removed>>

-------------------------------------------------------------------------------
\* What happens meanwhile.  An answer is only kept to be looked at.
Change ==
  /\ ~Is("answered") /\ used.changes < used.max.changes
  /\ used' = [used EXCEPT !.changes = @ + 1]
Disturb == request' = [request EXCEPT !.steady = FALSE]

\* set_plugin_enabled writes the row first, in either direction.
Unlocked == operation = NoOperation
Enable  == Unlocked /\ Change /\ ~enabled /\ enabled' = TRUE /\ Disturb
           /\ UNCHANGED <<role, published, rows, operation, held, snapshot, tokens, now, removed, session>>
Disable == Unlocked /\ Change /\ enabled /\ enabled' = FALSE /\ Disturb
           /\ UNCHANGED <<role, published, rows, operation, held, snapshot, tokens, now, removed, session>>

\* An activation, or a reload with another script: first the bindings are
\* committed, then the contributions published.
Bind ==
  /\ Unlocked /\ Change /\ enabled /\ Disturb
  /\ \E C \in Contracts \ {published} : rows' = Rows(C) /\ operation' = [at |-> "bound", script |-> C]
  /\ UNCHANGED <<role, enabled, published, held, snapshot, tokens, now, removed, session>>
Publish ==
  /\ ~Is("answered") /\ operation.at = "bound" /\ Disturb
  /\ published' = operation.script /\ operation' = NoOperation
  /\ UNCHANGED <<role, enabled, rows, held, snapshot, tokens, now, removed, session, used>>

\* A deactivation: first the contributions go, then the bindings.
Retract ==
  /\ Unlocked /\ ~Is("answered") /\ ~enabled /\ (published # {} \/ rows # {}) /\ Disturb
  /\ published' = {} /\ operation' = [at |-> "retracted", script |-> {}]
  /\ UNCHANGED <<role, enabled, rows, held, snapshot, tokens, now, removed, session, used>>
Erase ==
  /\ ~Is("answered") /\ operation.at = "retracted" /\ Disturb
  /\ rows' = {} /\ operation' = NoOperation
  /\ UNCHANGED <<role, enabled, published, held, snapshot, tokens, now, removed, session, used>>

\* The operation is dropped by the server, or its last write fails.
Abandon ==
  /\ ~Is("answered") /\ ~Unlocked /\ operation' = NoOperation /\ Disturb
  /\ UNCHANGED <<role, enabled, published, rows, held, snapshot, tokens, now, removed, session, used>>

\* A role's permissions are replaced, and the authorizer's snapshot compiled.
ReplaceKeys ==
  /\ Change /\ Disturb
  /\ \E K \in SUBSET PluginKeys \ {held} : held' = K /\ snapshot' = [rows |-> rows, held |-> K]
  /\ UNCHANGED <<role, enabled, published, rows, operation, tokens, now, removed, session>>

\* The host starts again: requests are gone, tokens are not.  An enabled plugin is
\* activated, unless that fails, before the authorizer's snapshot is compiled.
Restart ==
  /\ Change /\ request' = Idle /\ operation' = NoOperation
  /\ \/ published' = {} /\ rows' = rows
     \/ enabled /\ \E C \in Contracts : published' = C /\ rows' = Rows(C)
  /\ snapshot' = [rows |-> rows', held |-> held]
  /\ UNCHANGED <<role, enabled, held, tokens, now, removed, session>>

RemoveUser ==
  /\ ~Is("answered") /\ removed = Never /\ removed' = now
  /\ UNCHANGED <<role, policy, tokens, now, session, request, used>>

\* A token that has expired is as good as none and forgotten.
Tick ==
  /\ ~Is("answered") /\ now < used.max.time /\ now' = now + 1
  /\ tokens' = {t \in tokens : t.exp >= now' - Leeway}
  /\ UNCHANGED <<role, policy, removed, session, request, used>>

Next == Arrive \/ Done \/ Step \/ Enable \/ Disable \/ Bind \/ Publish \/ Retract \/ Erase \/ Abandon
        \/ ReplaceKeys \/ Restart \/ RemoveUser \/ Tick
Spec == Init /\ [][Next]_vars

-------------------------------------------------------------------------------
\* The types: the bindings in the tables are those of some script, of the one
\* about to be published while there is one.
TypeOK ==
  /\ role \in UserRoles /\ enabled \in BOOLEAN /\ published \in Contracts \cup {{}}
  /\ rows \in {Rows(C) : C \in Contracts \cup {{}}}
  /\ operation \in [at : {None, "retracted"}, script : {{}}] \cup [at : {"bound"}, script : Contracts]
  /\ operation.at = "bound" => rows = Rows(operation.script)
  /\ held \subseteq PluginKeys /\ snapshot.held \subseteq PluginKeys
  /\ snapshot.rows \in {Rows(C) : C \in Contracts \cup {{}}}
  /\ \A t \in tokens : t.type \in {"access", "refresh"} /\ t.exp <= now + RefreshTtl + AccessTtl
  /\ removed \in {Never} \cup 0 .. now /\ session \in [found : {Never} \cup 0 .. now, issued : {Never} \cup 0 .. now]
  /\ Is("answered") <=> request.status # None
  /\ request.stage \in {"checked", "matched", "found"} => request.entry # NoEntry

Served    == Is("answered") /\ request.status = "served"
Protected == Served /\ ~request.entry.public
\* The admin router does not ask the authorizer about administrators.
Asked     == Protected /\ ~(role = "admin" /\ url.surface = "admin")
\* Contributions whose binding takes in more than their pattern: one that ends in
\* a literal with a star fits that literal, its binding everything that begins
\* like it; one with a slash to spare at an end is bound without it.
IsWide(e)   == e.path[Len(e.path)] \in DOMAIN Begins \ Stars \/ Trimmed(e.path) # e.path
WideKeys(u) == CoveringKeys({BindingOf(e) : e \in {f \in UNION Contracts : IsWide(f)}}, u.surface, u.method, u.path)

\* On a path the host reserves, what the host serves needs the key of the route
\* that serves it, in whatever state the authorizer's snapshot, the plugin's
\* bindings and the publication are: no binding of a plugin lets anybody in,
\* except a wide one, which the check for conflicts takes for a pattern.  The
\* authorizer never sees the route, only the path.  DELETE /api/users/* takes
\* more paths than are reserved.
IsReserved(u) == \E r \in Reserved : r.surface = u.surface /\ r.method = u.method /\ Matches(r.path, u.path)
BuiltinsKeepTheirKeys ==
  Asked /\ request.entry.plugin = "host" /\ request.entry # WorkspaceRoute /\ IsReserved(url) =>
    request.entry.key \in request.by \/ request.by \cap WideKeys(url) # {}

\* The workspace shows what the pages show: who gets a module of the host holds
\* the key of its page, who gets a plugin's page through it holds that page's.
WorkspaceFollowsPages ==
  Asked /\ (request.entry = WorkspaceRoute \/ request.via = "workspace") =>
    \/ request.by \cap WideKeys(url) # {}
    \/ request.entry # WorkspaceRoute /\ request.entry.key \in request.by
    \/ /\ request.entry = WorkspaceRoute
       /\ \A e \in Builtins : e.kind = "page" /\ e.path = ModulePath => e.key \in request.by

\* Who holds the key of the route or page that would answer is not refused by the
\* authorizer, as long as its snapshot is compiled from the current tables, these
\* are those of what is published, and nothing changes on the way; unless the
\* pattern has a star, a literal that ends in one, or a parameter without a name:
\* routes and bindings read those differently.
HolderIsServed ==
  Is("answered") /\ request.status = "403" /\ request.steady =>
    \A e \in Answering(All, url.surface, url.method, url.path) :
      e.key \in SeededFor(role) \cup held => \E i \in DOMAIN e.path : e.path[i] \in Stars \cup DOMAIN Begins \cup {Bare}

\* Only a login that found the user before the deletion lets a deleted user in, and
\* from the deletion, or from when that login issued its tokens, the user is served
\* for at most the life of a refresh token and of the last access token it can
\* give, whatever the user does with the tokens.
Later(m, n) == IF m < n THEN n ELSE m
SessionEnds ==
  Protected /\ removed # Never =>
    /\ session.found <= removed
    /\ request.at <= Later(removed, session.issued) + RefreshTtl + AccessTtl + 2 * Leeway

===============================================================================
