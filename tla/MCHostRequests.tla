---------------------------- MODULE MCHostRequests ----------------------------
(***************************************************************************)
(* HostRequests with three scripts of one plugin, one of them refused, and *)
(* requests to what it and the host serve.                                 *)
(***************************************************************************)
EXTENDS HostRequests, TLC

MCParams == {"{id}", "{plugin}", "{}"}
MCStars == {"*", "{*module}"}
MCNamedStars == {"{*module}"}
MCSegmentOrder ==
  <<"", "*", "7", "admin", "admin-login", "api", "assets", "auth", "config", "create", "dashboard", "favicon.ico",
    "favicon.svg", "form", "index.html", "kv", "login", "logs", "me", "menu", "menus", "notes", "pages", "partials",
    "permissions", "ping", "plugins", "refresh", "roles", "state", "table", "update", "us*", "users", "workspace",
    "{*module}", "{id}", "{plugin}", "{}">>
MCBegins == ("*" :> {MCSegmentOrder[i] : i \in 1 .. Len(MCSegmentOrder)}) @@ ("us*" :> {"us*", "users"})

Own(kind, method, path, key, public) == Entry("self", kind, method, path, key, public)
MCScripts ==
  {{Own("page", "GET", <<"admin", "notes">>, "notes.read", FALSE),
    Own("page", "GET", <<"admin", "us*">>, "notes.read", FALSE),
    Own("page", "GET", <<"admin", "config", "">>, "notes.read", FALSE),
    Own("page", "GET", <<"admin", "notes", "{id}">>, "notes.read", FALSE),
    Own("route", "GET", <<"api", "notes", "*">>, "notes.read", FALSE),
    Own("route", "POST", <<"api", "notes", "{id}">>, "notes.edit", FALSE),
    Own("route", "GET", <<"api", "ping", "{}">>, "notes.read", FALSE),
    Own("route", "GET", <<"api", "ping">>, "none", TRUE)},
   {Own("page", "GET", <<"admin", "notes">>, "notes.edit", FALSE),
    Own("route", "GET", <<"admin", "notes", "{*module}">>, "notes.read", FALSE),
    Own("route", "DELETE", <<"api", "users", "{id}", "notes">>, "notes.edit", FALSE),
    Own("route", "POST", <<"api", "{id}", "7">>, "notes.read", FALSE)},
   {Own("page", "GET", <<"admin", "{id}">>, "notes.edit", FALSE)}}
MCPluginKeys == {"notes.read", "notes.edit"}
MCUserRoles == {"admin", "editor"}

Url(method, path) == [surface |-> SurfaceOf(path), method |-> method, path |-> path]
MCUrls ==
  {Url("GET", p) : p \in {<<"admin", "users">>, <<"admin", "config">>, <<"admin", "notes">>, <<"admin", "notes", "7">>, <<"admin">>,
                          <<"admin", "workspace", "notes">>, <<"admin", "workspace", "config">>,
                          <<"admin", "workspace", "roles">>, <<"admin", "partials", "users", "table">>,
                          <<"api", "notes">>, <<"api", "notes", "7">>, <<"api", "ping">>, <<"api", "ping", "7">>, <<"api", "auth", "me">>}} \cup
  {Url("POST", p) : p \in {<<"api", "notes", "7">>, <<"admin-login">>, <<"api", "auth", "login">>,
                           <<"api", "auth", "refresh">>}} \cup
  {Url("DELETE", <<"api", "users", "7">>), Url("DELETE", <<"api", "users", "7", "notes">>)}
MCSessionUrls == {Url("GET", <<"api", "auth", "me">>), Url("GET", <<"admin", "users">>),
                  Url("POST", <<"api", "auth", "login">>), Url("POST", <<"api", "auth", "refresh">>)}
MCBounds == {[changes |-> 4, time |-> 0, logins |-> 1, urls |-> MCUrls],
             [changes |-> 0, time |-> 6, logins |-> 3, urls |-> MCSessionUrls]}
===============================================================================
