---------------------------- MODULE AccessControl ----------------------------
(***************************************************************************)
(* Roles, permissions, policy grants and accounts: the tables that the     *)
(* RBAC pages and the plugin loader change statement by statement, and the *)
(* snapshot the authorizer decides by, which only some changes refresh.    *)
(*                                                                         *)
(* A permission and the policy key "admin.<slug>" derived from it have one *)
(* name; keys that are not permissions are those of plugins and of the     *)
(* other surfaces.  Row ids are never given twice (AUTOINCREMENT).         *)
(***************************************************************************)
EXTENDS Integers, FiniteSets

CONSTANTS
  Roles, SystemRoles,    \* role slugs, and those a migration seeds
  Perms, SystemPerms,    \* permission slugs, and those a migration seeds
  Keys,                  \* policy keys
  Routes, Commands,      \* what a plugin can bind to a key
  Users,                 \* user names
  Clients,               \* concurrent requests of administrators
  Seeds,                 \* what migrations may leave, by slug: [assigned, granted, keys]
  SeedBound, Contracts,  \* the plugin's bindings at bootstrap, and those it may get
  MaxId, MaxRequests, MaxFaults, MaxBinds, MaxStarts   \* bounds

ASSUME AccessAssumption ==
  /\ SystemRoles \subseteq Roles /\ SystemPerms \subseteq Perms /\ Perms \subseteq Keys
  /\ IsFiniteSet(SystemRoles) /\ IsFiniteSet(SystemPerms)
  /\ \A seed \in Seeds : /\ seed.assigned \subseteq SystemRoles \X SystemPerms /\ seed.keys \subseteq Keys
                         /\ seed.granted \subseteq SystemRoles \X seed.keys
                         /\ SeedBound \subseteq (Routes \cup Commands) \X seed.keys
  /\ Contracts \subseteq SUBSET ((Routes \cup Commands) \X Keys)
  /\ \A B \in Contracts \cup {SeedBound}, t \in Commands : Cardinality({b \in B : b[1] = t}) <= 1
  /\ MaxId \in Nat /\ Cardinality(SystemRoles) <= MaxId /\ Cardinality(SystemPerms) <= MaxId
  /\ MaxRequests \in Nat /\ MaxFaults \in Nat /\ MaxBinds \in Nat /\ MaxStarts \in Nat

VARIABLES
  roleId,     \* roles: the id of each slug's row, 0 when there is none
  permId,     \* permissions: the same
  lastId,     \* the last id given in each of the two tables
  assigned,   \* role_permissions: pairs of ids
  keys,       \* policy_keys
  granted,    \* role_policy_keys: pairs of a role id and a key
  bound,      \* policy_bindings of the plugin: pairs of a target and a key
  userRole,   \* users: the role slug of each user, or "none"
  snapshot,   \* the authorizer's compiled snapshot
  req,        \* the request each client has under way
  used,       \* how much of each bound is used up
  astray,     \* ids of the roles whose grants need not follow their permissions
  behind      \* why the snapshot need not follow the tables

tables == <<roleId, permId, lastId, assigned, keys, granted, bound, userRole>>
vars   == <<tables, snapshot, req, used, astray, behind>>

Ids     == 1 .. MaxId
Targets == Routes \cup Commands
NoReq   == [op |-> "none", at |-> "idle", role |-> 0, perm |-> 0, slug |-> "none",
            user |-> "none", todo |-> {}, copy |-> [grants |-> {}, http |-> {}, cli |-> {}]]

Use(what, max) == used[what] < max /\ used' = [used EXCEPT ![what] = @ + 1]

LiveRoles      == {roleId[s] : s \in Roles} \ {0}
LivePerms      == {permId[p] : p \in Perms} \ {0}
PermsOf(r)     == {p \in Perms : permId[p] # 0 /\ <<r, permId[p]>> \in assigned}
Existing(r)    == {p \in Perms : permId[p] # 0 /\ <<r, p>> \in granted}
Owned(r, K)    == {r} \X K

-------------------------------------------------------------------------------
\* compile_snapshot reads three queries one after the other: the grants by role
\* slug, the HTTP bindings and the CLI bindings.
RoleRows == {g \in Roles \X Keys : roleId[g[1]] # 0 /\ <<roleId[g[1]], g[2]>> \in granted}
HttpRows == {b \in bound : b[1] \in Routes}
CliRows  == {b \in bound : b[1] \in Commands}
Compile  == [grants |-> RoleRows, http |-> HttpRows, cli |-> CliRows]

\* http_allowed and command_allowed: a role is let through to a target when one
\* of the bindings that match it has a key the role holds.  No binding, no way.
\* A command has one binding (command_bindings is a map).
HttpAllowed(s, t)    == \E k \in Keys : <<s, k>> \in snapshot.grants /\ <<t, k>> \in snapshot.http
CommandAllowed(s, t) == \E k \in Keys : <<s, k>> \in snapshot.grants /\ <<t, k>> \in snapshot.cli

-------------------------------------------------------------------------------
\* A migrated database, at bootstrap.  One migration assigns permissions, another
\* derives grants from those assigned by then and adds grants of its own, and each
\* profile runs them in its own order, on a database that may be in use: roles may
\* start with grants that do not follow their permissions.
Numbering(S) == CHOOSE f \in [S -> 1 .. Cardinality(S)] : \A a, b \in S : f[a] = f[b] => a = b
Astray(r)    == Existing(r) # PermsOf(r) \cap keys

Migrated(seed) ==
  LET R == Numbering(SystemRoles)
      P == Numbering(SystemPerms)
  IN /\ roleId = [s \in Roles |-> IF s \in SystemRoles THEN R[s] ELSE 0]
     /\ permId = [p \in Perms |-> IF p \in SystemPerms THEN P[p] ELSE 0]
     /\ lastId = [role |-> Cardinality(SystemRoles), perm |-> Cardinality(SystemPerms)]
     /\ granted = {<<R[g[1]], g[2]>> : g \in seed.granted}
     /\ assigned = {<<R[a[1]], P[a[2]]>> : a \in seed.assigned}
     /\ keys = seed.keys
     /\ snapshot = [grants |-> seed.granted, http |-> HttpRows, cli |-> CliRows]

Init ==
  /\ bound = SeedBound
  /\ \E seed \in Seeds : Migrated(seed)
  /\ userRole = [u \in Users |-> "none"]
  /\ req = [c \in Clients |-> NoReq]
  /\ used = [what \in {"requests", "faults", "binds", "starts"} |-> 0]
  /\ astray = {r \in LiveRoles : Astray(r)} /\ behind = {}

-------------------------------------------------------------------------------
\* One statement is the whole change of these requests: a slug that is taken is
\* refused by the UNIQUE constraint, an id that is not there deletes nothing.
InsertRole(s) ==
  /\ roleId[s] = 0
  /\ lastId.role < MaxId
  /\ roleId' = [roleId EXCEPT ![s] = lastId.role + 1]
  /\ lastId' = [lastId EXCEPT !.role = @ + 1]

CreateRole ==
  /\ \E s \in Roles : InsertRole(s)
  /\ Use("requests", MaxRequests)
  /\ UNCHANGED <<permId, assigned, keys, granted, bound, userRole, snapshot, req, astray, behind>>

InsertPermission(p) ==
  /\ permId[p] = 0
  /\ lastId.perm < MaxId
  /\ permId' = [permId EXCEPT ![p] = lastId.perm + 1]
  /\ lastId' = [lastId EXCEPT !.perm = @ + 1]

\* A permission that comes back under its old slug finds the grants that its
\* deletion left: the roles that hold one have it without being assigned it.
CreatePermission ==
  \E p \in Perms :
    /\ InsertPermission(p)
    /\ astray' = astray \cup {r \in Ids : <<r, p>> \in granted}
    /\ Use("requests", MaxRequests)
    /\ UNCHANGED <<roleId, assigned, keys, granted, bound, userRole, snapshot, req, behind>>

RemoveUser(u) ==
  /\ userRole[u] # "none"
  /\ userRole' = [userRole EXCEPT ![u] = "none"]

DeleteUser ==
  /\ \E u \in Users : RemoveUser(u)
  /\ UNCHANGED <<roleId, permId, lastId, assigned, keys, granted, bound, snapshot, req, used,
                 astray, behind>>

-------------------------------------------------------------------------------
Start(c, r) == req[c].at = "idle" /\ Use("requests", MaxRequests) /\ req' = [req EXCEPT ![c] = r]
At(c, op, at) == req[c].op = op /\ req[c].at = at
Goto(c, at) == req' = [req EXCEPT ![c] = [@ EXCEPT !.at = at]]
End(c) == req' = [req EXCEPT ![c] = NoReq]

\* delete_role: the row is found and is no system role, no user is counted with
\* its slug, and the row is deleted with all that refers to it.  The snapshot
\* is not refreshed.
Deletable(s) == roleId[s] # 0 /\ s \notin SystemRoles

DeleteRole(c) ==
  \E s \in Roles :
    /\ Deletable(s)
    /\ Start(c, [NoReq EXCEPT !.op = "deleteRole", !.at = "count", !.role = roleId[s], !.slug = s])
    /\ UNCHANGED <<tables, snapshot, astray, behind>>

CountUsers(c) ==
  /\ At(c, "deleteRole", "count")
  /\ IF \E u \in Users : userRole[u] = req[c].slug THEN End(c) ELSE Goto(c, "delete")
  /\ UNCHANGED <<tables, snapshot, used, astray, behind>>

DropRole(c) ==
  /\ At(c, "deleteRole", "delete")
  /\ roleId' = [s \in Roles |-> IF roleId[s] = req[c].role THEN 0 ELSE roleId[s]]
  /\ assigned' = {a \in assigned : a[1] # req[c].role}
  /\ granted' = {g \in granted : g[1] # req[c].role}
  /\ behind' = behind \cup {"deleted"}
  /\ End(c)
  /\ UNCHANGED <<permId, lastId, keys, bound, userRole, snapshot, used, astray>>

\* delete_permission: the same without users, and the grants derived from the
\* permission stay, because role_policy_keys refers to the policy key only.
DeletePermission(c) ==
  \E p \in Perms \ SystemPerms :
    /\ permId[p] # 0
    /\ Start(c, [NoReq EXCEPT !.op = "deletePerm", !.at = "delete", !.perm = permId[p]])
    /\ UNCHANGED <<tables, snapshot, astray, behind>>

DropPermission(c) ==
  /\ At(c, "deletePerm", "delete")
  /\ permId' = [p \in Perms |-> IF permId[p] = req[c].perm THEN 0 ELSE permId[p]]
  /\ assigned' = {a \in assigned : a[2] # req[c].perm}
  /\ End(c)
  /\ UNCHANGED <<roleId, lastId, keys, granted, bound, userRole, snapshot, used, astray, behind>>

\* users_create: the role is looked up, the password is hashed, and the row is
\* inserted; a name that is taken is refused.
FindRoleBySlug(s) == roleId[s] # 0

CreateUser(c) ==
  \E u \in Users, s \in Roles :
    /\ FindRoleBySlug(s)
    /\ Start(c, [NoReq EXCEPT !.op = "createUser", !.at = "create", !.user = u, !.slug = s])
    /\ UNCHANGED <<tables, snapshot, astray, behind>>

InsertUser(c) ==
  /\ At(c, "createUser", "create")
  /\ userRole' = [userRole EXCEPT ![req[c].user] = IF @ = "none" THEN req[c].slug ELSE @]
  /\ End(c)
  /\ UNCHANGED <<roleId, permId, lastId, assigned, keys, granted, bound, snapshot, used, astray,
                 behind>>

-------------------------------------------------------------------------------
\* replace_role_permissions, of a role and permissions that have all been found.
\* Its statements are not in a transaction.
Found(r, W) == r \in LiveRoles /\ W \subseteq LivePerms

ReplacePermissions(c) ==
  \E r \in Ids, W \in SUBSET Ids :
    /\ Found(r, W)
    /\ Start(c, [NoReq EXCEPT !.op = "replace", !.at = "clear", !.role = r, !.todo = W])
    /\ UNCHANGED <<tables, snapshot, astray, behind>>

Clear(c) ==
  /\ At(c, "replace", "clear")
  /\ assigned' = {a \in assigned : a[1] # req[c].role}
  /\ Goto(c, IF req[c].todo = {} THEN "ungrant" ELSE "insert")
  /\ UNCHANGED <<roleId, permId, lastId, keys, granted, bound, userRole, snapshot, used, astray,
                 behind>>

\* The request ends here with an error, or because its client has gone: what it
\* has changed stays.
Abandon(c) ==
  /\ astray' = IF req[c].at \in {"insert", "ungrant", "grant"}
               THEN astray \cup {req[c].role} ELSE astray
  /\ behind' = IF req[c].at \in {"grant", "grants", "http", "cli", "publish"}
               THEN behind \cup {"failed"} ELSE behind
  /\ End(c)
  /\ UNCHANGED <<tables, snapshot>>

\* The next of the permissions is inserted.  A row that is there already, or a
\* role or permission that has gone, violates a key and ends the request.
Insert(c) ==
  /\ At(c, "replace", "insert")
  /\ \E p \in req[c].todo :
       IF <<req[c].role, p>> \notin assigned /\ req[c].role \in LiveRoles /\ p \in LivePerms
       THEN /\ assigned' = assigned \cup {<<req[c].role, p>>}
            /\ req' = [req EXCEPT ![c].todo = @ \ {p},
                                  ![c].at = IF req[c].todo = {p} THEN "ungrant" ELSE "insert"]
            /\ UNCHANGED <<roleId, permId, lastId, keys, granted, bound, userRole, snapshot,
                           astray, behind>>
       ELSE Abandon(c)
  /\ UNCHANGED used

\* The grants change under a refresh that may have read them.
Refreshing(c) == \E d \in Clients \ {c} : req[d].at \in {"http", "cli", "publish"}
Changing(c)   == behind' = IF Refreshing(c) THEN behind \cup {"overlap"} ELSE behind

\* Mutant of Ungrant: every grant of the role is dropped, not only the derived.
UngrantAll(c) ==
  /\ At(c, "replace", "ungrant")
  /\ granted' = {g \in granted : g[1] # req[c].role}
  /\ astray' = astray \ {req[c].role}
  /\ Changing(c)
  /\ Goto(c, "grant")
  /\ UNCHANGED <<roleId, permId, lastId, assigned, keys, bound, userRole, snapshot, used>>

\* The role's derived grants are dropped, then rebuilt from its permissions of
\* the moment.
Ungrant(c) ==
  /\ At(c, "replace", "ungrant")
  /\ granted' = granted \ Owned(req[c].role, Existing(req[c].role))
  /\ astray' = astray \ {req[c].role}
  /\ Changing(c)
  /\ Goto(c, "grant")
  /\ UNCHANGED <<roleId, permId, lastId, assigned, keys, bound, userRole, snapshot, used>>

\* Mutant of Grant: nothing is rebuilt.
GrantNothing(c) ==
  /\ At(c, "replace", "grant")
  /\ Changing(c)
  /\ Goto(c, "grants")
  /\ UNCHANGED <<tables, snapshot, used, astray>>

Grant(c) ==
  /\ At(c, "replace", "grant")
  /\ granted' = granted \cup Owned(req[c].role, PermsOf(req[c].role) \cap keys)
  /\ Changing(c)
  /\ Goto(c, "grants")
  /\ UNCHANGED <<roleId, permId, lastId, assigned, keys, bound, userRole, snapshot, used, astray>>

\* refresh_authorizer_snapshot: three reads, and the compiled copy replaces the
\* snapshot whatever has been published in between.
Read(c, at, field, rows, next) ==
  /\ At(c, "replace", at)
  /\ req' = [req EXCEPT ![c].at = next, ![c].copy[field] = rows]
  /\ UNCHANGED <<tables, snapshot, used, astray, behind>>

Refresh(c) ==
  \/ Read(c, "grants", "grants", RoleRows, "http")
  \/ Read(c, "http", "http", HttpRows, "cli")
  \/ Read(c, "cli", "cli", CliRows, "publish")

\* Mutant of ReplaceSnapshot: the new grants are added to the old.
MergeSnapshot(c) ==
  /\ At(c, "replace", "publish")
  /\ snapshot' = [req[c].copy EXCEPT !.grants = @ \cup snapshot.grants]
  /\ End(c)
  /\ UNCHANGED <<tables, used, astray, behind>>

ReplaceSnapshot(c) ==
  /\ At(c, "replace", "publish")
  /\ snapshot' = req[c].copy
  /\ End(c)
  /\ UNCHANGED <<tables, used, astray, behind>>

\* A statement fails, or the client goes away and the handler is dropped.
Fail(c) ==
  /\ req[c].at # "idle"
  /\ Use("faults", MaxFaults)
  /\ Abandon(c)

-------------------------------------------------------------------------------
\* replace_plugin_policy_bindings, in one transaction, for the loader: the keys
\* that are missing are created, the plugin's bindings replaced.  Nothing
\* refreshes the snapshot, and no role is granted a new key.
BindPlugin ==
  \E B \in Contracts \ {bound} :
    /\ Use("binds", MaxBinds)
    /\ bound' = B
    /\ keys' = keys \cup {b[2] : b \in B}
    /\ astray' = astray \cup {r \in Ids : PermsOf(r) \cap (keys' \ keys) # {}}
    /\ behind' = behind \cup {"bound"}
    /\ UNCHANGED <<roleId, permId, lastId, assigned, granted, userRole, snapshot, req>>

\* The host stops, with whatever is under way, and starts: refresh_policy
\* compiles the snapshot before any request is served.
Restart ==
  /\ Use("starts", MaxStarts)
  /\ snapshot' = Compile
  /\ astray' = astray \cup {req[c].role : c \in {d \in Clients :
                                  req[d].at \in {"insert", "ungrant", "grant"}}}
  /\ behind' = {}
  /\ req' = [c \in Clients |-> NoReq]
  /\ UNCHANGED tables

Step(c) ==
  \/ DeleteRole(c) \/ CountUsers(c) \/ DropRole(c)
  \/ DeletePermission(c) \/ DropPermission(c)
  \/ CreateUser(c) \/ InsertUser(c)
  \/ ReplacePermissions(c) \/ Clear(c) \/ Insert(c) \/ Ungrant(c) \/ Grant(c)
  \/ Refresh(c) \/ ReplaceSnapshot(c) \/ Fail(c)

Next ==
  \/ CreateRole \/ CreatePermission \/ DeleteUser \/ BindPlugin \/ Restart
  \/ \E c \in Clients : Step(c)

Spec == Init /\ [][Next]_vars

-------------------------------------------------------------------------------
Copy == [grants : SUBSET (Roles \X Keys), http : SUBSET (Routes \X Keys),
         cli : SUBSET (Commands \X Keys)]
Req  == [op : {"none", "deleteRole", "deletePerm", "createUser", "replace"},
         at : {"idle", "count", "delete", "create", "insert", "clear", "ungrant", "grant", "grants", "http",
               "cli", "publish"},
         role : Ids \cup {0}, perm : Ids \cup {0}, slug : Roles \cup {"none"},
         user : Users \cup {"none"}, todo : SUBSET Ids, copy : Copy]

\* Every variable has its type, and rows refer to rows that exist: the foreign
\* keys of role_permissions and role_policy_keys hold after every statement.
TypeOK ==
  /\ roleId \in [Roles -> Ids \cup {0}]
  /\ permId \in [Perms -> Ids \cup {0}]
  /\ lastId \in [role : 0 .. MaxId, perm : 0 .. MaxId]
  /\ \A s \in Roles : roleId[s] <= lastId.role
  /\ \A p \in Perms : permId[p] <= lastId.perm
  /\ assigned \subseteq LiveRoles \X LivePerms
  /\ keys \subseteq Keys
  /\ granted \subseteq LiveRoles \X keys
  /\ bound \subseteq Targets \X keys
  /\ userRole \in [Users -> Roles \cup {"none"}]
  /\ snapshot \in Copy
  /\ req \in [Clients -> Req]
  /\ used \in [{"requests", "faults", "binds", "starts"} -> Nat]
  /\ astray \subseteq Ids
  /\ behind \subseteq {"deleted", "failed", "overlap", "bound"}

Replacing(r) == \E c \in Clients : req[c].op = "replace" /\ req[c].role = r
Quiet        == \A c \in Clients : req[c].op # "replace"

\* A role to which no replacement is under way is granted the keys of exactly
\* its permissions, however replacements of the same role, deletions of
\* permissions and of roles interleave; except a role that the migrations seeded
\* otherwise, one that a request left half way, one whose deleted permission was
\* created again, and one whose permission got its policy key later.  The next
\* replacement puts these right.
GrantsFollowPermissions ==
  \A r \in LiveRoles \ astray :
    ~Replacing(r) => Existing(r) = PermsOf(r) \cap keys

Holds(s, t) ==
  \E k \in Keys : <<t, k>> \in bound /\ roleId[s] # 0 /\ <<roleId[s], k>> \in granted

\* While no refresh is under way the authorizer lets exactly those roles through
\* that hold a key bound to the target, unless a role was deleted, a plugin's
\* bindings were replaced, a request ended between its change and its refresh,
\* or two requests overlapped.
SnapshotFollowsTables ==
  Quiet /\ behind = {} =>
    \A s \in Roles : /\ \A t \in Routes : HttpAllowed(s, t) <=> Holds(s, t)
                     /\ \A t \in Commands : CommandAllowed(s, t) <=> Holds(s, t)

\* Replacing a role's permissions leaves alone what is not derived from one: a
\* grant of a key that is no permission of the moment ends only with its role.
OtherGrantsStay ==
  [][\A r \in Ids, k \in Keys :
       <<r, k>> \in granted /\ <<r, k>> \notin granted' =>
         \/ \A s \in Roles : roleId'[s] # r
         \/ k \in Perms /\ permId[k] # 0]_vars

===============================================================================
