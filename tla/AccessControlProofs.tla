------------------------- MODULE AccessControlProofs -------------------------
(***************************************************************************)
(* Proofs about AccessControl, for any roles, permissions, keys, accounts, *)
(* clients and bounds.                                                     *)
(***************************************************************************)
EXTENDS AccessControl, FunctionTheorems, FiniteSetTheorems, TLAPS

(***************************************************************************)
(* The inductive invariant.                                                *)
(***************************************************************************)
Stages == {"clear", "insert", "ungrant", "grant", "grants", "http", "cli", "publish"}

\* Only a replacement is ever at one of the stages of a replacement, and it is
\* that of a role which had a row.
StagesInv ==
  \A c \in Clients : req[c].at \in Stages => req[c].op = "replace" /\ req[c].role \in Ids

\* A replacement of r's permissions is under way and has come to one of S.
Amid(r, S) == \E c \in Clients : req[c].at \in S /\ req[c].role = r

\* Who may have left a grant without its permission, and who a permission
\* without its grant: a replacement that has yet to drop the derived grants, and
\* one that has yet to rebuild them.
GrantsInv ==
  \A r \in LiveRoles \ astray :
    /\ ~Amid(r, {"insert", "ungrant"}) => Existing(r) \subseteq PermsOf(r) \cap keys
    /\ ~Amid(r, {"insert", "ungrant", "grant"}) => PermsOf(r) \cap keys \subseteq Existing(r)

\* What a refresh has read so far is what the tables hold, and the published
\* snapshot lacks nothing that no request under way is about to publish.
FreshCopy(c) ==
  /\ req[c].at \in {"http", "cli", "publish"} => req[c].copy.grants = RoleRows
  /\ req[c].at \in {"cli", "publish"} => req[c].copy.http = HttpRows
  /\ req[c].at = "publish" => req[c].copy.cli = CliRows

Publishing == {"grant", "grants", "http", "cli", "publish"}

SnapshotInv ==
  behind = {} =>
    /\ snapshot.http = HttpRows /\ snapshot.cli = CliRows
    /\ (\A c \in Clients : req[c].at \notin Publishing) => snapshot.grants = RoleRows
    /\ \A c \in Clients : FreshCopy(c)

-------------------------------------------------------------------------------
\* The ids a migration gives its rows are different, and run from 1.
LEMMA Numbered ==
  ASSUME NEW S, IsFiniteSet(S)
  PROVE  /\ Cardinality(S) \in Nat
         /\ Numbering(S) \in [S -> 1 .. Cardinality(S)]
         /\ \A a, b \in S : Numbering(S)[a] = Numbering(S)[b] => a = b
<1>1. Cardinality(S) \in Nat /\ ExistsBijection(1 .. Cardinality(S), S)
  BY FS_CardinalityType
<1>2. ExistsBijection(S, 1 .. Cardinality(S))
  BY <1>1, Fun_ExistsBijSymmetric
<1>3. \E f \in [S -> 1 .. Cardinality(S)] : \A a, b \in S : f[a] = f[b] => a = b
  BY <1>2 DEF ExistsBijection, Bijection, Injection, IsInjective
<1> QED
  BY <1>1, <1>3 DEF Numbering

\* The seeded rows: what the first state holds, slug by slug.
LEMMA Seeded ==
  ASSUME NEW seed \in Seeds, Migrated(seed)
  PROVE  /\ roleId \in [Roles -> Ids \cup {0}] /\ permId \in [Perms -> Ids \cup {0}]
         /\ \A s \in Roles : roleId[s] <= lastId.role /\ (roleId[s] # 0 <=> s \in SystemRoles)
         /\ \A p \in Perms : permId[p] <= lastId.perm /\ (permId[p] # 0 <=> p \in SystemPerms)
         /\ lastId \in [role : 0 .. MaxId, perm : 0 .. MaxId]
         /\ \A s \in SystemRoles, t \in SystemRoles : roleId[s] = roleId[t] => s = t
         /\ granted = {<<roleId[g[1]], g[2]>> : g \in seed.granted}
         /\ assigned \subseteq LiveRoles \X LivePerms
<1> DEFINE R == Numbering(SystemRoles)
           P == Numbering(SystemPerms)
<1>1. /\ SystemRoles \subseteq Roles /\ SystemPerms \subseteq Perms
      /\ IsFiniteSet(SystemRoles) /\ IsFiniteSet(SystemPerms) /\ MaxId \in Nat
      /\ Cardinality(SystemRoles) <= MaxId /\ Cardinality(SystemPerms) <= MaxId
      /\ seed.granted \subseteq SystemRoles \X seed.keys /\ seed.assigned \subseteq SystemRoles \X SystemPerms
  BY AccessAssumption
<1>2. /\ Cardinality(SystemRoles) \in Nat /\ Cardinality(SystemPerms) \in Nat
      /\ R \in [SystemRoles -> 1 .. Cardinality(SystemRoles)]
      /\ P \in [SystemPerms -> 1 .. Cardinality(SystemPerms)]
      /\ \A a, b \in SystemRoles : R[a] = R[b] => a = b
  BY <1>1, Numbered
<1>3. /\ roleId = [s \in Roles |-> IF s \in SystemRoles THEN R[s] ELSE 0]
      /\ permId = [p \in Perms |-> IF p \in SystemPerms THEN P[p] ELSE 0]
      /\ lastId = [role |-> Cardinality(SystemRoles), perm |-> Cardinality(SystemPerms)]
      /\ granted = {<<R[g[1]], g[2]>> : g \in seed.granted}
      /\ assigned = {<<R[a[1]], P[a[2]]>> : a \in seed.assigned}
  BY DEF Migrated
<1> HIDE DEF R, P
<1>4. roleId \in [Roles -> Ids \cup {0}] /\ permId \in [Perms -> Ids \cup {0}]
  BY <1>1, <1>2, <1>3 DEF Ids
<1>5. /\ \A s \in SystemRoles : roleId[s] = R[s] /\ R[s] # 0
      /\ \A p \in SystemPerms : permId[p] = P[p] /\ P[p] # 0
  BY <1>1, <1>2, <1>3
<1>6. granted = {<<roleId[g[1]], g[2]>> : g \in seed.granted}
  BY <1>1, <1>3, <1>5
<1>7. \A a \in seed.assigned : a[1] \in SystemRoles /\ a[2] \in SystemPerms
  BY <1>1
<1>8. assigned \subseteq LiveRoles \X LivePerms
  <2>1. \A a \in seed.assigned : R[a[1]] \in LiveRoles /\ P[a[2]] \in LivePerms
    BY <1>1, <1>5, <1>7 DEF LiveRoles, LivePerms
  <2> QED
    BY <1>3, <2>1
<1>9. \A s \in Roles : roleId[s] <= lastId.role /\ (roleId[s] # 0 <=> s \in SystemRoles)
  BY <1>1, <1>2, <1>3
<1>10. \A p \in Perms : permId[p] <= lastId.perm /\ (permId[p] # 0 <=> p \in SystemPerms)
  BY <1>1, <1>2, <1>3
<1>11. lastId \in [role : 0 .. MaxId, perm : 0 .. MaxId]
  BY <1>1, <1>2, <1>3
<1>12. \A s \in SystemRoles, t \in SystemRoles : roleId[s] = roleId[t] => s = t
  BY <1>2, <1>5
<1> QED
  BY <1>4, <1>6, <1>8, <1>9, <1>10, <1>11, <1>12

LEMMA InitType == Init => TypeOK
<1> SUFFICES ASSUME Init PROVE TypeOK
  OBVIOUS
<1>0. PICK seed \in Seeds : Migrated(seed)
  BY DEF Init
<1>1. /\ SystemRoles \subseteq Roles /\ seed.keys \subseteq Keys
      /\ seed.granted \subseteq SystemRoles \X seed.keys
      /\ SeedBound \subseteq (Routes \cup Commands) \X seed.keys
  BY AccessAssumption
<1>2. /\ keys = seed.keys /\ bound = SeedBound
      /\ userRole = [u \in Users |-> "none"]
      /\ snapshot = [grants |-> seed.granted, http |-> HttpRows, cli |-> CliRows]
      /\ req = [c \in Clients |-> NoReq]
      /\ used = [what \in {"requests", "faults", "binds", "starts"} |-> 0]
      /\ astray = {r \in LiveRoles : Astray(r)} /\ behind = {}
  BY <1>0 DEF Init, Migrated
<1>3. assigned \subseteq LiveRoles \X LivePerms
  BY <1>0, Seeded
<1>4. granted \subseteq LiveRoles \X keys
  BY <1>0, Seeded, <1>1, <1>2 DEF LiveRoles
<1>5. bound \subseteq Targets \X keys
  BY <1>1, <1>2 DEF Targets
<1>6. snapshot \in Copy
  BY <1>1, <1>2 DEF Copy, HttpRows, CliRows
<1>7. req \in [Clients -> Req]
  BY <1>2 DEF Req, NoReq, Copy
<1>8. used \in [{"requests", "faults", "binds", "starts"} -> Nat]
  BY <1>2
<1>9. /\ roleId \in [Roles -> Ids \cup {0}] /\ permId \in [Perms -> Ids \cup {0}]
      /\ \A s \in Roles : roleId[s] <= lastId.role
      /\ \A p \in Perms : permId[p] <= lastId.perm
      /\ lastId \in [role : 0 .. MaxId, perm : 0 .. MaxId]
  BY <1>0, Seeded
<1>10. astray \subseteq Ids
  BY <1>2, <1>9 DEF LiveRoles
<1> QED
  BY <1>1, <1>2, <1>3, <1>4, <1>5, <1>6, <1>7, <1>8, <1>9, <1>10 DEF TypeOK

-------------------------------------------------------------------------------
\* The type invariant in two parts: the tables, and what is not stored.
TablesOK ==
  /\ roleId \in [Roles -> Ids \cup {0}]
  /\ permId \in [Perms -> Ids \cup {0}]
  /\ lastId \in [role : 0 .. MaxId, perm : 0 .. MaxId]
  /\ \A s \in Roles : roleId[s] <= lastId.role
  /\ \A p \in Perms : permId[p] <= lastId.perm
  /\ assigned \subseteq LiveRoles \X LivePerms
  /\ keys \subseteq Keys
  /\ granted \subseteq LiveRoles \X keys
  /\ bound \subseteq Targets \X keys
  /\ userRole \in [Users -> Roles \cup {"none"}]

RestOK ==
  /\ snapshot \in Copy
  /\ req \in [Clients -> Req]
  /\ used \in [{"requests", "faults", "binds", "starts"} -> Nat]
  /\ astray \subseteq Ids
  /\ behind \subseteq {"deleted", "failed", "overlap", "bound"}

LEMMA TypeParts == (TypeOK <=> TablesOK /\ RestOK) /\ (TypeOK' <=> TablesOK' /\ RestOK')
  BY DEF TypeOK, TablesOK, RestOK

LEMMA SameTables == TablesOK /\ UNCHANGED tables => TablesOK'
  BY DEF TablesOK, tables, LiveRoles, LivePerms

LEMMA OneRequest ==
  ASSUME NEW c \in Clients, req \in [Clients -> Req], NEW x \in Req,
         req' = [req EXCEPT ![c] = x]
  PROVE  /\ req' \in [Clients -> Req]
         /\ req'[c] = x
         /\ \A d \in Clients \ {c} : req'[d] = req[d]
  OBVIOUS

LEMMA NoReqTyped == NoReq \in Req /\ NoReq.at = "idle" /\ NoReq.op = "none"
  BY DEF NoReq, Req, Copy

LEMMA Bounded ==
  ASSUME used \in [{"requests", "faults", "binds", "starts"} -> Nat],
         NEW what \in {"requests", "faults", "binds", "starts"}, NEW max, Use(what, max)
  PROVE  used' \in [{"requests", "faults", "binds", "starts"} -> Nat]
  BY DEF Use

LEMMA CompileTyped ==
  ASSUME TablesOK
  PROVE  Compile \in Copy /\ RoleRows \in SUBSET (Roles \X Keys)
         /\ HttpRows \in SUBSET (Routes \X Keys) /\ CliRows \in SUBSET (Commands \X Keys)
<1>1. RoleRows \in SUBSET (Roles \X Keys)
  BY DEF RoleRows
<1>2. HttpRows \in SUBSET (Routes \X Keys) /\ CliRows \in SUBSET (Commands \X Keys)
  BY DEF TablesOK, HttpRows, CliRows, Targets
<1> QED
  BY <1>1, <1>2 DEF Compile, Copy

\* A new role: no row refers to its id yet.
LEMMA NewRole ==
  ASSUME TypeOK, CreateRole
  PROVE  TypeOK' /\ LiveRoles \subseteq LiveRoles'
<1>1. PICK s \in Roles : InsertRole(s)
  BY DEF CreateRole
<1>2. UNCHANGED <<permId, assigned, keys, granted, bound, userRole, snapshot, req, astray, behind>>
  BY DEF CreateRole
<1>3. MaxId \in Nat
  BY AccessAssumption
<1>4. /\ roleId' \in [Roles -> Ids \cup {0}] /\ lastId' \in [role : 0 .. MaxId, perm : 0 .. MaxId]
      /\ \A z \in Roles : roleId'[z] <= lastId'.role
      /\ lastId'.perm = lastId.perm
  BY <1>1, <1>3 DEF InsertRole, TypeOK, Ids
<1>5. \A z \in Roles : roleId[z] # 0 => roleId'[z] = roleId[z]
  BY <1>1 DEF InsertRole, TypeOK
<1>6. LiveRoles \subseteq LiveRoles'
  BY <1>5 DEF LiveRoles
<1>7. LivePerms' = LivePerms
  BY <1>2 DEF LivePerms
<1>8. used' \in [{"requests", "faults", "binds", "starts"} -> Nat]
  BY Bounded DEF CreateRole, TypeOK
<1>9. assigned' \subseteq LiveRoles' \X LivePerms' /\ granted' \subseteq LiveRoles' \X keys'
  BY <1>2, <1>6, <1>7 DEF TypeOK
<1> QED
  BY <1>2, <1>4, <1>6, <1>8, <1>9 DEF TypeOK

LEMMA NewPermission ==
  ASSUME TypeOK, NEW p \in Perms, InsertPermission(p), CreatePermission
  PROVE  TypeOK' /\ LivePerms \subseteq LivePerms'
<1>1. UNCHANGED <<roleId, assigned, keys, granted, bound, userRole, snapshot, req, behind>>
      /\ astray' \subseteq Ids
  BY DEF CreatePermission, TypeOK
<1>3. MaxId \in Nat
  BY AccessAssumption
<1>4. /\ permId' \in [Perms -> Ids \cup {0}] /\ lastId' \in [role : 0 .. MaxId, perm : 0 .. MaxId]
      /\ \A z \in Perms : permId'[z] <= lastId'.perm
      /\ lastId'.role = lastId.role
  BY <1>3 DEF InsertPermission, TypeOK, Ids
<1>5. \A z \in Perms : permId[z] # 0 => permId'[z] = permId[z]
  BY DEF InsertPermission, TypeOK
<1>6. LivePerms \subseteq LivePerms'
  BY <1>5 DEF LivePerms
<1>7. LiveRoles' = LiveRoles
  BY <1>1 DEF LiveRoles
<1>8. used' \in [{"requests", "faults", "binds", "starts"} -> Nat]
  BY Bounded DEF CreatePermission, TypeOK
<1>9. assigned' \subseteq LiveRoles' \X LivePerms' /\ granted' \subseteq LiveRoles' \X keys'
  BY <1>1, <1>6, <1>7 DEF TypeOK
<1> QED
  BY <1>1, <1>4, <1>6, <1>8, <1>9 DEF TypeOK

\* A role that is deleted takes along every row that refers to it.
LEMMA RoleGone ==
  ASSUME TypeOK, NEW c \in Clients, DropRole(c)
  PROVE  /\ TypeOK'
         /\ LiveRoles' = LiveRoles \ {req[c].role}
         /\ \A s \in Roles : roleId'[s] # 0 => roleId'[s] = roleId[s]
<1> DEFINE r == req[c].role
<1>1. /\ roleId' = [s \in Roles |-> IF roleId[s] = r THEN 0 ELSE roleId[s]]
      /\ assigned' = {a \in assigned : a[1] # r} /\ granted' = {g \in granted : g[1] # r}
      /\ behind' = behind \cup {"deleted"} /\ req' = [req EXCEPT ![c] = NoReq]
      /\ UNCHANGED <<permId, lastId, keys, bound, userRole, snapshot, used, astray>>
  BY DEF DropRole, End
<1>2. req' \in [Clients -> Req]
  BY <1>1, NoReqTyped DEF TypeOK
<1> HIDE DEF r
<1>3. MaxId \in Nat
  BY AccessAssumption
<1>4. LiveRoles' = LiveRoles \ {r}
  BY <1>1 DEF LiveRoles
<1>5. LivePerms' = LivePerms
  BY <1>1 DEF LivePerms
<1>6. assigned' \subseteq LiveRoles' \X LivePerms' /\ granted' \subseteq LiveRoles' \X keys'
  BY <1>1, <1>4, <1>5 DEF TypeOK
<1>7. /\ roleId' \in [Roles -> Ids \cup {0}]
      /\ \A s \in Roles : roleId'[s] <= lastId'.role
      /\ \A s \in Roles : roleId'[s] # 0 => roleId'[s] = roleId[s]
  BY <1>1, <1>3 DEF TypeOK, Ids
<1>8. TypeOK'
  BY <1>1, <1>2, <1>6, <1>7 DEF TypeOK
<1> QED
  BY <1>4, <1>7, <1>8 DEF r

LEMMA PermissionGone ==
  ASSUME TypeOK, NEW c \in Clients, DropPermission(c)
  PROVE  /\ TypeOK'
         /\ \A p \in Perms : permId'[p] # 0 => permId'[p] = permId[p] /\ permId[p] # req[c].perm
<1> DEFINE i == req[c].perm
<1>1. /\ permId' = [p \in Perms |-> IF permId[p] = i THEN 0 ELSE permId[p]]
      /\ assigned' = {a \in assigned : a[2] # i} /\ req' = [req EXCEPT ![c] = NoReq]
      /\ UNCHANGED <<roleId, lastId, keys, granted, bound, userRole, snapshot, used, astray,
                     behind>>
  BY DEF DropPermission, End
<1>2. req' \in [Clients -> Req]
  BY <1>1, NoReqTyped DEF TypeOK
<1> HIDE DEF i
<1>3. MaxId \in Nat
  BY AccessAssumption
<1>4. LivePerms' = LivePerms \ {i}
  BY <1>1 DEF LivePerms
<1>5. LiveRoles' = LiveRoles
  BY <1>1 DEF LiveRoles
<1>6. assigned' \subseteq LiveRoles' \X LivePerms' /\ granted' \subseteq LiveRoles' \X keys'
  BY <1>1, <1>4, <1>5 DEF TypeOK
<1>7. /\ permId' \in [Perms -> Ids \cup {0}]
      /\ \A p \in Perms : permId'[p] <= lastId'.perm
      /\ \A p \in Perms : permId'[p] # 0 => permId'[p] = permId[p] /\ permId[p] # i
  BY <1>1, <1>3 DEF TypeOK, Ids
<1>8. TypeOK'
  BY <1>1, <1>2, <1>6, <1>7 DEF TypeOK
<1> QED
  BY <1>7, <1>8 DEF i

\* Starting a request, and moving one on, touches the request alone.
LEMMA Started ==
  ASSUME TypeOK, NEW c \in Clients, NEW r \in Req, Start(c, r),
         UNCHANGED <<tables, snapshot, astray, behind>>
  PROVE  TypeOK'
<1>1. req' \in [Clients -> Req]
  BY DEF Start, TypeOK
<1>2. used' \in [{"requests", "faults", "binds", "starts"} -> Nat]
  BY Bounded DEF Start, TypeOK
<1>3. TablesOK'
  BY TypeParts, SameTables
<1>4. RestOK'
  BY <1>1, <1>2 DEF RestOK, TypeOK
<1> QED
  BY <1>3, <1>4, TypeParts

LEMMA StartsTyped ==
  ASSUME TypeOK, NEW c \in Clients,
         DeleteRole(c) \/ DeletePermission(c) \/ CreateUser(c) \/ ReplacePermissions(c)
  PROVE  TypeOK' /\ \E r \in Req : /\ Start(c, r) /\ UNCHANGED <<tables, snapshot, astray, behind>>
                                   /\ r.at \in {"count", "delete", "create", "clear"}
                                   /\ r.at = "clear" => r.op = "replace" /\ r.role \in Ids
<1>1. \E r \in Req : /\ Start(c, r) /\ UNCHANGED <<tables, snapshot, astray, behind>>
                     /\ r.at \in {"count", "delete", "create", "clear"}
                     /\ r.at = "clear" => r.op = "replace" /\ r.role \in Ids
  <2>1. CASE DeleteRole(c)
    <3>1. PICK s \in Roles :
            /\ Start(c, [NoReq EXCEPT !.op = "deleteRole", !.at = "count",
                                      !.role = roleId[s], !.slug = s])
            /\ UNCHANGED <<tables, snapshot, astray, behind>>
      BY <2>1 DEF DeleteRole
    <3>2. [NoReq EXCEPT !.op = "deleteRole", !.at = "count", !.role = roleId[s], !.slug = s] \in Req
      BY DEF TypeOK, NoReq, Req, Copy
    <3>3. [NoReq EXCEPT !.op = "deleteRole", !.at = "count",
                        !.role = roleId[s], !.slug = s].at = "count"
      BY DEF NoReq
    <3> QED
      BY <3>1, <3>2, <3>3
  <2>2. CASE DeletePermission(c)
    <3>1. PICK p \in Perms \ SystemPerms :
            /\ Start(c, [NoReq EXCEPT !.op = "deletePerm", !.at = "delete", !.perm = permId[p]])
            /\ UNCHANGED <<tables, snapshot, astray, behind>>
      BY <2>2 DEF DeletePermission
    <3>2. [NoReq EXCEPT !.op = "deletePerm", !.at = "delete", !.perm = permId[p]] \in Req
      BY DEF TypeOK, NoReq, Req, Copy
    <3>3. [NoReq EXCEPT !.op = "deletePerm", !.at = "delete", !.perm = permId[p]].at = "delete"
      BY DEF NoReq
    <3> QED
      BY <3>1, <3>2, <3>3
  <2>3. CASE CreateUser(c)
    <3>1. PICK u \in Users, s \in Roles :
            /\ Start(c, [NoReq EXCEPT !.op = "createUser", !.at = "create", !.user = u, !.slug = s])
            /\ UNCHANGED <<tables, snapshot, astray, behind>>
      BY <2>3 DEF CreateUser
    <3>2. [NoReq EXCEPT !.op = "createUser", !.at = "create", !.user = u, !.slug = s] \in Req
      BY DEF TypeOK, NoReq, Req, Copy
    <3>3. [NoReq EXCEPT !.op = "createUser", !.at = "create", !.user = u, !.slug = s].at = "create"
      BY DEF NoReq
    <3> QED
      BY <3>1, <3>2, <3>3
  <2>4. CASE ReplacePermissions(c)
    <3>1. PICK r \in Ids, W \in SUBSET Ids :
            /\ Start(c, [NoReq EXCEPT !.op = "replace", !.at = "clear", !.role = r, !.todo = W])
            /\ UNCHANGED <<tables, snapshot, astray, behind>>
      BY <2>4 DEF ReplacePermissions
    <3>2. [NoReq EXCEPT !.op = "replace", !.at = "clear", !.role = r, !.todo = W] \in Req
      BY DEF TypeOK, NoReq, Req, Copy
    <3>3. /\ [NoReq EXCEPT !.op = "replace", !.at = "clear", !.role = r, !.todo = W].at = "clear"
          /\ [NoReq EXCEPT !.op = "replace", !.at = "clear", !.role = r, !.todo = W].op = "replace"
          /\ [NoReq EXCEPT !.op = "replace", !.at = "clear", !.role = r, !.todo = W].role = r
      BY DEF NoReq
    <3> QED
      BY <3>1, <3>2, <3>3
  <2> QED
    BY <2>1, <2>2, <2>3, <2>4
<1> QED
  BY <1>1, Started

LEMMA Gone ==
  ASSUME TypeOK, NEW c \in Clients, End(c)
  PROVE  /\ req' \in [Clients -> Req] /\ req'[c] = NoReq
         /\ \A d \in Clients \ {c} : req'[d] = req[d]
  BY NoReqTyped DEF TypeOK, End

LEMMA Moved ==
  ASSUME TypeOK, NEW c \in Clients,
         NEW at \in {"delete", "insert", "ungrant", "grant", "grants"}, Goto(c, at)
  PROVE  /\ req' \in [Clients -> Req]
         /\ req'[c] = [req[c] EXCEPT !.at = at] /\ req'[c].at = at /\ req'[c].role = req[c].role
         /\ req'[c].op = req[c].op
         /\ \A d \in Clients \ {c} : req'[d] = req[d]
<1>1. req[c] \in Req
  BY DEF TypeOK
<1>2. [req[c] EXCEPT !.at = at] \in Req /\ [req[c] EXCEPT !.at = at].at = at
      /\ [req[c] EXCEPT !.at = at].op = req[c].op /\ [req[c] EXCEPT !.at = at].role = req[c].role
  BY <1>1 DEF Req
<1>3. req' = [req EXCEPT ![c] = [req[c] EXCEPT !.at = at]]
  BY DEF Goto
<1> DEFINE x == [req[c] EXCEPT !.at = at]
<1> HIDE DEF x
<1>4. x \in Req /\ req' = [req EXCEPT ![c] = x]
  BY <1>2, <1>3 DEF x
<1>5. /\ req' \in [Clients -> Req] /\ req'[c] = x
      /\ \A d \in Clients \ {c} : req'[d] = req[d]
  BY <1>4, OneRequest DEF TypeOK
<1> QED
  BY <1>2, <1>5 DEF x

LEMMA CountTyped ==
  ASSUME TypeOK, NEW c \in Clients, CountUsers(c)
  PROVE  TypeOK'
<1>1. req' \in [Clients -> Req]
  BY Gone, Moved DEF CountUsers
<1>2. UNCHANGED <<tables, snapshot, used, astray, behind>>
  BY DEF CountUsers
<1> QED
  BY <1>1, <1>2, TypeParts, SameTables DEF RestOK, TypeOK

LEMMA UserTyped ==
  ASSUME TypeOK, NEW c \in Clients, InsertUser(c)
  PROVE  TypeOK'
<1>1. req' \in [Clients -> Req]
  BY Gone DEF InsertUser
<1>2. UNCHANGED <<roleId, permId, lastId, assigned, keys, granted, bound, snapshot, used, astray,
                  behind>>
  BY DEF InsertUser
<1>3. userRole' \in [Users -> Roles \cup {"none"}]
  BY DEF InsertUser, TypeOK, Req
<1> QED
  BY <1>1, <1>2, <1>3 DEF TypeOK, LiveRoles, LivePerms

LEMMA UserGone ==
  ASSUME TypeOK, DeleteUser
  PROVE  TypeOK'
<1>1. UNCHANGED <<roleId, permId, lastId, assigned, keys, granted, bound, snapshot, req, used,
                  astray, behind>>
  BY DEF DeleteUser
<1>2. userRole' \in [Users -> Roles \cup {"none"}]
  BY DEF DeleteUser, RemoveUser, TypeOK
<1> QED
  BY <1>1, <1>2 DEF TypeOK, LiveRoles, LivePerms

LEMMA ClearTyped ==
  ASSUME TypeOK, NEW c \in Clients, Clear(c)
  PROVE  TypeOK'
<1>1. req' \in [Clients -> Req]
  BY Moved DEF Clear
<1>2. UNCHANGED <<roleId, permId, lastId, keys, granted, bound, userRole, snapshot, used, astray,
                  behind>>
  BY DEF Clear
<1>3. assigned' \subseteq LiveRoles \X LivePerms
  BY DEF Clear, TypeOK
<1> QED
  BY <1>1, <1>2, <1>3 DEF TypeOK, LiveRoles, LivePerms

\* Whose grants a request leaves half way: a role's, and so one with an id.
LEMMA AbandonTyped ==
  ASSUME TypeOK, StagesInv, NEW c \in Clients, Abandon(c),
         used' \in [{"requests", "faults", "binds", "starts"} -> Nat]
  PROVE  TypeOK'
<1>1. req' \in [Clients -> Req]
  BY Gone DEF Abandon
<1>2. UNCHANGED <<tables, snapshot>>
  BY DEF Abandon
<1>3. req[c].at \in Stages => req[c].role \in Ids
  BY DEF StagesInv
<1>4. astray' \subseteq Ids
  BY <1>3 DEF Abandon, TypeOK, Stages
<1>5. behind' \subseteq {"deleted", "failed", "overlap", "bound"}
  BY DEF Abandon, TypeOK
<1> QED
  BY <1>1, <1>2, <1>4, <1>5, TypeParts, SameTables DEF RestOK, TypeOK

\* An insertion adds one row of the request's role and a live permission, or
\* ends the request.
LEMMA Inserted ==
  ASSUME TypeOK, StagesInv, NEW c \in Clients, Insert(c)
  PROVE  /\ TypeOK'
         /\ \/ Abandon(c)
            \/ /\ req'[c].at \in {"insert", "ungrant"} /\ req'[c].role = req[c].role
               /\ req'[c].op = req[c].op
               /\ \A d \in Clients \ {c} : req'[d] = req[d]
               /\ \E p \in LivePerms : assigned' = assigned \cup {<<req[c].role, p>>}
               /\ UNCHANGED <<roleId, permId, lastId, keys, granted, bound, userRole, snapshot,
                              astray, behind>>
<1>1. PICK p \in req[c].todo :
       IF <<req[c].role, p>> \notin assigned /\ req[c].role \in LiveRoles /\ p \in LivePerms
       THEN /\ assigned' = assigned \cup {<<req[c].role, p>>}
            /\ req' = [req EXCEPT ![c].todo = @ \ {p},
                                  ![c].at = IF req[c].todo = {p} THEN "ungrant" ELSE "insert"]
            /\ UNCHANGED <<roleId, permId, lastId, keys, granted, bound, userRole, snapshot,
                           astray, behind>>
       ELSE Abandon(c)
  BY DEF Insert
<1>2. UNCHANGED used
  BY DEF Insert
<1>3. CASE Abandon(c)
  BY <1>2, <1>3, AbandonTyped DEF TypeOK
<1>4. CASE ~Abandon(c)
  <2>1. /\ req[c].role \in LiveRoles /\ p \in LivePerms
        /\ assigned' = assigned \cup {<<req[c].role, p>>}
        /\ UNCHANGED <<roleId, permId, lastId, keys, granted, bound, userRole, snapshot,
                       astray, behind>>
    BY <1>1, <1>4
  <2> DEFINE at == IF req[c].todo = {p} THEN "ungrant" ELSE "insert"
             x == [req[c] EXCEPT !.todo = @ \ {p}, !.at = at]
  <2>2. at \in {"insert", "ungrant"}
    OBVIOUS
  <2>3. req' = [req EXCEPT ![c] = x]
    BY <1>1, <1>4
  <2> HIDE DEF at
  <2>4. x \in Req /\ x.at = at /\ x.role = req[c].role /\ x.op = req[c].op
    <3>1. req[c] \in Req
      BY DEF TypeOK
    <3> QED
      BY <3>1, <2>2 DEF Req
  <2> HIDE DEF x
  <2>5. /\ req' \in [Clients -> Req] /\ req'[c] = x
        /\ \A d \in Clients \ {c} : req'[d] = req[d]
    BY <2>3, <2>4, OneRequest DEF TypeOK
  <2>6. assigned' \subseteq LiveRoles \X LivePerms
    BY <2>1 DEF TypeOK
  <2>7. TypeOK'
    BY <1>2, <2>1, <2>5, <2>6 DEF TypeOK, LiveRoles, LivePerms
  <2> QED
    BY <2>1, <2>2, <2>4, <2>5, <2>7
<1> QED
  BY <1>3, <1>4

LEMMA ChangingTyped ==
  ASSUME NEW c \in Clients, Changing(c)
  PROVE  behind' \in {behind, behind \cup {"overlap"}} /\ (Refreshing(c) => behind' # {})
  BY DEF Changing

LEMMA UngrantTyped ==
  ASSUME TypeOK, NEW c \in Clients, Ungrant(c)
  PROVE  TypeOK'
<1>1. req' \in [Clients -> Req]
  BY Moved DEF Ungrant
<1>2. UNCHANGED <<roleId, permId, lastId, assigned, keys, bound, userRole, snapshot, used>>
      /\ granted' \subseteq granted /\ astray' \subseteq astray
  BY DEF Ungrant
<1>3. behind' \subseteq {"deleted", "failed", "overlap", "bound"}
  BY ChangingTyped DEF Ungrant, TypeOK
<1> QED
  BY <1>1, <1>2, <1>3 DEF TypeOK, LiveRoles, LivePerms

LEMMA GrantTyped ==
  ASSUME TypeOK, NEW c \in Clients, Grant(c)
  PROVE  TypeOK'
<1>1. req' \in [Clients -> Req]
  BY Moved DEF Grant
<1>2. UNCHANGED <<roleId, permId, lastId, assigned, keys, bound, userRole, snapshot, used, astray>>
  BY DEF Grant
<1>3. behind' \subseteq {"deleted", "failed", "overlap", "bound"}
  BY ChangingTyped DEF Grant, TypeOK
<1> DEFINE r == req[c].role
<1>4. granted' = granted \cup Owned(r, PermsOf(r) \cap keys)
  BY DEF Grant
<1> HIDE DEF r
<1>5. PermsOf(r) # {} => r \in LiveRoles
  BY DEF PermsOf, TypeOK
<1>6. Owned(r, PermsOf(r) \cap keys) \subseteq LiveRoles \X keys
  BY <1>5 DEF Owned
<1>7. granted' \subseteq LiveRoles \X keys
  BY <1>4, <1>6 DEF TypeOK
<1> QED
  BY <1>1, <1>2, <1>3, <1>7 DEF TypeOK, LiveRoles, LivePerms

\* A read adds its rows to the copy, and its request goes on to the next stage.
LEMMA ReadTyped ==
  ASSUME TypeOK, NEW c \in Clients,
         NEW at, NEW field \in {"grants", "http", "cli"}, NEW rows,
         NEW next \in {"http", "cli", "publish"},
         [req[c].copy EXCEPT ![field] = rows] \in Copy,
         Read(c, at, field, rows, next)
  PROVE  /\ TypeOK'
         /\ req'[c].at = next /\ req'[c].role = req[c].role /\ req'[c].op = req[c].op
         /\ req'[c].copy = [req[c].copy EXCEPT ![field] = rows]
         /\ \A d \in Clients \ {c} : req'[d] = req[d]
         /\ UNCHANGED <<tables, snapshot, used, astray, behind>>
<1>1. /\ req' = [req EXCEPT ![c].at = next, ![c].copy[field] = rows]
      /\ UNCHANGED <<tables, snapshot, used, astray, behind>>
  BY DEF Read
<1> DEFINE y == [req[c].copy EXCEPT ![field] = rows]
           x == [req[c] EXCEPT !.at = next, !.copy = y]
<1>2. req' = [req EXCEPT ![c] = x] /\ y \in Copy
  BY <1>1
<1> HIDE DEF y
<1>3. x \in Req /\ x.at = next /\ x.role = req[c].role /\ x.op = req[c].op /\ x.copy = y
  <2>1. req[c] \in Req
    BY DEF TypeOK
  <2> QED
    BY <2>1, <1>2 DEF Req
<1> HIDE DEF x
<1>4. /\ req' \in [Clients -> Req] /\ req'[c] = x
      /\ \A d \in Clients \ {c} : req'[d] = req[d]
  BY <1>2, <1>3, OneRequest DEF TypeOK
<1>5. TypeOK'
  BY <1>1, <1>4, TypeParts, SameTables DEF RestOK, TypeOK
<1> QED
  BY <1>1, <1>3, <1>4, <1>5 DEF y

LEMMA Refreshed ==
  ASSUME TypeOK, StagesInv, NEW c \in Clients, Refresh(c)
  PROVE  /\ TypeOK'
         /\ \/ /\ req[c].at = "grants" /\ req'[c].at = "http"
               /\ req'[c].copy = [req[c].copy EXCEPT !.grants = RoleRows]
            \/ /\ req[c].at = "http" /\ req'[c].at = "cli"
               /\ req'[c].copy = [req[c].copy EXCEPT !.http = HttpRows]
            \/ /\ req[c].at = "cli" /\ req'[c].at = "publish"
               /\ req'[c].copy = [req[c].copy EXCEPT !.cli = CliRows]
         /\ req'[c].role = req[c].role /\ req'[c].op = req[c].op
         /\ \A d \in Clients \ {c} : req'[d] = req[d]
         /\ UNCHANGED <<tables, snapshot, used, astray, behind>>
<1>1. req[c].copy \in Copy
  BY DEF TypeOK, Req
<1>2. TablesOK
  BY TypeParts
<1>3. /\ [req[c].copy EXCEPT !["grants"] = RoleRows] \in Copy
      /\ [req[c].copy EXCEPT !["http"] = HttpRows] \in Copy
      /\ [req[c].copy EXCEPT !["cli"] = CliRows] \in Copy
  BY <1>1, <1>2, CompileTyped DEF Copy
<1>4. CASE Read(c, "grants", "grants", RoleRows, "http")
  <2>1. req[c].at = "grants"
    BY <1>4 DEF Read, At
  <2> QED
    BY <1>3, <1>4, <2>1, ReadTyped
<1>5. CASE Read(c, "http", "http", HttpRows, "cli")
  <2>1. req[c].at = "http"
    BY <1>5 DEF Read, At
  <2> QED
    BY <1>3, <1>5, <2>1, ReadTyped
<1>6. CASE Read(c, "cli", "cli", CliRows, "publish")
  <2>1. req[c].at = "cli"
    BY <1>6 DEF Read, At
  <2> QED
    BY <1>3, <1>6, <2>1, ReadTyped
<1> QED
  BY <1>4, <1>5, <1>6 DEF Refresh

LEMMA ReplaceTyped ==
  ASSUME TypeOK, NEW c \in Clients, ReplaceSnapshot(c)
  PROVE  TypeOK'
<1>1. req' \in [Clients -> Req]
  BY Gone DEF ReplaceSnapshot
<1>2. snapshot' \in Copy
  BY DEF ReplaceSnapshot, TypeOK, Req
<1>3. UNCHANGED <<tables, used, astray, behind>>
  BY DEF ReplaceSnapshot
<1> QED
  BY <1>1, <1>2, <1>3, TypeParts, SameTables DEF RestOK, TypeOK

LEMMA FailTyped ==
  ASSUME TypeOK, StagesInv, NEW c \in Clients, Fail(c)
  PROVE  TypeOK'
<1>1. used' \in [{"requests", "faults", "binds", "starts"} -> Nat]
  BY Bounded DEF Fail, TypeOK
<1> QED
  BY <1>1, AbandonTyped DEF Fail

LEMMA BindTyped ==
  ASSUME TypeOK, NEW B \in Contracts, bound' = B, BindPlugin
  PROVE  TypeOK' /\ keys \subseteq keys' /\ UNCHANGED <<roleId, permId, assigned, granted, req>>
         /\ astray' = astray \cup {r \in Ids : PermsOf(r) \cap (keys' \ keys) # {}}
         /\ behind' # {}
<1>1. /\ keys' = keys \cup {b[2] : b \in B}
      /\ astray' = astray \cup {r \in Ids : PermsOf(r) \cap (keys' \ keys) # {}}
      /\ behind' = behind \cup {"bound"}
      /\ UNCHANGED <<roleId, permId, lastId, assigned, granted, userRole, snapshot, req>>
  BY DEF BindPlugin
<1>2. B \subseteq Targets \X Keys
  BY AccessAssumption DEF Targets
<1>3. keys' \subseteq Keys /\ bound' \subseteq Targets \X keys'
  BY <1>1, <1>2 DEF TypeOK
<1>4. used' \in [{"requests", "faults", "binds", "starts"} -> Nat]
  BY Bounded DEF BindPlugin, TypeOK
<1>5. LiveRoles' = LiveRoles /\ LivePerms' = LivePerms
  BY <1>1 DEF LiveRoles, LivePerms
<1>6. TypeOK'
  BY <1>1, <1>3, <1>4, <1>5 DEF TypeOK
<1> QED
  BY <1>1, <1>6

LEMMA RestartTyped ==
  ASSUME TypeOK, StagesInv, Restart
  PROVE  TypeOK'
<1>1. req' \in [Clients -> Req]
  BY NoReqTyped DEF Restart
<1>2. snapshot' \in Copy
  BY TypeParts, CompileTyped DEF Restart
<1>3. astray' \subseteq Ids
  BY DEF Restart, StagesInv, Stages, TypeOK
<1>4. used' \in [{"requests", "faults", "binds", "starts"} -> Nat]
  BY Bounded DEF Restart, TypeOK
<1>5. UNCHANGED tables /\ behind' = {}
  BY DEF Restart
<1> QED
  BY <1>1, <1>2, <1>3, <1>4, <1>5, TypeParts, SameTables DEF RestOK

-------------------------------------------------------------------------------
\* Every step keeps the types.
LEMMA NextTyped ==
  ASSUME TypeOK, StagesInv, [Next]_vars
  PROVE  TypeOK'
<1>1. CASE CreateRole
  BY <1>1, NewRole
<1>2. CASE CreatePermission
  BY <1>2, NewPermission DEF CreatePermission
<1>3. CASE DeleteUser
  BY <1>3, UserGone
<1>4. CASE BindPlugin
  BY <1>4, BindTyped DEF BindPlugin
<1>5. CASE Restart
  BY <1>5, RestartTyped
<1>6. ASSUME NEW c \in Clients, Step(c) PROVE TypeOK'
  <2>1. CASE DeleteRole(c) \/ DeletePermission(c) \/ CreateUser(c) \/ ReplacePermissions(c)
    BY <2>1, StartsTyped
  <2>2. CASE DropRole(c)
    BY <2>2, RoleGone
  <2>3. CASE DropPermission(c)
    BY <2>3, PermissionGone
  <2>4. CASE CountUsers(c) \/ InsertUser(c) \/ Clear(c)
    BY <2>4, CountTyped, UserTyped, ClearTyped
  <2>5. CASE Insert(c)
    BY <2>5, Inserted
  <2>6. CASE Ungrant(c) \/ Grant(c)
    BY <2>6, UngrantTyped, GrantTyped
  <2>7. CASE Refresh(c)
    BY <2>7, Refreshed
  <2>8. CASE ReplaceSnapshot(c) \/ Fail(c)
    BY <2>8, ReplaceTyped, FailTyped
  <2> QED
    BY <1>6, <2>1, <2>2, <2>3, <2>4, <2>5, <2>6, <2>7, <2>8 DEF Step
<1>7. CASE UNCHANGED vars
  BY <1>7, TypeParts, SameTables DEF vars, RestOK
<1> QED
  BY <1>1, <1>2, <1>3, <1>4, <1>5, <1>6, <1>7 DEF Next

\* A request that is started is at its first stage, and had none before.
LEMMA StartMoves ==
  ASSUME TypeOK, NEW c \in Clients, NEW r \in Req, Start(c, r)
  PROVE  /\ req[c].at = "idle" /\ req'[c] = r
         /\ \A d \in Clients \ {c} : req'[d] = req[d]
  BY DEF Start, TypeOK

LEMMA StepStages ==
  ASSUME TypeOK, StagesInv, NEW c \in Clients, Step(c)
  PROVE  StagesInv'
<1>0. SUFFICES /\ \A d \in Clients \ {c} : req'[d] = req[d]
               /\ req'[c].at \in Stages => req'[c].op = "replace" /\ req'[c].role \in Ids
  BY DEF StagesInv
<1>1. CASE DeleteRole(c) \/ DeletePermission(c) \/ CreateUser(c) \/ ReplacePermissions(c)
  <2>1. PICK r \in Req : /\ Start(c, r) /\ r.at \in {"count", "delete", "create", "clear"}
                         /\ r.at = "clear" => r.op = "replace" /\ r.role \in Ids
    BY <1>1, StartsTyped
  <2> QED
    BY <2>1, StartMoves DEF Stages
<1>2. CASE End(c)
  BY <1>2, Gone, NoReqTyped DEF Stages
<1>3. CASE CountUsers(c) /\ ~End(c)
  <2>1. Goto(c, "delete")
    BY <1>3 DEF CountUsers
  <2> QED
    BY <2>1, Moved DEF Stages
<1>4. CASE Clear(c) \/ Ungrant(c) \/ Grant(c)
  <2>1. PICK at \in {"insert", "ungrant", "grant", "grants"} : Goto(c, at) /\ req[c].at \in Stages
    BY <1>4 DEF Clear, Ungrant, Grant, At, Stages
  <2> QED
    BY <2>1, Moved DEF StagesInv
<1>5. CASE Insert(c) /\ ~End(c)
  <2>1. req[c].at \in Stages /\ ~Abandon(c)
    BY <1>5 DEF Insert, At, Stages, Abandon
  <2> QED
    BY <1>5, <2>1, Inserted DEF StagesInv
<1>6. CASE Refresh(c)
  BY <1>6, Refreshed DEF StagesInv, Stages
<1> QED
  BY <1>1, <1>2, <1>3, <1>4, <1>5, <1>6
     DEF Step, DropRole, DropPermission, InsertUser, ReplaceSnapshot, Fail, Abandon

LEMMA NextStages ==
  ASSUME TypeOK, StagesInv, [Next]_vars
  PROVE  StagesInv'
<1>1. CASE UNCHANGED req
  BY <1>1 DEF StagesInv
<1>2. CASE Restart
  BY <1>2, NoReqTyped DEF Restart, StagesInv, Stages
<1> QED
  BY <1>1, <1>2, StepStages
     DEF Next, vars, CreateRole, CreatePermission, DeleteUser, BindPlugin

-------------------------------------------------------------------------------
\* Grants and permissions.
Loose  == {"insert", "ungrant"}
Undone == {"insert", "ungrant", "grant"}

\* What a step that changes nothing a role's grants depend on may do to the
\* requests: replacements that are half way stay so, or leave their role astray.
LEMMA StillKeepsGrants ==
  ASSUME GrantsInv, UNCHANGED <<roleId, permId, assigned, granted, keys>>, astray \subseteq astray',
         \A d \in Clients : req[d].at \in Undone =>
            \/ req[d].role \in astray'
            \/ req'[d].at = req[d].at /\ req'[d].role = req[d].role
  PROVE  GrantsInv'
<1> SUFFICES ASSUME NEW r \in LiveRoles' \ astray'
             PROVE  /\ ~Amid(r, Loose)' => Existing(r)' \subseteq PermsOf(r)' \cap keys'
                    /\ ~Amid(r, Undone)' => PermsOf(r)' \cap keys' \subseteq Existing(r)'
  BY DEF GrantsInv, Loose, Undone
<1>1. r \in LiveRoles \ astray
  BY DEF LiveRoles
<1>2. Existing(r)' = Existing(r) /\ PermsOf(r)' = PermsOf(r)
  BY DEF Existing, PermsOf
<1>3. Amid(r, Loose) => Amid(r, Loose)'
  BY DEF Amid, Loose, Undone
<1>4. Amid(r, Undone) => Amid(r, Undone)'
  BY DEF Amid, Undone
<1> QED
  BY <1>1, <1>2, <1>3, <1>4 DEF GrantsInv, Loose, Undone

\* A request that is not half way changes what it is about; a request that ends
\* half way leaves its role astray.
LEMMA OneKeepsGrants ==
  ASSUME GrantsInv, UNCHANGED <<roleId, permId, assigned, granted, keys>>, astray \subseteq astray',
         NEW c \in Clients, \A d \in Clients \ {c} : req'[d] = req[d],
         req[c].at \in Undone => req[c].role \in astray'
  PROVE  GrantsInv'
  BY StillKeepsGrants

LEMMA AbandonKeepsGrants ==
  ASSUME TypeOK, GrantsInv, NEW c \in Clients, Abandon(c)
  PROVE  GrantsInv'
<1>1. \A d \in Clients \ {c} : req'[d] = req[d]
  BY Gone DEF Abandon
<1>2. UNCHANGED <<roleId, permId, assigned, granted, keys>>
  BY DEF Abandon, tables
<1>3. astray \subseteq astray' /\ (req[c].at \in Undone => req[c].role \in astray')
  BY DEF Abandon, Undone
<1> QED
  BY <1>1, <1>2, <1>3, OneKeepsGrants

\* A new role has neither permissions nor grants.
LEMMA NewRoleKeepsGrants ==
  ASSUME TypeOK, GrantsInv, CreateRole
  PROVE  GrantsInv'
<1>1. PICK s \in Roles : InsertRole(s)
  BY DEF CreateRole
<1>2. UNCHANGED <<permId, assigned, keys, granted, req, astray>>
  BY DEF CreateRole
<1> DEFINE n == lastId.role + 1
<1>3. roleId' = [roleId EXCEPT ![s] = n] /\ n \notin LiveRoles
  BY <1>1 DEF InsertRole, TypeOK, LiveRoles, Ids
<1> HIDE DEF n
<1>4. LiveRoles' \subseteq LiveRoles \cup {n}
  BY <1>3 DEF LiveRoles, TypeOK
<1>5. \A r \in LiveRoles \ astray :
        /\ ~Amid(r, Loose)' => Existing(r)' \subseteq PermsOf(r)' \cap keys'
        /\ ~Amid(r, Undone)' => PermsOf(r)' \cap keys' \subseteq Existing(r)'
  BY <1>2 DEF GrantsInv, Amid, Existing, PermsOf, Loose, Undone
<1>6. /\ \A p \in Perms : <<n, p>> \notin granted
      /\ \A i \in Ids : <<n, i>> \notin assigned
  BY <1>3 DEF TypeOK
<1>7. ASSUME NEW r, r = n PROVE Existing(r)' = {} /\ PermsOf(r)' = {}
  <2>1. \A p \in Perms : permId[p] \in Ids \cup {0}
    BY DEF TypeOK
  <2>2. \A p \in Perms : <<r, p>> \notin granted'
    BY <1>2, <1>6, <1>7
  <2>3. \A p \in Perms : permId'[p] # 0 => <<r, permId'[p]>> \notin assigned'
    BY <1>2, <1>6, <1>7, <2>1
  <2> QED
    BY <2>2, <2>3 DEF Existing, PermsOf
<1>8. \A r \in LiveRoles' \ astray' :
        /\ ~Amid(r, Loose)' => Existing(r)' \subseteq PermsOf(r)' \cap keys'
        /\ ~Amid(r, Undone)' => PermsOf(r)' \cap keys' \subseteq Existing(r)'
  <2> TAKE r \in LiveRoles' \ astray'
  <2>1. CASE r = n
    BY <2>1, <1>7
  <2>2. CASE r # n
    BY <2>2, <1>2, <1>4, <1>5
  <2> QED
    BY <2>1, <2>2
<1> QED
  BY <1>8 DEF GrantsInv, Loose, Undone

\* A permission that is created is nobody's; who holds its grant already is astray.
LEMMA NewPermissionKeepsGrants ==
  ASSUME TypeOK, GrantsInv, CreatePermission
  PROVE  GrantsInv'
<1>1. PICK p \in Perms : /\ InsertPermission(p)
                         /\ astray' = astray \cup {r \in Ids : <<r, p>> \in granted}
  BY DEF CreatePermission
<1>2. UNCHANGED <<roleId, assigned, keys, granted, req>>
  BY DEF CreatePermission
<1> DEFINE n == lastId.perm + 1
<1>3. permId' = [permId EXCEPT ![p] = n] /\ n \notin LivePerms /\ permId[p] = 0 /\ n # 0
  BY <1>1 DEF InsertPermission, TypeOK, LivePerms, Ids
<1> HIDE DEF n
<1> SUFFICES ASSUME NEW r \in LiveRoles' \ astray'
             PROVE  /\ ~Amid(r, Loose)' => Existing(r)' \subseteq PermsOf(r)' \cap keys'
                    /\ ~Amid(r, Undone)' => PermsOf(r)' \cap keys' \subseteq Existing(r)'
  BY DEF GrantsInv, Loose, Undone
<1>4. r \in LiveRoles \ astray /\ r \in Ids /\ <<r, p>> \notin granted
  BY <1>1, <1>2 DEF LiveRoles, TypeOK
<1>5. Existing(r)' = Existing(r)
  BY <1>2, <1>3, <1>4 DEF Existing, TypeOK
<1>6. <<r, n>> \notin assigned
  BY <1>3 DEF TypeOK
<1>7. PermsOf(r)' = PermsOf(r)
  BY <1>2, <1>3, <1>6 DEF PermsOf, TypeOK
<1> QED
  BY <1>2, <1>4, <1>5, <1>7 DEF GrantsInv, Amid, Loose, Undone

\* A plugin's new keys concern the roles with a permission of that name.
LEMMA BindKeepsGrants ==
  ASSUME TypeOK, GrantsInv, BindPlugin
  PROVE  GrantsInv'
<1>1. /\ keys \subseteq keys' /\ UNCHANGED <<roleId, permId, assigned, granted, req>>
      /\ astray' = astray \cup {r \in Ids : PermsOf(r) \cap (keys' \ keys) # {}}
  BY BindTyped DEF BindPlugin
<1> SUFFICES ASSUME NEW r \in LiveRoles' \ astray'
             PROVE  /\ ~Amid(r, Loose)' => Existing(r)' \subseteq PermsOf(r)' \cap keys'
                    /\ ~Amid(r, Undone)' => PermsOf(r)' \cap keys' \subseteq Existing(r)'
  BY DEF GrantsInv, Loose, Undone
<1>2. r \in LiveRoles \ astray /\ r \in Ids
  BY <1>1 DEF LiveRoles, TypeOK
<1>3. PermsOf(r) \cap (keys' \ keys) = {}
  BY <1>1, <1>2
<1>4. Existing(r)' = Existing(r) /\ PermsOf(r)' = PermsOf(r)
  BY <1>1 DEF Existing, PermsOf
<1>5. PermsOf(r)' \cap keys' = PermsOf(r) \cap keys
  BY <1>1, <1>3, <1>4
<1>6. (Amid(r, Loose)' <=> Amid(r, Loose)) /\ (Amid(r, Undone)' <=> Amid(r, Undone))
  BY <1>1 DEF Amid
<1> QED
  BY <1>2, <1>4, <1>5, <1>6 DEF GrantsInv, Loose, Undone

LEMMA RestartKeepsGrants ==
  ASSUME TypeOK, GrantsInv, Restart
  PROVE  GrantsInv'
<1>1. UNCHANGED <<roleId, permId, assigned, granted, keys>>
  BY DEF Restart, tables
<1>2. astray \subseteq astray' /\ \A d \in Clients : req[d].at \in Undone => req[d].role \in astray'
  BY DEF Restart, Undone
<1> QED
  BY <1>1, <1>2, StillKeepsGrants

\* What is to be shown of a step, role by role: what the role's grants and
\* permissions become, and which replacements are half way.
LEMMA ByRole ==
  ASSUME \A r \in LiveRoles' \ astray' :
           /\ ~Amid(r, Loose)' => Existing(r)' \subseteq PermsOf(r)' \cap keys'
           /\ ~Amid(r, Undone)' => PermsOf(r)' \cap keys' \subseteq Existing(r)'
  PROVE  GrantsInv'
  BY DEF GrantsInv, Loose, Undone

\* The rows of the other roles stay when a role is deleted.
LEMMA DropRoleKeepsGrants ==
  ASSUME TypeOK, GrantsInv, NEW c \in Clients, DropRole(c)
  PROVE  GrantsInv'
<1>1. /\ assigned' = {a \in assigned : a[1] # req[c].role}
      /\ granted' = {g \in granted : g[1] # req[c].role}
      /\ UNCHANGED <<permId, keys, astray>> /\ req[c].at = "delete"
  BY DEF DropRole, At
<1>2. LiveRoles' = LiveRoles \ {req[c].role}
  BY RoleGone
<1>3. \A d \in Clients \ {c} : req'[d] = req[d]
  BY Gone DEF DropRole
<1> SUFFICES ASSUME NEW r \in LiveRoles' \ astray'
             PROVE  /\ ~Amid(r, Loose)' => Existing(r)' \subseteq PermsOf(r)' \cap keys'
                    /\ ~Amid(r, Undone)' => PermsOf(r)' \cap keys' \subseteq Existing(r)'
  BY ByRole
<1>4. r \in LiveRoles \ astray /\ r # req[c].role
  BY <1>1, <1>2
<1>5. Existing(r)' = Existing(r) /\ PermsOf(r)' = PermsOf(r)
  BY <1>1, <1>4 DEF Existing, PermsOf
<1>6. (Amid(r, Loose) => Amid(r, Loose)') /\ (Amid(r, Undone) => Amid(r, Undone)')
  BY <1>1, <1>3 DEF Amid, Loose, Undone
<1> QED
  BY <1>1, <1>4, <1>5, <1>6 DEF GrantsInv, Loose, Undone

\* A permission that is deleted is nobody's any more, and its grants are no
\* longer those of a permission.
LEMMA DropPermissionKeepsGrants ==
  ASSUME TypeOK, GrantsInv, NEW c \in Clients, DropPermission(c)
  PROVE  GrantsInv'
<1> DEFINE i == req[c].perm
<1>1. /\ permId' = [p \in Perms |-> IF permId[p] = i THEN 0 ELSE permId[p]]
      /\ assigned' = {a \in assigned : a[2] # i}
      /\ UNCHANGED <<roleId, granted, keys, astray>> /\ req[c].at = "delete"
  BY DEF DropPermission, At
<1> HIDE DEF i
<1>3. \A d \in Clients \ {c} : req'[d] = req[d]
  BY Gone DEF DropPermission
<1> SUFFICES ASSUME NEW r \in LiveRoles' \ astray'
             PROVE  /\ ~Amid(r, Loose)' => Existing(r)' \subseteq PermsOf(r)' \cap keys'
                    /\ ~Amid(r, Undone)' => PermsOf(r)' \cap keys' \subseteq Existing(r)'
  BY ByRole
<1>4. r \in LiveRoles \ astray
  BY <1>1 DEF LiveRoles
<1>5. /\ Existing(r)' = {p \in Existing(r) : permId[p] # i}
      /\ PermsOf(r)' = {p \in PermsOf(r) : permId[p] # i}
  BY <1>1 DEF Existing, PermsOf
<1>6. (Amid(r, Loose) => Amid(r, Loose)') /\ (Amid(r, Undone) => Amid(r, Undone)')
  BY <1>1, <1>3 DEF Amid, Loose, Undone
<1> QED
  BY <1>1, <1>4, <1>5, <1>6 DEF GrantsInv, Loose, Undone

\* A replacement that changes the rows of its own role and goes on to a stage
\* at which the grants are not to be relied on yet.
LEMMA OtherRoles ==
  ASSUME TypeOK, GrantsInv, NEW c \in Clients, UNCHANGED <<roleId, permId, keys>>,
         \A d \in Clients \ {c} : req'[d] = req[d], req'[c].role = req[c].role,
         NEW r \in LiveRoles' \ astray', r # req[c].role,
         astray \subseteq astray' \cup {req[c].role},
         \A i : (<<r, i>> \in assigned' <=> <<r, i>> \in assigned)
                /\ (<<r, i>> \in granted' <=> <<r, i>> \in granted)
  PROVE  /\ ~Amid(r, Loose)' => Existing(r)' \subseteq PermsOf(r)' \cap keys'
         /\ ~Amid(r, Undone)' => PermsOf(r)' \cap keys' \subseteq Existing(r)'
<1>1. r \in LiveRoles \ astray
  BY DEF LiveRoles
<1>2. Existing(r)' = Existing(r) /\ PermsOf(r)' = PermsOf(r)
  BY DEF Existing, PermsOf
<1>3. (Amid(r, Loose) => Amid(r, Loose)') /\ (Amid(r, Undone) => Amid(r, Undone)')
  BY DEF Amid
<1> QED
  BY <1>1, <1>2, <1>3 DEF GrantsInv, Loose, Undone

LEMMA ClearKeepsGrants ==
  ASSUME TypeOK, GrantsInv, NEW c \in Clients, Clear(c)
  PROVE  GrantsInv'
<1>1. /\ assigned' = {a \in assigned : a[1] # req[c].role}
      /\ UNCHANGED <<roleId, permId, keys, granted, astray>>
  BY DEF Clear
<1>2. /\ \A d \in Clients \ {c} : req'[d] = req[d]
      /\ req'[c].role = req[c].role /\ req'[c].at \in {"ungrant", "insert"}
  BY Moved DEF Clear
<1> SUFFICES ASSUME NEW r \in LiveRoles' \ astray'
             PROVE  /\ ~Amid(r, Loose)' => Existing(r)' \subseteq PermsOf(r)' \cap keys'
                    /\ ~Amid(r, Undone)' => PermsOf(r)' \cap keys' \subseteq Existing(r)'
  BY ByRole
<1>3. CASE r = req[c].role
  BY <1>2, <1>3 DEF Amid, Loose, Undone
<1>4. CASE r # req[c].role
  BY <1>1, <1>2, <1>4, OtherRoles
<1> QED
  BY <1>3, <1>4

LEMMA InsertKeepsGrants ==
  ASSUME TypeOK, StagesInv, GrantsInv, NEW c \in Clients, Insert(c)
  PROVE  GrantsInv'
<1>1. CASE Abandon(c)
  BY <1>1, AbandonKeepsGrants
<1>2. CASE ~Abandon(c)
  <2>1. /\ req'[c].at \in {"insert", "ungrant"} /\ req'[c].role = req[c].role
        /\ \A d \in Clients \ {c} : req'[d] = req[d]
        /\ UNCHANGED <<roleId, permId, keys, granted, astray>>
    BY <1>2, Inserted
  <2>2. PICK p \in LivePerms : assigned' = assigned \cup {<<req[c].role, p>>}
    BY <1>2, Inserted
  <2> SUFFICES ASSUME NEW r \in LiveRoles' \ astray'
               PROVE  /\ ~Amid(r, Loose)' => Existing(r)' \subseteq PermsOf(r)' \cap keys'
                      /\ ~Amid(r, Undone)' => PermsOf(r)' \cap keys' \subseteq Existing(r)'
    BY ByRole
  <2>3. CASE r = req[c].role
    BY <2>1, <2>3 DEF Amid, Loose, Undone
  <2>4. CASE r # req[c].role
    BY <2>1, <2>2, <2>4, OtherRoles
  <2> QED
    BY <2>3, <2>4
<1> QED
  BY <1>1, <1>2

\* No derived grant is left of the role, and no permission of it is without the
\* grant that this request is about to rebuild.
LEMMA UngrantKeepsGrants ==
  ASSUME TypeOK, GrantsInv, NEW c \in Clients, Ungrant(c)
  PROVE  GrantsInv'
<1>1. /\ granted' = granted \ Owned(req[c].role, Existing(req[c].role))
      /\ UNCHANGED <<roleId, permId, keys, assigned>> /\ astray' = astray \ {req[c].role}
  BY DEF Ungrant
<1>2. /\ \A d \in Clients \ {c} : req'[d] = req[d]
      /\ req'[c].role = req[c].role /\ req'[c].at = "grant"
  BY Moved DEF Ungrant
<1> SUFFICES ASSUME NEW r \in LiveRoles' \ astray'
             PROVE  /\ ~Amid(r, Loose)' => Existing(r)' \subseteq PermsOf(r)' \cap keys'
                    /\ ~Amid(r, Undone)' => PermsOf(r)' \cap keys' \subseteq Existing(r)'
  BY ByRole
<1>3. CASE r = req[c].role
  <2>1. Existing(r)' = {}
    BY <1>1, <1>3 DEF Existing, Owned
  <2>2. Amid(r, Undone)'
    BY <1>2, <1>3 DEF Amid, Undone
  <2> QED
    BY <2>1, <2>2
<1>4. CASE r # req[c].role
  <2>1. \A i : <<r, i>> \in granted' <=> <<r, i>> \in granted
    BY <1>1, <1>4 DEF Owned
  <2> QED
    BY <1>1, <1>2, <1>4, <2>1, OtherRoles
<1> QED
  BY <1>3, <1>4

LEMMA GrantKeepsGrants ==
  ASSUME TypeOK, GrantsInv, NEW c \in Clients, Grant(c)
  PROVE  GrantsInv'
<1>1. /\ granted' = granted \cup Owned(req[c].role, PermsOf(req[c].role) \cap keys)
      /\ UNCHANGED <<roleId, permId, keys, assigned, astray>> /\ req[c].at = "grant"
  BY DEF Grant, At
<1>2. /\ \A d \in Clients \ {c} : req'[d] = req[d]
      /\ req'[c].role = req[c].role /\ req'[c].at = "grants"
  BY Moved DEF Grant
<1> SUFFICES ASSUME NEW r \in LiveRoles' \ astray'
             PROVE  /\ ~Amid(r, Loose)' => Existing(r)' \subseteq PermsOf(r)' \cap keys'
                    /\ ~Amid(r, Undone)' => PermsOf(r)' \cap keys' \subseteq Existing(r)'
  BY ByRole
<1>3. CASE r = req[c].role
  <2>1. PermsOf(r)' = PermsOf(r)
    BY <1>1 DEF PermsOf
  <2>2. Existing(r)' = Existing(r) \cup (PermsOf(r) \cap keys)
    BY <1>1, <1>3 DEF Existing, PermsOf, Owned
  <2>3. Amid(r, Loose) => Amid(r, Loose)'
    BY <1>1, <1>2 DEF Amid, Loose
  <2>4. r \in LiveRoles \ astray
    BY <1>1 DEF LiveRoles
  <2> QED
    BY <1>1, <2>1, <2>2, <2>3, <2>4 DEF GrantsInv, Loose
<1>4. CASE r # req[c].role
  <2>1. \A i : <<r, i>> \in granted' <=> <<r, i>> \in granted
    BY <1>1, <1>4 DEF Owned
  <2> QED
    BY <1>1, <1>2, <1>4, <2>1, OtherRoles
<1> QED
  BY <1>3, <1>4

LEMMA NextKeepsGrants ==
  ASSUME TypeOK, StagesInv, GrantsInv, [Next]_vars
  PROVE  GrantsInv'
<1>1. CASE CreateRole \/ CreatePermission \/ BindPlugin \/ Restart
  BY <1>1, NewRoleKeepsGrants, NewPermissionKeepsGrants, BindKeepsGrants, RestartKeepsGrants
<1>2. CASE DeleteUser \/ UNCHANGED vars
  BY <1>2, StillKeepsGrants DEF DeleteUser, vars, tables
<1>3. ASSUME NEW c \in Clients, Step(c) PROVE GrantsInv'
  <2>1. CASE DeleteRole(c) \/ DeletePermission(c) \/ CreateUser(c) \/ ReplacePermissions(c)
    <3>1. PICK r \in Req : Start(c, r) /\ UNCHANGED <<tables, snapshot, astray, behind>>
      BY <2>1, StartsTyped
    <3>2. req[c].at = "idle" /\ \A d \in Clients \ {c} : req'[d] = req[d]
      BY <3>1, StartMoves
    <3> QED
      BY <3>1, <3>2, OneKeepsGrants DEF tables, Undone
  <2>2. CASE CountUsers(c)
    <3>1. req[c].at = "count" /\ \A d \in Clients \ {c} : req'[d] = req[d]
      BY <2>2, Gone, Moved DEF CountUsers, At
    <3> QED
      BY <2>2, <3>1, OneKeepsGrants DEF CountUsers, tables, Undone
  <2>3. CASE InsertUser(c)
    <3>1. req[c].at = "create" /\ \A d \in Clients \ {c} : req'[d] = req[d]
      BY <2>3, Gone DEF InsertUser, At
    <3> QED
      BY <2>3, <3>1, OneKeepsGrants DEF InsertUser, Undone
  <2>4. CASE DropRole(c) \/ DropPermission(c) \/ Clear(c)
    BY <2>4, DropRoleKeepsGrants, DropPermissionKeepsGrants, ClearKeepsGrants
  <2>5. CASE Insert(c) \/ Ungrant(c) \/ Grant(c)
    BY <2>5, InsertKeepsGrants, UngrantKeepsGrants, GrantKeepsGrants
  <2>6. CASE Refresh(c)
    <3>1. /\ req[c].at \in {"grants", "http", "cli"} /\ \A d \in Clients \ {c} : req'[d] = req[d]
          /\ UNCHANGED <<tables, snapshot, used, astray, behind>>
      BY <2>6, Refreshed
    <3> QED
      BY <3>1, OneKeepsGrants DEF tables, Undone
  <2>7. CASE ReplaceSnapshot(c)
    <3>1. req[c].at = "publish" /\ \A d \in Clients \ {c} : req'[d] = req[d]
      BY <2>7, Gone DEF ReplaceSnapshot, At
    <3> QED
      BY <2>7, <3>1, OneKeepsGrants DEF ReplaceSnapshot, tables, Undone
  <2>8. CASE Fail(c)
    BY <2>8, AbandonKeepsGrants DEF Fail
  <2> QED
    BY <1>3, <2>1, <2>2, <2>3, <2>4, <2>5, <2>6, <2>7, <2>8 DEF Step
<1> QED
  BY <1>1, <1>2, <1>3 DEF Next

-------------------------------------------------------------------------------
\* The snapshot and the copies that refreshes are compiling.

\* The rows stay, and a request that was about to publish still is: the copies
\* and the snapshot are as fresh as they were.
LEMMA OneKeepsSnapshot ==
  ASSUME SnapshotInv, UNCHANGED <<bound, snapshot>>, RoleRows' = RoleRows,
         behind' = {} => behind = {},
         NEW c \in Clients, \A d \in Clients \ {c} : req'[d] = req[d],
         behind' = {} /\ req[c].at \in Publishing => req'[c].at \in Publishing,
         behind' = {} => FreshCopy(c)'
  PROVE  SnapshotInv'
<1> SUFFICES ASSUME behind' = {}
             PROVE  /\ snapshot'.http = HttpRows' /\ snapshot'.cli = CliRows'
                    /\ (\A d \in Clients : req'[d].at \notin Publishing)
                         => snapshot'.grants = RoleRows'
                    /\ \A d \in Clients : FreshCopy(d)'
  BY DEF SnapshotInv, Publishing
<1>1. HttpRows' = HttpRows /\ CliRows' = CliRows
  BY DEF HttpRows, CliRows
<1>2. \A d \in Clients \ {c} : FreshCopy(d)'
  BY <1>1 DEF SnapshotInv, FreshCopy
<1>3. \A d \in Clients : FreshCopy(d)'
  BY <1>2
<1>4. (\A d \in Clients : req'[d].at \notin Publishing)
        => \A d \in Clients : req[d].at \notin Publishing
  OBVIOUS
<1> QED
  BY <1>1, <1>3, <1>4 DEF SnapshotInv

LEMMA SameKeepsSnapshot ==
  ASSUME SnapshotInv, UNCHANGED <<bound, snapshot, behind, req>>, RoleRows' = RoleRows
  PROVE  SnapshotInv'
  BY DEF SnapshotInv, FreshCopy, HttpRows, CliRows, Publishing

LEMMA SameRows ==
  ASSUME UNCHANGED <<roleId, granted>>
  PROVE  RoleRows' = RoleRows
  BY DEF RoleRows

\* A request that is not a refresh under way has no copy to be fresh.
LEMMA EarlyIsFresh ==
  ASSUME NEW c \in Clients, req'[c].at \notin {"http", "cli", "publish"}
  PROVE  FreshCopy(c)'
  BY DEF FreshCopy

LEMMA EndKeepsSnapshot ==
  ASSUME TypeOK, SnapshotInv, UNCHANGED <<bound, snapshot, roleId, granted>>,
         behind' = {} => behind = {},
         NEW c \in Clients, End(c), behind' = {} => req[c].at \notin Publishing
  PROVE  SnapshotInv'
<1>1. /\ \A d \in Clients \ {c} : req'[d] = req[d]
      /\ req'[c].at \notin {"http", "cli", "publish"}
  BY Gone, NoReqTyped
<1> QED
  BY <1>1, EarlyIsFresh, SameRows, OneKeepsSnapshot

LEMMA GotoKeepsSnapshot ==
  ASSUME TypeOK, SnapshotInv, UNCHANGED <<bound, snapshot, roleId, granted, behind>>,
         NEW c \in Clients, NEW at \in {"delete", "insert", "ungrant"}, Goto(c, at),
         req[c].at \notin Publishing
  PROVE  SnapshotInv'
<1>1. /\ \A d \in Clients \ {c} : req'[d] = req[d]
      /\ req'[c].at \notin {"http", "cli", "publish"}
  BY Moved
<1> QED
  BY <1>1, EarlyIsFresh, SameRows, OneKeepsSnapshot

LEMMA NewRoleKeepsSnapshot ==
  ASSUME TypeOK, SnapshotInv, CreateRole
  PROVE  SnapshotInv'
<1>1. PICK s \in Roles : InsertRole(s)
  BY DEF CreateRole
<1>2. UNCHANGED <<granted, bound, snapshot, req, behind>>
  BY DEF CreateRole
<1> DEFINE n == lastId.role + 1
<1>3. roleId' = [roleId EXCEPT ![s] = n] /\ n \notin LiveRoles /\ roleId[s] = 0
  BY <1>1 DEF InsertRole, TypeOK, LiveRoles, Ids
<1> HIDE DEF n
<1>4. \A k \in Keys : <<n, k>> \notin granted
  BY <1>3 DEF TypeOK
<1>5. \A z \in Roles, k \in Keys :
        (roleId'[z] # 0 /\ <<roleId'[z], k>> \in granted') <=>
        (roleId[z] # 0 /\ <<roleId[z], k>> \in granted)
  <2> TAKE z \in Roles, k \in Keys
  <2>1. CASE z = s
    <3>1. roleId'[z] = n /\ roleId[z] = 0
      BY <2>1, <1>3 DEF TypeOK
    <3> QED
      BY <3>1, <1>2, <1>4
  <2>2. CASE z # s
    <3>1. roleId'[z] = roleId[z]
      BY <2>2, <1>3 DEF TypeOK
    <3> QED
      BY <3>1, <1>2
  <2> QED
    BY <2>1, <2>2
<1>6. RoleRows' = RoleRows
  BY <1>5 DEF RoleRows
<1> QED
  BY <1>2, <1>6, SameKeepsSnapshot

\* What a change of the grants makes stale is only what this request publishes.
LEMMA ChangeKeepsSnapshot ==
  ASSUME TypeOK, SnapshotInv, NEW c \in Clients, Ungrant(c) \/ Grant(c)
  PROVE  SnapshotInv'
<1>1. /\ UNCHANGED <<bound, snapshot>> /\ Changing(c)
      /\ \A d \in Clients \ {c} : req'[d] = req[d]
      /\ req'[c].at \in {"grant", "grants"}
  BY Moved DEF Ungrant, Grant
<1> SUFFICES ASSUME behind' = {}
             PROVE  /\ snapshot'.http = HttpRows' /\ snapshot'.cli = CliRows'
                    /\ (\A d \in Clients : req'[d].at \notin Publishing)
                         => snapshot'.grants = RoleRows'
                    /\ \A d \in Clients : FreshCopy(d)'
  BY DEF SnapshotInv, Publishing
<1>2. behind = {} /\ ~Refreshing(c)
  BY <1>1, ChangingTyped
<1>3. \A d \in Clients : req'[d].at \notin {"http", "cli", "publish"}
  BY <1>1, <1>2 DEF Refreshing
<1>4. \A d \in Clients : FreshCopy(d)'
  BY <1>3, EarlyIsFresh
<1>5. HttpRows' = HttpRows /\ CliRows' = CliRows
  BY <1>1 DEF HttpRows, CliRows
<1> QED
  BY <1>1, <1>2, <1>4, <1>5 DEF SnapshotInv, Publishing

\* Each read finds what the tables hold now.
LEMMA RefreshKeepsSnapshot ==
  ASSUME TypeOK, StagesInv, SnapshotInv, NEW c \in Clients, Refresh(c)
  PROVE  SnapshotInv'
<1>1. /\ \A d \in Clients \ {c} : req'[d] = req[d]
      /\ UNCHANGED <<tables, snapshot, used, astray, behind>>
      /\ req'[c].at \in Publishing
  BY Refreshed DEF Publishing
<1>2. RoleRows' = RoleRows /\ HttpRows' = HttpRows /\ CliRows' = CliRows
  BY <1>1 DEF tables, RoleRows, HttpRows, CliRows
<1>3. req[c].copy \in Copy
  BY DEF TypeOK, Req
<1>4. ASSUME behind = {} PROVE FreshCopy(c)'
  <2>1. FreshCopy(c)
    BY <1>4 DEF SnapshotInv
  <2>2. CASE /\ req[c].at = "grants" /\ req'[c].at = "http"
             /\ req'[c].copy = [req[c].copy EXCEPT !.grants = RoleRows]
    <3>1. req'[c].copy.grants = RoleRows
      BY <2>2, <1>3 DEF Copy
    <3> QED
      BY <2>2, <3>1, <1>2 DEF FreshCopy
  <2>3. CASE /\ req[c].at = "http" /\ req'[c].at = "cli"
             /\ req'[c].copy = [req[c].copy EXCEPT !.http = HttpRows]
    <3>1. req'[c].copy.http = HttpRows /\ req'[c].copy.grants = req[c].copy.grants
      BY <2>3, <1>3 DEF Copy
    <3> QED
      BY <2>1, <2>3, <3>1, <1>2 DEF FreshCopy
  <2>4. CASE /\ req[c].at = "cli" /\ req'[c].at = "publish"
             /\ req'[c].copy = [req[c].copy EXCEPT !.cli = CliRows]
    <3>1. /\ req'[c].copy.cli = CliRows /\ req'[c].copy.grants = req[c].copy.grants
          /\ req'[c].copy.http = req[c].copy.http
      BY <2>4, <1>3 DEF Copy
    <3> QED
      BY <2>1, <2>4, <3>1, <1>2 DEF FreshCopy
  <2> QED
    BY <2>2, <2>3, <2>4, Refreshed
<1> QED
  BY <1>1, <1>2, <1>4, OneKeepsSnapshot DEF tables

\* A fresh copy is published: the snapshot holds what the tables hold.
LEMMA ReplaceKeepsSnapshot ==
  ASSUME TypeOK, SnapshotInv, NEW c \in Clients, ReplaceSnapshot(c)
  PROVE  SnapshotInv'
<1>1. /\ snapshot' = req[c].copy /\ req[c].at = "publish" /\ UNCHANGED <<tables, behind>>
  BY DEF ReplaceSnapshot, At
<1>2. /\ \A d \in Clients \ {c} : req'[d] = req[d]
      /\ req'[c].at = "idle"
  BY Gone, NoReqTyped DEF ReplaceSnapshot
<1>3. RoleRows' = RoleRows /\ HttpRows' = HttpRows /\ CliRows' = CliRows
  BY <1>1 DEF tables, RoleRows, HttpRows, CliRows
<1>4. ASSUME behind = {}
      PROVE  /\ snapshot'.grants = RoleRows /\ snapshot'.http = HttpRows /\ snapshot'.cli = CliRows
             /\ \A d \in Clients : FreshCopy(d)'
  BY <1>1, <1>2, <1>3, <1>4 DEF SnapshotInv, FreshCopy
<1> QED
  BY <1>1, <1>3, <1>4 DEF SnapshotInv, Publishing

LEMMA RestartKeepsSnapshot ==
  ASSUME TypeOK, Restart
  PROVE  SnapshotInv'
<1>1. UNCHANGED tables /\ snapshot' = Compile /\ req' = [d \in Clients |-> NoReq]
  BY DEF Restart
<1>2. RoleRows' = RoleRows /\ HttpRows' = HttpRows /\ CliRows' = CliRows
  BY <1>1 DEF tables, RoleRows, HttpRows, CliRows
<1>3. snapshot'.grants = RoleRows /\ snapshot'.http = HttpRows /\ snapshot'.cli = CliRows
  BY <1>1 DEF Compile
<1>4. \A d \in Clients : req'[d].at = "idle"
  BY <1>1, NoReqTyped
<1> QED
  BY <1>2, <1>3, <1>4 DEF SnapshotInv, FreshCopy

LEMMA NextKeepsSnapshot ==
  ASSUME TypeOK, StagesInv, SnapshotInv, [Next]_vars
  PROVE  SnapshotInv'
<1>1. CASE CreateRole \/ Restart
  BY <1>1, NewRoleKeepsSnapshot, RestartKeepsSnapshot
<1>2. CASE CreatePermission \/ DeleteUser \/ UNCHANGED vars
  BY <1>2, SameRows, SameKeepsSnapshot DEF CreatePermission, DeleteUser, vars, tables
<1>3. CASE BindPlugin
  BY <1>3, BindTyped DEF BindPlugin, SnapshotInv
<1>4. ASSUME NEW c \in Clients, Step(c) PROVE SnapshotInv'
  <2>1. CASE DeleteRole(c) \/ DeletePermission(c) \/ CreateUser(c) \/ ReplacePermissions(c)
    <3>1. PICK r \in Req : /\ Start(c, r) /\ UNCHANGED <<tables, snapshot, astray, behind>>
                           /\ r.at \in {"count", "delete", "create", "clear"}
      BY <2>1, StartsTyped
    <3>2. /\ req[c].at = "idle" /\ \A d \in Clients \ {c} : req'[d] = req[d]
          /\ req'[c].at \notin {"http", "cli", "publish"}
      BY <3>1, StartMoves
    <3>3. UNCHANGED <<bound, snapshot, roleId, granted, behind>>
      BY <3>1 DEF tables
    <3> QED
      BY <3>2, <3>3, EarlyIsFresh, SameRows, OneKeepsSnapshot DEF Publishing
  <2>2. CASE CountUsers(c)
    <3>1. /\ req[c].at = "count" /\ UNCHANGED <<bound, snapshot, roleId, granted, behind>>
          /\ End(c) \/ Goto(c, "delete")
      BY <2>2 DEF CountUsers, At, tables
    <3> QED
      BY <3>1, EndKeepsSnapshot, GotoKeepsSnapshot DEF Publishing
  <2>3. CASE InsertUser(c)
    <3>1. /\ req[c].at = "create" /\ UNCHANGED <<bound, snapshot, roleId, granted, behind>>
          /\ End(c)
      BY <2>3 DEF InsertUser, At
    <3> QED
      BY <3>1, EndKeepsSnapshot DEF Publishing
  <2>4. CASE DropRole(c)
    BY <2>4 DEF DropRole, SnapshotInv
  <2>5. CASE DropPermission(c)
    <3>1. /\ req[c].at = "delete" /\ UNCHANGED <<bound, snapshot, roleId, granted, behind>>
          /\ End(c)
      BY <2>5 DEF DropPermission, At
    <3> QED
      BY <3>1, EndKeepsSnapshot DEF Publishing
  <2>6. CASE Clear(c)
    <3>1. /\ req[c].at = "clear" /\ UNCHANGED <<bound, snapshot, roleId, granted, behind>>
          /\ Goto(c, "insert") \/ Goto(c, "ungrant")
      BY <2>6 DEF Clear, At
    <3> QED
      BY <3>1, GotoKeepsSnapshot DEF Publishing
  <2>7. CASE Abandon(c)
    <3>1. /\ UNCHANGED <<bound, snapshot, roleId, granted>> /\ End(c)
          /\ behind' = {} => behind = {} /\ req[c].at \notin Publishing
      BY <2>7 DEF Abandon, tables, Publishing
    <3> QED
      BY <3>1, EndKeepsSnapshot
  <2>8. CASE Insert(c) /\ ~Abandon(c)
    <3>1. /\ req[c].at = "insert" /\ UNCHANGED <<bound, snapshot, roleId, granted, behind>>
          /\ \A d \in Clients \ {c} : req'[d] = req[d]
          /\ req'[c].at \notin {"http", "cli", "publish"}
      BY <2>8, Inserted DEF Insert, At
    <3> QED
      BY <3>1, EarlyIsFresh, SameRows, OneKeepsSnapshot DEF Publishing
  <2>9. CASE Ungrant(c) \/ Grant(c)
    BY <2>9, ChangeKeepsSnapshot
  <2>10. CASE Refresh(c) \/ ReplaceSnapshot(c)
    BY <2>10, RefreshKeepsSnapshot, ReplaceKeepsSnapshot
  <2> QED
    BY <1>4, <2>1, <2>2, <2>3, <2>4, <2>5, <2>6, <2>7, <2>8, <2>9, <2>10 DEF Step, Fail
<1> QED
  BY <1>1, <1>2, <1>3, <1>4 DEF Next

-------------------------------------------------------------------------------
\* A migrated database: roles whose grants do not follow their permissions are
\* astray, and the bootstrap has compiled the snapshot from the tables.
AccessInv == TypeOK /\ StagesInv /\ GrantsInv /\ SnapshotInv

LEMMA InitGrants ==
  ASSUME Init
  PROVE  GrantsInv
<1>1. astray = {r \in LiveRoles : Astray(r)}
  BY DEF Init
<1> QED
  BY <1>1 DEF GrantsInv, Astray

LEMMA InitSnapshot ==
  ASSUME Init
  PROVE  SnapshotInv
<1>0. PICK seed \in Seeds : Migrated(seed)
  BY DEF Init
<1>1. /\ SystemRoles \subseteq Roles /\ seed.keys \subseteq Keys
      /\ seed.granted \subseteq SystemRoles \X seed.keys
  BY AccessAssumption
<1>2. /\ req = [c \in Clients |-> NoReq]
      /\ snapshot = [grants |-> seed.granted, http |-> HttpRows, cli |-> CliRows]
  BY <1>0 DEF Init, Migrated
<1>3. \A s \in Roles, k \in Keys :
        (roleId[s] # 0 /\ <<roleId[s], k>> \in granted) <=> <<s, k>> \in seed.granted
  <2> TAKE s \in Roles, k \in Keys
  <2>1. ASSUME roleId[s] # 0, <<roleId[s], k>> \in granted PROVE <<s, k>> \in seed.granted
    <3>1. PICK g \in seed.granted : <<roleId[s], k>> = <<roleId[g[1]], g[2]>>
      BY <1>0, <2>1, Seeded
    <3>2. g[1] \in SystemRoles /\ g = <<g[1], g[2]>>
      BY <1>1
    <3>3. g[1] = s
      BY <1>0, <2>1, <3>1, <3>2, Seeded
    <3> QED
      BY <3>1, <3>2, <3>3
  <2>2. ASSUME <<s, k>> \in seed.granted PROVE roleId[s] # 0 /\ <<roleId[s], k>> \in granted
    <3>1. granted = {<<roleId[g[1]], g[2]>> : g \in seed.granted}
      BY <1>0, Seeded
    <3>2. <<roleId[s], k>> \in granted
      BY <2>2, <3>1
    <3> QED
      BY <1>0, <1>1, <2>2, <3>2, Seeded
  <2> QED
    BY <2>1, <2>2
<1>4. RoleRows = seed.granted
  BY <1>1, <1>3 DEF RoleRows
<1>5. snapshot.grants = RoleRows /\ snapshot.http = HttpRows /\ snapshot.cli = CliRows
  BY <1>2, <1>4
<1>6. \A c \in Clients : FreshCopy(c)
  BY <1>2, NoReqTyped DEF FreshCopy
<1> QED
  BY <1>5, <1>6 DEF SnapshotInv

LEMMA AccessInvariant == Spec => []AccessInv
<1>1. Init => AccessInv
  <2>1. Init => StagesInv
    BY NoReqTyped DEF Init, StagesInv, Stages
  <2> QED
    BY <2>1, InitType, InitGrants, InitSnapshot DEF AccessInv
<1>2. AccessInv /\ [Next]_vars => AccessInv'
  BY NextTyped, NextStages, NextKeepsGrants, NextKeepsSnapshot DEF AccessInv
<1> QED
  BY <1>1, <1>2, PTL DEF Spec

-------------------------------------------------------------------------------
\* The rows, the requests and the snapshot keep their types, and rows of
\* role_permissions and role_policy_keys refer to rows that are there, however
\* the statements of concurrent requests interleave, fail or are cut off.
THEOREM TypeCorrect == Spec => []TypeOK
<1>1. AccessInv => TypeOK
  BY DEF AccessInv
<1> QED
  BY <1>1, AccessInvariant, PTL

\* A role to which no replacement is under way has the keys of exactly its
\* permissions, unless a request left it half way, a deleted permission of it
\* was created again or a permission of it got its policy key later.
THEOREM GrantsAreDerived == Spec => []GrantsFollowPermissions
<1>1. AccessInv => GrantsFollowPermissions
  <2> SUFFICES ASSUME AccessInv, NEW r \in LiveRoles \ astray, ~Replacing(r)
               PROVE  Existing(r) = PermsOf(r) \cap keys
    BY DEF GrantsFollowPermissions
  <2>1. ~Amid(r, {"insert", "ungrant"}) /\ ~Amid(r, {"insert", "ungrant", "grant"})
    BY DEF Amid, Replacing, AccessInv, StagesInv, Stages
  <2> QED
    BY <2>1 DEF AccessInv, GrantsInv
<1> QED
  BY <1>1, AccessInvariant, PTL

\* With no refresh under way the authorizer decides as the tables would, unless
\* something changed them that refreshes nothing, a refresh was cut off, or two
\* requests overlapped.
THEOREM SnapshotDecidesAsTables == Spec => []SnapshotFollowsTables
<1>1. AccessInv => SnapshotFollowsTables
  <2> SUFFICES ASSUME AccessInv, Quiet, behind = {}, NEW s \in Roles
               PROVE  /\ \A t \in Routes : HttpAllowed(s, t) <=> Holds(s, t)
                      /\ \A t \in Commands : CommandAllowed(s, t) <=> Holds(s, t)
    BY DEF SnapshotFollowsTables
  <2>1. \A c \in Clients : req[c].at \notin Publishing
    BY DEF AccessInv, StagesInv, Stages, Quiet, Publishing
  <2>2. snapshot.grants = RoleRows /\ snapshot.http = HttpRows /\ snapshot.cli = CliRows
    BY <2>1 DEF AccessInv, SnapshotInv
  <2>3. \A k \in Keys : <<s, k>> \in snapshot.grants <=>
                          roleId[s] # 0 /\ <<roleId[s], k>> \in granted
    BY <2>2 DEF RoleRows
  <2>4. \A t \in Routes, k \in Keys : <<t, k>> \in snapshot.http <=> <<t, k>> \in bound
    BY <2>2 DEF HttpRows
  <2>5. \A t \in Commands, k \in Keys : <<t, k>> \in snapshot.cli <=> <<t, k>> \in bound
    BY <2>2 DEF CliRows
  <2> QED
    BY <2>3, <2>4, <2>5 DEF HttpAllowed, CommandAllowed, Holds
<1> QED
  BY <1>1, AccessInvariant, PTL

\* A grant of a key that is no permission of the moment ends only with its role:
\* what a plugin's contract or another surface gave a role is not dropped when
\* an administrator replaces the role's permissions.
THEOREM OtherGrantsAreLeft == Spec => OtherGrantsStay
<1>1. TypeOK /\ [Next]_vars =>
        \A r \in Ids, k \in Keys :
          <<r, k>> \in granted /\ <<r, k>> \notin granted' =>
            \/ \A s \in Roles : roleId'[s] # r
            \/ k \in Perms /\ permId[k] # 0
  <2> SUFFICES ASSUME TypeOK, [Next]_vars, NEW r \in Ids, NEW k \in Keys,
                      <<r, k>> \in granted, <<r, k>> \notin granted'
               PROVE  \/ \A s \in Roles : roleId'[s] # r
                      \/ k \in Perms /\ permId[k] # 0
    OBVIOUS
  <2>1. PICK c \in Clients : DropRole(c) \/ Ungrant(c) \/ Grant(c)
    <3>1. ~(UNCHANGED granted)
      OBVIOUS
    <3>2. PICK c \in Clients : Step(c)
      BY <3>1 DEF Next, vars, tables, CreateRole, CreatePermission, DeleteUser, BindPlugin, Restart
    <3>3. \/ DropRole(c) \/ Ungrant(c) \/ Grant(c)
          \/ UNCHANGED granted
      BY <3>2 DEF Step, DeleteRole, CountUsers, DeletePermission, DropPermission, CreateUser,
                  InsertUser, ReplacePermissions, Clear, Insert, Abandon, Refresh, Read,
                  ReplaceSnapshot, Fail, tables
    <3> QED
      BY <3>1, <3>3
  <2>2. CASE DropRole(c)
    <3>1. granted' = {g \in granted : g[1] # req[c].role}
          /\ roleId' = [s \in Roles |-> IF roleId[s] = req[c].role THEN 0 ELSE roleId[s]]
      BY <2>2 DEF DropRole
    <3>2. req[c].role = r /\ r # 0
      BY <3>1 DEF Ids
    <3> QED
      BY <3>1, <3>2
  <2>3. CASE Ungrant(c)
    BY <2>3 DEF Ungrant, Owned, Existing
  <2>4. CASE Grant(c)
    BY <2>4 DEF Grant
  <2> QED
    BY <2>1, <2>2, <2>3, <2>4
<1> QED
  BY <1>1, TypeCorrect, PTL DEF Spec, OtherGrantsStay
===============================================================================
