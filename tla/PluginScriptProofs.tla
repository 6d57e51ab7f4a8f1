------------------------- MODULE PluginScriptProofs -------------------------
(***************************************************************************)
(* Proofs about PluginScript, for any scripts, manifests, other plugins    *)
(* and number of calls.                                                    *)
(***************************************************************************)
EXTENDS PluginScript, FiniteSetTheorems, WellFoundedInduction, TLAPS

-------------------------------------------------------------------------------
\* What a plugin is granted is within what its manifest declares, what its
\* directory allows and what the profile grants.
GrantedWithin(m) ==
  LET p == Granted(m)
  IN  /\ p.routes => m.declared.routes /\ m.grants.approved /\ m.grants.routes # "no"
      /\ p.commands => m.declared.commands /\ m.grants.approved /\ m.grants.commands # "no"
      /\ p.admin => m.declared.admin /\ m.grants.approved /\ m.grants.admin # "no"

LEMMA GrantsClamp ==
  ASSUME NEW m \in ManifestRecord
  PROVE  GrantedWithin(m)
<1>1. /\ m.declared.routes \in BOOLEAN /\ m.declared.commands \in BOOLEAN /\ m.declared.admin \in BOOLEAN
      /\ m.declared = [routes |-> m.declared.routes, commands |-> m.declared.commands, admin |-> m.declared.admin,
                       database |-> m.declared.database]
  BY DEF ManifestRecord
<1> DEFINE p == ClampTo(m)
<1>2. p.routes = m.declared.routes /\ p.commands = m.declared.commands /\ p.admin = m.declared.admin
  BY <1>1 DEF ClampTo
<1> HIDE DEF p
<1>3. CASE ~m.grants.approved
  BY <1>3 DEF Granted, ClampToGrants, GrantedWithin, Nothing
<1>4. CASE m.grants.approved
  BY <1>2, <1>4 DEF Granted, ClampToGrants, GrantedWithin, p
<1> QED
  BY <1>3, <1>4
-------------------------------------------------------------------------------
\* The entries of the registry, in the order of the calls that made them.
TypeInv ==
  /\ phase \in {"skipped", "script", "served", "failed"}
  /\ manifest \in Manifests
  /\ calls \in 0 .. MaxCalls
  /\ entries \in Seq(EntryRecord) /\ Len(entries) <= calls
  /\ handlers \in [HandlerKeys -> 0 .. MaxCalls]
  /\ cache \subseteq Modules
  /\ dbOp \in Statements \cup {NoSql}
  /\ phase # "served" => published = {} /\ bindings = {}
  /\ phase = "skipped" => entries = <<>> /\ dbOp = NoSql

\* A set of numbers that is not empty has a least one.
LEMMA LeastNatural ==
  ASSUME NEW T \in SUBSET Nat, T # {}
  PROVE  \E x \in T : \A y \in T : ~(y < x)
<1> DEFINE R == OpToRel(<, Nat)
<1>1. IsWellFoundedOn(R, Nat)
  BY NatLessThanWellFounded, Zenon
<1>2. \A x, y \in Nat : <<x, y>> \in R <=> x < y
  BY DEF OpToRel
<1> HIDE DEF R
<1>3. \E x \in T : \A y \in T : <<y, x>> \notin R
  BY <1>1, WFMin
<1> QED
  BY <1>2, <1>3

\* Of the entries that store a function under a key, one does so last: of those of
\* the last adapter the last one.
LEMMA LastStored ==
  ASSUME TypeInv, NEW k, Storing(k) # {}
  PROVE  \E i \in Storing(k) : \A j \in Storing(k) : After(i, j)
<1> DEFINE n == Len(entries)
           Turns == {4 - Turn(i) : i \in Storing(k)}
<1>1. n \in Nat /\ Storing(k) \subseteq 1 .. n
  BY DEF TypeInv, Storing, AdminEntries, CliEntries, WebEntries, ApiEntries, Of
<1>2. \A i : Turn(i) \in 1 .. 4
  BY DEF Turn
<1>3. Turns \in SUBSET Nat /\ Turns # {}
  BY <1>2
<1>4. PICK t \in Turns : \A u \in Turns : ~(u < t)
  BY <1>3, LeastNatural
<1>5. PICK l \in Storing(k) : t = 4 - Turn(l)
  OBVIOUS
<1>6. \A j \in Storing(k) : Turn(j) <= Turn(l)
  BY <1>2, <1>4, <1>5
<1> DEFINE Last == {i \in Storing(k) : Turn(i) = Turn(l)}
           Rest == {n - i : i \in Last}
<1>7. \A i \in Last : n - i \in Nat
  BY <1>1
<1>8. Rest \in SUBSET Nat /\ Rest # {}
  BY <1>7
<1>9. PICK r \in Rest : \A u \in Rest : ~(u < r)
  BY <1>8, LeastNatural
<1>10. PICK i \in Last : r = n - i
  OBVIOUS
<1>11. ASSUME NEW j \in Last PROVE i >= j
  <2>1. ~(n - j < n - i)
    BY <1>9, <1>10
  <2> QED
    BY <1>1, <2>1
<1>12. ASSUME NEW j \in Storing(k) PROVE After(i, j)
  <2>1. Turn(i) \in 1 .. 4 /\ Turn(j) \in 1 .. 4 /\ Turn(j) <= Turn(i)
    BY <1>2, <1>6
  <2>2. Turn(j) = Turn(i) => i >= j
    BY <1>11
  <2> QED
    BY <2>1, <2>2 DEF After
<1> QED
  BY <1>12

\* Whatever the adapters resolve is a function of the script.
LEMMA ResolvedType ==
  ASSUME TypeInv
  PROVE  Resolved \in [HandlerKeys -> 0 .. MaxCalls]
<1> SUFFICES ASSUME NEW k \in HandlerKeys PROVE Resolved[k] \in 0 .. MaxCalls
  BY DEF Resolved
<1>1. CASE Storing(k) = {}
  BY <1>1 DEF Resolved, TypeInv
<1>2. CASE Storing(k) # {}
  <2> DEFINE last == CHOOSE i \in Storing(k) : \A j \in Storing(k) : After(i, j)
  <2>1. last \in Storing(k)
    BY <1>2, LastStored
  <2>0. Resolved[k] = entries[last].fn
    BY <1>2 DEF Resolved
  <2> HIDE DEF last
  <2>2. last \in 1 .. Len(entries)
    BY <2>1 DEF TypeInv, Storing, AdminEntries, CliEntries, WebEntries, ApiEntries, Of
  <2>3. entries[last] \in EntryRecord
    BY <2>2 DEF TypeInv
  <2> QED
    BY <2>0, <2>3 DEF EntryRecord
<1> QED
  BY <1>1, <1>2

LEMMA TypeInit == Init => TypeInv
<1> SUFFICES ASSUME Init PROVE TypeInv
  OBVIOUS
<1>1. MaxCalls \in Nat
  BY ScriptAssumption
<1>2. entries \in Seq(EntryRecord) /\ Len(entries) = 0
  BY DEF Init
<1>3. handlers \in [HandlerKeys -> 0 .. MaxCalls]
  BY <1>1 DEF Init
<1> QED
  BY <1>1, <1>2, <1>3 DEF Init, TypeInv

-------------------------------------------------------------------------------
\* What a call may append: an entry under the key it has stored its function at,
\* or a table of the script, with a key of the script's own or none.
OwnEntry(e) ==
  e \in EntryRecord /\ e.fn = This /\ e.key = <<"h", This>> /\ e.handler # "function"
TableEntry(e) ==
  e \in EntryRecord /\ e.key \in NamedKeys /\ (e.handler = "function" => e.fn = This)

\* What every call of the API does, by the script or by a handler that runs.
CallStep ==
  /\ Calling
  /\ \/ UNCHANGED entries /\ (UNCHANGED handlers \/ Store)
     \/ (\E e : OwnEntry(e) /\ AppendEntry(e)) /\ Store
     \/ (\E e : TableEntry(e) /\ AppendEntry(e)) /\ UNCHANGED handlers
  /\ UNCHANGED phase \/ Raise
  /\ UNCHANGED <<manifest, published, bindings, dbOp>>
  /\ cache' \subseteq cache \cup Modules

LEMMA CallNumber ==
  ASSUME TypeInv, Calling
  PROVE  /\ This \in 1 .. MaxCalls /\ calls' = This /\ calls \in Nat
         /\ <<"h", This>> \in HandlerKeys
<1>1. This \in 1 .. MaxCalls /\ calls' = This /\ calls \in Nat
  BY ScriptAssumption DEF TypeInv, Calling, This
<1>2. This \in 0 .. MaxCalls
  BY <1>1, ScriptAssumption
<1> QED
  BY <1>1, <1>2 DEF HandlerKeys, Prefixes

LEMMA OwnRaw ==
  ASSUME TypeInv, Calling, NEW surface \in {"api", "cli", "admin", "web", "event"},
         NEW kind \in {"none", "page", "subscribe"}, NEW method \in {"none", "GET"} \cup {r.method : r \in ApiRoutes},
         NEW target \in Pages \cup Commands \cup Events \cup {r.path : r \in ApiRoutes},
         NEW handler \in {"nil", "string"}, NEW policy \in PolicyKeys \cup {"none"},
         NEW public \in BOOLEAN, NEW assets \in {"none", "missing", "unsafe"}
  PROVE  OwnEntry(Raw(surface, kind, method, target, handler, <<"h", This>>, policy, public, assets))
<1>1. This \in 0 .. MaxCalls /\ <<"h", This>> \in HandlerKeys
  BY CallNumber, ScriptAssumption
<1> QED
  BY <1>1 DEF OwnEntry, Raw, EntryRecord

LEMMA TableRaw ==
  ASSUME TypeInv, Calling, NEW e \in EntryRecord, e.key \in NamedKeys
  PROVE  TableEntry(WithFunction(e))
<1>1. This \in 0 .. MaxCalls /\ 0 \in 0 .. MaxCalls
  BY CallNumber, ScriptAssumption
<1> QED
  BY <1>1 DEF TableEntry, WithFunction, EntryRecord

\* The actions in which a script or a handler calls the API.
Calls == ApiRoute \/ CliCommand \/ AdminPage \/ WebPage \/ EventOn \/ CapabilityRegister \/ Require

LEMMA EachCall ==
  ASSUME TypeInv, Calls
  PROVE  CallStep
<1>0. Calling
  BY DEF Calls, ApiRoute, CliCommand, AdminPage, WebPage, EventOn, CapabilityRegister, Require
<1>2. CASE ApiRoute
  <2>1. PICK r \in ApiRoutes, k \in PolicyKeys \cup {"none"}, public \in BOOLEAN :
          IF k # "none" /\ public THEN Raise /\ UNCHANGED entries
          ELSE /\ AppendEntry(Raw("api", "none", r.method, r.path, "string", <<"h", This>>, k, public, "none"))
               /\ UNCHANGED phase
    BY <1>2 DEF ApiRoute
  <2>2. OwnEntry(Raw("api", "none", r.method, r.path, "string", <<"h", This>>, k, public, "none"))
    BY <1>0, OwnRaw
  <2> QED
    BY <1>0, <1>2, <2>1, <2>2 DEF ApiRoute, CallStep, Elsewhere
<1>3. CASE CliCommand
  <2>1. PICK c \in Commands, k \in PolicyKeys \cup {"none"} :
          AppendEntry(Raw("cli", "none", "none", c, "string", <<"h", This>>, k, FALSE, "none"))
    BY <1>3 DEF CliCommand
  <2>2. OwnEntry(Raw("cli", "none", "none", c, "string", <<"h", This>>, k, FALSE, "none"))
    BY <1>0, OwnRaw
  <2> QED
    BY <1>0, <1>3, <2>1, <2>2 DEF CliCommand, CallStep, Elsewhere
<1>4. CASE AdminPage
  <2>1. PICK p \in Pages, k \in PolicyKeys \cup {"none"} :
          AppendEntry(Raw("admin", "none", "GET", p, "string", <<"h", This>>, k, FALSE, "none"))
    BY <1>4 DEF AdminPage
  <2>2. OwnEntry(Raw("admin", "none", "GET", p, "string", <<"h", This>>, k, FALSE, "none"))
    BY <1>0, OwnRaw
  <2> QED
    BY <1>0, <1>4, <2>1, <2>2 DEF AdminPage, CallStep, Elsewhere
<1>5. CASE WebPage
  <2>1. PICK p \in Pages, k \in PolicyKeys \cup {"none"}, a \in {"none", "missing", "unsafe"} :
          IF ~perms.admin \/ a = "unsafe" THEN Raise /\ UNCHANGED <<entries, handlers>>
          ELSE /\ Store
               /\ AppendEntry(Raw("web", "page", "GET", p, "string", <<"h", This>>, k, FALSE, a))
               /\ UNCHANGED phase
    BY <1>5 DEF WebPage
  <2>2. OwnEntry(Raw("web", "page", "GET", p, "string", <<"h", This>>, k, FALSE, a))
    BY <1>0, OwnRaw
  <2> QED
    BY <1>0, <1>5, <2>1, <2>2 DEF WebPage, CallStep, Elsewhere
<1>6. CASE EventOn
  <2>1. PICK e \in Events :
          IF e = <<>> THEN Raise /\ UNCHANGED <<entries, handlers>>
          ELSE /\ Store
               /\ AppendEntry(Raw("event", "subscribe", "none", e, "nil", <<"h", This>>, "none", FALSE, "none"))
               /\ UNCHANGED phase
    BY <1>6 DEF EventOn
  <2>2. OwnEntry(Raw("event", "subscribe", "none", e, "nil", <<"h", This>>, "none", FALSE, "none"))
    BY <1>0, OwnRaw
  <2> QED
    BY <1>0, <1>6, <2>1, <2>2 DEF EventOn, CallStep, Elsewhere
<1>7. CASE CapabilityRegister
  <2>1. PICK e \in RawEntries : AppendEntry(WithFunction(e))
    BY <1>7 DEF CapabilityRegister
  <2>2. TableEntry(WithFunction(e))
    <3>1. e \in EntryRecord /\ e.key \in NamedKeys
      BY ScriptAssumption DEF NamedKeys, Tables
    <3> QED
      BY <1>0, <3>1, TableRaw
  <2> QED
    BY <1>0, <1>7, <2>1, <2>2 DEF CapabilityRegister, CallStep, Elsewhere
<1>8. CASE Require
  <2>1. PICK m \in Modules :
          \/ m \in cache /\ UNCHANGED <<phase, entries, cache>>
          \/ /\ m \notin cache
             /\ AppendEntry(WithFunction(Module[m]))
             /\ \/ cache' = cache \cup {m} /\ UNCHANGED phase
                \/ Raise /\ UNCHANGED cache
    BY <1>8 DEF Require
  <2>2. TableEntry(WithFunction(Module[m]))
    <3>1. Module[m] \in EntryRecord /\ Module[m].key \in NamedKeys
      BY ScriptAssumption DEF NamedKeys, Tables
    <3> QED
      BY <1>0, <3>1, TableRaw
  <2> QED
    BY <1>0, <1>8, <2>1, <2>2 DEF Require, CallStep
<1> QED
  BY <1>2, <1>3, <1>4, <1>5, <1>6, <1>7, <1>8 DEF Calls

LEMMA CallTypes ==
  ASSUME TypeInv, CallStep
  PROVE  TypeInv'
<1>0. /\ This \in 1 .. MaxCalls /\ calls' = This /\ calls \in Nat /\ This = calls + 1 /\ MaxCalls \in Nat
      /\ phase \in {"script", "served"}
  BY CallNumber, ScriptAssumption DEF CallStep, Calling, This
<1>1. /\ phase' \in {"script", "served", "failed"}
      /\ phase' # "served" => phase # "served"
  BY <1>0 DEF CallStep, Raise
<1>2. entries' \in Seq(EntryRecord) /\ Len(entries') <= calls'
  <2>0. entries \in Seq(EntryRecord) /\ Len(entries) <= calls
    BY DEF TypeInv
  <2>1. CASE UNCHANGED entries
    BY <1>0, <2>0, <2>1
  <2>2. ASSUME NEW e \in EntryRecord, AppendEntry(e)
        PROVE  entries' \in Seq(EntryRecord) /\ Len(entries') <= calls'
    <3>1. entries' \in Seq(EntryRecord) /\ Len(entries') = Len(entries) + 1
      BY <2>0, <2>2 DEF AppendEntry
    <3> QED
      BY <1>0, <2>0, <3>1
  <2> QED
    BY <2>1, <2>2 DEF CallStep, OwnEntry, TableEntry
<1>3. handlers' \in [HandlerKeys -> 0 .. MaxCalls]
  <2>1. handlers \in [HandlerKeys -> 0 .. MaxCalls] /\ This \in 0 .. MaxCalls
    BY <1>0 DEF TypeInv
  <2>2. UNCHANGED handlers \/ Store
    BY DEF CallStep
  <2> QED
    BY <2>1, <2>2 DEF Store
<1>4. cache' \subseteq Modules
  BY DEF CallStep, TypeInv
<1>5. /\ manifest' \in Manifests /\ dbOp' \in Statements \cup {NoSql}
      /\ phase' # "served" => published' = {} /\ bindings' = {}
  BY <1>1 DEF CallStep, TypeInv
<1>6. calls' \in 0 .. MaxCalls
  BY <1>0
<1> QED
  BY <1>1, <1>2, <1>3, <1>4, <1>5, <1>6 DEF TypeInv

LEMMA TypeStep ==
  ASSUME TypeInv, [Next]_vars
  PROVE  TypeInv'
<1>1. CASE Calls
  BY <1>1, EachCall, CallTypes
<1>2. CASE Activate
  BY <1>2, ResolvedType DEF Activate, TypeInv
<1>3. CASE DbCall
  BY <1>3 DEF DbCall, Raise, TypeInv
<1>4. CASE UNCHANGED vars
  BY <1>4 DEF vars, TypeInv
<1> QED
  BY <1>1, <1>2, <1>3, <1>4 DEF Next, Calls

LEMMA TypeInvariant == Spec => []TypeInv
<1>1. TypeInv /\ [Next]_vars => TypeInv'
  BY TypeStep
<1> QED
  BY <1>1, TypeInit, PTL DEF Spec

\* The types of the script, its registry and what is published of it, and that only a
\* plugin that serves has anything published or bound, and a skipped one has run
\* nothing.
THEOREM TypeCorrect == Spec => []TypeOK
<1>1. TypeInv => TypeOK
  BY DEF TypeInv, TypeOK
<1> QED
  BY <1>1, TypeInvariant, PTL

-------------------------------------------------------------------------------
\* What the loader stages of an entry: its kind, and the policy it names.
LEMMA StagedOnes ==
  ASSUME NEW c \in Staged
  PROVE  \/ \E i \in ApiEntries : c.kind = "route" /\ c.key = entries[i].policy
         \/ \E i \in WebEntries \cup AdminEntries : c.kind = "page" /\ c.key = entries[i].policy
         \/ \E i \in CliEntries : c.kind = "command" /\ c.key = entries[i].policy
         \/ \E i \in MenuEntries : c.kind = "menu" /\ c.key = entries[i].policy
         \/ c.kind = "event" /\ c.key = "none"
<1>1. CASE \E i \in ApiEntries : c = StageRoute(i)
  BY <1>1 DEF StageRoute, Contribution
<1>2. CASE \E i \in WebEntries \cup AdminEntries : c = StagePage(i)
  BY <1>2 DEF StagePage, Contribution
<1>3. CASE \E i \in CliEntries : c = StageCommand(i)
  BY <1>3 DEF StageCommand, Contribution
<1>4. CASE \E i \in MenuEntries : c = StageMenu(i)
  BY <1>4 DEF StageMenu, Contribution
<1>5. CASE \E i \in EventEntries : c = StageEvent(i)
  BY <1>5 DEF StageEvent, Contribution
<1> QED
  BY <1>1, <1>2, <1>3, <1>4, <1>5 DEF Staged

\* A loader that rejects nothing has found every entry granted and in scope.
LEMMA StagedWithin ==
  ASSUME TypeInv, ~Rejected, NEW c \in Staged
  PROVE  /\ c.kind # "event" => Allowed(NeedFor[c.kind])
         /\ c.key # "none" => c.key \in manifest.scopes
<1>0. GrantedWithin(manifest) /\ perms = Granted(manifest)
  BY GrantsClamp, ScriptAssumption DEF TypeInv, perms
<1>1. /\ NeedFor["route"] = "routes" /\ NeedFor["page"] = "admin" /\ NeedFor["menu"] = "admin"
      /\ NeedFor["command"] = "commands"
  BY DEF NeedFor
<1>2. /\ perms.routes => Allowed("routes")
      /\ perms.admin => Allowed("admin")
      /\ perms.commands => Allowed("commands")
  <2>1. manifest \in ManifestRecord
    BY ScriptAssumption DEF TypeInv
  <2> QED
    BY <1>0, <2>1 DEF GrantedWithin, Allowed, ManifestRecord
<1>3. /\ ~Ungranted
      /\ \A i \in ApiEntries \cup WebEntries \cup AdminEntries \cup CliEntries \cup MenuEntries : ~OutOfScope(i)
  BY DEF Rejected, Unstageable
<1>4. CASE \E i \in ApiEntries : c.kind = "route" /\ c.key = entries[i].policy
  BY <1>1, <1>2, <1>3, <1>4 DEF Ungranted, OutOfScope
<1>5. CASE \E i \in WebEntries \cup AdminEntries : c.kind = "page" /\ c.key = entries[i].policy
  BY <1>1, <1>2, <1>3, <1>5 DEF Ungranted, OutOfScope
<1>6. CASE \E i \in CliEntries : c.kind = "command" /\ c.key = entries[i].policy
  BY <1>1, <1>2, <1>3, <1>6 DEF Ungranted, OutOfScope
<1>7. CASE \E i \in MenuEntries : c.kind = "menu" /\ c.key = entries[i].policy
  BY <1>1, <1>2, <1>3, <1>7 DEF Ungranted, OutOfScope
<1>8. CASE c.kind = "event" /\ c.key = "none"
  BY <1>8
<1> QED
  BY StagedOnes, <1>4, <1>5, <1>6, <1>7, <1>8

LEMMA GrantsInit == Init => PublishesWithinGrants
  BY DEF Init, PublishesWithinGrants

LEMMA GrantsStep ==
  ASSUME TypeInv, PublishesWithinGrants, [Next]_vars
  PROVE  PublishesWithinGrants'
<1>1. CASE UNCHANGED <<manifest, published>>
  BY <1>1 DEF PublishesWithinGrants, Allowed
<1>2. CASE Calls
  BY <1>1, <1>2, EachCall DEF CallStep
<1>3. CASE Activate
  <2>0. UNCHANGED manifest
    BY <1>3 DEF Activate
  <2>1. CASE UNCHANGED published
    BY <1>1, <2>0, <2>1
  <2>2. CASE ~Rejected /\ published' = Staged
    BY <2>0, <2>2, StagedWithin DEF PublishesWithinGrants, Allowed
  <2> QED
    BY <1>3, <2>1, <2>2 DEF Activate
<1>4. CASE DbCall
  BY <1>1, <1>4 DEF DbCall
<1>5. CASE UNCHANGED vars
  BY <1>1, <1>5 DEF vars
<1> QED
  BY <1>2, <1>3, <1>4, <1>5 DEF Next, Calls

\* Nothing a script calls, registers or requires, and nothing its handlers do
\* later, publishes a contribution or names a policy that the manifest
\* does not declare, the plugin's directory does not allow or the profile has not
\* granted, for every manifest, every script and every number of calls.
THEOREM StaysWithinGrants == Spec => []PublishesWithinGrants
<1>1. TypeInv /\ PublishesWithinGrants /\ [Next]_vars => PublishesWithinGrants'
  BY GrantsStep
<1> QED
  BY <1>1, GrantsInit, TypeInvariant, PTL DEF Spec

-------------------------------------------------------------------------------
\* Until the script has ended, an entry has a key its table names, or calls the
\* function that its own call has stored; a table's function is one.
Registered(i) ==
  \/ /\ entries[i].key \in NamedKeys
     /\ entries[i].handler = "function" => entries[i].fn # 0
  \/ /\ entries[i].fn \in 1 .. calls /\ entries[i].key = <<"h", entries[i].fn>>
     /\ entries[i].handler # "function" /\ handlers[entries[i].key] = entries[i].fn
RegisteredInv == phase = "script" => \A i \in DOMAIN entries : Registered(i)

\* What is published calls its own function, under a key that no call to come
\* will store another function at.
CallsOwn(c) ==
  /\ c.fn # 0 /\ c.handler \in HandlerKeys /\ handlers[c.handler] = c.fn
  /\ \A n : c.handler = <<"h", n>> => n \in Nat /\ n <= calls
ServedInv == \A c \in published : c.kind # "menu" /\ c.handler \notin NamedKeys => CallsOwn(c)
OwnInv == RegisteredInv /\ ServedInv

\* The entries whose functions the adapters store.
Kept == AdminEntries \cup CliEntries \cup WebEntries \cup ApiEntries

LEMMA KeptEntries ==
  ASSUME TypeInv
  PROVE  /\ DOMAIN entries = 1 .. Len(entries) /\ Len(entries) \in Nat /\ Len(entries) <= MaxCalls
         /\ Kept \cup EventEntries \subseteq DOMAIN entries
         /\ \A i \in DOMAIN entries : entries[i] \in EntryRecord
<1>1. DOMAIN entries = 1 .. Len(entries) /\ Len(entries) \in Nat
  BY DEF TypeInv
<1>2. Len(entries) <= MaxCalls
  BY <1>1, ScriptAssumption DEF TypeInv
<1>3. \A i \in DOMAIN entries : entries[i] \in EntryRecord
  BY DEF TypeInv
<1> QED
  BY <1>1, <1>2, <1>3 DEF Kept, AdminEntries, CliEntries, WebEntries, ApiEntries, EventEntries, Of

\* Each adapter numbers the functions that have no name, each with one number.
LEMMA NumberedApart ==
  ASSUME TypeInv, NEW S \in SUBSET DOMAIN entries, NEW prefix, NEW i \in S, Unnamed(i)
  PROVE  /\ \E n \in 1 .. MaxCalls : Resolve(prefix, S, i) = <<prefix, n>>
         /\ \A j \in S : Unnamed(j) /\ Resolve(prefix, S, i) = Resolve(prefix, S, j) => i = j
<1> DEFINE Upto(j) == {k \in S : k <= j /\ Unnamed(k)}
<1>0. DOMAIN entries = 1 .. Len(entries) /\ Len(entries) \in Nat /\ Len(entries) <= MaxCalls /\ MaxCalls \in Nat
  BY KeptEntries, ScriptAssumption
<1>1. IsFiniteSet(1 .. Len(entries)) /\ Cardinality(1 .. Len(entries)) = Len(entries)
  <2>1. /\ IsFiniteSet(1 .. Len(entries))
        /\ Cardinality(1 .. Len(entries)) = IF 1 > Len(entries) THEN 0 ELSE Len(entries) - 1 + 1
    BY <1>0, 1 \in Int, Len(entries) \in Int, FS_Interval
  <2> QED
    BY <1>0, <2>1
<1>2. ASSUME NEW j \in S
      PROVE  IsFiniteSet(Upto(j)) /\ Cardinality(Upto(j)) \in 0 .. MaxCalls
  <2>1. Upto(j) \in SUBSET (1 .. Len(entries))
    BY <1>0
  <2>2. IsFiniteSet(Upto(j)) /\ Cardinality(Upto(j)) <= Len(entries)
    BY <1>1, <2>1, FS_Subset
  <2>3. Cardinality(Upto(j)) \in Nat
    BY <2>2, FS_CardinalityType
  <2> QED
    BY <1>0, <2>2, <2>3
<1>3. \A j \in S : Unnamed(j) => Resolve(prefix, S, j) = <<prefix, Cardinality(Upto(j))>>
  BY DEF Resolve
<1>4. i \in Upto(i)
  BY <1>0
<1>5. Cardinality(Upto(i)) # 0
  BY <1>2, <1>4, FS_EmptySet
<1>6. ASSUME NEW j \in S, NEW k \in S, Unnamed(j), Unnamed(k), j < k
      PROVE  Cardinality(Upto(j)) # Cardinality(Upto(k))
  <2>1. j \in 1 .. Len(entries) /\ k \in 1 .. Len(entries)
    BY <1>0
  <2>2. Upto(j) \in SUBSET Upto(k)
    BY <1>0, <1>6, <2>1
  <2>3. k \in Upto(k) /\ k \notin Upto(j)
    BY <1>0, <1>6, <2>1
  <2>4. IsFiniteSet(Upto(k))
    BY <1>2
  <2> QED
    BY <2>2, <2>3, <2>4, FS_Subset
<1> HIDE DEF Upto
<1>7. \E n \in 1 .. MaxCalls : Resolve(prefix, S, i) = <<prefix, n>>
  BY <1>0, <1>2, <1>3, <1>5
<1>8. ASSUME NEW j \in S, Unnamed(j), Resolve(prefix, S, i) = Resolve(prefix, S, j)
      PROVE  i = j
  <2>1. Cardinality(Upto(i)) = Cardinality(Upto(j))
    BY <1>3, <1>8
  <2>2. ~(i < j) /\ ~(j < i)
    BY <1>6, <1>8, <2>1
  <2>3. i \in 1 .. Len(entries) /\ j \in 1 .. Len(entries)
    BY <1>0
  <2> QED
    BY <2>2, <2>3
<1> QED
  BY <1>7, <1>8

\* Which adapter gives an entry its key.
LEMMA KeyByAdapter ==
  /\ \A i \in AdminEntries : KeyOf(i) = Resolve("admin", AdminEntries, i)
  /\ \A i \in CliEntries : KeyOf(i) = Resolve("cli", CliEntries, i)
  /\ \A i \in WebEntries : KeyOf(i) = Resolve("web", WebEntries, i)
  /\ \A i \in ApiEntries : KeyOf(i) = Resolve("api", ApiEntries, i)
  /\ \A i \in EventEntries : KeyOf(i) = entries[i].key
<1>1. /\ \A i \in AdminEntries : entries[i].surface = "admin"
      /\ \A i \in CliEntries : entries[i].surface = "cli"
      /\ \A i \in WebEntries : entries[i].surface = "web"
      /\ \A i \in ApiEntries : entries[i].surface = "api"
      /\ \A i \in EventEntries : entries[i].surface = "event"
  BY DEF AdminEntries, CliEntries, WebEntries, ApiEntries, EventEntries, Of
<1>2. /\ \A i \in AdminEntries : i \notin CliEntries /\ i \notin WebEntries /\ i \notin ApiEntries /\ i \notin EventEntries
      /\ \A i \in CliEntries : i \notin WebEntries /\ i \notin ApiEntries /\ i \notin EventEntries
      /\ \A i \in WebEntries : i \notin ApiEntries /\ i \notin EventEntries
      /\ \A i \in ApiEntries : i \notin EventEntries
  BY <1>1
<1>3. \A i \in AdminEntries : KeyOf(i) = Resolve("admin", AdminEntries, i)
  BY <1>2 DEF KeyOf, AdminKey
<1>4. \A i \in CliEntries : KeyOf(i) = Resolve("cli", CliEntries, i)
  BY <1>2 DEF KeyOf, CliKey
<1>5. \A i \in WebEntries : KeyOf(i) = Resolve("web", WebEntries, i)
  BY <1>2 DEF KeyOf, WebKey
<1>6. \A i \in ApiEntries : KeyOf(i) = Resolve("api", ApiEntries, i)
  BY <1>2 DEF KeyOf, ApiKey
<1>7. \A i \in EventEntries : KeyOf(i) = entries[i].key
  BY <1>2 DEF KeyOf, EventKey
<1> QED
  BY <1>3, <1>4, <1>5, <1>6, <1>7

\* A function without a name is stored under a key of its own, which is of none of
\* the calls; one with a name is stored under that.
LEMMA KeysApart ==
  ASSUME TypeInv
  PROVE  /\ \A i \in Kept : ~Unnamed(i) => KeyOf(i) = entries[i].key
         /\ \A i \in Kept : Unnamed(i) => KeyOf(i) \in {"admin", "cli", "web", "api"} \X (1 .. MaxCalls)
         /\ \A i, j \in Kept : Unnamed(i) /\ Unnamed(j) /\ KeyOf(i) = KeyOf(j) => i = j
<1>1. \A i \in Kept : ~Unnamed(i) => KeyOf(i) = entries[i].key
  BY KeyByAdapter DEF Kept, Resolve
<1>2. /\ AdminEntries \in SUBSET DOMAIN entries /\ CliEntries \in SUBSET DOMAIN entries
      /\ WebEntries \in SUBSET DOMAIN entries /\ ApiEntries \in SUBSET DOMAIN entries
  BY KeptEntries DEF Kept
<1>3. /\ \A i \in AdminEntries : Unnamed(i) => \E n \in 1 .. MaxCalls : KeyOf(i) = <<"admin", n>>
      /\ \A i, j \in AdminEntries : Unnamed(i) /\ Unnamed(j) /\ KeyOf(i) = KeyOf(j) => i = j
  BY <1>2, KeyByAdapter, NumberedApart
<1>4. /\ \A i \in CliEntries : Unnamed(i) => \E n \in 1 .. MaxCalls : KeyOf(i) = <<"cli", n>>
      /\ \A i, j \in CliEntries : Unnamed(i) /\ Unnamed(j) /\ KeyOf(i) = KeyOf(j) => i = j
  BY <1>2, KeyByAdapter, NumberedApart
<1>5. /\ \A i \in WebEntries : Unnamed(i) => \E n \in 1 .. MaxCalls : KeyOf(i) = <<"web", n>>
      /\ \A i, j \in WebEntries : Unnamed(i) /\ Unnamed(j) /\ KeyOf(i) = KeyOf(j) => i = j
  BY <1>2, KeyByAdapter, NumberedApart
<1>6. /\ \A i \in ApiEntries : Unnamed(i) => \E n \in 1 .. MaxCalls : KeyOf(i) = <<"api", n>>
      /\ \A i, j \in ApiEntries : Unnamed(i) /\ Unnamed(j) /\ KeyOf(i) = KeyOf(j) => i = j
  BY <1>2, KeyByAdapter, NumberedApart
<1>7. \A i \in Kept : Unnamed(i) => KeyOf(i) \in {"admin", "cli", "web", "api"} \X (1 .. MaxCalls)
  BY <1>3, <1>4, <1>5, <1>6 DEF Kept
<1>8. \A i, j \in Kept : Unnamed(i) /\ Unnamed(j) /\ KeyOf(i) = KeyOf(j) => i = j
  BY <1>3, <1>4, <1>5, <1>6 DEF Kept
<1> QED
  BY <1>1, <1>7, <1>8

\* Two entries store a function under one key only if the script named that key.
LEMMA StoredAlone ==
  ASSUME TypeInv, \A i \in DOMAIN entries : Registered(i), NEW i \in Kept, KeyOf(i) \notin NamedKeys, Unnamed(i)
  PROVE  KeyOf(i) \in HandlerKeys /\ Resolved[KeyOf(i)] = entries[i].fn
<1> DEFINE k == KeyOf(i)
<1>1. k \in {"admin", "cli", "web", "api"} \X (1 .. MaxCalls)
  BY KeysApart
<1>2. k \in HandlerKeys
  BY <1>1, ScriptAssumption DEF HandlerKeys, Prefixes
<1>3. i \in Storing(k)
  BY DEF Storing, Kept, Unnamed
<1>4. ASSUME NEW j \in Storing(k) PROVE j = i
  <2>1. j \in Kept /\ entries[j].handler = "function" /\ KeyOf(j) = k
    BY <1>4 DEF Storing, Kept
  <2>2. CASE Unnamed(j)
    BY <2>1, <2>2, KeysApart
  <2>3. CASE ~Unnamed(j)
    <3>1. entries[j].key = k /\ Registered(j)
      BY <2>1, <2>3, KeysApart, KeptEntries
    <3> QED
      BY <2>1, <3>1 DEF Registered
  <2> QED
    BY <2>2, <2>3
<1>5. Storing(k) = {i}
  BY <1>3, <1>4
<1>6. After(i, i)
  BY KeptEntries DEF After
<1>7. (CHOOSE m \in Storing(k) : \A j \in Storing(k) : After(m, j)) = i
  BY <1>5, <1>6
<1> HIDE DEF k
<1>8. Resolved[k] = entries[i].fn
  BY <1>2, <1>3, <1>7 DEF Resolved
<1> QED
  BY <1>2, <1>8 DEF k

\* No adapter stores a function under the key of a call.
LEMMA CallsKeepTheirKeys ==
  ASSUME TypeInv, \A i \in DOMAIN entries : Registered(i), NEW n, <<"h", n>> \in HandlerKeys, <<"h", n>> \notin NamedKeys
  PROVE  Resolved[<<"h", n>>] = handlers[<<"h", n>>]
<1> DEFINE k == <<"h", n>>
<1>1. ASSUME NEW j \in Storing(k) PROVE FALSE
  <2>1. j \in Kept /\ entries[j].handler = "function" /\ KeyOf(j) = k
    BY <1>1 DEF Storing, Kept
  <2>2. CASE Unnamed(j)
    <3>1. k \in {"admin", "cli", "web", "api"} \X (1 .. MaxCalls)
      BY <2>1, <2>2, KeysApart
    <3> QED
      BY <3>1
  <2>3. CASE ~Unnamed(j)
    <3>1. entries[j].key = k /\ Registered(j)
      BY <2>1, <2>3, KeysApart, KeptEntries
    <3> QED
      BY <2>1, <3>1 DEF Registered
  <2> QED
    BY <2>2, <2>3
<1>2. Storing(k) = {}
  BY <1>1
<1> HIDE DEF k
<1> QED
  BY <1>2 DEF Resolved, k

LEMMA StagedHandlers ==
  ASSUME NEW c \in Staged, c.kind # "menu"
  PROVE  \E i \in Kept \cup EventEntries : c.handler = KeyOf(i) /\ c.fn = entries[i].fn
<1>1. CASE \E i \in ApiEntries : c = StageRoute(i)
  BY <1>1 DEF StageRoute, Contribution, Kept
<1>2. CASE \E i \in WebEntries \cup AdminEntries : c = StagePage(i)
  BY <1>2 DEF StagePage, Contribution, Kept
<1>3. CASE \E i \in CliEntries : c = StageCommand(i)
  BY <1>3 DEF StageCommand, Contribution, Kept
<1>4. CASE \E i \in MenuEntries : c = StageMenu(i)
  BY <1>4 DEF StageMenu, Contribution
<1>5. CASE \E i \in EventEntries : c = StageEvent(i)
  BY <1>5 DEF StageEvent, Contribution
<1> QED
  BY <1>1, <1>2, <1>3, <1>4, <1>5 DEF Staged

LEMMA OwnActivate ==
  ASSUME TypeInv, OwnInv, Activate
  PROVE  OwnInv'
<1>1. phase = "script" /\ phase' # "script" /\ handlers' = Resolved /\ calls' = calls
  BY DEF Activate
<1>2. \A i \in DOMAIN entries : Registered(i)
  BY <1>1 DEF OwnInv, RegisteredInv
<1>3. published' = {} \/ published' = Staged
  BY <1>1 DEF Activate, TypeInv
<1>4. ASSUME NEW c \in Staged, c.kind # "menu", c.handler \notin NamedKeys
      PROVE  /\ c.fn # 0 /\ c.handler \in HandlerKeys /\ Resolved[c.handler] = c.fn
             /\ \A n : c.handler = <<"h", n>> => n \in Nat /\ n <= calls
  <2>1. PICK i \in Kept \cup EventEntries : c.handler = KeyOf(i) /\ c.fn = entries[i].fn
    BY <1>4, StagedHandlers
  <2>2. i \in DOMAIN entries /\ Registered(i)
    BY <1>2, KeptEntries
  <2>3. CASE i \in Kept /\ Unnamed(i)
    <3>1. c.handler \in HandlerKeys /\ Resolved[c.handler] = c.fn
      BY <1>2, <1>4, <2>1, <2>3, StoredAlone
    <3>2. c.fn # 0
      BY <2>1, <2>2, <2>3 DEF Registered, Unnamed
    <3>3. c.handler \in {"admin", "cli", "web", "api"} \X (1 .. MaxCalls)
      BY <2>1, <2>3, KeysApart
    <3> QED
      BY <3>1, <3>2, <3>3
  <2>4. CASE ~(i \in Kept /\ Unnamed(i))
    <3>1. c.handler = entries[i].key
      BY <2>1, <2>4, KeysApart, KeyByAdapter
    <3>2. /\ entries[i].fn \in 1 .. calls /\ c.handler = <<"h", c.fn>>
          /\ handlers[c.handler] = c.fn
      BY <1>4, <2>1, <2>2, <3>1 DEF Registered
    <3>3. c.fn \in 1 .. calls /\ calls \in Nat /\ calls <= MaxCalls
      BY <2>1, <3>2, ScriptAssumption DEF TypeInv
    <3>4. c.handler \in HandlerKeys
      BY <3>2, <3>3, ScriptAssumption DEF HandlerKeys, Prefixes
    <3>5. Resolved[c.handler] = c.fn
      BY <1>2, <1>4, <3>2, <3>4, CallsKeepTheirKeys
    <3>6. \A n : c.handler = <<"h", n>> => n = c.fn
      BY <3>2
    <3> QED
      BY <3>3, <3>4, <3>5, <3>6
  <2> QED
    BY <2>3, <2>4
<1>5. ServedInv'
  BY <1>1, <1>3, <1>4 DEF ServedInv, CallsOwn
<1>6. RegisteredInv'
  BY <1>1 DEF RegisteredInv
<1> QED
  BY <1>5, <1>6 DEF OwnInv

\* A call stores its function where no other is.
LEMMA StoredFresh ==
  ASSUME TypeInv, CallStep
  PROVE  /\ \A k \in HandlerKeys : k # <<"h", This>> => handlers'[k] = handlers[k]
         /\ Store => handlers'[<<"h", This>>] = This
<1>1. handlers \in [HandlerKeys -> 0 .. MaxCalls] /\ <<"h", This>> \in HandlerKeys
  BY CallNumber DEF TypeInv, CallStep
<1>2. UNCHANGED handlers \/ Store
  BY DEF CallStep
<1> QED
  BY <1>1, <1>2 DEF Store

LEMMA OwnCall ==
  ASSUME TypeInv, OwnInv, CallStep
  PROVE  OwnInv'
<1>0. /\ This \in 1 .. MaxCalls /\ calls' = This /\ calls \in Nat /\ This = calls + 1 /\ MaxCalls \in Nat
      /\ calls <= MaxCalls
  BY CallNumber, ScriptAssumption DEF CallStep, This, TypeInv
<1>1. ServedInv'
  <2> SUFFICES ASSUME NEW c \in published, c.kind # "menu", c.handler \notin NamedKeys PROVE CallsOwn(c)'
    BY DEF ServedInv, CallStep
  <2>1. CallsOwn(c)
    BY DEF OwnInv, ServedInv
  <2>2. c.handler # <<"h", This>>
    BY <1>0, <2>1 DEF CallsOwn
  <2>3. handlers'[c.handler] = handlers[c.handler]
    BY <2>1, <2>2, StoredFresh DEF CallsOwn
  <2> QED
    BY <1>0, <2>1, <2>3 DEF CallsOwn
<1>2. RegisteredInv'
  <2> SUFFICES ASSUME phase' = "script", NEW i \in DOMAIN entries' PROVE Registered(i)'
    BY DEF RegisteredInv
  <2>0. phase = "script"
    BY DEF CallStep, Raise, Calling
  <2>1. entries \in Seq(EntryRecord)
    BY DEF TypeInv
  <2>2. ASSUME NEW j \in DOMAIN entries, entries'[j] = entries[j] PROVE Registered(j)'
    <3>1. Registered(j)
      BY <2>0, <2>2 DEF OwnInv, RegisteredInv
    <3>2. CASE entries[j].key \in NamedKeys /\ (entries[j].handler = "function" => entries[j].fn # 0)
      BY <2>2, <3>2 DEF Registered
    <3>3. CASE /\ entries[j].fn \in 1 .. calls /\ entries[j].key = <<"h", entries[j].fn>>
               /\ entries[j].handler # "function" /\ handlers[entries[j].key] = entries[j].fn
      <4>1. entries[j].fn \in 0 .. MaxCalls /\ entries[j].fn \in 1 .. calls' /\ entries[j].fn # This
        BY <1>0, <3>3
      <4>2. entries[j].key \in HandlerKeys /\ entries[j].key # <<"h", This>>
        BY <3>3, <4>1 DEF HandlerKeys, Prefixes
      <4>3. handlers'[entries[j].key] = handlers[entries[j].key]
        BY <4>2, StoredFresh
      <4> QED
        BY <2>2, <3>3, <4>1, <4>3 DEF Registered
    <3> QED
      BY <3>1, <3>2, <3>3 DEF Registered
  <2>3. CASE UNCHANGED entries
    BY <2>2, <2>3
  <2>4. ASSUME NEW e \in EntryRecord, AppendEntry(e)
        PROVE  /\ i \in DOMAIN entries => entries'[i] = entries[i]
               /\ i \notin DOMAIN entries => entries'[i] = e
    BY <2>1, <2>4 DEF AppendEntry
  <2>5. ASSUME NEW e, OwnEntry(e), AppendEntry(e), Store
        PROVE  Registered(i)'
    <3>1. CASE i \in DOMAIN entries
      BY <2>2, <2>4, <2>5, <3>1 DEF OwnEntry
    <3>2. CASE i \notin DOMAIN entries
      <4>1. entries'[i] = e
        BY <2>4, <2>5, <3>2 DEF OwnEntry
      <4>2. e.fn = This /\ e.key = <<"h", e.fn>> /\ e.handler # "function" /\ handlers'[e.key] = This
        BY <2>5, StoredFresh DEF OwnEntry
      <4>3. This \in 1 .. calls'
        BY <1>0
      <4> QED
        BY <4>1, <4>2, <4>3 DEF Registered
    <3> QED
      BY <3>1, <3>2
  <2>6. ASSUME NEW e, TableEntry(e), AppendEntry(e)
        PROVE  Registered(i)'
    <3>1. CASE i \in DOMAIN entries
      BY <2>2, <2>4, <2>6, <3>1 DEF TableEntry
    <3>2. CASE i \notin DOMAIN entries
      <4>1. entries'[i] = e
        BY <2>4, <2>6, <3>2 DEF TableEntry
      <4>2. e.key \in NamedKeys /\ (e.handler = "function" => e.fn # 0)
        BY <1>0, <2>6 DEF TableEntry
      <4> QED
        BY <4>1, <4>2 DEF Registered
    <3> QED
      BY <3>1, <3>2
  <2> QED
    BY <2>3, <2>5, <2>6 DEF CallStep
<1> QED
  BY <1>1, <1>2 DEF OwnInv

LEMMA OwnStep ==
  ASSUME TypeInv, OwnInv, [Next]_vars
  PROVE  OwnInv'
<1>1. CASE Calls
  BY <1>1, EachCall, OwnCall
<1>2. CASE Activate
  BY <1>2, OwnActivate
<1>3. CASE UNCHANGED <<phase, calls, entries, handlers, published>>
  BY <1>3 DEF OwnInv, RegisteredInv, Registered, ServedInv, CallsOwn
<1>4. CASE UNCHANGED vars
  BY <1>3, <1>4 DEF vars
<1>5. CASE DbCall
  <2>1. UNCHANGED <<calls, entries, handlers, published>> /\ (phase' = "script" => phase = "script")
    BY <1>5 DEF DbCall, Raise
  <2> QED
    BY <2>1 DEF OwnInv, RegisteredInv, Registered, ServedInv, CallsOwn
<1> QED
  BY <1>1, <1>2, <1>4, <1>5 DEF Next, Calls

LEMMA OwnInit == Init => OwnInv
  BY DEF Init, OwnInv, RegisteredInv, ServedInv

\* What a plugin has published calls the functions it was made with, whatever the
\* script registers by the namespaced calls, by tables and by the modules it
\* requires, and whatever the handlers register when they run: unless a table
\* names the handler's key, the function under that key is the contribution's.
THEOREM EachItsOwnFunction == Spec => []EachCallsItsOwn
<1>1. TypeInv /\ OwnInv /\ [Next]_vars => OwnInv'
  BY OwnStep
<1>2. OwnInv => EachCallsItsOwn
  BY DEF OwnInv, ServedInv, CallsOwn, EachCallsItsOwn
<1> QED
  BY <1>1, <1>2, OwnInit, TypeInvariant, PTL DEF Spec
===============================================================================
