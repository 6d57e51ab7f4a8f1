------------------------------ MODULE AdminMenu ------------------------------
(***************************************************************************)
(* The stored admin menu and the contributions of plugins projected into   *)
(* it.  Every listing of the menu reconciles the stored rows with the      *)
(* contributions of the moment, one statement at a time and without a      *)
(* transaction, while other listings do the same and administrators edit   *)
(* the rows.                                                               *)
(*                                                                         *)
(* A row is what the reconciliation looks at: label, parent and route.     *)
(* Icon, position and visibility are carried along and left out.           *)
(***************************************************************************)
EXTENDS Integers, Sequences, FiniteSets, Functions

CONSTANTS
  Contribs,       \* contributions, by id
  Owner,          \* the plugin each belongs to
  Rank,           \* its place in the published order, by position and id
  Label, Route,   \* its label, and its effective route or "none"
  Parent,         \* the id it names as its parent, or "none"
  Core,           \* plugins that are never switched
  System,         \* the contribution a legacy row may stand for as a parent
  SystemRoutes,   \* routes whose rows the menu page does not delete
  SingleRoutes,   \* routes of which every request keeps only the oldest row
  Seeds,          \* the rows of the migrated database, a sequence
  Drafts,         \* rows an administrator may write
  Patches,        \* sets of fields an administrator may write alone
  Clients,        \* concurrent requests
  MaxId, MaxRequests, MaxToggles, MaxFaults   \* bounds

NoRow  == [label |-> "none", parent |-> 0, route |-> "none", by |-> "none"]
Fields == {"label", "parent", "route"}

Ids     == 1 .. MaxId
Plugins == {Owner[k] : k \in Contribs}

Labels == {d.label : d \in Drafts} \cup {Label[k] : k \in Contribs} \cup {"none"}
          \cup {Seeds[i].label : i \in DOMAIN Seeds}
Routes == {d.route : d \in Drafts} \cup {Route[k] : k \in Contribs} \cup {"none"}
          \cup {Seeds[i].route : i \in DOMAIN Seeds}
Row    == [label : Labels, parent : 0 .. MaxId, route : Routes,
           by : {"none", "seed", "admin", "projection"}]

ASSUME MenuAssumption ==
  /\ Rank \in [Contribs -> Nat] /\ IsInjective(Rank)
  /\ "none" \notin Contribs
  /\ Parent \in [Contribs -> Contribs \cup {System, "none"}]
  /\ Core \subseteq Plugins /\ "none" \notin SingleRoutes
  /\ MaxId \in Nat /\ Seeds \in Seq(Row) /\ Len(Seeds) <= MaxId
  /\ \A i \in DOMAIN Seeds : Seeds[i].by = "seed" /\ Seeds[i].parent \in 0 .. i - 1
  /\ Drafts \subseteq Row /\ \A d \in Drafts : d.by = "admin"
  /\ Patches \subseteq SUBSET Fields
  /\ MaxRequests \in Nat /\ MaxToggles \in Nat /\ MaxFaults \in Nat

VARIABLES
  item,       \* menu_items: the row of each id
  lastId,     \* ids are not given twice (AUTOINCREMENT)
  mapped,     \* runtime_menu_items: the row of each contribution, or 0
  active,     \* plugins whose contributions the capability snapshot has
  req,        \* the request each client has under way
  used,       \* how much of each bound is used up
  adopted,    \* ids that a contribution has been mapped to, now or before
  litter,     \* ids of projected rows that a request left without a mapping
  settled     \* a listing ran alone since the last change it has to follow

vars == <<item, lastId, mapped, active, req, used, adopted, litter, settled>>

Live    == {i \in Ids : item[i] # NoRow}
Offered == {k \in Contribs : Owner[k] \in active}
NoReq   == [op |-> "none", at |-> "idle", dedupe |-> {}, id |-> 0, draft |-> NoRow, patch |-> {},
            snap |-> {}, left |-> {}, later |-> {}, moved |-> FALSE, cur |-> "none", parent |-> 0,
            done |-> [k \in Contribs |-> 0], stale |-> {}, alone |-> FALSE]

Use(what, max) == used[what] < max /\ used' = [used EXCEPT ![what] = @ + 1]
MinId(S)       == IF S = {} THEN 0 ELSE CHOOSE i \in S : \A j \in S : i <= j

Init ==
  /\ item = [i \in Ids |-> IF i \in DOMAIN Seeds THEN Seeds[i] ELSE NoRow]
  /\ lastId = Len(Seeds)
  /\ mapped = [k \in Contribs |-> 0]
  /\ active = Plugins
  /\ req = [c \in Clients |-> NoReq]
  /\ used = [what \in {"requests", "toggles", "faults"} |-> 0]
  /\ adopted = {} /\ litter = {} /\ settled = FALSE

-------------------------------------------------------------------------------
At(c, at)   == req[c].at = at
Set(c, r)   == req' = [req EXCEPT ![c] = r]
Goto(c, at) == Set(c, [req[c] EXCEPT !.at = at])
End(c)      == Set(c, NoReq)

\* Rows go with the mappings that refer to them (ON DELETE CASCADE), and their
\* children stay without a parent (ON DELETE SET NULL).
Delete(S) ==
  /\ item' = [i \in Ids |-> IF i \in S THEN NoRow
                            ELSE IF item[i].parent \in S THEN [item[i] EXCEPT !.parent = 0]
                            ELSE item[i]]
  /\ mapped' = [k \in Contribs |-> IF mapped[k] \in S THEN 0 ELSE mapped[k]]

HasParent(p) == p = 0 \/ p \in Live

-------------------------------------------------------------------------------
\* Every request starts by ensure_menu_schema: the tables are there, and of the
\* rows with one of the single routes all but the oldest are deleted.
Start(c, r) ==
  /\ At(c, "idle")
  /\ Use("requests", MaxRequests)
  /\ LET alone == \A d \in Clients : At(d, "idle")
     IN req' = [d \in Clients |-> IF d = c
                  THEN [r EXCEPT !.at = "ensure", !.dedupe = SingleRoutes, !.alone = alone]
                  ELSE [req[d] EXCEPT !.alone = FALSE]]
  /\ UNCHANGED <<item, lastId, mapped, active, adopted, litter, settled>>

\* Mutant of Ensure: the newest row of a single route is kept.
EnsureNewest(c) ==
  /\ At(c, "ensure")
  /\ IF req[c].dedupe = {}
     THEN Goto(c, req[c].op) /\ UNCHANGED <<item, mapped>>
     ELSE \E r \in req[c].dedupe :
            /\ Delete({i \in Live : item[i].route = r /\ \E j \in Live : j > i /\ item[j].route = r})
            /\ Set(c, [req[c] EXCEPT !.dedupe = @ \ {r}])
  /\ UNCHANGED <<lastId, active, used, adopted, litter, settled>>

Ensure(c) ==
  /\ At(c, "ensure")
  /\ IF req[c].dedupe = {}
     THEN Goto(c, req[c].op) /\ UNCHANGED <<item, mapped>>
     ELSE \E r \in req[c].dedupe :
            LET Twins == {i \in Live : item[i].route = r}
            IN /\ Delete(Twins \ {MinId(Twins)})
               /\ Set(c, [req[c] EXCEPT !.dedupe = @ \ {r}])
  /\ UNCHANGED <<lastId, active, used, adopted, litter, settled>>

\* The statement of an administrator's request.  A parent that is not there
\* violates the foreign key, and the statement changes nothing.
AskCreate(c) == \E d \in Drafts : Start(c, [NoReq EXCEPT !.op = "create", !.draft = d])
AskUpdate(c) ==
  \E d \in Drafts, i \in Live :
    d.parent # i /\ Start(c, [NoReq EXCEPT !.op = "write", !.draft = d, !.patch = Fields, !.id = i])
AskPatch(c)  ==
  \E d \in Drafts, i \in Live, F \in Patches :
    Start(c, [NoReq EXCEPT !.op = "write", !.draft = d, !.patch = F, !.id = i])
AskRemove(c) == \E i \in Live : Start(c, [NoReq EXCEPT !.op = "check", !.id = i])
AskDelete(c) == \E i \in Live : Start(c, [NoReq EXCEPT !.op = "delete", !.id = i])

InsertRow(c) ==
  /\ At(c, "create")
  /\ IF HasParent(req[c].draft.parent)
     THEN /\ lastId < MaxId
          /\ lastId' = lastId + 1
          /\ item' = [item EXCEPT ![lastId + 1] = req[c].draft]
     ELSE UNCHANGED <<lastId, item>>
  /\ settled' = FALSE
  /\ End(c)
  /\ UNCHANGED <<mapped, active, used, adopted, litter>>

\* The form names every field; the JSON body only those it changes, and it does
\* not mind a row that is its own parent.
WriteRow(c) ==
  /\ At(c, "write")
  /\ LET i   == req[c].id
         row == [f \in DOMAIN NoRow |-> IF f \in req[c].patch THEN req[c].draft[f] ELSE item[i][f]]
     IN item' = IF item[i] # NoRow /\ HasParent(row.parent) THEN [item EXCEPT ![i] = row] ELSE item
  /\ settled' = FALSE
  /\ End(c)
  /\ UNCHANGED <<lastId, mapped, active, used, adopted, litter>>

\* The menu page looks at the row before it deletes it.
is_system_route(r) == r \in SystemRoutes

CheckRow(c) ==
  /\ At(c, "check")
  /\ IF req[c].id \in Live /\ ~is_system_route(item[req[c].id].route)
     THEN Goto(c, "delete") ELSE End(c)
  /\ UNCHANGED <<item, lastId, mapped, active, used, adopted, litter, settled>>

DeleteRow(c) ==
  /\ At(c, "delete")
  /\ Delete({req[c].id})
  /\ settled' = FALSE
  /\ End(c)
  /\ UNCHANGED <<lastId, active, used, adopted, litter>>

-------------------------------------------------------------------------------
\* list_menu_items: project_runtime_menu_contributions goes through the
\* contributions of the snapshot in their order, again and again for those
\* whose parent is not projected yet.
AskList(c) == Start(c, [NoReq EXCEPT !.op = "list"])

TakeSnapshot(c) ==
  /\ At(c, "list")
  /\ Set(c, [req[c] EXCEPT !.at = "next", !.snap = Offered, !.left = Offered])
  /\ UNCHANGED <<item, lastId, mapped, active, used, adopted, litter, settled>>

First(S) == CHOOSE k \in S : \A j \in S : Rank[k] <= Rank[j]

\* Mutant of NextContribution: only what is projected already can be a parent.
NextWithoutWaiting(c) ==
  /\ At(c, "next")
  /\ req[c].left # {}
  /\ LET r == req[c]
         k == First(r.left)
         p == Parent[k]
         taken == [r EXCEPT !.left = @ \ {k}, !.cur = k]
     IN Set(c, IF p = "none" THEN [taken EXCEPT !.at = "mapping", !.parent = 0]
               ELSE IF p \in Contribs /\ r.done[p] # 0
                    THEN [taken EXCEPT !.at = "mapping", !.parent = r.done[p]]
               ELSE IF p = System THEN [taken EXCEPT !.at = "legacyParent"]
               ELSE NoReq)
  /\ UNCHANGED <<item, lastId, mapped, active, used, adopted, litter, settled>>

\* What the next contribution needs: nothing above it, a parent that has been
\* projected, one that will be, or the legacy row of the system group.
NextContribution(c) ==
  /\ At(c, "next")
  /\ req[c].left # {}
  /\ LET r == req[c]
         k == First(r.left)
         p == Parent[k]
         taken == [r EXCEPT !.left = @ \ {k}, !.cur = k]
     IN Set(c, IF p = "none" THEN [taken EXCEPT !.at = "mapping", !.parent = 0]
               ELSE IF p \in Contribs /\ r.done[p] # 0
                    THEN [taken EXCEPT !.at = "mapping", !.parent = r.done[p]]
               ELSE IF p \in r.snap THEN [taken EXCEPT !.later = @ \cup {k}]
               ELSE IF p = System THEN [taken EXCEPT !.at = "legacyParent"]
               ELSE NoReq)
  /\ UNCHANGED <<item, lastId, mapped, active, used, adopted, litter, settled>>

\* A round that moved nothing has a hierarchy without a root and fails.
NextRound(c) ==
  /\ At(c, "next")
  /\ req[c].left = {}
  /\ LET r == req[c]
     IN Set(c, IF r.later = {} THEN [r EXCEPT !.at = "mappings"]
               ELSE IF r.moved THEN [r EXCEPT !.left = r.later, !.later = {}, !.moved = FALSE]
               ELSE NoReq)
  /\ UNCHANGED <<item, lastId, mapped, active, used, adopted, litter, settled>>

find_legacy_parent_id == MinId({i \in Live : item[i].label = Label[System] /\ item[i].parent = 0})

LegacyParent(c) ==
  /\ At(c, "legacyParent")
  /\ IF find_legacy_parent_id = 0 THEN End(c)
     ELSE Set(c, [req[c] EXCEPT !.at = "mapping", !.parent = find_legacy_parent_id])
  /\ UNCHANGED <<item, lastId, mapped, active, used, adopted, litter, settled>>

\* upsert_runtime_menu_item: a mapped contribution is left as it is.
Projected(r, i) == [r EXCEPT !.at = "next", !.done[r.cur] = i, !.moved = TRUE, !.cur = "none",
                             !.parent = 0, !.id = 0]

LookupMapping(c) ==
  /\ At(c, "mapping")
  /\ LET i == mapped[req[c].cur]
     IN IF i # 0 THEN Set(c, Projected(req[c], i)) ELSE Goto(c, "legacy")
  /\ UNCHANGED <<item, lastId, mapped, active, used, adopted, litter, settled>>

\* A row with its route, or without a route one with its label in its place,
\* is taken over.
Lookalikes(k, p) ==
  {i \in Live : IF Route[k] # "none" THEN item[i].route = Route[k]
                ELSE item[i].label = Label[k] /\ item[i].parent = p}

FindLegacy(c) ==
  /\ At(c, "legacy")
  /\ LET i == MinId(Lookalikes(req[c].cur, req[c].parent))
     IN Set(c, [req[c] EXCEPT !.id = i, !.at = IF i = 0 THEN "insert" ELSE "align"])
  /\ UNCHANGED <<item, lastId, mapped, active, used, adopted, litter, settled>>

Align(c) ==
  /\ At(c, "align")
  /\ LET r == req[c]
     IN IF r.id \notin Live THEN Goto(c, "record") /\ UNCHANGED item
        ELSE IF ~HasParent(r.parent) THEN End(c) /\ UNCHANGED item
        ELSE Goto(c, "record") /\ item' = [item EXCEPT ![r.id].parent = r.parent]
  /\ UNCHANGED <<lastId, mapped, active, used, adopted, litter, settled>>

InsertProjected(c) ==
  /\ At(c, "insert")
  /\ LET r == req[c]
     IN IF HasParent(r.parent)
        THEN /\ lastId < MaxId
             /\ lastId' = lastId + 1
             /\ item' = [item EXCEPT ![lastId + 1] =
                           [label |-> Label[r.cur], parent |-> r.parent, route |-> Route[r.cur],
                            by |-> "projection"]]
             /\ Set(c, [r EXCEPT !.at = "record", !.id = lastId + 1])
        ELSE End(c) /\ UNCHANGED <<lastId, item>>
  /\ UNCHANGED <<mapped, active, used, adopted, litter, settled>>

\* The request ends with an error, and what it has inserted stays behind.
Abandon(c) ==
  /\ litter' = IF req[c].at \in {"record", "drop"} THEN litter \cup {req[c].id} ELSE litter
  /\ End(c)

\* The mapping is inserted.  A contribution has one row, a row one contribution,
\* and the row has to be there; otherwise the listing fails.
RecordMapping(c) ==
  /\ At(c, "record")
  /\ LET r == req[c]
     IN IF r.id \in Live /\ mapped[r.cur] = 0 /\ \A k \in Contribs : mapped[k] # r.id
        THEN /\ mapped' = [mapped EXCEPT ![r.cur] = r.id]
             /\ adopted' = adopted \cup {r.id}
             /\ Set(c, Projected(r, r.id))
             /\ UNCHANGED litter
        ELSE Abandon(c) /\ UNCHANGED <<mapped, adopted>>
  /\ UNCHANGED <<item, lastId, active, used, settled>>

-------------------------------------------------------------------------------
\* Mutant of ReadMappings: nothing is ever stale.
ReadNoMappings(c) ==
  /\ At(c, "mappings")
  /\ Goto(c, "stale")
  /\ UNCHANGED <<item, lastId, mapped, active, used, adopted, litter, settled>>

\* What is mapped and not in the snapshot is removed: the mapping by its
\* contribution, the row by the id that was read.
ReadMappings(c) ==
  /\ At(c, "mappings")
  /\ Set(c, [req[c] EXCEPT !.at = "stale", !.stale =
               {<<k, mapped[k]>> : k \in {j \in Contribs : mapped[j] # 0 /\ j \notin req[c].snap}}])
  /\ UNCHANGED <<item, lastId, mapped, active, used, adopted, litter, settled>>

\* Mutant of DropMapping: the row is not removed with its mapping.
DropMappingOnly(c) ==
  /\ At(c, "stale")
  /\ \E s \in req[c].stale :
       /\ mapped' = [mapped EXCEPT ![s[1]] = 0]
       /\ Set(c, [req[c] EXCEPT !.stale = @ \ {s}])
  /\ UNCHANGED <<item, lastId, active, used, adopted, litter, settled>>

DropMapping(c) ==
  /\ At(c, "stale")
  /\ \E s \in req[c].stale :
       /\ litter' = IF mapped[s[1]] \in {0, s[2]} THEN litter ELSE litter \cup {mapped[s[1]]}
       /\ mapped' = [mapped EXCEPT ![s[1]] = 0]
       /\ Set(c, [req[c] EXCEPT !.at = "drop", !.id = s[2], !.stale = @ \ {s}])
  /\ UNCHANGED <<item, lastId, active, used, adopted, settled>>

DropRow(c) ==
  /\ At(c, "drop")
  /\ Delete({req[c].id})
  /\ Set(c, [req[c] EXCEPT !.at = "stale", !.id = 0])
  /\ UNCHANGED <<lastId, active, used, adopted, litter, settled>>

\* The rows are read, and the listing answers.
ReadRows(c) ==
  /\ At(c, "stale")
  /\ req[c].stale = {}
  /\ settled' = (settled \/ req[c].alone)
  /\ End(c)
  /\ UNCHANGED <<item, lastId, mapped, active, used, adopted, litter>>

-------------------------------------------------------------------------------
\* A plugin is enabled or disabled: the published snapshot has its contributions
\* or has them no more.
Switch ==
  /\ \E p \in Plugins \ Core :
       active' = IF p \in active THEN active \ {p} ELSE active \cup {p}
  /\ Use("toggles", MaxToggles)
  /\ settled' = FALSE
  /\ req' = [c \in Clients |-> [req[c] EXCEPT !.alone = FALSE]]
  /\ UNCHANGED <<item, lastId, mapped, adopted, litter>>

\* A statement fails, the client goes away, or the host stops under a request.
Fail(c) ==
  /\ ~At(c, "idle")
  /\ Use("faults", MaxFaults)
  /\ Abandon(c)
  /\ UNCHANGED <<item, lastId, mapped, active, adopted, settled>>

Edit(c) == InsertRow(c) \/ WriteRow(c) \/ CheckRow(c) \/ DeleteRow(c)
Project(c) ==
  \/ TakeSnapshot(c) \/ NextContribution(c) \/ NextRound(c) \/ LegacyParent(c) \/ LookupMapping(c)
  \/ FindLegacy(c) \/ Align(c) \/ InsertProjected(c) \/ RecordMapping(c)
Sweep(c) == ReadMappings(c) \/ DropMapping(c) \/ DropRow(c) \/ ReadRows(c)

Next ==
  \/ Switch
  \/ \E c \in Clients :
       \/ AskCreate(c) \/ AskUpdate(c) \/ AskPatch(c) \/ AskRemove(c) \/ AskDelete(c) \/ AskList(c)
       \/ Ensure(c) \/ Edit(c) \/ Project(c) \/ Sweep(c) \/ Fail(c)

Spec == Init /\ [][Next]_vars

-------------------------------------------------------------------------------
\* Every variable has its type; a row's parent is a row, a mapping's row is a
\* row, and no row is mapped twice: the keys of both tables hold after every
\* statement.
TypeOK ==
  /\ item \in [Ids -> Row]
  /\ lastId \in 0 .. MaxId
  /\ \A i \in Live : i <= lastId /\ HasParent(item[i].parent)
  /\ mapped \in [Contribs -> Live \cup {0}]
  /\ \A j, k \in Contribs : mapped[j] = mapped[k] /\ mapped[j] # 0 => j = k
  /\ active \subseteq Plugins /\ Core \subseteq active
  /\ DOMAIN req = Clients
  /\ \A c \in Clients :
       /\ DOMAIN req[c] = DOMAIN NoReq
       /\ req[c].left \cup req[c].later \subseteq req[c].snap
       /\ req[c].done \in [Contribs -> 0 .. MaxId]
  /\ used \in [{"requests", "toggles", "faults"} -> Nat]
  /\ adopted \subseteq Ids /\ litter \subseteq Ids /\ settled \in BOOLEAN

\* Once a listing has run alone after the last change, the contributions that
\* have a row are exactly those of the enabled plugins, whatever listings that
\* overlapped, edits and failures came before.
MenuFollowsPlugins == settled => \A k \in Contribs : mapped[k] # 0 <=> k \in Offered

\* A row that no contribution is mapped to and that the projection has made is
\* one that a listing is about to map or to delete, or one left behind by a
\* listing that failed there or met another one.
NoGhostRows ==
  \A i \in Live :
    item[i].by = "projection" =>
      \/ \E k \in Contribs : mapped[k] = i
      \/ \E c \in Clients : req[c].id = i /\ req[c].at \in {"record", "drop"}
      \/ i \in litter

\* A row of an administrator or a migration disappears only on an
\* administrator's request, as a younger twin of a single route, or after a
\* contribution has taken it over: then it goes with the plugin.
OwnRowsStay ==
  [][\A i \in Live :
       item[i].by # "projection" /\ item'[i] = NoRow =>
         \/ \E c \in Clients : req[c].at = "delete" /\ req[c].id = i
         \/ /\ item[i].route \in SingleRoutes
            /\ \E j \in Live : j < i /\ item[j].route = item[i].route
         \/ i \in adopted]_vars

\* A contribution that names a parent nobody offers.
Orphans(S) == {k \in S : Parent[k] \notin S \cup {"none"} /\
                         (Parent[k] = System => find_legacy_parent_id = 0)}

\* Contributions that wait for each other, each for its parent.
Circular(S) == \E T \in SUBSET S : T # {} /\ \A k \in T : Parent[k] \in T

\* What keeps a listing from answering, whoever else is at work.
Obstacle(r) ==
  \/ Orphans(r.snap) # {}
  \/ Circular(r.snap)
  \/ \E k \in Contribs \ {r.cur} : mapped[k] # 0 /\ mapped[k] = r.id

\* A listing that runs alone answers unless a contribution's parent is gone,
\* contributions are each other's parents in a circle, or a row that looks like
\* one's own is mapped to another one: then every listing fails until an
\* administrator deletes the row or a plugin is switched.
AloneListingAnswers ==
  [][\A c \in Clients :
       /\ req[c].alone /\ req[c].op = "list" /\ req'[c].at = "idle" /\ used' = used
       /\ ~(req[c].at = "stale" /\ req[c].stale = {})
       => Obstacle(req[c])]_vars
===============================================================================
