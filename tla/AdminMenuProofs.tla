--------------------------- MODULE AdminMenuProofs ---------------------------
(***************************************************************************)
(* Theorems about AdminMenu: the keys of its tables, the rows that the     *)
(* projection makes, the rows that it takes over, what a listing that runs *)
(* alone leaves behind, and what keeps it from answering.                  *)
(*                                                                         *)
(* Every theorem rests on TypeInv, which says of each request what it has  *)
(* at hand at its stage and of the tables that their keys hold.            *)
(***************************************************************************)
EXTENDS AdminMenu, FunctionTheorems, WellFoundedInduction, NaturalsInduction, TLAPS

(***************************************************************************)
(* The least of some numbers, and what follows for rows and contributions. *)
(***************************************************************************)
\* A set of numbers that is not empty has a least one.
LEMMA LeastNatural ==
  ASSUME NEW T \in SUBSET Nat, T # {}
  PROVE  \E x \in T : \A y \in T : x <= y
<1> DEFINE R == OpToRel(<, Nat)
<1>1. IsWellFoundedOn(R, Nat)
  BY NatLessThanWellFounded, Zenon
<1>2. \A x, y \in Nat : <<x, y>> \in R <=> x < y
  BY DEF OpToRel
<1> HIDE DEF R
<1>3. PICK x \in T : \A y \in T : <<y, x>> \notin R
  BY <1>1, WFMin
<1>4. \A y \in T : ~(y < x)
  BY <1>2, <1>3
<1> QED
  BY <1>4

\* The oldest of some rows is one of them.
LEMMA OldestRow ==
  ASSUME NEW S \in SUBSET Ids, S # {}
  PROVE  MinId(S) \in S /\ \A j \in S : MinId(S) <= j
<1>1. \E x \in S : \A y \in S : x <= y
  BY LeastNatural DEF Ids
<1> QED
  BY <1>1 DEF MinId

\* Ids are positive and bounded.
LEMMA Bounds ==
  /\ MaxId \in Nat /\ Ids \subseteq Nat \ {0}
  /\ \A i \in Nat : i \in Ids <=> 1 <= i /\ i <= MaxId
BY MenuAssumption DEF Ids

\* The oldest of some rows is one of them, or there is none.
LEMMA OldestOrNone ==
  ASSUME NEW S \in SUBSET Ids
  PROVE  MinId(S) \in S \cup {0} /\ (MinId(S) = 0 <=> S = {})
<1>1. CASE S = {}
  BY <1>1 DEF MinId
<1>2. CASE S # {}
  BY <1>2, OldestRow, Bounds
<1> QED
  BY <1>1, <1>2

\* The first of some contributions is one of them.
LEMMA FirstIsOne ==
  ASSUME NEW S \in SUBSET Contribs, S # {}
  PROVE  First(S) \in S
<1> DEFINE T == {Rank[k] : k \in S}
<1>1. T \in SUBSET Nat /\ T # {}
  BY MenuAssumption
<1> HIDE DEF T
<1>2. PICK x \in T : \A y \in T : x <= y
  BY <1>1, LeastNatural
<1>3. \E k \in S : \A j \in S : Rank[k] <= Rank[j]
  BY <1>2 DEF T
<1> QED
  BY <1>3 DEF First

(***************************************************************************)
(* Types.                                                                  *)
(***************************************************************************)
Asking   == {"create", "write", "check", "delete"}
Handling == {"mapping", "legacyParent", "legacy", "align", "insert", "record"}
Listing  == Handling \cup {"list", "next", "mappings", "stale", "drop"}

Request ==
  [op : Asking \cup {"none", "list"}, at : Asking \cup Listing \cup {"idle", "ensure"},
   dedupe : SUBSET SingleRoutes, id : Ids \cup {0}, draft : Drafts \cup {NoRow},
   patch : SUBSET Fields, snap : SUBSET Contribs, left : SUBSET Contribs,
   later : SUBSET Contribs, moved : BOOLEAN, cur : Contribs \cup {"none"},
   parent : Ids \cup {0}, done : [Contribs -> Ids \cup {0}],
   stale : SUBSET (Contribs \X Ids), alone : BOOLEAN]

\* What a request has at hand at each of its stages.
RequestInv(r) ==
  /\ r \in Request
  /\ r.left \cup r.later \subseteq r.snap /\ (r.at \notin Listing \ {"list"} => r.snap = {})
  /\ r.at # "idle" => r.op # "none"
  /\ r.op \in {"create", "write"} => r.draft \in Drafts
  /\ r.op \in {"write", "check", "delete"} => r.id \in Ids
  /\ r.at \in Asking => r.op = r.at \/ (r.at = "delete" /\ r.op = "check")
  /\ r.at \in Listing => r.op = "list"
  /\ r.at \in Handling => r.cur \in r.snap
  /\ r.at \in {"align", "record", "drop"} => r.id \in Ids
RequestsInv == req \in [Clients -> Request] /\ \A c \in Clients : RequestInv(req[c])

\* A row that is there is marked with who made it, and its parent is there.
TablesInv ==
  /\ item \in [Ids -> Row] /\ lastId \in 0 .. MaxId
  /\ \A i \in Live : i <= lastId /\ HasParent(item[i].parent) /\ item[i].by # "none"
  /\ mapped \in [Contribs -> Live \cup {0}]
  /\ \A j, k \in Contribs : mapped[j] = mapped[k] /\ mapped[j] # 0 => j = k

RestInv ==
  /\ active \subseteq Plugins /\ Core \subseteq active
  /\ used \in [{"requests", "toggles", "faults"} -> Nat]
  /\ adopted \subseteq Ids /\ litter \subseteq Ids /\ settled \in BOOLEAN

TypeInv == TablesInv /\ RequestsInv /\ RestInv

(***************************************************************************)
(* What the statements do to the tables.                                   *)
(***************************************************************************)
LEMMA RowFacts ==
  /\ NoRow \in Row
  /\ \A k \in Contribs, p \in Ids \cup {0} :
       [label |-> Label[k], parent |-> p, route |-> Route[k], by |-> "projection"] \in Row
  /\ \A r \in Row, p \in Ids \cup {0} :
       /\ [r EXCEPT !.parent = p] \in Row
       /\ [r EXCEPT !.parent = p].by = r.by /\ [r EXCEPT !.parent = p].parent = p
       /\ [r EXCEPT !.parent = p].label = r.label /\ [r EXCEPT !.parent = p].route = r.route
  /\ \A d \in Drafts : d \in Row /\ d.by = "admin"
<1>1. "none" \in Labels /\ "none" \in Routes
      /\ \A k \in Contribs : Label[k] \in Labels /\ Route[k] \in Routes
  BY DEF Labels, Routes
<1>2. Ids \cup {0} = 0 .. MaxId
  BY MenuAssumption DEF Ids
<1>3. \A d \in Drafts : d \in Row /\ d.by = "admin"
  BY MenuAssumption
<1> QED
  BY <1>1, <1>2, <1>3 DEF Row, NoRow

\* The row i is written, and its parent is there.
LEMMA WrittenRow ==
  ASSUME TablesInv, NEW i \in Ids, i \in Live \/ (i = lastId + 1 /\ lastId' = lastId + 1),
         lastId' \in {lastId, lastId + 1}, lastId' <= MaxId, mapped' = mapped,
         NEW row \in Row, row.by # "none", HasParent(row.parent),
         item' = [item EXCEPT ![i] = row]
  PROVE  TablesInv' /\ Live' = Live \cup {i}
<1>1. item' \in [Ids -> Row] /\ item'[i] = row /\ \A j \in Ids \ {i} : item'[j] = item[j]
  BY DEF TablesInv
<1>2. Live' = Live \cup {i}
  BY <1>1 DEF Live, NoRow, Row
<1>3. \A p : HasParent(p) => HasParent(p)'
  BY <1>2 DEF HasParent
<1>4. lastId \in Nat /\ lastId' \in 0 .. MaxId /\ lastId <= lastId'
  BY Bounds DEF TablesInv
<1>5. ASSUME NEW j \in Live'
      PROVE  j <= lastId' /\ HasParent(item[j].parent)' /\ item'[j].by # "none"
  <2>1. CASE j = i
    BY <1>1, <1>3, <1>4, <2>1, Bounds DEF TablesInv, HasParent
  <2>2. CASE j # i
    <3>1. j \in Live /\ j \in Ids /\ item'[j] = item[j]
      BY <1>1, <1>2, <2>2 DEF Live
    <3> QED
      BY <1>3, <1>4, <3>1, Bounds DEF TablesInv, HasParent
  <2> QED
    BY <2>1, <2>2
<1> QED
  BY <1>1, <1>2, <1>4, <1>5 DEF TablesInv

\* Rows are deleted, with the mappings that refer to them.
LEMMA DeletedRows ==
  ASSUME TablesInv, NEW S \in SUBSET Ids, Delete(S), lastId' = lastId
  PROVE  /\ TablesInv' /\ Live' = Live \ S
         /\ \A i \in Live \ S : item'[i] \in Row /\ item'[i].by = item[i].by
                                /\ item'[i].label = item[i].label
                                /\ item'[i].route = item[i].route
         /\ \A k \in Contribs : mapped'[k] = IF mapped[k] \in S THEN 0 ELSE mapped[k]
<1>1. ASSUME NEW i \in Ids
      PROVE  /\ item'[i] \in Row
             /\ i \in S => item'[i] = NoRow
             /\ i \notin S => /\ item'[i].by = item[i].by /\ item'[i].label = item[i].label
                              /\ item'[i].route = item[i].route
                              /\ (item'[i] = NoRow <=> item[i] = NoRow)
                              /\ item'[i].parent = IF item[i].parent \in S THEN 0 ELSE item[i].parent
  <2>1. item'[i] = IF i \in S THEN NoRow
                   ELSE IF item[i].parent \in S THEN [item[i] EXCEPT !.parent = 0] ELSE item[i]
    BY DEF Delete
  <2>2. item[i] \in Row /\ NoRow \in Row
    BY RowFacts DEF TablesInv, NoRow
  <2>3. i \in Live => item[i].by # "none"
    BY DEF TablesInv
  <2> QED
    BY <2>1, <2>2, <2>3, RowFacts DEF NoRow, Live, Row
<1>2. item' \in [Ids -> Row]
  BY <1>1 DEF Delete
<1>3. Live' = Live \ S
  BY <1>1 DEF Live
<1>4. \A k \in Contribs : mapped'[k] = IF mapped[k] \in S THEN 0 ELSE mapped[k]
  BY DEF Delete
<1>5. mapped' \in [Contribs -> Live' \cup {0}]
  BY <1>3, <1>4 DEF Delete, TablesInv
<1>6. ASSUME NEW i \in Live' PROVE i <= lastId /\ HasParent(item[i].parent)' /\ item'[i].by # "none"
  <2>1. i \in Live /\ i \notin S /\ i \in Ids
    BY <1>3, <1>6 DEF Live
  <2>2. item'[i].parent = 0 \/ (item'[i].parent = item[i].parent /\ item[i].parent \notin S)
    BY <1>1, <2>1
  <2> QED
    BY <1>1, <1>3, <2>1, <2>2 DEF TablesInv, HasParent
<1> QED
  BY <1>1, <1>2, <1>3, <1>4, <1>5, <1>6 DEF TablesInv, Live

\* The parent of a row that is there is the id of a row, or none.
LEMMA ParentIsId ==
  ASSUME NEW p, HasParent(p)
  PROVE  p \in Ids \cup {0}
BY DEF HasParent, Live

\* The rows a statement leaves alone or writes over: none of those that were
\* there is gone, and each is still marked with who made it.
RowsKept == \A i \in Live : i \in Live' /\ item'[i].by = item[i].by

\* An administrator's row is written below the rows there are.
LEMMA CreatedRow ==
  ASSUME TypeInv, NEW c \in Clients, InsertRow(c)
  PROVE  /\ TablesInv' /\ RowsKept /\ mapped' = mapped
         /\ \A i \in Live' \ Live : item'[i].by = "admin"
<1>0. lastId + 1 \notin Live
  BY Bounds DEF TypeInv, TablesInv, Live
<1>1. CASE HasParent(req[c].draft.parent)
  <2>1. /\ lastId < MaxId /\ lastId' = lastId + 1 /\ mapped' = mapped
        /\ item' = [item EXCEPT ![lastId + 1] = req[c].draft]
    BY <1>1 DEF InsertRow
  <2>2. req[c].draft \in Row /\ req[c].draft.by = "admin"
    BY RowFacts DEF InsertRow, At, TypeInv, RequestsInv, RequestInv, Asking
  <2>3. lastId + 1 \in Ids
    BY <2>1, Bounds DEF TypeInv, TablesInv
  <2>4. TablesInv' /\ Live' = Live \cup {lastId + 1}
    BY <1>1, <2>1, <2>2, <2>3, Bounds, WrittenRow DEF TypeInv
  <2>5. \A i \in Ids : item'[i] = IF i = lastId + 1 THEN req[c].draft ELSE item[i]
    BY <2>1, <2>3 DEF TypeInv, TablesInv
  <2> QED
    BY <1>0, <2>1, <2>2, <2>3, <2>4, <2>5 DEF RowsKept, Live
<1>2. CASE ~HasParent(req[c].draft.parent)
  BY <1>2 DEF InsertRow, TypeInv, TablesInv, Live, HasParent, RowsKept
<1> QED
  BY <1>1, <1>2

\* An administrator writes over fields of a row, never over who made it.
LEMMA ChangedRow ==
  ASSUME TypeInv, NEW c \in Clients, WriteRow(c)
  PROVE  TablesInv' /\ RowsKept /\ Live' = Live /\ mapped' = mapped
<1> DEFINE i == req[c].id
           row == [f \in DOMAIN NoRow |-> IF f \in req[c].patch THEN req[c].draft[f] ELSE item[i][f]]
<1>1. CASE item[i] # NoRow /\ HasParent(row.parent)
  <2>1. lastId' = lastId /\ mapped' = mapped /\ item' = [item EXCEPT ![i] = row]
    BY <1>1 DEF WriteRow
  <2>2. i \in Ids /\ req[c].draft \in Row /\ req[c].patch \subseteq Fields
    BY RowFacts DEF WriteRow, At, TypeInv, RequestsInv, RequestInv, Request, Asking
  <2>3. i \in Live /\ item[i] \in Row /\ item[i].by # "none"
    BY <1>1, <2>2 DEF TypeInv, TablesInv, Live
  <2>4. row \in Row /\ row.by = item[i].by /\ row.by # "none"
    BY <2>2, <2>3 DEF Row, NoRow, Fields
  <2>5. lastId \in 0 .. MaxId /\ lastId <= MaxId
    BY Bounds DEF TypeInv, TablesInv
  <2> HIDE DEF row, i
  <2>6. TablesInv' /\ Live' = Live \cup {i}
    BY <1>1, <2>1, <2>2, <2>3, <2>4, <2>5, WrittenRow DEF TypeInv
  <2>7. \A x \in Ids : item'[x] = IF x = i THEN row ELSE item[x]
    BY <2>1, <2>2 DEF TypeInv, TablesInv
  <2> QED
    BY <2>1, <2>3, <2>4, <2>6, <2>7 DEF RowsKept, Live
<1>2. CASE ~(item[i] # NoRow /\ HasParent(row.parent))
  BY <1>2 DEF WriteRow, TypeInv, TablesInv, Live, HasParent, RowsKept
<1> QED
  BY <1>1, <1>2

\* The projection hangs a row below its contribution's parent.
LEMMA AlignedRow ==
  ASSUME TypeInv, NEW c \in Clients, Align(c)
  PROVE  /\ TablesInv' /\ RowsKept /\ Live' = Live /\ mapped' = mapped
         /\ \A i \in Live : item'[i].route = item[i].route
<1> DEFINE r == req[c]
           row == [item[r.id] EXCEPT !.parent = r.parent]
<1>1. CASE r.id \in Live /\ HasParent(r.parent)
  <2>1. lastId' = lastId /\ mapped' = mapped /\ item' = [item EXCEPT ![r.id] = row]
    <3>1. item' = [item EXCEPT ![r.id].parent = r.parent]
      BY <1>1 DEF Align
    <3> QED
      BY <3>1 DEF Align
  <2>2. r.id \in Ids /\ item[r.id] \in Row /\ item[r.id].by # "none"
    BY <1>1 DEF TypeInv, TablesInv, Live
  <2>3. row \in Row /\ row.by = item[r.id].by /\ row.parent = r.parent /\ row.route = item[r.id].route
    BY <1>1, <2>2, ParentIsId, RowFacts
  <2>4. lastId \in 0 .. MaxId /\ lastId <= MaxId
    BY Bounds DEF TypeInv, TablesInv
  <2> HIDE DEF row
  <2>5. TablesInv' /\ Live' = Live \cup {r.id}
    BY <1>1, <2>1, <2>2, <2>3, <2>4, WrittenRow DEF TypeInv
  <2>6. \A x \in Ids : item'[x] = IF x = r.id THEN row ELSE item[x]
    BY <2>1, <2>2 DEF TypeInv, TablesInv
  <2> QED
    BY <1>1, <2>1, <2>3, <2>5, <2>6 DEF RowsKept, Live
<1>2. CASE ~(r.id \in Live /\ HasParent(r.parent))
  BY <1>2 DEF Align, TypeInv, TablesInv, Live, HasParent, RowsKept
<1> QED
  BY <1>1, <1>2

\* The projection writes a contribution's row below the rows there are, and goes
\* on to record it.
LEMMA ProjectedRow ==
  ASSUME TypeInv, NEW c \in Clients, InsertProjected(c), HasParent(req[c].parent)
  PROVE  /\ TablesInv' /\ RowsKept /\ mapped' = mapped
         /\ Live' = Live \cup {lastId + 1} /\ lastId + 1 \in Ids \ Live
         /\ item'[lastId + 1].route = Route[req[c].cur]
         /\ \A i \in Live : item'[i] = item[i]
<1> DEFINE r == req[c]
           row == [label |-> Label[r.cur], parent |-> r.parent, route |-> Route[r.cur],
                   by |-> "projection"]
<1>1. /\ lastId < MaxId /\ lastId' = lastId + 1 /\ mapped' = mapped
      /\ item' = [item EXCEPT ![lastId + 1] = row]
  BY DEF InsertProjected
<1>2. r.cur \in Contribs
  BY DEF InsertProjected, At, TypeInv, RequestsInv, RequestInv, Request, Handling
<1>3. row \in Row /\ row.by # "none" /\ row.parent = r.parent /\ row.route = Route[r.cur]
  BY <1>2, ParentIsId, RowFacts
<1>4. lastId + 1 \in Ids \ Live
  BY <1>1, Bounds DEF TypeInv, TablesInv
<1> HIDE DEF row
<1>5. TablesInv' /\ Live' = Live \cup {lastId + 1}
  BY <1>1, <1>3, <1>4, Bounds, WrittenRow DEF TypeInv
<1>6. \A x \in Ids : item'[x] = IF x = lastId + 1 THEN row ELSE item[x]
  BY <1>1, <1>4 DEF TypeInv, TablesInv
<1> QED
  BY <1>1, <1>3, <1>4, <1>5, <1>6 DEF RowsKept, Live

(***************************************************************************)
(* Every step keeps the tables.                                            *)
(***************************************************************************)
LEMMA TablesStep ==
  ASSUME TypeInv, [Next]_vars
  PROVE  TablesInv'
<1>0. CASE UNCHANGED <<item, lastId, mapped>>
  BY <1>0 DEF TypeInv, TablesInv, Live, HasParent
<1>1. ASSUME NEW c \in Clients, Ensure(c) PROVE TablesInv'
  <2>1. CASE req[c].dedupe = {}
    BY <1>0, <1>1, <2>1 DEF Ensure
  <2>2. CASE req[c].dedupe # {}
    <3>1. PICK S \in SUBSET Ids : Delete(S)
      BY <1>1, <2>2 DEF Ensure, Live
    <3> QED
      BY <1>1, <3>1, DeletedRows DEF Ensure, TypeInv
  <2> QED
    BY <2>1, <2>2
<1>2. ASSUME NEW c \in Clients, InsertRow(c) PROVE TablesInv'
  BY <1>2, CreatedRow
<1>3. ASSUME NEW c \in Clients, WriteRow(c) PROVE TablesInv'
  BY <1>3, ChangedRow
<1>4. ASSUME NEW c \in Clients, DeleteRow(c) \/ DropRow(c) PROVE TablesInv'
  <2>1. req[c].id \in Ids
    BY <1>4 DEF DeleteRow, DropRow, At, TypeInv, RequestsInv, RequestInv, Request, Asking
  <2> QED
    BY <1>4, <2>1, DeletedRows DEF DeleteRow, DropRow, TypeInv
<1>5. ASSUME NEW c \in Clients, Align(c) PROVE TablesInv'
  BY <1>5, AlignedRow
<1>6. ASSUME NEW c \in Clients, InsertProjected(c) PROVE TablesInv'
  <2>1. CASE HasParent(req[c].parent)
    BY <1>6, <2>1, ProjectedRow
  <2>2. CASE ~HasParent(req[c].parent)
    BY <1>0, <1>6, <2>2 DEF InsertProjected
  <2> QED
    BY <2>1, <2>2
<1>7. ASSUME NEW c \in Clients, RecordMapping(c) PROVE TablesInv'
  <2> DEFINE r == req[c]
  <2>1. CASE r.id \in Live /\ mapped[r.cur] = 0 /\ \A k \in Contribs : mapped[k] # r.id
    <3>1. mapped' = [mapped EXCEPT ![r.cur] = r.id] /\ UNCHANGED <<item, lastId>>
      BY <1>7, <2>1 DEF RecordMapping
    <3>2. r.cur \in Contribs
      BY <1>7 DEF RecordMapping, At, TypeInv, RequestsInv, RequestInv, Request, Handling
    <3> QED
      BY <2>1, <3>1, <3>2 DEF TypeInv, TablesInv, Live, HasParent
  <2>2. CASE ~(r.id \in Live /\ mapped[r.cur] = 0 /\ \A k \in Contribs : mapped[k] # r.id)
    BY <1>0, <1>7, <2>2 DEF RecordMapping
  <2> QED
    BY <2>1, <2>2
<1>8. ASSUME NEW c \in Clients, DropMapping(c) PROVE TablesInv'
  <2>1. PICK k : mapped' = [mapped EXCEPT ![k] = 0]
    BY <1>8 DEF DropMapping
  <2> QED
    BY <1>8, <2>1 DEF DropMapping, TypeInv, TablesInv, Live, HasParent
<1>9. CASE UNCHANGED vars \/ Switch
  BY <1>0, <1>9 DEF vars, Switch
<1>10. ASSUME NEW c \in Clients,
              \/ AskCreate(c) \/ AskUpdate(c) \/ AskPatch(c) \/ AskRemove(c)
              \/ AskDelete(c) \/ AskList(c)
              \/ CheckRow(c) \/ TakeSnapshot(c) \/ NextContribution(c) \/ NextRound(c) \/ LegacyParent(c)
              \/ LookupMapping(c) \/ FindLegacy(c) \/ ReadMappings(c) \/ ReadRows(c) \/ Fail(c)
       PROVE  TablesInv'
  BY <1>0, <1>10 DEF AskCreate, AskUpdate, AskPatch, AskRemove, AskDelete, AskList, Start,
     CheckRow,
     TakeSnapshot, NextContribution, NextRound, LegacyParent, LookupMapping, FindLegacy,
     ReadMappings,
     ReadRows, Fail
<1> QED
  BY <1>1, <1>2, <1>3, <1>4, <1>5, <1>6, <1>7, <1>8, <1>9, <1>10 DEF Next, Edit, Project, Sweep

(***************************************************************************)
(* Every step keeps the requests.                                          *)
(***************************************************************************)
LEMMA NoRequest == RequestInv(NoReq)
BY DEF RequestInv, Request, NoReq, Asking, Listing, Handling

\* A request that another one joins has the same at hand.
LEMMA Unaccompanied ==
  ASSUME NEW r, RequestInv(r)
  PROVE  RequestInv([r EXCEPT !.alone = FALSE])
<1>1. r \in Request
  BY DEF RequestInv
<1>2. [r EXCEPT !.alone = FALSE] \in Request
  BY <1>1 DEF Request
<1> QED
  BY <1>1, <1>2 DEF RequestInv, Request

\* A step of one request keeps what the requests have at hand when it keeps its own.
LEMMA OneRequest ==
  ASSUME RequestsInv, NEW c \in Clients, NEW r, RequestInv(r), Set(c, r)
  PROVE  RequestsInv'
<1>1. req' = [req EXCEPT ![c] = r] /\ r \in Request
  BY DEF Set, RequestInv
<1> QED
  BY <1>1 DEF RequestsInv

\* So does the first step of a request, which also tells the others they are not alone.
LEMMA StartedRequest ==
  ASSUME RequestsInv, NEW c \in Clients, NEW r, RequestInv(r), r.op # "none", r.snap = {}, Start(c, r)
  PROVE  RequestsInv'
<1>1. PICK a \in BOOLEAN : \A d \in Clients :
        req'[d] = IF d = c THEN [r EXCEPT !.at = "ensure", !.dedupe = SingleRoutes, !.alone = a]
                           ELSE [req[d] EXCEPT !.alone = FALSE]
  <2>1. (\A d \in Clients : At(d, "idle")) \in BOOLEAN
    OBVIOUS
  <2> QED
    BY <2>1 DEF Start
<1>2. RequestInv([r EXCEPT !.at = "ensure", !.dedupe = SingleRoutes, !.alone = a])
  <2>1. r \in Request
    BY DEF RequestInv
  <2>2. [r EXCEPT !.at = "ensure", !.dedupe = SingleRoutes, !.alone = a] \in Request
    BY <2>1, ZenonT(30) DEF Request
  <2> QED
    BY <2>1, <2>2 DEF RequestInv, Request, Asking, Listing, Handling
<1>3. \A d \in Clients : RequestInv(req'[d])
  BY <1>1, <1>2, Unaccompanied DEF RequestsInv
<1>4. req' = [d \in Clients |-> req'[d]]
  BY DEF Start
<1> QED
  BY <1>3, <1>4 DEF RequestsInv, RequestInv

\* What the bodies and paths of the requests hold.
LEMMA AskedRequests ==
  ASSUME TypeInv, NEW c \in Clients,
         AskCreate(c) \/ AskUpdate(c) \/ AskPatch(c) \/ AskRemove(c) \/ AskDelete(c) \/ AskList(c)
  PROVE  RequestsInv'
<1>0. ASSUME NEW op \in Asking, NEW d \in Drafts \cup {NoRow}, NEW F \in SUBSET Fields,
             NEW i \in Ids \cup {0}, op \in {"create", "write"} => d \in Drafts,
             op \in {"write", "check", "delete"} => i \in Ids,
             Start(c, [NoReq EXCEPT !.op = op, !.draft = d, !.patch = F, !.id = i])
      PROVE  RequestsInv'
  <2>1. RequestInv([NoReq EXCEPT !.op = op, !.draft = d, !.patch = F, !.id = i])
    BY <1>0 DEF RequestInv, Request, NoReq, Asking, Listing, Handling
  <2>2. /\ [NoReq EXCEPT !.op = op, !.draft = d, !.patch = F, !.id = i].op # "none"
        /\ [NoReq EXCEPT !.op = op, !.draft = d, !.patch = F, !.id = i].snap = {}
    BY DEF NoReq, Asking
  <2> QED
    BY <1>0, <2>1, <2>2, StartedRequest DEF TypeInv
<1>1. CASE AskCreate(c)
  <2>1. PICK d \in Drafts : Start(c, [NoReq EXCEPT !.op = "create", !.draft = d])
    BY <1>1 DEF AskCreate
  <2>2. RequestInv([NoReq EXCEPT !.op = "create", !.draft = d])
    BY DEF RequestInv, Request, NoReq, Asking, Listing, Handling
  <2>3. /\ [NoReq EXCEPT !.op = "create", !.draft = d].op # "none"
        /\ [NoReq EXCEPT !.op = "create", !.draft = d].snap = {}
    BY DEF NoReq
  <2> QED
    BY <2>1, <2>2, <2>3, StartedRequest DEF TypeInv
<1>2. CASE AskUpdate(c) \/ AskPatch(c)
  <2>1. PICK d \in Drafts, i \in Ids, F \in SUBSET Fields :
          Start(c, [NoReq EXCEPT !.op = "write", !.draft = d, !.patch = F, !.id = i])
    BY <1>2, MenuAssumption DEF AskUpdate, AskPatch, Live
  <2> QED
    BY <1>0, <2>1 DEF Asking
<1>3. CASE AskRemove(c) \/ AskDelete(c)
  <2>1. PICK op \in {"check", "delete"}, i \in Ids : Start(c, [NoReq EXCEPT !.op = op, !.id = i])
    BY <1>3 DEF AskRemove, AskDelete, Live
  <2>2. RequestInv([NoReq EXCEPT !.op = op, !.id = i])
    BY DEF RequestInv, Request, NoReq, Asking, Listing, Handling
  <2>3. [NoReq EXCEPT !.op = op, !.id = i].op # "none" /\ [NoReq EXCEPT !.op = op, !.id = i].snap = {}
    BY DEF NoReq
  <2> QED
    BY <2>1, <2>2, <2>3, StartedRequest DEF TypeInv
<1>4. CASE AskList(c)
  <2>1. RequestInv([NoReq EXCEPT !.op = "list"])
    BY DEF RequestInv, Request, NoReq, Asking, Listing, Handling
  <2> QED
    BY <1>4, <2>1, StartedRequest DEF AskList, NoReq, TypeInv
<1> QED
  BY <1>1, <1>2, <1>3, <1>4

\* The snapshot offers contributions.
LEMMA OfferedOnes == Offered \subseteq Contribs
BY DEF Offered

\* What a listing has at hand once a contribution has its row.
LEMMA ProjectedOne ==
  ASSUME NEW r, RequestInv(r), r.at \in Handling, r.cur \in Contribs, NEW i \in Ids
  PROVE  Projected(r, i) \in Request /\ RequestInv(Projected(r, i))
<1>1. r \in Request /\ r.done \in [Contribs -> Ids \cup {0}]
  BY DEF RequestInv, Request
<1>2. [r.done EXCEPT ![r.cur] = i] \in [Contribs -> Ids \cup {0}]
  BY <1>1
<1>3. Projected(r, i) = [r EXCEPT !.at = "next", !.done = [r.done EXCEPT ![r.cur] = i], !.moved = TRUE,
                                  !.cur = "none", !.parent = 0, !.id = 0]
  BY <1>1 DEF Projected, Request
<1>4. Projected(r, i) \in Request
  BY <1>1, <1>2, <1>3 DEF Request, Listing
<1> QED
  BY <1>1, <1>3, <1>4 DEF RequestInv, Request, Asking, Listing, Handling

\* Every step keeps what the requests have at hand.
LEMMA RequestsStep ==
  ASSUME TypeInv, [Next]_vars
  PROVE  RequestsInv'
<1>0. ASSUME NEW c \in Clients PROVE RequestInv(req[c]) /\ req[c] \in Request
  BY DEF TypeInv, RequestsInv, RequestInv
<1>1. ASSUME NEW c \in Clients, End(c) PROVE RequestsInv'
  BY <1>1, NoRequest, OneRequest DEF End, TypeInv
<1>2. ASSUME NEW c \in Clients, Ensure(c) PROVE RequestsInv'
  <2> DEFINE r == req[c]
  <2>0. r \in Request /\ RequestInv(r)
    BY <1>0
  <2>1. CASE r.dedupe = {}
    <3> DEFINE x == [r EXCEPT !.at = r.op]
    <3>1. Set(c, x) /\ At(c, "ensure")
      BY <1>2, <2>1 DEF Ensure, Goto
    <3>2. x \in Request
      BY <2>0, <3>1 DEF Request, RequestInv, Asking, Listing, Handling, At
    <3>3. RequestInv(x)
      BY <2>0, <3>1, <3>2 DEF RequestInv, Request, Asking, Listing, Handling, At
    <3> QED
      BY <3>1, <3>3, OneRequest DEF TypeInv
  <2>2. CASE r.dedupe # {}
    <3>1. PICK x : Set(c, [r EXCEPT !.dedupe = @ \ {x}])
      BY <1>2, <2>2 DEF Ensure
    <3>2. [r EXCEPT !.dedupe = @ \ {x}] \in Request
      BY <2>0 DEF Request
    <3>3. RequestInv([r EXCEPT !.dedupe = @ \ {x}])
      BY <2>0, <3>2 DEF RequestInv, Request
    <3> QED
      BY <3>1, <3>3, OneRequest DEF TypeInv
  <2> QED
    BY <2>1, <2>2
<1>3. ASSUME NEW c \in Clients, CheckRow(c) PROVE RequestsInv'
  <2> DEFINE r == req[c]
  <2>0. r \in Request /\ RequestInv(r)
    BY <1>0
  <2>1. CASE req[c].id \in Live /\ ~is_system_route(item[req[c].id].route)
    <3> DEFINE x == [r EXCEPT !.at = "delete"]
    <3>1. Set(c, x) /\ At(c, "check")
      BY <1>3, <2>1 DEF CheckRow, Goto
    <3>2. x \in Request
      BY <2>0, <2>1, <3>1 DEF Request, RequestInv, Asking, Listing, Handling, At
    <3>3. RequestInv(x)
      BY <2>0, <2>1, <3>1, <3>2 DEF RequestInv, Request, Asking, Listing, Handling, At
    <3> QED
      BY <3>1, <3>3, OneRequest DEF TypeInv
  <2>2. CASE ~(req[c].id \in Live /\ ~is_system_route(item[req[c].id].route))
    BY <1>3, <1>1, <2>2 DEF CheckRow, Goto
  <2> QED
    BY <2>1, <2>2
<1>4. ASSUME NEW c \in Clients, TakeSnapshot(c) PROVE RequestsInv'
  <2> DEFINE r == req[c]
  <2>0. r \in Request /\ RequestInv(r)
    BY <1>0
  <2>1. CASE TRUE
    <3> DEFINE x == [r EXCEPT !.at = "next", !.snap = Offered, !.left = Offered]
    <3>1. Set(c, x) /\ At(c, "list")
      BY <1>4, <2>1 DEF TakeSnapshot
    <3>2. x \in Request
      BY <2>0, <2>1, <3>1, OfferedOnes DEF Request, RequestInv, Asking, Listing, Handling, At
    <3>3. RequestInv(x)
      BY <2>0, <2>1, <3>1, <3>2, OfferedOnes DEF RequestInv, Request, Asking, Listing,
         Handling, At
    <3> QED
      BY <3>1, <3>3, OneRequest DEF TypeInv
  <2> QED
    BY <2>1
<1>5. ASSUME NEW c \in Clients, NextContribution(c) PROVE RequestsInv'
  <2> DEFINE r == req[c]
  <2>0. r \in Request /\ RequestInv(r)
    BY <1>0
  <2> DEFINE k == First(r.left)
             p == Parent[k]
  <2>8. k \in r.left /\ k \in Contribs /\ k \in r.snap
    BY <2>0, <1>5, FirstIsOne DEF NextContribution, Request, RequestInv
  <2>9. r.done \in [Contribs -> Ids \cup {0}]
    BY <2>0 DEF Request
  <2> HIDE DEF k, p
  <2>1. CASE p = "none"
    <3> DEFINE x == [[r EXCEPT !.left = @ \ {k}, !.cur = k] EXCEPT !.at = "mapping", !.parent = 0]
    <3>1. Set(c, x) /\ At(c, "next")
      BY <1>5, <2>1 DEF NextContribution, k, p
    <3>2. x \in Request
      BY <2>0, <2>1, <3>1, <2>8, <2>9 DEF Request, RequestInv, Asking, Listing, Handling, At
    <3>3. RequestInv(x)
      BY <2>0, <2>1, <3>1, <3>2, <2>8, <2>9 DEF RequestInv, Request, Asking, Listing, Handling, At
    <3> QED
      BY <3>1, <3>3, OneRequest DEF TypeInv
  <2>2. CASE p # "none" /\ p \in Contribs /\ r.done[p] # 0
    <3> DEFINE x == [[r EXCEPT !.left = @ \ {k}, !.cur = k]
                       EXCEPT !.at = "mapping", !.parent = r.done[p]]
    <3>1. Set(c, x) /\ At(c, "next")
      BY <1>5, <2>2 DEF NextContribution, k, p
    <3>2. x \in Request
      BY <2>0, <2>2, <3>1, <2>8, <2>9 DEF Request, RequestInv, Asking, Listing, Handling, At
    <3>3. RequestInv(x)
      BY <2>0, <2>2, <3>1, <3>2, <2>8, <2>9 DEF RequestInv, Request, Asking, Listing, Handling, At
    <3> QED
      BY <3>1, <3>3, OneRequest DEF TypeInv
  <2>3. CASE p # "none" /\ ~(p \in Contribs /\ r.done[p] # 0) /\ p \in r.snap
    <3> DEFINE x == [[r EXCEPT !.left = @ \ {k}, !.cur = k] EXCEPT !.later = @ \cup {k}]
    <3>1. Set(c, x) /\ At(c, "next")
      BY <1>5, <2>3 DEF NextContribution, k, p
    <3>2. x \in Request
      BY <2>0, <2>3, <3>1, <2>8, <2>9 DEF Request, RequestInv, Asking, Listing, Handling, At
    <3>3. RequestInv(x)
      BY <2>0, <2>3, <3>1, <3>2, <2>8, <2>9 DEF RequestInv, Request, Asking, Listing, Handling, At
    <3> QED
      BY <3>1, <3>3, OneRequest DEF TypeInv
  <2>4. CASE p # "none" /\ ~(p \in Contribs /\ r.done[p] # 0) /\ p \notin r.snap /\ p = System
    <3> DEFINE x == [[r EXCEPT !.left = @ \ {k}, !.cur = k] EXCEPT !.at = "legacyParent"]
    <3>1. Set(c, x) /\ At(c, "next")
      BY <1>5, <2>4 DEF NextContribution, k, p
    <3>2. x \in Request
      BY <2>0, <2>4, <3>1, <2>8, <2>9 DEF Request, RequestInv, Asking, Listing, Handling, At
    <3>3. RequestInv(x)
      BY <2>0, <2>4, <3>1, <3>2, <2>8, <2>9 DEF RequestInv, Request, Asking, Listing, Handling, At
    <3> QED
      BY <3>1, <3>3, OneRequest DEF TypeInv
  <2>5. CASE p # "none" /\ ~(p \in Contribs /\ r.done[p] # 0) /\ p \notin r.snap /\ p # System
    BY <1>5, <1>1, <2>5 DEF NextContribution, End, k, p
  <2> QED
    BY <2>1, <2>2, <2>3, <2>4, <2>5
<1>6. ASSUME NEW c \in Clients, NextRound(c) PROVE RequestsInv'
  <2> DEFINE r == req[c]
  <2>0. r \in Request /\ RequestInv(r)
    BY <1>0
  <2>1. CASE r.later = {}
    <3> DEFINE x == [r EXCEPT !.at = "mappings"]
    <3>1. Set(c, x) /\ At(c, "next")
      BY <1>6, <2>1 DEF NextRound
    <3>2. x \in Request
      BY <2>0, <2>1, <3>1 DEF Request, RequestInv, Asking, Listing, Handling, At
    <3>3. RequestInv(x)
      BY <2>0, <2>1, <3>1, <3>2 DEF RequestInv, Request, Asking, Listing, Handling, At
    <3> QED
      BY <3>1, <3>3, OneRequest DEF TypeInv
  <2>2. CASE r.later # {} /\ r.moved
    <3> DEFINE x == [r EXCEPT !.left = r.later, !.later = {}, !.moved = FALSE]
    <3>1. Set(c, x) /\ At(c, "next")
      BY <1>6, <2>2 DEF NextRound
    <3>2. x \in Request
      BY <2>0, <2>2, <3>1 DEF Request, RequestInv, Asking, Listing, Handling, At
    <3>3. RequestInv(x)
      BY <2>0, <2>2, <3>1, <3>2 DEF RequestInv, Request, Asking, Listing, Handling, At
    <3> QED
      BY <3>1, <3>3, OneRequest DEF TypeInv
  <2>3. CASE r.later # {} /\ ~r.moved
    BY <1>6, <1>1, <2>3 DEF NextRound, End
  <2> QED
    BY <2>1, <2>2, <2>3
<1>7. ASSUME NEW c \in Clients, LegacyParent(c) PROVE RequestsInv'
  <2> DEFINE r == req[c]
  <2>0. r \in Request /\ RequestInv(r)
    BY <1>0
  <2>9. find_legacy_parent_id \in Ids \cup {0}
    BY OldestOrNone DEF find_legacy_parent_id, Live
  <2>1. CASE find_legacy_parent_id = 0
    BY <1>7, <1>1, <2>1 DEF LegacyParent, End
  <2>2. CASE find_legacy_parent_id # 0
    <3> DEFINE x == [r EXCEPT !.at = "mapping", !.parent = find_legacy_parent_id]
    <3>1. Set(c, x) /\ At(c, "legacyParent")
      BY <1>7, <2>2 DEF LegacyParent, End
    <3>2. x \in Request
      BY <2>0, <2>2, <3>1, <2>9 DEF Request, RequestInv, Asking, Listing, Handling, At
    <3>3. RequestInv(x)
      BY <2>0, <2>2, <3>1, <3>2, <2>9 DEF RequestInv, Request, Asking, Listing, Handling, At
    <3> QED
      BY <3>1, <3>3, OneRequest DEF TypeInv
  <2> QED
    BY <2>1, <2>2
<1>8. ASSUME NEW c \in Clients, LookupMapping(c) PROVE RequestsInv'
  <2> DEFINE r == req[c]
  <2>0. r \in Request /\ RequestInv(r)
    BY <1>0
  <2>9. r.cur \in Contribs /\ mapped[r.cur] \in Ids \cup {0}
    BY <1>8, <2>0 DEF LookupMapping, At, RequestInv, Request, Handling, TypeInv, TablesInv, Live
  <2>1. CASE mapped[r.cur] # 0
    <3> DEFINE x == Projected(r, mapped[r.cur])
    <3>1. Set(c, x) /\ At(c, "mapping")
      BY <1>8, <2>1 DEF LookupMapping, Goto
    <3>2. x \in Request
      BY <2>0, <2>1, <3>1, ProjectedOne, <2>9 DEF Request, RequestInv, Asking, Listing,
         Handling, At
    <3>3. RequestInv(x)
      BY <2>0, <2>1, <3>1, <3>2, ProjectedOne, <2>9 DEF RequestInv, Request, Asking, Listing,
         Handling, At
    <3> QED
      BY <3>1, <3>3, OneRequest DEF TypeInv
  <2>2. CASE mapped[r.cur] = 0
    <3> DEFINE x == [r EXCEPT !.at = "legacy"]
    <3>1. Set(c, x) /\ At(c, "mapping")
      BY <1>8, <2>2 DEF LookupMapping, Goto
    <3>2. x \in Request
      BY <2>0, <2>2, <3>1 DEF Request, RequestInv, Asking, Listing, Handling, At
    <3>3. RequestInv(x)
      BY <2>0, <2>2, <3>1, <3>2 DEF RequestInv, Request, Asking, Listing, Handling, At
    <3> QED
      BY <3>1, <3>3, OneRequest DEF TypeInv
  <2> QED
    BY <2>1, <2>2
<1>9. ASSUME NEW c \in Clients, FindLegacy(c) PROVE RequestsInv'
  <2> DEFINE r == req[c]
  <2>0. r \in Request /\ RequestInv(r)
    BY <1>0
  <2>1. PICK i \in Ids \cup {0} : i = MinId(Lookalikes(r.cur, r.parent))
    BY OldestOrNone DEF Lookalikes, Live
  <2>2. PICK at \in {"insert", "align"} : at = (IF i = 0 THEN "insert" ELSE "align")
    OBVIOUS
  <2>3. Set(c, [r EXCEPT !.id = i, !.at = at]) /\ r.at = "legacy"
    BY <1>9, <2>1, <2>2 DEF FindLegacy, At
  <2>4. [r EXCEPT !.id = i, !.at = at] \in Request
    BY <2>0 DEF Request, Listing, Handling
  <2>5. RequestInv([r EXCEPT !.id = i, !.at = at])
    BY <2>0, <2>2, <2>3, <2>4 DEF RequestInv, Request, Asking, Listing, Handling
  <2> QED
    BY <2>3, <2>5, OneRequest DEF TypeInv
<1>10. ASSUME NEW c \in Clients, Align(c) PROVE RequestsInv'
  <2> DEFINE r == req[c]
  <2>0. r \in Request /\ RequestInv(r)
    BY <1>0
  <2>1. CASE r.id \in Live /\ ~HasParent(r.parent)
    BY <1>10, <1>1, <2>1 DEF Align, Goto
  <2>2. CASE ~(r.id \in Live /\ ~HasParent(r.parent))
    <3> DEFINE x == [r EXCEPT !.at = "record"]
    <3>1. Set(c, x) /\ At(c, "align")
      BY <1>10, <2>2 DEF Align, Goto
    <3>2. x \in Request
      BY <2>0, <2>2, <3>1 DEF Request, RequestInv, Asking, Listing, Handling, At
    <3>3. RequestInv(x)
      BY <2>0, <2>2, <3>1, <3>2 DEF RequestInv, Request, Asking, Listing, Handling, At
    <3> QED
      BY <3>1, <3>3, OneRequest DEF TypeInv
  <2> QED
    BY <2>1, <2>2
<1>11. ASSUME NEW c \in Clients, InsertProjected(c) PROVE RequestsInv'
  <2> DEFINE r == req[c]
  <2>0. r \in Request /\ RequestInv(r)
    BY <1>0
  <2>9. HasParent(r.parent) => lastId + 1 \in Ids
    BY <1>11, Bounds DEF InsertProjected, TypeInv, TablesInv
  <2>1. CASE HasParent(r.parent)
    <3> DEFINE x == [r EXCEPT !.at = "record", !.id = lastId + 1]
    <3>1. Set(c, x) /\ At(c, "insert")
      BY <1>11, <2>1 DEF InsertProjected
    <3>2. x \in Request
      BY <2>0, <2>1, <3>1, <2>9 DEF Request, RequestInv, Asking, Listing, Handling, At
    <3>3. RequestInv(x)
      BY <2>0, <2>1, <3>1, <3>2, <2>9 DEF RequestInv, Request, Asking, Listing, Handling, At
    <3> QED
      BY <3>1, <3>3, OneRequest DEF TypeInv
  <2>2. CASE ~HasParent(r.parent)
    BY <1>11, <1>1, <2>2 DEF InsertProjected
  <2> QED
    BY <2>1, <2>2
<1>12. ASSUME NEW c \in Clients, RecordMapping(c) PROVE RequestsInv'
  <2> DEFINE r == req[c]
  <2>0. r \in Request /\ RequestInv(r)
    BY <1>0
  <2>1. CASE r.id \in Live /\ mapped[r.cur] = 0 /\ \A k \in Contribs : mapped[k] # r.id
    <3> DEFINE x == Projected(r, r.id)
    <3>1. Set(c, x) /\ At(c, "record")
      BY <1>12, <2>1 DEF RecordMapping, Abandon
    <3>2. x \in Request
      BY <2>0, <2>1, <3>1, ProjectedOne DEF Request, RequestInv, Asking, Listing, Handling, At
    <3>3. RequestInv(x)
      BY <2>0, <2>1, <3>1, <3>2, ProjectedOne DEF RequestInv, Request, Asking, Listing,
         Handling, At
    <3> QED
      BY <3>1, <3>3, OneRequest DEF TypeInv
  <2>2. CASE ~(r.id \in Live /\ mapped[r.cur] = 0 /\ \A k \in Contribs : mapped[k] # r.id)
    BY <1>12, <1>1, <2>2 DEF RecordMapping, Abandon
  <2> QED
    BY <2>1, <2>2
<1>13. ASSUME NEW c \in Clients, ReadMappings(c) PROVE RequestsInv'
  <2> DEFINE r == req[c]
  <2>0. r \in Request /\ RequestInv(r)
    BY <1>0
  <2>9. {<<k, mapped[k]>> : k \in {j \in Contribs : mapped[j] # 0 /\ j \notin r.snap}}
          \in SUBSET (Contribs \X Ids)
    BY DEF TypeInv, TablesInv, Live
  <2>1. CASE TRUE
    <3> DEFINE x == [r EXCEPT !.at = "stale",
                       !.stale = {<<k, mapped[k]>> : k \in {j \in Contribs : mapped[j] # 0 /\ j \notin r.snap}}]
    <3>1. Set(c, x) /\ At(c, "mappings")
      BY <1>13, <2>1 DEF ReadMappings
    <3>2. x \in Request
      BY <2>0, <2>1, <3>1, <2>9 DEF Request, RequestInv, Asking, Listing, Handling, At
    <3>3. RequestInv(x)
      BY <2>0, <2>1, <3>1, <3>2, <2>9, ZenonT(30) DEF RequestInv, Request, Asking, Listing, Handling, At
    <3> QED
      BY <3>1, <3>3, OneRequest DEF TypeInv
  <2> QED
    BY <2>1
<1>14. ASSUME NEW c \in Clients, DropMapping(c) PROVE RequestsInv'
  <2> DEFINE r == req[c]
  <2>0. r \in Request /\ RequestInv(r)
    BY <1>0
  <2>1. PICK s \in r.stale : Set(c, [r EXCEPT !.at = "drop", !.id = s[2], !.stale = @ \ {s}])
    BY <1>14 DEF DropMapping
  <2>2. s[2] \in Ids /\ r.at = "stale"
    BY <1>14, <2>0 DEF Request, DropMapping, At
  <2>3. [r EXCEPT !.at = "drop", !.id = s[2], !.stale = @ \ {s}] \in Request
    BY <2>0, <2>2 DEF Request, Listing
  <2>4. RequestInv([r EXCEPT !.at = "drop", !.id = s[2], !.stale = @ \ {s}])
    BY <2>0, <2>2, <2>3 DEF RequestInv, Request, Asking, Listing, Handling
  <2> QED
    BY <2>1, <2>4, OneRequest DEF TypeInv
<1>15. ASSUME NEW c \in Clients, DropRow(c) PROVE RequestsInv'
  <2> DEFINE r == req[c]
  <2>0. r \in Request /\ RequestInv(r)
    BY <1>0
  <2>1. CASE TRUE
    <3> DEFINE x == [r EXCEPT !.at = "stale", !.id = 0]
    <3>1. Set(c, x) /\ At(c, "drop")
      BY <1>15, <2>1 DEF DropRow
    <3>2. x \in Request
      BY <2>0, <2>1, <3>1 DEF Request, RequestInv, Asking, Listing, Handling, At
    <3>3. RequestInv(x)
      BY <2>0, <2>1, <3>1, <3>2 DEF RequestInv, Request, Asking, Listing, Handling, At
    <3> QED
      BY <3>1, <3>3, OneRequest DEF TypeInv
  <2> QED
    BY <2>1
<1>16. ASSUME NEW c \in Clients, InsertRow(c) \/ WriteRow(c) \/ DeleteRow(c) \/ ReadRows(c) \/ Fail(c)
       PROVE  RequestsInv'
  BY <1>1, <1>16 DEF InsertRow, WriteRow, DeleteRow, ReadRows, Fail, Abandon
<1>17. CASE Switch
  <2>1. req' = [c \in Clients |-> [req[c] EXCEPT !.alone = FALSE]]
    BY <1>17 DEF Switch
  <2>2. \A c \in Clients : RequestInv(req'[c])
    BY <1>0, <2>1, Unaccompanied
  <2> QED
    BY <2>1, <2>2 DEF RequestsInv, RequestInv
<1>18. CASE UNCHANGED vars
  BY <1>18 DEF vars, TypeInv, RequestsInv
<1> QED
  BY AskedRequests, <1>2, <1>3, <1>4, <1>5, <1>6, <1>7, <1>8, <1>9, <1>10, <1>11, <1>12, <1>13,
     <1>14,
     <1>15, <1>16, <1>17, <1>18 DEF Next, Edit, Project, Sweep

\* Every step keeps the published plugins, the bounds and the marks on the rows.
LEMMA RestStep ==
  ASSUME TypeInv, [Next]_vars
  PROVE  RestInv'
<1>0. used \in [{"requests", "toggles", "faults"} -> Nat]
  BY DEF TypeInv, RestInv
<1>1. ASSUME NEW what \in {"requests", "toggles", "faults"}, NEW max, Use(what, max)
      PROVE  used' \in [{"requests", "toggles", "faults"} -> Nat]
  BY <1>0, <1>1 DEF Use
<1>2. used' \in [{"requests", "toggles", "faults"} -> Nat]
  <2>1. ASSUME NEW c \in Clients, NEW r, Start(c, r)
        PROVE  used' \in [{"requests", "toggles", "faults"} -> Nat]
    BY <1>1, <2>1 DEF Start
  <2>2. ASSUME NEW c \in Clients,
               \/ AskCreate(c) \/ AskUpdate(c) \/ AskPatch(c) \/ AskRemove(c) \/ AskDelete(c)
               \/ AskList(c)
        PROVE  used' \in [{"requests", "toggles", "faults"} -> Nat]
    BY <2>1, <2>2 DEF AskCreate, AskUpdate, AskPatch, AskRemove, AskDelete, AskList
  <2>3. CASE Switch \/ \E c \in Clients : Fail(c)
    BY <1>1, <2>3 DEF Switch, Fail
  <2>4. ASSUME NEW c \in Clients, Ensure(c) \/ Edit(c) \/ Project(c) \/ Sweep(c)
        PROVE  used' = used
    BY <2>4 DEF Ensure, Edit, InsertRow, WriteRow, CheckRow, DeleteRow, Project, TakeSnapshot,
       NextContribution, NextRound, LegacyParent, LookupMapping, FindLegacy, Align,
       InsertProjected,
       RecordMapping, Sweep, ReadMappings, DropMapping, DropRow, ReadRows
  <2> QED
    BY <1>0, <2>2, <2>3, <2>4 DEF Next, vars
<1>3. active' \subseteq Plugins /\ Core \subseteq active'
  <2>1. CASE Switch
    BY <2>1 DEF Switch, TypeInv, RestInv
  <2>2. ASSUME NEW c \in Clients,
               \/ AskCreate(c) \/ AskUpdate(c) \/ AskPatch(c) \/ AskRemove(c) \/ AskDelete(c)
               \/ AskList(c) \/ Ensure(c) \/ Edit(c) \/ Project(c) \/ Sweep(c) \/ Fail(c)
        PROVE  active' = active
    BY <2>2 DEF AskCreate, AskUpdate, AskPatch, AskRemove, AskDelete, AskList, Start, Ensure,
       Edit,
       InsertRow, WriteRow, CheckRow, DeleteRow, Project, TakeSnapshot, NextContribution,
       NextRound,
       LegacyParent, LookupMapping, FindLegacy, Align, InsertProjected, RecordMapping, Sweep,
       ReadMappings, DropMapping, DropRow, ReadRows, Fail
  <2> QED
    BY <2>1, <2>2 DEF Next, vars, TypeInv, RestInv
<1>4. adopted' \subseteq Ids /\ litter' \subseteq Ids
  <2>0. adopted \subseteq Ids /\ litter \subseteq Ids
    BY DEF TypeInv, RestInv
  <2>1. ASSUME NEW c \in Clients, Abandon(c) PROVE litter' \subseteq Ids
    BY <2>0, <2>1 DEF Abandon, TypeInv, RequestsInv, RequestInv, Request
  <2>2. ASSUME NEW c \in Clients, RecordMapping(c)
        PROVE  adopted' \subseteq Ids /\ litter' \subseteq Ids
    BY <2>0, <2>1, <2>2 DEF RecordMapping, Live
  <2>3. ASSUME NEW c \in Clients, DropMapping(c)
        PROVE  adopted' \subseteq Ids /\ litter' \subseteq Ids
    BY <2>0, <2>3 DEF DropMapping, TypeInv, TablesInv, RequestsInv, Request, Live
  <2>4. ASSUME NEW c \in Clients, Fail(c) PROVE adopted' \subseteq Ids /\ litter' \subseteq Ids
    BY <2>0, <2>1, <2>4 DEF Fail
  <2>5. ASSUME NEW c \in Clients,
               \/ AskCreate(c) \/ AskUpdate(c) \/ AskPatch(c) \/ AskRemove(c) \/ AskDelete(c)
               \/ AskList(c) \/ Ensure(c) \/ Edit(c) \/ Project(c) \/ Sweep(c),
               ~RecordMapping(c), ~DropMapping(c)
        PROVE  UNCHANGED <<adopted, litter>>
    BY <2>5 DEF AskCreate, AskUpdate, AskPatch, AskRemove, AskDelete, AskList, Start, Ensure,
       Edit,
       InsertRow, WriteRow, CheckRow, DeleteRow, Project, TakeSnapshot, NextContribution,
       NextRound,
       LegacyParent, LookupMapping, FindLegacy, Align, InsertProjected, Sweep, ReadMappings,
       DropRow,
       ReadRows
  <2> QED
    BY <2>0, <2>2, <2>3, <2>4, <2>5 DEF Next, vars, Switch
<1>5. settled' \in BOOLEAN
  <2>1. ASSUME NEW c \in Clients,
               \/ AskCreate(c) \/ AskUpdate(c) \/ AskPatch(c) \/ AskRemove(c) \/ AskDelete(c)
               \/ AskList(c) \/ Ensure(c) \/ Edit(c) \/ Project(c) \/ Sweep(c) \/ Fail(c)
        PROVE  settled' \in {FALSE, settled, settled \/ req[c].alone}
    BY <2>1 DEF AskCreate, AskUpdate, AskPatch, AskRemove, AskDelete, AskList, Start, Ensure,
       Edit,
       InsertRow, WriteRow, CheckRow, DeleteRow, Project, TakeSnapshot, NextContribution,
       NextRound,
       LegacyParent, LookupMapping, FindLegacy, Align, InsertProjected, RecordMapping, Sweep,
       ReadMappings, DropMapping, DropRow, ReadRows, Fail
  <2>2. Switch => settled' = FALSE
    BY DEF Switch
  <2> QED
    BY <2>1, <2>2 DEF Next, vars, TypeInv, RestInv
<1> QED
  BY <1>2, <1>3, <1>4, <1>5 DEF RestInv

\* The migrated database has its keys, and no request is under way.
LEMMA TypeInit == ASSUME Init PROVE TypeInv
<1>1. NoRow \in Row /\ \A i \in DOMAIN Seeds : Seeds[i] \in Row
  BY MenuAssumption, RowFacts
<1>2. Len(Seeds) \in 0 .. MaxId /\ DOMAIN Seeds = 1 .. Len(Seeds)
  BY MenuAssumption
<1>3. item \in [Ids -> Row] /\ \A i \in Ids : item[i] = IF i \in DOMAIN Seeds THEN Seeds[i] ELSE NoRow
  BY <1>1 DEF Init
<1>4. Live = DOMAIN Seeds
  <2>1. \A i \in DOMAIN Seeds : Seeds[i].by = "seed"
    BY MenuAssumption
  <2>2. DOMAIN Seeds \subseteq Ids
    BY <1>2, Bounds
  <2>3. \A i \in DOMAIN Seeds : Seeds[i] # NoRow
    BY <2>1 DEF NoRow
  <2> QED
    BY <1>3, <2>2, <2>3 DEF Live
<1>5. ASSUME NEW i \in Live PROVE i <= lastId /\ HasParent(item[i].parent) /\ item[i].by # "none"
  <2>1. i \in DOMAIN Seeds /\ item[i] = Seeds[i] /\ lastId = Len(Seeds)
    BY <1>3, <1>4 DEF Init, Live
  <2>2. Seeds[i].by = "seed" /\ Seeds[i].parent \in 0 .. i - 1
    BY <2>1, MenuAssumption
  <2>3. Seeds[i].parent = 0 \/ Seeds[i].parent \in 1 .. Len(Seeds)
    BY <1>2, <2>1, <2>2
  <2> QED
    BY <1>2, <1>4, <2>1, <2>2, <2>3 DEF HasParent
<1>6. TablesInv
  BY <1>2, <1>3, <1>5 DEF Init, TablesInv
<1>7. RequestsInv
  BY NoRequest DEF Init, RequestsInv, RequestInv
<1>8. RestInv
  BY MenuAssumption DEF Init, RestInv
<1> QED
  BY <1>6, <1>7, <1>8 DEF TypeInv

\* The keys of the tables and what the requests have at hand hold at every moment.
LEMMA TypeInvariant == Spec => []TypeInv
<1>1. Init => TypeInv
  BY TypeInit
<1>2. TypeInv /\ [Next]_vars => TypeInv'
  BY TablesStep, RequestsStep, RestStep DEF TypeInv
<1> QED
  BY <1>1, <1>2, PTL DEF Spec

\* Every variable keeps its type, and the keys of both tables hold after every
\* statement of every request: a row's parent is a row, a mapping's row is a row,
\* and no row is mapped twice.
THEOREM TypeCorrect == Spec => []TypeOK
<1>1. TypeInv => TypeOK
  <2> SUFFICES ASSUME TypeInv PROVE TypeOK
    OBVIOUS
  <2>1. \A c \in Clients :
          /\ DOMAIN req[c] = DOMAIN NoReq
          /\ req[c].left \cup req[c].later \subseteq req[c].snap
          /\ req[c].done \in [Contribs -> 0 .. MaxId]
    <3> SUFFICES ASSUME NEW c \in Clients
                 PROVE  /\ DOMAIN req[c] = DOMAIN NoReq
                        /\ req[c].left \cup req[c].later \subseteq req[c].snap
                        /\ req[c].done \in [Contribs -> 0 .. MaxId]
      OBVIOUS
    <3>1. req[c] \in Request /\ RequestInv(req[c])
      BY DEF TypeInv, RequestsInv
    <3>2. Ids \cup {0} \subseteq 0 .. MaxId
      BY Bounds
    <3> QED
      BY <3>1, <3>2 DEF Request, RequestInv, NoReq
  <2> QED
    BY <2>1 DEF TypeInv, TablesInv, RestInv, RequestsInv, TypeOK
<1> QED
  BY <1>1, TypeInvariant, PTL

(***************************************************************************)
(* What a step of one request leaves to the others.                        *)
(***************************************************************************)
OthersWait(c) == \A d \in Clients \ {c} : req'[d].id = req[d].id /\ req'[d].at = req[d].at

\* What is known of each request.
LEMMA EachRequest ==
  ASSUME TypeInv, NEW c \in Clients
  PROVE  req[c] \in Request /\ RequestInv(req[c])
BY DEF TypeInv, RequestsInv

\* A step of one request is no step of another.
LEMMA OwnRequest ==
  ASSUME TypeInv, NEW c \in Clients, NEW r, Set(c, r)
  PROVE  /\ req'[c] = r /\ \A d \in Clients \ {c} : req'[d] = req[d]
         /\ OthersWait(c)
BY DEF Set, TypeInv, RequestsInv, OthersWait

\* A step that begins a request leaves the rows, the mappings and the steps of the
\* other requests as they are; it is the first step of its client's.
LEMMA BegunRequest ==
  ASSUME TypeInv, NEW c \in Clients,
         AskCreate(c) \/ AskUpdate(c) \/ AskPatch(c) \/ AskRemove(c) \/ AskDelete(c) \/ AskList(c)
  PROVE  /\ OthersWait(c) /\ req[c].at = "idle" /\ req'[c].at = "ensure"
         /\ req'[c].alone = (\A d \in Clients : At(d, "idle"))
         /\ req'[c].dedupe = SingleRoutes
         /\ \A d \in Clients \ {c} : req'[d] = [req[d] EXCEPT !.alone = FALSE]
         /\ req'[c].stale = {}
         /\ UNCHANGED <<item, lastId, mapped, active, adopted, litter, settled>>
<1>1. PICK r : Start(c, r) /\ RequestInv(r) /\ r.stale = {}
  <2>1. CASE AskCreate(c)
    <3>1. PICK d \in Drafts : Start(c, [NoReq EXCEPT !.op = "create", !.draft = d])
      BY <2>1 DEF AskCreate
    <3>2. RequestInv([NoReq EXCEPT !.op = "create", !.draft = d])
      BY DEF RequestInv, Request, NoReq, Asking, Listing, Handling
    <3>3. [NoReq EXCEPT !.op = "create", !.draft = d].stale = {}
      BY DEF NoReq
    <3> QED
      BY <3>1, <3>2, <3>3
  <2>2. CASE AskUpdate(c) \/ AskPatch(c)
    <3>1. PICK d \in Drafts, i \in Ids, F \in SUBSET Fields :
            Start(c, [NoReq EXCEPT !.op = "write", !.draft = d, !.patch = F, !.id = i])
      BY <2>2, MenuAssumption DEF AskUpdate, AskPatch, Live
    <3>2. RequestInv([NoReq EXCEPT !.op = "write", !.draft = d, !.patch = F, !.id = i])
      BY DEF RequestInv, Request, NoReq, Asking, Listing, Handling
    <3>3. [NoReq EXCEPT !.op = "write", !.draft = d, !.patch = F, !.id = i].stale = {}
      BY DEF NoReq
    <3> QED
      BY <3>1, <3>2, <3>3
  <2>3. CASE AskRemove(c) \/ AskDelete(c)
    <3>1. PICK op \in {"check", "delete"}, i \in Ids : Start(c, [NoReq EXCEPT !.op = op, !.id = i])
      BY <2>3 DEF AskRemove, AskDelete, Live
    <3>2. RequestInv([NoReq EXCEPT !.op = op, !.id = i])
      BY DEF RequestInv, Request, NoReq, Asking, Listing, Handling
    <3>3. [NoReq EXCEPT !.op = op, !.id = i].stale = {}
      BY DEF NoReq
    <3> QED
      BY <3>1, <3>2, <3>3
  <2>4. CASE AskList(c)
    <3>1. RequestInv([NoReq EXCEPT !.op = "list"])
      BY DEF RequestInv, Request, NoReq, Asking, Listing, Handling
    <3>2. [NoReq EXCEPT !.op = "list"].stale = {}
      BY DEF NoReq
    <3> QED
      BY <2>4, <3>1, <3>2 DEF AskList
  <2> QED
    BY <2>1, <2>2, <2>3, <2>4
<1>2. r \in Request
  BY <1>1 DEF RequestInv
<1>3. PICK a \in BOOLEAN : a = \A d \in Clients : At(d, "idle")
  OBVIOUS
<1>4. \A d \in Clients : req'[d] =
        IF d = c THEN [r EXCEPT !.at = "ensure", !.dedupe = SingleRoutes, !.alone = a]
        ELSE [req[d] EXCEPT !.alone = FALSE]
  BY <1>1, <1>3 DEF Start
<1>5. /\ req'[c].at = "ensure" /\ req'[c].dedupe = SingleRoutes /\ req'[c].alone = a /\ req'[c].stale = {}
  BY <1>1, <1>2, <1>4 DEF Request
<1>6. \A d \in Clients \ {c} : req'[d] = [req[d] EXCEPT !.alone = FALSE]
  BY <1>4
<1>7. OthersWait(c)
  <2> SUFFICES ASSUME NEW d \in Clients \ {c}
        PROVE  req'[d].id = req[d].id /\ req'[d].at = req[d].at
    BY DEF OthersWait
  <2>1. req[d] \in Request /\ req'[d] = [req[d] EXCEPT !.alone = FALSE]
    BY <1>6, EachRequest
  <2> QED
    BY <2>1 DEF Request
<1> QED
  BY <1>1, <1>3, <1>5, <1>6, <1>7 DEF Start, At

\* Switching a plugin touches no row, and no request is alone after it.
LEMMA SwitchedPlugin ==
  ASSUME TypeInv, Switch
  PROVE  /\ \A c \in Clients : req'[c] = [req[c] EXCEPT !.alone = FALSE] /\ req'[c].id = req[c].id
                               /\ req'[c].at = req[c].at /\ req'[c].stale = req[c].stale
                               /\ req'[c].alone = FALSE
         /\ UNCHANGED <<item, mapped, adopted, litter>> /\ settled' = FALSE
BY DEF Switch, TypeInv, RequestsInv, Request

(***************************************************************************)
(* Projected rows.                                                         *)
(***************************************************************************)
\* A step keeps what it has to when it makes no projected row, drops the mapping
\* of no row it leaves there, and is not one that has a row in hand.
LEMMA NoGhostsKept ==
  ASSUME TypeInv, NoGhostRows, NEW c \in Clients, OthersWait(c), req[c].at \notin {"record", "drop"},
         \A i \in Live' : (i \in Live /\ item'[i].by = item[i].by) \/ item'[i].by # "projection",
         \A k \in Contribs : mapped[k] \in Live' => mapped'[k] = mapped[k],
         litter \subseteq litter'
  PROVE  NoGhostRows'
<1> SUFFICES ASSUME NEW i \in Live', item'[i].by = "projection"
             PROVE  \/ \E k \in Contribs : mapped'[k] = i
                    \/ \E d \in Clients : req'[d].id = i /\ req'[d].at \in {"record", "drop"}
                    \/ i \in litter'
  BY DEF NoGhostRows
<1>1. i \in Live /\ item[i].by = "projection"
  OBVIOUS
<1>2. CASE \E k \in Contribs : mapped[k] = i
  BY <1>2
<1>3. CASE \E d \in Clients : req[d].id = i /\ req[d].at \in {"record", "drop"}
  <2>1. PICK d \in Clients : req[d].id = i /\ req[d].at \in {"record", "drop"}
    BY <1>3
  <2>2. d # c
    BY <2>1
  <2> QED
    BY <2>1, <2>2 DEF OthersWait
<1> QED
  BY <1>1, <1>2, <1>3 DEF NoGhostRows

\* No step forgets a projected row.
LEMMA NoGhostsStep ==
  ASSUME TypeInv, NoGhostRows, [Next]_vars
  PROVE  NoGhostRows'
<1>1. ASSUME NEW c \in Clients,
             \/ AskCreate(c) \/ AskUpdate(c) \/ AskPatch(c) \/ AskRemove(c)
             \/ AskDelete(c) \/ AskList(c)
      PROVE  NoGhostRows'
  BY <1>1, BegunRequest, NoGhostsKept DEF Live
<1>2. ASSUME NEW c \in Clients, Ensure(c) PROVE NoGhostRows'
  <2>1. OthersWait(c) /\ req[c].at = "ensure" /\ litter' = litter
    BY <1>2, OwnRequest DEF Ensure, Goto, At
  <2>2. CASE req[c].dedupe = {}
    BY <1>2, <2>1, <2>2, NoGhostsKept DEF Ensure, Live
  <2>3. CASE req[c].dedupe # {}
    <3>1. PICK S \in SUBSET Ids : Delete(S)
      BY <1>2, <2>3 DEF Ensure, Live
    <3>2. Live' = Live \ S /\ \A i \in Live \ S : item'[i].by = item[i].by
      BY <1>2, <3>1, DeletedRows DEF Ensure, TypeInv
    <3>3. \A k \in Contribs : mapped[k] \in Live' => mapped'[k] = mapped[k]
      BY <1>2, <3>1, <3>2, DeletedRows DEF Ensure, TypeInv
    <3> QED
      BY <2>1, <3>2, <3>3, NoGhostsKept
  <2> QED
    BY <2>2, <2>3
<1>3. ASSUME NEW c \in Clients, InsertRow(c) PROVE NoGhostRows'
  <2>1. OthersWait(c) /\ req[c].at = "create" /\ litter' = litter
    BY <1>3, OwnRequest DEF InsertRow, End, At
  <2>2. \A i \in Live' : (i \in Live /\ item'[i].by = item[i].by) \/ item'[i].by # "projection"
    BY <1>3, CreatedRow DEF RowsKept
  <2> QED
    BY <1>3, <2>1, <2>2, CreatedRow, NoGhostsKept
<1>4. ASSUME NEW c \in Clients, WriteRow(c) PROVE NoGhostRows'
  <2>1. OthersWait(c) /\ req[c].at = "write" /\ litter' = litter
    BY <1>4, OwnRequest DEF WriteRow, End, At
  <2> QED
    BY <1>4, <2>1, ChangedRow, NoGhostsKept DEF RowsKept
<1>5. ASSUME NEW c \in Clients, DeleteRow(c) PROVE NoGhostRows'
  <2>1. OthersWait(c) /\ req[c].at = "delete" /\ litter' = litter
    BY <1>5, OwnRequest DEF DeleteRow, End, At
  <2>2. req[c].id \in Ids
    BY <2>1 DEF TypeInv, RequestsInv, RequestInv, Asking
  <2>3. Live' = Live \ {req[c].id} /\ \A i \in Live' : item'[i].by = item[i].by
    BY <1>5, <2>2, DeletedRows DEF DeleteRow, TypeInv
  <2>4. \A k \in Contribs : mapped[k] \in Live' => mapped'[k] = mapped[k]
    BY <1>5, <2>2, <2>3, DeletedRows DEF DeleteRow, TypeInv
  <2> QED
    BY <2>1, <2>3, <2>4, NoGhostsKept
<1>6. ASSUME NEW c \in Clients, Align(c) PROVE NoGhostRows'
  <2>1. OthersWait(c) /\ req[c].at = "align" /\ litter' = litter
    BY <1>6, OwnRequest DEF Align, Goto, End, At
  <2> QED
    BY <1>6, <2>1, AlignedRow, NoGhostsKept DEF RowsKept
<1>7. ASSUME NEW c \in Clients, InsertProjected(c) PROVE NoGhostRows'
  <2>1. OthersWait(c) /\ req[c].at = "insert" /\ litter' = litter /\ mapped' = mapped
    BY <1>7, OwnRequest DEF InsertProjected, End, At
  <2>2. CASE ~HasParent(req[c].parent)
    BY <1>7, <2>1, <2>2, NoGhostsKept DEF InsertProjected, Live
  <2>3. CASE HasParent(req[c].parent)
    <3>1. req'[c].at = "record" /\ req'[c].id = lastId + 1
      <4>1. Set(c, [req[c] EXCEPT !.at = "record", !.id = lastId + 1])
        BY <1>7, <2>3 DEF InsertProjected
      <4>2. req[c] \in Request /\ req'[c] = [req[c] EXCEPT !.at = "record", !.id = lastId + 1]
        BY <4>1, OwnRequest, EachRequest
      <4> QED
        BY <4>2 DEF Request
    <3>2. Live' = Live \cup {lastId + 1} /\ \A i \in Live : item'[i] = item[i]
      BY <1>7, <2>3, ProjectedRow
    <3> HIDE DEF NoGhostRows
    <3>3. ASSUME NEW i \in Live', item'[i].by = "projection"
          PROVE  \/ \E k \in Contribs : mapped'[k] = i
                 \/ \E d \in Clients : req'[d].id = i /\ req'[d].at \in {"record", "drop"}
                 \/ i \in litter'
      <4>1. CASE i = lastId + 1
        BY <3>1, <4>1
      <4>2. CASE i # lastId + 1
        <5>1. i \in Live /\ item[i].by = "projection"
          BY <3>2, <3>3, <4>2
        <5> QED
          BY <2>1, <5>1 DEF NoGhostRows, OthersWait
      <4> QED
        BY <4>1, <4>2
    <3> QED
      BY <3>3 DEF NoGhostRows
  <2> QED
    BY <2>2, <2>3
<1>8. ASSUME NEW c \in Clients, UNCHANGED <<item, mapped>>, Abandon(c) PROVE NoGhostRows'
  <2>1. OthersWait(c) /\ Live' = Live
    BY <1>8, OwnRequest DEF Abandon, End, Live
  <2>2. /\ litter \subseteq litter'
        /\ req[c].at \in {"record", "drop"} => req[c].id \in litter'
    BY <1>8 DEF Abandon
  <2> QED
    BY <1>8, <2>1, <2>2 DEF NoGhostRows, OthersWait
<1>9. ASSUME NEW c \in Clients, RecordMapping(c) PROVE NoGhostRows'
  <2>1. CASE req[c].id \in Live /\ mapped[req[c].cur] = 0 /\ \A k \in Contribs : mapped[k] # req[c].id
    <3>1. /\ mapped' = [mapped EXCEPT ![req[c].cur] = req[c].id] /\ OthersWait(c)
          /\ Live' = Live /\ litter' = litter /\ item' = item
      BY <1>9, <2>1, OwnRequest DEF RecordMapping, Live
    <3>2. req[c].cur \in Contribs
      BY <1>9 DEF RecordMapping, At, TypeInv, RequestsInv, RequestInv, Request, Handling
    <3>3. /\ mapped'[req[c].cur] = req[c].id
          /\ \A k \in Contribs : mapped[k] \in Live => mapped'[k] = mapped[k]
      <4>1. 0 \notin Live
        BY Bounds DEF Live
      <4> QED
        BY <2>1, <3>1, <3>2, <4>1 DEF TypeInv, TablesInv
    <3> QED
      BY <3>1, <3>2, <3>3 DEF NoGhostRows, OthersWait
  <2>2. CASE ~(req[c].id \in Live /\ mapped[req[c].cur] = 0 /\ \A k \in Contribs : mapped[k] # req[c].id)
    BY <1>8, <1>9, <2>2 DEF RecordMapping
  <2> QED
    BY <2>1, <2>2
<1>10. ASSUME NEW c \in Clients, DropMapping(c) PROVE NoGhostRows'
  <2>1. PICK s \in req[c].stale :
          /\ litter' = IF mapped[s[1]] \in {0, s[2]} THEN litter ELSE litter \cup {mapped[s[1]]}
          /\ mapped' = [mapped EXCEPT ![s[1]] = 0]
          /\ Set(c, [req[c] EXCEPT !.at = "drop", !.id = s[2], !.stale = @ \ {s}])
    BY <1>10 DEF DropMapping
  <2>2. OthersWait(c) /\ Live' = Live /\ req[c].at = "stale" /\ item' = item
    BY <1>10, <2>1, OwnRequest DEF DropMapping, At, Live
  <2>3. req'[c].at = "drop" /\ req'[c].id = s[2]
    <3>1. req[c] \in Request /\ req'[c] = [req[c] EXCEPT !.at = "drop", !.id = s[2], !.stale = @ \ {s}]
      BY <2>1, OwnRequest, EachRequest
    <3> QED
      BY <3>1 DEF Request
  <2>4. \A k \in Contribs : k # s[1] => mapped'[k] = mapped[k]
    BY <2>1 DEF TypeInv, TablesInv
  <2>5. 0 \notin Live
    BY Bounds DEF Live
  <2> QED
    BY <2>1, <2>2, <2>3, <2>4, <2>5 DEF NoGhostRows, OthersWait
<1>11. ASSUME NEW c \in Clients, DropRow(c) PROVE NoGhostRows'
  <2>1. OthersWait(c) /\ req[c].at = "drop" /\ litter' = litter
    BY <1>11, OwnRequest DEF DropRow, At
  <2>2. req[c].id \in Ids
    BY <2>1 DEF TypeInv, RequestsInv, RequestInv
  <2>3. Live' = Live \ {req[c].id} /\ \A i \in Live' : item'[i].by = item[i].by
    BY <1>11, <2>2, DeletedRows DEF DropRow, TypeInv
  <2>4. \A k \in Contribs : mapped[k] \in Live' => mapped'[k] = mapped[k]
    BY <1>11, <2>2, <2>3, DeletedRows DEF DropRow, TypeInv
  <2> QED
    BY <2>1, <2>3, <2>4 DEF NoGhostRows, OthersWait
<1>12. ASSUME NEW c \in Clients,
              \/ CheckRow(c) \/ TakeSnapshot(c) \/ NextContribution(c) \/ NextRound(c) \/ LegacyParent(c)
              \/ LookupMapping(c) \/ FindLegacy(c) \/ ReadMappings(c) \/ ReadRows(c)
       PROVE  NoGhostRows'
  <2>1. /\ \E r : Set(c, r)
        /\ UNCHANGED <<item, mapped, litter>>
    BY <1>12 DEF CheckRow, TakeSnapshot, NextContribution, NextRound, LegacyParent, LookupMapping,
       FindLegacy, ReadMappings, ReadRows, Goto, End
  <2>2. req[c].at \notin {"record", "drop"}
    BY <1>12 DEF CheckRow, TakeSnapshot, NextContribution, NextRound, LegacyParent, LookupMapping,
       FindLegacy, ReadMappings, ReadRows, At
  <2>3. OthersWait(c) /\ Live' = Live
    BY <2>1, OwnRequest DEF Live
  <2> QED
    BY <2>1, <2>2, <2>3, NoGhostsKept
<1>13. ASSUME NEW c \in Clients, Fail(c) PROVE NoGhostRows'
  BY <1>8, <1>13 DEF Fail
<1>14. CASE Switch
  BY <1>14, SwitchedPlugin DEF NoGhostRows, Live
<1>15. CASE UNCHANGED vars
  BY <1>15 DEF vars, NoGhostRows, Live
<1> QED
  BY <1>1, <1>2, <1>3, <1>4, <1>5, <1>6, <1>7, <1>9, <1>10, <1>11, <1>12, <1>13, <1>14, <1>15
     DEF Next, Edit, Project, Sweep

\* A projected row is never forgotten: at every moment a contribution is mapped to
\* it, a listing is about to map or to delete it, or one left it there that failed
\* or met another listing.
THEOREM NoGhosts == Spec => []NoGhostRows
<1>1. Init => NoGhostRows
  <2> SUFFICES ASSUME Init, NEW i \in Live PROVE item[i].by # "projection"
    BY DEF NoGhostRows
  <2>1. i \in DOMAIN Seeds /\ item[i] = Seeds[i]
    BY DEF Init, Live
  <2> QED
    BY <2>1, MenuAssumption
<1>2. TypeInv /\ NoGhostRows /\ [Next]_vars => NoGhostRows'
  BY NoGhostsStep
<1> QED
  BY <1>1, <1>2, TypeInvariant, PTL DEF Spec

(***************************************************************************)
(* Rows of administrators and migrations.                                  *)
(***************************************************************************)
\* Whatever is mapped, read as stale or about to be dropped has been adopted.
AdoptedInv ==
  /\ \A k \in Contribs : mapped[k] # 0 => mapped[k] \in adopted
  /\ \A c \in Clients : /\ \A s \in req[c].stale : s[2] \in adopted
                        /\ req[c].at = "drop" => req[c].id \in adopted

\* Most steps of a request read nothing stale and are not about to drop a row.
Harmless(c) == \E r : Set(c, r) /\ r.stale \subseteq req[c].stale /\ r.at # "drop"

\* A harmless step that maps nothing keeps what has been adopted.
LEMMA AdoptedKept ==
  ASSUME TypeInv, AdoptedInv, NEW c \in Clients, Harmless(c),
         \A k \in Contribs : mapped'[k] \in {0, mapped[k]}, adopted' = adopted
  PROVE  AdoptedInv'
<1>1. PICK r : Set(c, r) /\ r.stale \subseteq req[c].stale /\ r.at # "drop"
  BY DEF Harmless
<1>2. req'[c] = r /\ \A d \in Clients \ {c} : req'[d] = req[d]
  BY <1>1, OwnRequest
<1> QED
  BY <1>1, <1>2 DEF AdoptedInv

\* Every step of a request but the reading and the dropping of mappings is harmless.
LEMMA HarmlessSteps ==
  ASSUME TypeInv, NEW c \in Clients,
         \/ Ensure(c) \/ Edit(c) \/ TakeSnapshot(c) \/ NextContribution(c) \/ NextRound(c)
         \/ LegacyParent(c) \/ LookupMapping(c) \/ FindLegacy(c) \/ Align(c) \/ InsertProjected(c)
         \/ DropRow(c) \/ ReadRows(c) \/ Fail(c) \/ RecordMapping(c)
  PROVE  Harmless(c)
<1> DEFINE r == req[c]
<1>1. r \in Request /\ r.op \in Asking \cup {"none", "list"}
  BY EachRequest DEF Request
<1>2. NoReq.stale = {} /\ NoReq.at = "idle"
  BY DEF NoReq
<1>3. End(c) => Harmless(c)
  BY <1>2, Zenon DEF End, Harmless
<1>4. ASSUME NEW at, Goto(c, at), at # "drop" PROVE Harmless(c)
  <2>1. [r EXCEPT !.at = at].stale = r.stale /\ [r EXCEPT !.at = at].at = at
    BY <1>1 DEF Request
  <2> QED
    BY <1>4, <2>1 DEF Goto, Harmless
<1>5. CASE Ensure(c)
  <2>1. CASE r.dedupe = {}
    <3>1. Goto(c, r.op) /\ r.op # "drop"
      BY <1>1, <1>5, <2>1 DEF Ensure, Asking
    <3> QED
      BY <1>4, <3>1
  <2>2. CASE r.dedupe # {}
    <3>1. PICK x : Set(c, [r EXCEPT !.dedupe = @ \ {x}]) /\ r.at = "ensure"
      BY <1>5, <2>2 DEF Ensure, At
    <3>2. [r EXCEPT !.dedupe = @ \ {x}].stale = r.stale /\ [r EXCEPT !.dedupe = @ \ {x}].at = r.at
      BY <1>1 DEF Request
    <3> QED
      BY <3>1, <3>2 DEF Harmless
  <2> QED
    BY <2>1, <2>2
<1>6. CASE Edit(c) \/ ReadRows(c) \/ Fail(c)
  BY <1>3, <1>4, <1>6 DEF Edit, InsertRow, WriteRow, CheckRow, DeleteRow, ReadRows, Fail, Abandon
<1>7. CASE TakeSnapshot(c)
  <2> DEFINE x == [r EXCEPT !.at = "next", !.snap = Offered, !.left = Offered]
  <2>1. Set(c, x) /\ x.stale = r.stale /\ x.at = "next"
    BY <1>1, <1>7 DEF TakeSnapshot, Request
  <2> QED
    BY <2>1 DEF Harmless
<1>8. CASE NextContribution(c)
  <2> DEFINE k == First(r.left)
             p == Parent[k]
             taken == [r EXCEPT !.left = @ \ {k}, !.cur = k]
  <2>1. r.at = "next"
    BY <1>8 DEF NextContribution, At
  <2>2. PICK x : Set(c, x) /\ x = (IF p = "none" THEN [taken EXCEPT !.at = "mapping", !.parent = 0]
               ELSE IF p \in Contribs /\ r.done[p] # 0
                    THEN [taken EXCEPT !.at = "mapping", !.parent = r.done[p]]
               ELSE IF p \in r.snap THEN [taken EXCEPT !.later = @ \cup {k}]
               ELSE IF p = System THEN [taken EXCEPT !.at = "legacyParent"]
               ELSE NoReq)
    BY <1>8 DEF NextContribution
  <2>3. \/ x = [taken EXCEPT !.at = "mapping", !.parent = 0]
        \/ x = [taken EXCEPT !.at = "mapping", !.parent = r.done[p]]
        \/ x = [taken EXCEPT !.later = @ \cup {k}]
        \/ x = [taken EXCEPT !.at = "legacyParent"]
        \/ x = NoReq
    BY <2>2
  <2> HIDE DEF k, p
  <2>4. x.stale \subseteq r.stale /\ x.at # "drop"
    BY <1>1, <1>2, <2>1, <2>3 DEF Request
  <2> QED
    BY <2>2, <2>4 DEF Harmless
<1>9. CASE NextRound(c)
  <2>1. PICK x : Set(c, x) /\ r.at = "next" /\
           \/ x = [r EXCEPT !.at = "mappings"]
           \/ x = [r EXCEPT !.left = r.later, !.later = {}, !.moved = FALSE]
           \/ x = NoReq
    BY <1>9 DEF NextRound, At
  <2>2. x.stale \subseteq r.stale /\ x.at # "drop"
    BY <1>1, <1>2, <2>1 DEF Request
  <2> QED
    BY <2>1, <2>2 DEF Harmless
<1>10. CASE LegacyParent(c)
  <2>1. PICK x, i : Set(c, x) /\ (x = [r EXCEPT !.at = "mapping", !.parent = i] \/ x = NoReq)
    BY <1>10 DEF LegacyParent, End
  <2>2. x.stale \subseteq r.stale /\ x.at # "drop"
    BY <1>1, <1>2, <2>1 DEF Request
  <2> QED
    BY <2>1, <2>2 DEF Harmless
<1>11. CASE LookupMapping(c) \/ RecordMapping(c)
  <2>0. ASSUME NEW i, Set(c, Projected(r, i)) PROVE Harmless(c)
    <3>1. Projected(r, i).stale = r.stale /\ Projected(r, i).at = "next"
      BY <1>1 DEF Projected, Request
    <3> QED
      BY <2>0, <3>1 DEF Harmless
  <2>1. CASE LookupMapping(c)
    BY <1>4, <2>0, <2>1 DEF LookupMapping
  <2>2. CASE RecordMapping(c)
    BY <1>3, <2>0, <2>2 DEF RecordMapping, Abandon
  <2> QED
    BY <1>11, <2>1, <2>2
<1>12. CASE FindLegacy(c)
  <2> DEFINE j == MinId(Lookalikes(req[c].cur, req[c].parent))
             s == IF j = 0 THEN "insert" ELSE "align"
  <2>0. Set(c, [r EXCEPT !.id = j, !.at = s]) /\ s # "drop"
    BY <1>12 DEF FindLegacy
  <2> HIDE DEF j, s
  <2>1. PICK i, at : Set(c, [r EXCEPT !.id = i, !.at = at]) /\ at # "drop"
    BY <2>0
  <2>2. [r EXCEPT !.id = i, !.at = at].stale = r.stale /\ [r EXCEPT !.id = i, !.at = at].at = at
    BY <1>1 DEF Request
  <2> QED
    BY <2>1, <2>2 DEF Harmless
<1>13. CASE Align(c)
  BY <1>3, <1>4, <1>13 DEF Align
<1>14. CASE InsertProjected(c)
  <2>1. ASSUME Set(c, [r EXCEPT !.at = "record", !.id = lastId + 1]) PROVE Harmless(c)
    <3>1. /\ [r EXCEPT !.at = "record", !.id = lastId + 1].stale = r.stale
          /\ [r EXCEPT !.at = "record", !.id = lastId + 1].at = "record"
      BY <1>1 DEF Request
    <3> QED
      BY <2>1, <3>1 DEF Harmless
  <2> QED
    BY <1>3, <1>14, <2>1 DEF InsertProjected
<1>15. CASE DropRow(c)
  <2>1. Set(c, [r EXCEPT !.at = "stale", !.id = 0])
    BY <1>15 DEF DropRow
  <2>2. /\ [r EXCEPT !.at = "stale", !.id = 0].stale = r.stale
        /\ [r EXCEPT !.at = "stale", !.id = 0].at = "stale"
    BY <1>1 DEF Request
  <2> QED
    BY <2>1, <2>2 DEF Harmless
<1> QED
  BY <1>5, <1>6, <1>7, <1>8, <1>9, <1>10, <1>11, <1>12, <1>13, <1>14, <1>15

\* Every step keeps what is mapped, stale or about to be dropped among the adopted.
LEMMA AdoptedStep ==
  ASSUME TypeInv, AdoptedInv, [Next]_vars
  PROVE  AdoptedInv'
<1>1. ASSUME NEW c \in Clients,
             \/ AskCreate(c) \/ AskUpdate(c) \/ AskPatch(c) \/ AskRemove(c)
             \/ AskDelete(c) \/ AskList(c)
      PROVE  AdoptedInv'
  <2>1. ASSUME NEW d \in Clients \ {c} PROVE req'[d].stale = req[d].stale
    <3>1. req'[d] = [req[d] EXCEPT !.alone = FALSE] /\ req[d] \in Request
      BY <1>1, BegunRequest, EachRequest
    <3> QED
      BY <3>1 DEF Request
  <2>2. OthersWait(c) /\ req'[c].at = "ensure" /\ req'[c].stale = {} /\ UNCHANGED <<mapped, adopted>>
    BY <1>1, BegunRequest
  <2> QED
    BY <2>1, <2>2 DEF AdoptedInv, OthersWait
<1>2. ASSUME NEW c \in Clients,
             \/ TakeSnapshot(c) \/ NextContribution(c) \/ NextRound(c) \/ LegacyParent(c)
             \/ LookupMapping(c) \/ FindLegacy(c) \/ Align(c) \/ InsertProjected(c)
             \/ ReadRows(c) \/ Fail(c) \/ InsertRow(c) \/ WriteRow(c) \/ CheckRow(c)
      PROVE  AdoptedInv'
  <2>1. UNCHANGED <<mapped, adopted>>
    BY <1>2 DEF TakeSnapshot, NextContribution, NextRound, LegacyParent, LookupMapping,
       FindLegacy, Align,
       InsertProjected, ReadRows, Fail, InsertRow, WriteRow, CheckRow
  <2> QED
    BY <1>2, <2>1, HarmlessSteps, AdoptedKept DEF Edit
<1>3. ASSUME NEW c \in Clients, Ensure(c) \/ DeleteRow(c) \/ DropRow(c) PROVE AdoptedInv'
  <2>1. adopted' = adopted
    BY <1>3 DEF Ensure, DeleteRow, DropRow
  <2>2. \A k \in Contribs : mapped'[k] \in {0, mapped[k]}
    <3>1. mapped' = mapped \/ \E S : Delete(S)
      BY <1>3 DEF Ensure, DeleteRow, DropRow
    <3> QED
      BY <3>1 DEF Delete
  <2> QED
    BY <1>3, <2>1, <2>2, HarmlessSteps, AdoptedKept DEF Edit
<1>4. ASSUME NEW c \in Clients, RecordMapping(c) PROVE AdoptedInv'
  <2> DEFINE r == req[c]
  <2>1. CASE r.id \in Live /\ mapped[r.cur] = 0 /\ \A k \in Contribs : mapped[k] # r.id
    <3>1. /\ mapped' = [mapped EXCEPT ![r.cur] = r.id] /\ adopted' = adopted \cup {r.id}
          /\ Set(c, Projected(r, r.id))
      BY <1>4, <2>1 DEF RecordMapping
    <3>2. req'[c] = Projected(r, r.id) /\ \A d \in Clients \ {c} : req'[d] = req[d]
      BY <3>1, OwnRequest
    <3>3. Projected(r, r.id).stale = r.stale /\ Projected(r, r.id).at = "next"
      <4>1. r \in Request
        BY EachRequest
      <4> QED
        BY <4>1 DEF Request, Projected
    <3>4. \A k \in Contribs : mapped'[k] \in {mapped[k], r.id}
      BY <3>1 DEF TypeInv, TablesInv
    <3> HIDE DEF r
    <3>5. \A d \in Clients : \A s \in req'[d].stale : s[2] \in adopted'
      BY <3>1, <3>2, <3>3 DEF AdoptedInv, r
    <3> QED
      BY <3>1, <3>2, <3>3, <3>4, <3>5 DEF AdoptedInv
  <2>2. CASE ~(r.id \in Live /\ mapped[r.cur] = 0 /\ \A k \in Contribs : mapped[k] # r.id)
    BY <1>4, <2>2, HarmlessSteps, AdoptedKept DEF RecordMapping
  <2> QED
    BY <2>1, <2>2
<1>5. ASSUME NEW c \in Clients, ReadMappings(c) PROVE AdoptedInv'
  <2>1. PICK S : /\ Set(c, [req[c] EXCEPT !.at = "stale", !.stale = S])
                 /\ S = {<<k, mapped[k]>> : k \in {j \in Contribs : mapped[j] # 0 /\ j \notin req[c].snap}}
    BY <1>5 DEF ReadMappings
  <2>2. \A s \in S : s[2] \in adopted
    BY <2>1 DEF AdoptedInv
  <2>3. req'[c].at = "stale" /\ req'[c].stale = S
    <3>1. req[c] \in Request /\ req'[c] = [req[c] EXCEPT !.at = "stale", !.stale = S]
      BY <2>1, OwnRequest, EachRequest
    <3> QED
      BY <3>1 DEF Request
  <2>4. \A d \in Clients \ {c} : req'[d] = req[d]
    BY <2>1, OwnRequest
  <2>5. UNCHANGED <<mapped, adopted>>
    BY <1>5 DEF ReadMappings
  <2> QED
    BY <2>2, <2>3, <2>4, <2>5 DEF AdoptedInv
<1>6. ASSUME NEW c \in Clients, DropMapping(c) PROVE AdoptedInv'
  <2>1. PICK s \in req[c].stale :
          /\ mapped' = [mapped EXCEPT ![s[1]] = 0]
          /\ Set(c, [req[c] EXCEPT !.at = "drop", !.id = s[2], !.stale = @ \ {s}])
    BY <1>6 DEF DropMapping
  <2>2. req'[c].at = "drop" /\ req'[c].id = s[2] /\ req'[c].stale \subseteq req[c].stale
    <3>1. req[c] \in Request /\ req'[c] = [req[c] EXCEPT !.at = "drop", !.id = s[2], !.stale = @ \ {s}]
      BY <2>1, OwnRequest, EachRequest
    <3> QED
      BY <3>1 DEF Request
  <2>3. \A d \in Clients \ {c} : req'[d] = req[d]
    BY <2>1, OwnRequest
  <2>4. adopted' = adopted /\ \A k \in Contribs : mapped'[k] \in {0, mapped[k]}
    BY <1>6, <2>1 DEF DropMapping, TypeInv, TablesInv
  <2>5. s[2] \in adopted
    BY <2>1 DEF AdoptedInv
  <2> QED
    BY <2>2, <2>3, <2>4, <2>5 DEF AdoptedInv
<1>7. CASE Switch
  BY <1>7, SwitchedPlugin DEF AdoptedInv
<1>8. CASE UNCHANGED vars
  BY <1>8 DEF vars, AdoptedInv
<1> QED
  BY <1>1, <1>2, <1>3, <1>4, <1>5, <1>6, <1>7, <1>8 DEF Next, Edit, Project, Sweep

\* A row that a step takes away is one that it deletes: on an administrator's
\* request, as a younger twin, or as one that has been adopted.
LEMMA GoneRow ==
  ASSUME TypeInv, AdoptedInv, [Next]_vars, NEW i \in Live, item'[i] = NoRow
  PROVE  \/ \E c \in Clients : req[c].at = "delete" /\ req[c].id = i
         \/ /\ item[i].route \in SingleRoutes
            /\ \E j \in Live : j < i /\ item[j].route = item[i].route
         \/ i \in adopted
<1>0. i \notin Live' /\ i \in Ids
  BY DEF Live
<1>1. ASSUME NEW c \in Clients,
             \/ AskCreate(c) \/ AskUpdate(c) \/ AskPatch(c) \/ AskRemove(c)
             \/ AskDelete(c) \/ AskList(c)
      PROVE  FALSE
  BY <1>0, <1>1, BegunRequest DEF Live
<1>2. ASSUME NEW c \in Clients, Ensure(c)
      PROVE  /\ item[i].route \in SingleRoutes
             /\ \E j \in Live : j < i /\ item[j].route = item[i].route
  <2>1. req[c].dedupe # {}
    BY <1>0, <1>2 DEF Ensure, Live
  <2> DEFINE Twins(r) == {x \in Live : item[x].route = r}
  <2>2. PICK r \in req[c].dedupe : Delete(Twins(r) \ {MinId(Twins(r))})
    BY <1>2, <2>1 DEF Ensure
  <2>3. r \in SingleRoutes
    BY <2>2, EachRequest DEF Request
  <2>4. i \in Twins(r) /\ i # MinId(Twins(r))
    <3>1. (Twins(r) \ {MinId(Twins(r))}) \in SUBSET Ids /\ lastId' = lastId
      BY <1>2 DEF Live, Ensure
    <3>2. Live' = Live \ (Twins(r) \ {MinId(Twins(r))})
      BY <2>2, <3>1, DeletedRows DEF TypeInv
    <3> QED
      BY <1>0, <3>2
  <2>5. MinId(Twins(r)) \in Twins(r) /\ MinId(Twins(r)) <= i
    BY <2>4, OldestRow DEF Live
  <2>6. PICK j \in Live : j = MinId(Twins(r))
    BY <2>5
  <2>7. j \in Nat /\ i \in Nat /\ j <= i /\ j # i
    BY <2>4, <2>5, <2>6, Bounds DEF Live
  <2>8. item[i].route = r /\ item[j].route = r
    BY <2>4, <2>5, <2>6
  <2> QED
    BY <2>3, <2>6, <2>7, <2>8
<1>3. ASSUME NEW c \in Clients, InsertRow(c) \/ WriteRow(c) \/ Align(c) PROVE FALSE
  BY <1>0, <1>3, CreatedRow, ChangedRow, AlignedRow DEF RowsKept
<1>4. ASSUME NEW c \in Clients, InsertProjected(c) PROVE FALSE
  <2>1. CASE HasParent(req[c].parent)
    BY <1>0, <1>4, <2>1, ProjectedRow DEF RowsKept
  <2>2. CASE ~HasParent(req[c].parent)
    BY <1>0, <1>4, <2>2 DEF InsertProjected, Live
  <2> QED
    BY <2>1, <2>2
<1>5. ASSUME NEW c \in Clients, DeleteRow(c) \/ DropRow(c)
      PROVE  req[c].id = i /\ req[c].at \in {"delete", "drop"}
  <2>1. req[c].at \in {"delete", "drop"} /\ req[c].id \in Ids
    BY <1>5, EachRequest DEF DeleteRow, DropRow, At, RequestInv, Asking
  <2>2. Live' = Live \ {req[c].id}
    BY <1>5, <2>1, DeletedRows DEF DeleteRow, DropRow, TypeInv
  <2> QED
    BY <1>0, <2>1, <2>2
<1>6. ASSUME NEW c \in Clients,
             \/ CheckRow(c) \/ TakeSnapshot(c) \/ NextContribution(c) \/ NextRound(c) \/ LegacyParent(c)
             \/ LookupMapping(c) \/ FindLegacy(c) \/ RecordMapping(c) \/ ReadMappings(c) \/ DropMapping(c)
             \/ ReadRows(c) \/ Fail(c)
      PROVE  FALSE
  BY <1>0, <1>6 DEF CheckRow, TakeSnapshot, NextContribution, NextRound, LegacyParent,
     LookupMapping,
     FindLegacy, RecordMapping, ReadMappings, DropMapping, ReadRows, Fail, Live
<1>7. CASE Switch \/ UNCHANGED vars
  BY <1>0, <1>7 DEF Switch, vars, Live
<1> QED
  BY <1>1, <1>2, <1>3, <1>4, <1>5, <1>6, <1>7 DEF Next, Edit, Project, Sweep, AdoptedInv

\* What is mapped, stale or about to be dropped has been adopted.
LEMMA AdoptedInvariant == Spec => []AdoptedInv
<1>1. Init => AdoptedInv
  BY DEF Init, AdoptedInv, NoReq
<1>2. TypeInv /\ AdoptedInv /\ [Next]_vars => AdoptedInv'
  BY AdoptedStep
<1> QED
  BY <1>1, <1>2, TypeInvariant, PTL DEF Spec

\* A row of an administrator or a migration disappears only on an administrator's
\* request, as a younger twin of a single route, or after a contribution has taken
\* it over.
THEOREM OwnRowsAreKept == Spec => OwnRowsStay
<1>1. TypeInv /\ AdoptedInv /\ [Next]_vars =>
        [\A i \in Live :
           item[i].by # "projection" /\ item'[i] = NoRow =>
             \/ \E c \in Clients : req[c].at = "delete" /\ req[c].id = i
             \/ /\ item[i].route \in SingleRoutes
                /\ \E j \in Live : j < i /\ item[j].route = item[i].route
             \/ i \in adopted]_vars
  BY GoneRow
<1> QED
  BY <1>1, TypeInvariant, AdoptedInvariant, PTL DEF Spec, OwnRowsStay

(***************************************************************************)
(* The menu and the enabled plugins.                                       *)
(***************************************************************************)
\* The stages of a listing once it has its snapshot.
Past == Listing \ {"list"}

NoTwins(R) == \A r \in R : \A i, j \in Live : item[i].route = r /\ item[j].route = r => i = j

\* What a request that runs alone may rely on.  The single routes it has been
\* through have one row each; its snapshot is still the one that is published; of
\* its snapshot, what is not mapped is still ahead of it; a row is inserted only
\* for a route that has none; and what it has read as stale is what is mapped and
\* not in its snapshot, but for the mapping whose row it is about to drop.
SnapshotIsCurrent(r) ==
  r.at \in Past =>
    /\ r.snap = Offered
    /\ \A k \in r.snap :
         mapped[k] = 0 => k \in r.left \cup r.later \/ (r.at \in Handling /\ k = r.cur)
NothingIsLeft(r) == r.at \in {"mappings", "stale", "drop"} => r.left = {} /\ r.later = {}
RouteIsFree(r) ==
  r.at = "insert" /\ Route[r.cur] # "none" => \A i \in Live : item[i].route # Route[r.cur]
StaleIsCurrent(r) ==
  r.at \in {"stale", "drop"} =>
    /\ \A s \in r.stale : s[1] \notin r.snap /\ mapped[s[1]] = s[2]
    /\ \A k \in Contribs \ r.snap : mapped[k] # 0 => <<k, mapped[k]>> \in r.stale
RowIsFree(r) == r.at = "drop" => \A k \in Contribs : mapped[k] # r.id
TwinsAreGone(r) == NoTwins(SingleRoutes \ r.dedupe) /\ (r.at # "ensure" => r.dedupe = {})

LoneInv(r) ==
  /\ TwinsAreGone(r) /\ SnapshotIsCurrent(r) /\ NothingIsLeft(r)
  /\ RouteIsFree(r) /\ StaleIsCurrent(r) /\ RowIsFree(r)

AloneInv ==
  \A c \in Clients : req[c].alone =>
    /\ req[c].at # "idle" /\ \A d \in Clients \ {c} : req[d].at = "idle"
    /\ LoneInv(req[c])

\* Once settled, no listing finds anything to do.
SettledNow == (\A k \in Contribs : mapped[k] # 0 <=> k \in Offered) /\ NoTwins(SingleRoutes)
SettledReq(r) ==
  /\ r.at \in Past => r.snap = Offered
  /\ r.at \notin {"legacy", "align", "insert", "record", "drop"}
  /\ r.at = "stale" => r.stale = {}
SettledInv == settled => SettledNow /\ \A c \in Clients : SettledReq(req[c])

FollowInv == AloneInv /\ SettledInv

\* A request at work goes on from q to r.
LEMMA FollowKept ==
  ASSUME TypeInv, FollowInv, NEW c \in Clients, NEW q, NEW r, q = req[c], Set(c, r),
         q.at # "idle", active' = active, r.alone => q.alone /\ r.at # "idle",
         q.alone /\ LoneInv(q) /\ r.alone => LoneInv(r)',
         settled' => settled /\ UNCHANGED <<item, mapped>>,
         settled' /\ SettledNow /\ SettledReq(q) => SettledReq(r)
  PROVE  FollowInv'
<1>1. req'[c] = r /\ \A d \in Clients \ {c} : req'[d] = req[d]
  BY OwnRequest
<1>2. AloneInv'
  <2> SUFFICES ASSUME NEW d \in Clients, req'[d].alone
               PROVE  /\ req'[d].at # "idle" /\ \A e \in Clients \ {d} : req'[e].at = "idle"
                      /\ LoneInv(req[d])'
    BY DEF AloneInv
  <2>1. d = c
    <3>1. SUFFICES ASSUME d # c PROVE FALSE
      OBVIOUS
    <3> QED
      BY <1>1, <3>1 DEF FollowInv, AloneInv
  <2>2. r.alone /\ q.alone /\ r.at # "idle"
    BY <1>1, <2>1
  <2>3. LoneInv(q) /\ \A e \in Clients \ {c} : req[e].at = "idle"
    BY <2>2 DEF FollowInv, AloneInv
  <2>4. LoneInv(r)'
    BY <2>2, <2>3
  <2>5. LoneInv(req[d])'
    BY <1>1, <2>1, <2>4
  <2> QED
    BY <1>1, <2>1, <2>2, <2>3, <2>5
<1>3. SettledInv'
  <2> SUFFICES ASSUME settled' PROVE SettledNow' /\ \A d \in Clients : SettledReq(req[d])'
    BY DEF SettledInv
  <2>1. SettledNow /\ \A d \in Clients : SettledReq(req[d])
    BY DEF FollowInv, SettledInv
  <2>2. SettledNow'
    BY <2>1 DEF SettledNow, NoTwins, Live, Offered
  <2>3. SettledReq(r)
    BY <2>1
  <2>4. \A d \in Clients : SettledReq(req'[d])
    BY <1>1, <2>1, <2>3
  <2> QED
    BY <2>2, <2>4 DEF SettledReq, Offered
<1> QED
  BY <1>2, <1>3 DEF FollowInv

\* A request that ends relies on nothing.
LEMMA FollowEnd ==
  ASSUME TypeInv, FollowInv, NEW c \in Clients, End(c), req[c].at # "idle", active' = active,
         settled' => settled /\ UNCHANGED <<item, mapped>>
  PROVE  FollowInv'
<1>1. ~NoReq.alone /\ NoReq.at = "idle"
  BY DEF NoReq
<1>2. SettledReq(NoReq)
  BY <1>1 DEF SettledReq, Past, Listing, Handling
<1>3. Set(c, NoReq)
  BY DEF End
<1> QED
  BY <1>1, <1>2, <1>3, FollowKept

\* What a request relies on, it may rely on after a step that changes no table.
LEMMA SameTables ==
  ASSUME NEW r, LoneInv(r), UNCHANGED <<item, mapped, active>>
  PROVE  LoneInv(r)'
BY DEF LoneInv, TwinsAreGone, NoTwins, SnapshotIsCurrent, NothingIsLeft, RouteIsFree,
   StaleIsCurrent,
   RowIsFree, Live, Offered

\* Deleting rows and keeping the routes of the others makes no twins.
LEMMA TwinsStayGone ==
  ASSUME NEW R, NoTwins(R), \A i \in Live' : i \in Live /\ item'[i].route = item[i].route
  PROVE  NoTwins(R)'
BY DEF NoTwins

\* A request at work goes on from q to r, and changes no table.
LEMMA FollowRead ==
  ASSUME TypeInv, FollowInv, NEW c \in Clients, NEW q, NEW r, q = req[c], Set(c, r),
         q.at # "idle", r.alone => q.alone /\ r.at # "idle", q.alone /\ LoneInv(q) => LoneInv(r),
         UNCHANGED <<item, mapped, active, settled>>,
         settled /\ SettledNow /\ SettledReq(q) => SettledReq(r)
  PROVE  FollowInv'
BY FollowKept, SameTables

\* The statement of an administrator's request ends it, and unsettles the menu.
LEMMA FollowEdit ==
  ASSUME TypeInv, FollowInv, NEW c \in Clients, InsertRow(c) \/ WriteRow(c) \/ DeleteRow(c)
  PROVE  FollowInv'
BY FollowEnd DEF InsertRow, WriteRow, DeleteRow, At

\* A request that fails ends.
LEMMA FollowFail ==
  ASSUME TypeInv, FollowInv, NEW c \in Clients, Fail(c)
  PROVE  FollowInv'
BY FollowEnd DEF Fail, Abandon, At

\* The look at a row before its deletion changes no table.
LEMMA FollowCheck ==
  ASSUME TypeInv, FollowInv, NEW c \in Clients, CheckRow(c)
  PROVE  FollowInv'
<1>1. PICK q \in Request : q = req[c] /\ RequestInv(q)
  BY EachRequest
<1> DEFINE r == [q EXCEPT !.at = "delete"]
<1>2. CASE ~Set(c, r)
  BY <1>1, <1>2, FollowEnd DEF CheckRow, Goto, At
<1>3. CASE Set(c, r)
  <2>1. q.at = "check" /\ UNCHANGED <<item, mapped, active, settled>>
    BY <1>1 DEF CheckRow, At
  <2>2. r.at = "delete" /\ r.alone = q.alone /\ r.dedupe = q.dedupe
    BY <1>1 DEF Request
  <2> HIDE DEF r
  <2>3. LoneInv(q) => LoneInv(r)
    BY <2>1, <2>2 DEF LoneInv, TwinsAreGone, SnapshotIsCurrent, NothingIsLeft, RouteIsFree,
       StaleIsCurrent,
       RowIsFree, Past, Listing, Handling
  <2>4. SettledReq(r)
    BY <2>2 DEF SettledReq, Past, Listing, Handling
  <2> QED
    BY <1>1, <1>3, <2>1, <2>2, <2>3, <2>4, FollowRead
<1> QED
  BY <1>2, <1>3

\* Only the oldest row of a single route is left, and of a route that has one row
\* nothing is deleted.
LEMMA FollowEnsure ==
  ASSUME TypeInv, FollowInv, NEW c \in Clients, Ensure(c)
  PROVE  FollowInv'
<1>1. PICK q \in Request : q = req[c] /\ RequestInv(q)
  BY EachRequest
<1>2. q.at = "ensure" /\ UNCHANGED <<active, settled, lastId>>
  BY <1>1 DEF Ensure, At
<1>3. CASE q.dedupe = {}
  <2> DEFINE r == [q EXCEPT !.at = q.op]
  <2>1. Set(c, r) /\ UNCHANGED <<item, mapped>>
    BY <1>1, <1>3 DEF Ensure, Goto
  <2>2. r.at = q.op /\ r.alone = q.alone /\ r.dedupe = {} /\ q.op \in Asking \cup {"list"}
    BY <1>1, <1>2, <1>3 DEF Request, RequestInv
  <2> HIDE DEF r
  <2>3. LoneInv(q) => LoneInv(r)
    BY <1>3, <2>2 DEF LoneInv, TwinsAreGone, SnapshotIsCurrent, NothingIsLeft, RouteIsFree,
       StaleIsCurrent,
       RowIsFree, Past, Listing, Handling, Asking
  <2>4. SettledReq(r) /\ r.at # "idle"
    BY <2>2 DEF SettledReq, Past, Listing, Handling, Asking
  <2> QED
    BY <1>1, <1>2, <2>1, <2>2, <2>3, <2>4, FollowRead
<1>4. CASE q.dedupe # {}
  <2> DEFINE Twins(x) == {i \in Live : item[i].route = x}
  <2>1. PICK x \in q.dedupe : /\ Delete(Twins(x) \ {MinId(Twins(x))})
                              /\ Set(c, [q EXCEPT !.dedupe = @ \ {x}])
    BY <1>1, <1>4 DEF Ensure
  <2> DEFINE r == [q EXCEPT !.dedupe = @ \ {x}]
  <2>2. r.at = "ensure" /\ r.alone = q.alone /\ r.dedupe = q.dedupe \ {x} /\ Set(c, r)
    BY <1>1, <1>2, <2>1 DEF Request
  <2> HIDE DEF r
  <2>3. PICK S \in SUBSET Ids : S = Twins(x) \ {MinId(Twins(x))}
    BY DEF Live
  <2>4. /\ Live' = Live \ S /\ \A i \in Live \ S : item'[i].route = item[i].route
    BY <1>2, <2>1, <2>3, DeletedRows DEF TypeInv
  <2>5. ASSUME NoTwins(SingleRoutes \ q.dedupe) PROVE NoTwins(SingleRoutes \ r.dedupe)'
    <3>1. NoTwins(SingleRoutes \ q.dedupe)'
      BY <2>4, <2>5, TwinsStayGone
    <3>2. ASSUME NEW i \in Live', NEW j \in Live', item'[i].route = x, item'[j].route = x
          PROVE  i = j
      BY <2>3, <2>4, <3>2
    <3> QED
      BY <2>2, <3>1, <3>2 DEF NoTwins
  <2>6. LoneInv(q) => LoneInv(r)'
    BY <2>2, <2>5 DEF LoneInv, TwinsAreGone, SnapshotIsCurrent, NothingIsLeft, RouteIsFree,
       StaleIsCurrent,
       RowIsFree, Past, Listing, Handling
  <2>7. SettledReq(r)
    BY <2>2 DEF SettledReq, Past, Listing, Handling
  <2>8. ASSUME settled PROVE UNCHANGED <<item, mapped>>
    <3>1. x \in SingleRoutes /\ NoTwins(SingleRoutes)
      BY <1>1, <2>1, <2>8 DEF FollowInv, SettledInv, SettledNow, Request
    <3>2. S = {}
      <4> SUFFICES ASSUME NEW i \in S PROVE FALSE
        OBVIOUS
      <4>1. i \in Twins(x) /\ i # MinId(Twins(x))
        BY <2>3
      <4>2. MinId(Twins(x)) \in Twins(x)
        BY <4>1, OldestRow DEF Live
      <4> QED
        BY <3>1, <4>1, <4>2 DEF NoTwins
    <3>3. Delete({})
      BY <2>1, <2>3, <3>2
    <3>4. item' = [i \in Ids |-> item[i]] /\ mapped' = [k \in Contribs |-> mapped[k]]
      BY <3>3 DEF Delete
    <3> QED
      BY <3>4 DEF TypeInv, TablesInv
  <2> QED
    BY <1>1, <1>2, <2>2, <2>6, <2>7, <2>8, FollowKept
<1> QED
  BY <1>3, <1>4

\* A listing takes the snapshot that is published.
LEMMA FollowSnapshot ==
  ASSUME TypeInv, FollowInv, NEW c \in Clients, TakeSnapshot(c)
  PROVE  FollowInv'
<1>1. PICK q \in Request : q = req[c] /\ RequestInv(q)
  BY EachRequest
<1>2. PICK O : O = Offered
  OBVIOUS
<1> DEFINE r == [q EXCEPT !.at = "next", !.snap = O, !.left = O]
<1>3. Set(c, r) /\ q.at = "list" /\ UNCHANGED <<item, mapped, active, settled>>
  BY <1>1, <1>2 DEF TakeSnapshot, At
<1>4. /\ r.at = "next" /\ r.alone = q.alone /\ r.dedupe = q.dedupe
      /\ r.snap = O /\ r.left = O
  BY <1>1 DEF Request
<1> HIDE DEF r
<1>5. LoneInv(q) => LoneInv(r)
  BY <1>2, <1>3, <1>4 DEF LoneInv, TwinsAreGone, SnapshotIsCurrent, NothingIsLeft, RouteIsFree,
     StaleIsCurrent, RowIsFree, Past, Listing, Handling
<1>6. SettledReq(r)
  BY <1>2, <1>4 DEF SettledReq
<1> QED
  BY <1>1, <1>3, <1>4, <1>5, <1>6, FollowRead

\* The next contribution is in hand, or waits for its parent.
LEMMA FollowContribution ==
  ASSUME TypeInv, FollowInv, NEW c \in Clients, NextContribution(c)
  PROVE  FollowInv'
<1>1. PICK q \in Request : q = req[c] /\ RequestInv(q)
  BY EachRequest
<1>2. PICK k : k = First(q.left)
  OBVIOUS
<1>3. q.at = "next" /\ q.left # {} /\ UNCHANGED <<item, mapped, active, settled>>
  BY <1>1 DEF NextContribution, At
<1>4. k \in q.left /\ k \in q.snap
  BY <1>1, <1>2, <1>3, FirstIsOne DEF Request, RequestInv
<1> DEFINE p == Parent[k]
           taken == [q EXCEPT !.left = @ \ {k}, !.cur = k]
<1>5. PICK r : /\ Set(c, r)
               /\ \/ r = [taken EXCEPT !.at = "mapping", !.parent = 0]
                  \/ r = [taken EXCEPT !.at = "mapping", !.parent = q.done[p]]
                  \/ r = [taken EXCEPT !.later = @ \cup {k}]
                  \/ r = [taken EXCEPT !.at = "legacyParent"]
                  \/ r = NoReq
  <2>1. \E r : /\ Set(c, r)
               /\ r = (IF p = "none" THEN [taken EXCEPT !.at = "mapping", !.parent = 0]
                       ELSE IF p \in Contribs /\ q.done[p] # 0
                            THEN [taken EXCEPT !.at = "mapping", !.parent = q.done[p]]
                       ELSE IF p \in q.snap THEN [taken EXCEPT !.later = @ \cup {k}]
                       ELSE IF p = System THEN [taken EXCEPT !.at = "legacyParent"]
                       ELSE NoReq)
    BY <1>1, <1>2 DEF NextContribution
  <2> QED
    BY <2>1
<1> HIDE DEF p
<1>6. CASE r = NoReq
  BY <1>1, <1>3, <1>5, <1>6, FollowEnd DEF End
<1>7. CASE r # NoReq
  <2>1. /\ r.alone = q.alone /\ r.dedupe = q.dedupe /\ r.snap = q.snap /\ r.cur = k
        /\ r.left = q.left \ {k}
        /\ (r.at \in {"mapping", "legacyParent"} /\ r.later = q.later)
           \/ (r.at = "next" /\ r.later = q.later \cup {k})
    BY <1>1, <1>3, <1>5, <1>7 DEF Request
  <2> HIDE DEF taken
  <2>2. LoneInv(q) => LoneInv(r)
    BY <1>3, <1>4, <2>1 DEF LoneInv, TwinsAreGone, SnapshotIsCurrent, NothingIsLeft, RouteIsFree,
       StaleIsCurrent, RowIsFree, Past, Listing, Handling
  <2>3. SettledReq(q) => SettledReq(r)
    BY <1>3, <2>1 DEF SettledReq, Past, Listing, Handling
  <2>4. r.at # "idle"
    BY <2>1
  <2> QED
    BY <1>1, <1>3, <1>5, <2>1, <2>2, <2>3, <2>4, FollowRead
<1> QED
  BY <1>6, <1>7

\* A round ends with nothing left, or with what waits for its parent.
LEMMA FollowRound ==
  ASSUME TypeInv, FollowInv, NEW c \in Clients, NextRound(c)
  PROVE  FollowInv'
<1>1. PICK q \in Request : q = req[c] /\ RequestInv(q)
  BY EachRequest
<1>2. q.at = "next" /\ q.left = {} /\ UNCHANGED <<item, mapped, active, settled>>
  BY <1>1 DEF NextRound, At
<1>3. PICK r : /\ Set(c, r)
               /\ \/ q.later = {} /\ r = [q EXCEPT !.at = "mappings"]
                  \/ r = [q EXCEPT !.left = q.later, !.later = {}, !.moved = FALSE]
                  \/ r = NoReq
  BY <1>1 DEF NextRound
<1>4. CASE r = NoReq
  BY <1>1, <1>2, <1>3, <1>4, FollowEnd DEF End
<1>5. CASE r # NoReq
  <2>1. /\ r.alone = q.alone /\ r.dedupe = q.dedupe /\ r.snap = q.snap
        /\ \/ q.later = {} /\ r.left = {} /\ r.later = {} /\ r.at = "mappings"
           \/ r.left = q.later /\ r.later = {} /\ r.at = "next"
    BY <1>1, <1>2, <1>3, <1>5 DEF Request
  <2>2. LoneInv(q) => LoneInv(r)
    BY <1>2, <2>1 DEF LoneInv, TwinsAreGone, SnapshotIsCurrent, NothingIsLeft, RouteIsFree,
       StaleIsCurrent, RowIsFree, Past, Listing, Handling
  <2>3. SettledReq(q) => SettledReq(r)
    BY <1>2, <2>1 DEF SettledReq, Past, Listing, Handling
  <2>4. r.at # "idle"
    BY <2>1
  <2> QED
    BY <1>1, <1>2, <1>3, <2>1, <2>2, <2>3, <2>4, FollowRead
<1> QED
  BY <1>4, <1>5

\* The search for the row of the system group changes no table.
LEMMA FollowLegacyParent ==
  ASSUME TypeInv, FollowInv, NEW c \in Clients, LegacyParent(c)
  PROVE  FollowInv'
<1>1. PICK q \in Request : q = req[c] /\ RequestInv(q)
  BY EachRequest
<1>2. q.at = "legacyParent" /\ UNCHANGED <<item, mapped, active, settled>>
  BY <1>1 DEF LegacyParent, At
<1>3. CASE find_legacy_parent_id = 0
  BY <1>1, <1>2, <1>3, FollowEnd DEF LegacyParent
<1>4. CASE find_legacy_parent_id # 0
  <2>0. PICK f : f = find_legacy_parent_id
    OBVIOUS
  <2> DEFINE r == [q EXCEPT !.at = "mapping", !.parent = f]
  <2>1. Set(c, r)
    BY <1>1, <1>4, <2>0 DEF LegacyParent
  <2>2. /\ r.at = "mapping" /\ r.alone = q.alone /\ r.dedupe = q.dedupe /\ r.snap = q.snap
        /\ r.left = q.left /\ r.later = q.later /\ r.cur = q.cur
    BY <1>1 DEF Request
  <2> HIDE DEF r
  <2>3. LoneInv(q) => LoneInv(r)
    BY <1>2, <2>2 DEF LoneInv, TwinsAreGone, SnapshotIsCurrent, NothingIsLeft, RouteIsFree,
       StaleIsCurrent, RowIsFree, Past, Listing, Handling
  <2>4. SettledReq(q) => SettledReq(r)
    BY <1>2, <2>2 DEF SettledReq, Past, Listing, Handling
  <2> QED
    BY <1>1, <1>2, <2>1, <2>2, <2>3, <2>4, FollowRead
<1> QED
  BY <1>3, <1>4

\* A contribution that is projected already, or is now, needs nothing more.
LEMMA ProjectedFields ==
  ASSUME NEW q \in Request, NEW i
  PROVE  /\ Projected(q, i).at = "next" /\ Projected(q, i).alone = q.alone
         /\ Projected(q, i).dedupe = q.dedupe /\ Projected(q, i).snap = q.snap
         /\ Projected(q, i).left = q.left /\ Projected(q, i).later = q.later
BY DEF Request, Projected

\* A contribution that is mapped is done; once settled, every one is.
LEMMA FollowLookup ==
  ASSUME TypeInv, FollowInv, NEW c \in Clients, LookupMapping(c)
  PROVE  FollowInv'
<1>1. PICK q \in Request : q = req[c] /\ RequestInv(q)
  BY EachRequest
<1>2. q.at = "mapping" /\ UNCHANGED <<item, mapped, active, settled>> /\ q.cur \in q.snap
  BY <1>1 DEF LookupMapping, At, RequestInv, Handling
<1>3. PICK i : i = mapped[q.cur]
  OBVIOUS
<1>4. CASE i # 0
  <2>1. Set(c, Projected(q, i))
    BY <1>1, <1>3, <1>4 DEF LookupMapping
  <2>2. PICK r : r = Projected(q, i)
    OBVIOUS
  <2>3. /\ r.at = "next" /\ r.alone = q.alone /\ r.dedupe = q.dedupe /\ r.snap = q.snap
        /\ r.left = q.left /\ r.later = q.later
    BY <1>1, <2>2, ProjectedFields
  <2>4. LoneInv(q) => LoneInv(r)
    BY <1>2, <1>3, <1>4, <2>3 DEF LoneInv, TwinsAreGone, SnapshotIsCurrent, NothingIsLeft,
       RouteIsFree,
       StaleIsCurrent, RowIsFree, Past, Listing, Handling
  <2>5. SettledReq(q) => SettledReq(r)
    BY <1>2, <2>3 DEF SettledReq, Past, Listing, Handling
  <2> QED
    BY <1>1, <1>2, <2>1, <2>2, <2>3, <2>4, <2>5, FollowRead
<1>5. CASE i = 0
  <2> DEFINE r == [q EXCEPT !.at = "legacy"]
  <2>1. Set(c, r)
    BY <1>1, <1>3, <1>5 DEF LookupMapping, Goto
  <2>2. /\ r.at = "legacy" /\ r.alone = q.alone /\ r.dedupe = q.dedupe /\ r.snap = q.snap
        /\ r.left = q.left /\ r.later = q.later /\ r.cur = q.cur
    BY <1>1 DEF Request
  <2> HIDE DEF r
  <2>3. LoneInv(q) => LoneInv(r)
    BY <1>2, <2>2 DEF LoneInv, TwinsAreGone, SnapshotIsCurrent, NothingIsLeft, RouteIsFree,
       StaleIsCurrent, RowIsFree, Past, Listing, Handling
  <2>4. ~(SettledNow /\ SettledReq(q))
    BY <1>1, <1>2, <1>3, <1>5 DEF SettledNow, SettledReq, Past, Listing, Handling, Request
  <2> QED
    BY <1>1, <1>2, <2>1, <2>2, <2>3, <2>4, FollowRead
<1> QED
  BY <1>4, <1>5

\* A row is inserted only when the search for one with its route found none.
LEMMA FollowLegacy ==
  ASSUME TypeInv, FollowInv, NEW c \in Clients, FindLegacy(c)
  PROVE  FollowInv'
<1>1. PICK q \in Request : q = req[c] /\ RequestInv(q)
  BY EachRequest
<1>2. q.at = "legacy" /\ UNCHANGED <<item, mapped, active, settled>>
  BY <1>1 DEF FindLegacy, At
<1>3. PICK i : i = MinId(Lookalikes(q.cur, q.parent))
  OBVIOUS
<1>4. PICK at \in {"insert", "align"} : at = (IF i = 0 THEN "insert" ELSE "align")
  OBVIOUS
<1> DEFINE r == [q EXCEPT !.id = i, !.at = at]
<1>5. Set(c, r)
  BY <1>1, <1>3, <1>4 DEF FindLegacy
<1>6. /\ r.at = at /\ r.alone = q.alone /\ r.dedupe = q.dedupe /\ r.snap = q.snap
      /\ r.left = q.left /\ r.later = q.later /\ r.cur = q.cur
  BY <1>1 DEF Request
<1> HIDE DEF r
<1>7. RouteIsFree(r)
  <2> SUFFICES ASSUME at = "insert", Route[q.cur] # "none", NEW x \in Live
        PROVE  item[x].route # Route[q.cur]
    BY <1>6 DEF RouteIsFree
  <2>1. Lookalikes(q.cur, q.parent) = {}
    BY <1>3, <1>4, OldestOrNone DEF Lookalikes, Live
  <2> QED
    BY <2>1 DEF Lookalikes
<1>8. LoneInv(q) => LoneInv(r)
  BY <1>2, <1>4, <1>6, <1>7 DEF LoneInv, TwinsAreGone, SnapshotIsCurrent, NothingIsLeft,
     StaleIsCurrent, RowIsFree, Past, Listing, Handling
<1>9. ~SettledReq(q)
  BY <1>2 DEF SettledReq
<1> QED
  BY <1>1, <1>2, <1>4, <1>5, <1>6, <1>8, <1>9, FollowRead

\* A row that hangs somewhere else keeps its route.
LEMMA FollowAlign ==
  ASSUME TypeInv, FollowInv, NEW c \in Clients, Align(c)
  PROVE  FollowInv'
<1>1. PICK q \in Request : q = req[c] /\ RequestInv(q)
  BY EachRequest
<1>2. q.at = "align" /\ UNCHANGED <<active, settled>>
  BY <1>1 DEF Align, At
<1>3. ~SettledReq(q) /\ ~settled
  BY <1>1, <1>2 DEF SettledReq, FollowInv, SettledInv
<1>4. CASE End(c)
  BY <1>1, <1>2, <1>3, <1>4, FollowEnd
<1>5. CASE ~End(c)
  <2> DEFINE r == [q EXCEPT !.at = "record"]
  <2>1. Set(c, r)
    BY <1>1, <1>5 DEF Align, Goto
  <2>2. /\ r.at = "record" /\ r.alone = q.alone /\ r.dedupe = q.dedupe /\ r.snap = q.snap
        /\ r.left = q.left /\ r.later = q.later /\ r.cur = q.cur
    BY <1>1 DEF Request
  <2> HIDE DEF r
  <2>3. Live' = Live /\ mapped' = mapped /\ \A i \in Live : item'[i].route = item[i].route
    BY AlignedRow
  <2>4. LoneInv(q) => TwinsAreGone(r)'
    BY <1>2, <2>2, <2>3, TwinsStayGone DEF LoneInv, TwinsAreGone
  <2>5. LoneInv(q) => LoneInv(r)'
    BY <1>2, <2>2, <2>3, <2>4 DEF LoneInv, SnapshotIsCurrent, NothingIsLeft, RouteIsFree,
       StaleIsCurrent, RowIsFree, Past, Listing, Handling, Offered
  <2> QED
    BY <1>1, <1>2, <1>3, <2>1, <2>2, <2>5, FollowKept
<1> QED
  BY <1>4, <1>5

\* A row is inserted for a route that no row has.
LEMMA FollowProjected ==
  ASSUME TypeInv, FollowInv, NEW c \in Clients, InsertProjected(c)
  PROVE  FollowInv'
<1>1. PICK q \in Request : q = req[c] /\ RequestInv(q)
  BY EachRequest
<1>2. q.at = "insert" /\ UNCHANGED <<active, settled, mapped>>
  BY <1>1 DEF InsertProjected, At
<1>3. ~SettledReq(q) /\ ~settled
  BY <1>1, <1>2 DEF SettledReq, FollowInv, SettledInv
<1>4. CASE ~HasParent(q.parent)
  BY <1>1, <1>2, <1>3, <1>4, FollowEnd DEF InsertProjected
<1>5. CASE HasParent(q.parent)
  <2>0. PICK n : n = lastId + 1
    OBVIOUS
  <2> DEFINE r == [q EXCEPT !.at = "record", !.id = n]
  <2>1. Set(c, r)
    BY <1>1, <1>5, <2>0 DEF InsertProjected
  <2>2. /\ r.at = "record" /\ r.alone = q.alone /\ r.dedupe = q.dedupe /\ r.snap = q.snap
        /\ r.left = q.left /\ r.later = q.later /\ r.cur = q.cur
    BY <1>1 DEF Request
  <2> HIDE DEF r
  <2>3. /\ Live' = Live \cup {n} /\ n \notin Live
        /\ item'[n].route = Route[q.cur] /\ \A i \in Live : item'[i].route = item[i].route
    BY <1>1, <1>5, <2>0, ProjectedRow
  <2>4. ASSUME RouteIsFree(q), NoTwins(SingleRoutes) PROVE NoTwins(SingleRoutes)'
    <3>0. "none" \notin SingleRoutes
      BY MenuAssumption
    <3>1. Route[q.cur] # "none" => \A i \in Live : item[i].route # Route[q.cur]
      BY <1>2, <2>4 DEF RouteIsFree
    <3>2. ASSUME NEW x \in SingleRoutes, NEW i \in Live', NEW j \in Live',
                 item'[i].route = x, item'[j].route = x
          PROVE  i = j
      <4>1. CASE i \in Live /\ j \in Live
        BY <2>3, <2>4, <3>2, <4>1 DEF NoTwins
      <4>2. CASE i = n \/ j = n
        BY <2>3, <3>0, <3>1, <3>2, <4>2
      <4> QED
        BY <2>3, <4>1, <4>2
    <3> QED
      BY <3>2 DEF NoTwins
  <2>5. LoneInv(q) => TwinsAreGone(r)'
    <3> SUFFICES ASSUME LoneInv(q) PROVE TwinsAreGone(r)'
      OBVIOUS
    <3>1. q.dedupe = {} /\ NoTwins(SingleRoutes \ q.dedupe) /\ RouteIsFree(q)
      BY <1>2 DEF LoneInv, TwinsAreGone
    <3>2. SingleRoutes \ q.dedupe = SingleRoutes
      BY <3>1
    <3>3. NoTwins(SingleRoutes)
      BY <3>1, <3>2
    <3>4. NoTwins(SingleRoutes)'
      BY <2>4, <3>1, <3>3
    <3>5. NoTwins(SingleRoutes \ q.dedupe)'
      BY <3>2, <3>4
    <3> QED
      BY <2>2, <3>1, <3>5 DEF TwinsAreGone
  <2>6. LoneInv(q) => LoneInv(r)'
    BY <1>2, <2>2, <2>5 DEF LoneInv, SnapshotIsCurrent, NothingIsLeft, RouteIsFree,
       StaleIsCurrent, RowIsFree, Past, Listing, Handling, Offered
  <2> QED
    BY <1>1, <1>2, <1>3, <2>1, <2>2, <2>6, FollowKept
<1> QED
  BY <1>4, <1>5

\* A contribution that is recorded is mapped.
LEMMA FollowRecord ==
  ASSUME TypeInv, FollowInv, NEW c \in Clients, RecordMapping(c)
  PROVE  FollowInv'
<1>1. PICK q \in Request : q = req[c] /\ RequestInv(q)
  BY EachRequest
<1>2. q.at = "record" /\ UNCHANGED <<item, active, settled>> /\ q.cur \in Contribs /\ q.id \in Ids
  BY <1>1 DEF RecordMapping, At, RequestInv, Request, Handling
<1>3. ~SettledReq(q) /\ ~settled
  BY <1>1, <1>2 DEF SettledReq, FollowInv, SettledInv
<1>4. CASE End(c)
  BY <1>1, <1>2, <1>3, <1>4, FollowEnd
<1>5. CASE ~End(c)
  <2>1. Set(c, Projected(q, q.id)) /\ mapped' = [mapped EXCEPT ![q.cur] = q.id]
    BY <1>1, <1>5 DEF RecordMapping, Abandon
  <2>2. PICK r : r = Projected(q, q.id)
    OBVIOUS
  <2>3. /\ r.at = "next" /\ r.alone = q.alone /\ r.dedupe = q.dedupe /\ r.snap = q.snap
        /\ r.left = q.left /\ r.later = q.later
    BY <1>1, <2>2, ProjectedFields
  <2>4. mapped'[q.cur] # 0 /\ \A k \in Contribs : k # q.cur => mapped'[k] = mapped[k]
    BY <1>2, <2>1, Bounds DEF TypeInv, TablesInv
  <2>5. LoneInv(q) => TwinsAreGone(r)'
    BY <1>2, <2>3 DEF LoneInv, TwinsAreGone, NoTwins, Live
  <2>6. ASSUME LoneInv(q) PROVE SnapshotIsCurrent(r)'
    <3>1. q.snap = Offered /\ \A k \in q.snap : mapped[k] = 0 => k \in q.left \cup q.later \/ k = q.cur
      BY <1>2, <2>6 DEF LoneInv, SnapshotIsCurrent, Past, Listing, Handling
    <3>2. Offered' = Offered /\ q.snap \subseteq Contribs
      BY <1>1, <1>2 DEF Offered, Request
    <3> QED
      BY <2>3, <2>4, <3>1, <3>2 DEF SnapshotIsCurrent
  <2>7. LoneInv(q) => LoneInv(r)'
    BY <2>3, <2>5, <2>6 DEF LoneInv, NothingIsLeft, RouteIsFree, StaleIsCurrent, RowIsFree
  <2> QED
    BY <1>1, <1>2, <1>3, <2>1, <2>2, <2>3, <2>7, FollowKept
<1> QED
  BY <1>4, <1>5

\* Once a listing has been through its snapshot, what is mapped besides is stale.
LEMMA FollowMappings ==
  ASSUME TypeInv, FollowInv, NEW c \in Clients, ReadMappings(c)
  PROVE  FollowInv'
<1>1. PICK q \in Request : q = req[c] /\ RequestInv(q)
  BY EachRequest
<1>2. PICK S : S = {<<k, mapped[k]>> : k \in {j \in Contribs : mapped[j] # 0 /\ j \notin q.snap}}
  OBVIOUS
<1> DEFINE r == [q EXCEPT !.at = "stale", !.stale = S]
<1>3. Set(c, r) /\ q.at = "mappings" /\ UNCHANGED <<item, mapped, active, settled>>
  BY <1>1, <1>2 DEF ReadMappings, At
<1>4. /\ r.at = "stale" /\ r.alone = q.alone /\ r.dedupe = q.dedupe /\ r.snap = q.snap
      /\ r.left = q.left /\ r.later = q.later /\ r.stale = S
  BY <1>1 DEF Request
<1> HIDE DEF r
<1>5. StaleIsCurrent(r)
  BY <1>2, <1>4 DEF StaleIsCurrent
<1>6. LoneInv(q) => LoneInv(r)
  BY <1>3, <1>4, <1>5 DEF LoneInv, TwinsAreGone, SnapshotIsCurrent, NothingIsLeft, RouteIsFree,
     RowIsFree, Past, Listing, Handling
<1>7. ASSUME SettledNow, SettledReq(q) PROVE SettledReq(r)
  <2>1. q.snap = Offered /\ \A k \in Contribs : mapped[k] # 0 => k \in q.snap
    BY <1>3, <1>7 DEF SettledNow, SettledReq, Past, Listing, Handling
  <2>2. S = {}
    BY <1>2, <2>1
  <2> QED
    BY <1>4, <2>1, <2>2 DEF SettledReq
<1> QED
  BY <1>1, <1>3, <1>4, <1>6, <1>7, FollowRead

\* The mapping of a contribution that is not offered goes, and no other one has
\* its row.
LEMMA FollowDropMapping ==
  ASSUME TypeInv, FollowInv, NEW c \in Clients, DropMapping(c)
  PROVE  FollowInv'
<1>1. PICK q \in Request : q = req[c] /\ RequestInv(q)
  BY EachRequest
<1>2. q.at = "stale" /\ UNCHANGED <<item, active, settled>>
  BY <1>1 DEF DropMapping, At
<1>3. PICK s \in q.stale : /\ mapped' = [mapped EXCEPT ![s[1]] = 0]
                           /\ Set(c, [q EXCEPT !.at = "drop", !.id = s[2], !.stale = @ \ {s}])
  BY <1>1 DEF DropMapping
<1>4. s[1] \in Contribs /\ s[2] \in Ids /\ s = <<s[1], s[2]>>
  BY <1>1, <1>3 DEF Request
<1>5. ~SettledReq(q) /\ ~settled
  BY <1>1, <1>2, <1>3 DEF SettledReq, FollowInv, SettledInv
<1> DEFINE r == [q EXCEPT !.at = "drop", !.id = s[2], !.stale = @ \ {s}]
<1>6. Set(c, r)
  BY <1>3
<1>7. /\ r.at = "drop" /\ r.alone = q.alone /\ r.dedupe = q.dedupe /\ r.snap = q.snap
      /\ r.left = q.left /\ r.later = q.later /\ r.stale = q.stale \ {s} /\ r.id = s[2]
  BY <1>1 DEF Request
<1> HIDE DEF r
<1>8. mapped'[s[1]] = 0 /\ \A k \in Contribs : k # s[1] => mapped'[k] = mapped[k]
  BY <1>3, <1>4 DEF TypeInv, TablesInv
<1>9. ASSUME LoneInv(q) PROVE LoneInv(r)'
  <2>0. /\ \A x \in q.stale : x[1] \notin q.snap /\ mapped[x[1]] = x[2]
        /\ \A k \in Contribs \ q.snap : mapped[k] # 0 => <<k, mapped[k]>> \in q.stale
    BY <1>2, <1>9 DEF LoneInv, StaleIsCurrent
  <2>1. TwinsAreGone(r)'
    BY <1>2, <1>7, <1>9 DEF LoneInv, TwinsAreGone, NoTwins, Live
  <2>2. SnapshotIsCurrent(r)'
    <3>1. q.snap = Offered /\ q.snap \subseteq Contribs
          /\ \A k \in q.snap : mapped[k] = 0 => k \in q.left \cup q.later
      BY <1>1, <1>2, <1>9 DEF LoneInv, SnapshotIsCurrent, Past, Listing, Handling, Request
    <3>2. Offered' = Offered /\ s[1] \notin q.snap
      BY <1>2, <2>0 DEF Offered
    <3>3. \A k \in r.snap : mapped'[k] = 0 => k \in r.left \cup r.later
      BY <1>7, <1>8, <3>1, <3>2
    <3> QED
      BY <1>7, <3>1, <3>2, <3>3 DEF SnapshotIsCurrent
  <2>3. StaleIsCurrent(r)'
    <3>1. ASSUME NEW x \in r.stale PROVE x[1] \notin r.snap /\ mapped'[x[1]] = x[2]
      <4>1. x \in q.stale /\ x # s /\ x[1] \in Contribs /\ x = <<x[1], x[2]>>
        BY <1>1, <1>7 DEF Request
      <4>2. x[1] # s[1]
        BY <1>4, <2>0, <4>1
      <4> QED
        BY <1>7, <1>8, <2>0, <4>1, <4>2
    <3>2. ASSUME NEW k \in Contribs \ r.snap, mapped'[k] # 0 PROVE <<k, mapped'[k]>> \in r.stale
      <4>1. k # s[1] /\ mapped'[k] = mapped[k]
        BY <1>8, <3>2
      <4> QED
        BY <1>4, <1>7, <2>0, <3>2, <4>1
    <3> QED
      BY <3>1, <3>2 DEF StaleIsCurrent
  <2>4. RowIsFree(r)'
    <3> SUFFICES ASSUME NEW k \in Contribs, mapped'[k] = s[2] PROVE FALSE
      BY <1>7 DEF RowIsFree
    <3>1. s[2] # 0 /\ mapped[s[1]] = s[2]
      BY <1>4, <2>0, Bounds
    <3>2. k # s[1] /\ mapped[k] = s[2]
      BY <1>8, <3>1
    <3> QED
      BY <1>4, <3>1, <3>2 DEF TypeInv, TablesInv
  <2>5. NothingIsLeft(r)' /\ RouteIsFree(r)'
    BY <1>2, <1>7, <1>9 DEF LoneInv, NothingIsLeft, RouteIsFree
  <2> QED
    BY <2>1, <2>2, <2>3, <2>4, <2>5 DEF LoneInv
<1> QED
  BY <1>1, <1>2, <1>5, <1>6, <1>7, <1>9, FollowKept

\* The row that is dropped is the row of no mapping any more.
LEMMA FollowDropRow ==
  ASSUME TypeInv, FollowInv, NEW c \in Clients, DropRow(c)
  PROVE  FollowInv'
<1>1. PICK q \in Request : q = req[c] /\ RequestInv(q)
  BY EachRequest
<1>2. q.at = "drop" /\ q.id \in Ids /\ UNCHANGED <<active, settled, lastId>> /\ Delete({q.id})
  BY <1>1 DEF DropRow, At, RequestInv
<1>3. ~SettledReq(q) /\ ~settled
  BY <1>1, <1>2 DEF SettledReq, FollowInv, SettledInv
<1> DEFINE r == [q EXCEPT !.at = "stale", !.id = 0]
<1>4. Set(c, r)
  BY <1>1 DEF DropRow
<1>5. /\ r.at = "stale" /\ r.alone = q.alone /\ r.dedupe = q.dedupe /\ r.snap = q.snap
      /\ r.left = q.left /\ r.later = q.later /\ r.stale = q.stale
  BY <1>1 DEF Request
<1> HIDE DEF r
<1>6. /\ Live' = Live \ {q.id} /\ \A i \in Live \ {q.id} : item'[i].route = item[i].route
      /\ \A k \in Contribs : mapped'[k] = IF mapped[k] \in {q.id} THEN 0 ELSE mapped[k]
  BY <1>2, DeletedRows DEF TypeInv
<1>7. ASSUME LoneInv(q) PROVE LoneInv(r)'
  <2>1. \A k \in Contribs : mapped'[k] = mapped[k]
    BY <1>2, <1>6, <1>7 DEF LoneInv, RowIsFree
  <2>2. TwinsAreGone(r)'
    BY <1>2, <1>5, <1>6, <1>7, TwinsStayGone DEF LoneInv, TwinsAreGone
  <2>3. q.snap \subseteq Contribs /\ q.stale \subseteq Contribs \X Ids /\ Offered' = Offered
    BY <1>1, <1>2 DEF Request, Offered
  <2>4. SnapshotIsCurrent(r)'
    BY <1>2, <1>5, <1>7, <2>1, <2>3 DEF LoneInv, SnapshotIsCurrent, Past, Listing, Handling
  <2>5. StaleIsCurrent(r)'
    BY <1>2, <1>5, <1>7, <2>1, <2>3 DEF LoneInv, StaleIsCurrent
  <2>6. NothingIsLeft(r)' /\ RouteIsFree(r)' /\ RowIsFree(r)'
    BY <1>2, <1>5, <1>7 DEF LoneInv, NothingIsLeft, RouteIsFree, RowIsFree
  <2> QED
    BY <2>2, <2>4, <2>5, <2>6 DEF LoneInv
<1> QED
  BY <1>1, <1>2, <1>3, <1>4, <1>5, <1>7, FollowKept

\* A listing that answers and was alone leaves the contributions of its snapshot
\* mapped, and no others.
LEMMA FollowRows ==
  ASSUME TypeInv, FollowInv, NEW c \in Clients, ReadRows(c)
  PROVE  FollowInv'
<1>1. PICK q \in Request : q = req[c] /\ RequestInv(q)
  BY EachRequest
<1>2. /\ q.at = "stale" /\ q.stale = {} /\ UNCHANGED <<item, mapped, active>> /\ End(c)
      /\ settled' = (settled \/ q.alone)
  BY <1>1 DEF ReadRows, At
<1>3. CASE settled' => settled
  BY <1>1, <1>2, <1>3, FollowEnd
<1>4. CASE ~(settled' => settled)
  <2>1. q.alone /\ LoneInv(q) /\ \A d \in Clients \ {c} : req[d].at = "idle"
    BY <1>1, <1>2, <1>4 DEF FollowInv, AloneInv
  <2>2. req'[c] = NoReq /\ \A d \in Clients \ {c} : req'[d] = req[d]
    BY <1>2, OwnRequest DEF End
  <2>3. NoReq.at = "idle" /\ ~NoReq.alone
    BY DEF NoReq
  <2>4. \A d \in Clients : req'[d].at = "idle"
    BY <2>1, <2>2, <2>3
  <2>5. AloneInv'
    <3>1. \A d \in Clients : ~req'[d].alone
      BY <2>1, <2>2, <2>3 DEF FollowInv, AloneInv
    <3> QED
      BY <3>1 DEF AloneInv
  <2>6. \A d \in Clients : SettledReq(req[d])'
    BY <2>4 DEF SettledReq, Past, Listing, Handling
  <2>7. SettledNow
    <3>1. NoTwins(SingleRoutes)
      <4>1. NoTwins(SingleRoutes \ q.dedupe) /\ q.dedupe = {}
        BY <1>2, <2>1 DEF LoneInv, TwinsAreGone
      <4>2. SingleRoutes \ q.dedupe = SingleRoutes
        BY <4>1
      <4> QED
        BY <4>1, <4>2
    <3>2. q.snap = Offered /\ \A k \in q.snap : mapped[k] # 0
      BY <1>2, <2>1 DEF LoneInv, SnapshotIsCurrent, NothingIsLeft, Past, Listing, Handling
    <3>3. \A k \in Contribs \ q.snap : mapped[k] = 0
      BY <1>2, <2>1 DEF LoneInv, StaleIsCurrent
    <3> QED
      BY <3>1, <3>2, <3>3 DEF SettledNow
  <2>8. SettledNow'
    BY <1>2, <2>7 DEF SettledNow, NoTwins, Live, Offered
  <2> QED
    BY <2>5, <2>6, <2>8 DEF FollowInv, SettledInv
<1> QED
  BY <1>3, <1>4

\* A request that begins is alone only when no other one is under way.
LEMMA FollowBegin ==
  ASSUME TypeInv, FollowInv, NEW c \in Clients,
         AskCreate(c) \/ AskUpdate(c) \/ AskPatch(c) \/ AskRemove(c) \/ AskDelete(c) \/ AskList(c)
  PROVE  FollowInv'
<1>1. /\ OthersWait(c) /\ req'[c].at = "ensure" /\ req'[c].dedupe = SingleRoutes
      /\ req'[c].alone = (\A d \in Clients : At(d, "idle"))
      /\ \A d \in Clients \ {c} : req'[d] = [req[d] EXCEPT !.alone = FALSE]
      /\ UNCHANGED <<item, mapped, active, settled>>
  BY BegunRequest
<1>2. ASSUME NEW d \in Clients \ {c}
      PROVE  /\ ~req'[d].alone /\ req'[d].at = req[d].at /\ req'[d].snap = req[d].snap
             /\ req'[d].stale = req[d].stale
  <2>1. req'[d] = [req[d] EXCEPT !.alone = FALSE] /\ req[d] \in Request
    BY <1>1, EachRequest
  <2> QED
    BY <2>1 DEF Request
<1>3. AloneInv'
  <2> SUFFICES ASSUME NEW d \in Clients, req'[d].alone
               PROVE  /\ req'[d].at # "idle" /\ \A e \in Clients \ {d} : req'[e].at = "idle"
                      /\ LoneInv(req[d])'
    BY DEF AloneInv
  <2>1. d = c
    BY <1>2
  <2>2. \A e \in Clients \ {c} : req'[e].at = "idle"
    BY <1>1, <1>2, <2>1 DEF At
  <2>3. LoneInv(req[c])'
    <3>1. SingleRoutes \ req'[c].dedupe = {}
      BY <1>1
    <3>2. TwinsAreGone(req[c])'
      BY <1>1, <3>1 DEF TwinsAreGone, NoTwins
    <3> QED
      BY <1>1, <3>2 DEF LoneInv, SnapshotIsCurrent, NothingIsLeft, RouteIsFree, StaleIsCurrent,
         RowIsFree,
         Past, Listing, Handling
  <2> QED
    BY <1>1, <2>1, <2>2, <2>3
<1>4. SettledInv'
  <2> SUFFICES ASSUME settled' PROVE SettledNow' /\ \A d \in Clients : SettledReq(req[d])'
    BY DEF SettledInv
  <2>1. SettledNow /\ \A d \in Clients : SettledReq(req[d])
    BY <1>1 DEF FollowInv, SettledInv
  <2>2. SettledNow'
    BY <1>1, <2>1 DEF SettledNow, NoTwins, Live, Offered
  <2>3. Offered' = Offered
    BY <1>1 DEF Offered
  <2>4. SettledReq(req[c])'
    BY <1>1 DEF SettledReq, Past, Listing, Handling
  <2>5. \A d \in Clients \ {c} : SettledReq(req[d])'
    BY <1>2, <2>1, <2>3 DEF SettledReq
  <2> QED
    BY <2>2, <2>4, <2>5
<1> QED
  BY <1>3, <1>4 DEF FollowInv

\* Every step keeps what a request alone may rely on, and what is settled.
LEMMA FollowStep ==
  ASSUME TypeInv, FollowInv, [Next]_vars
  PROVE  FollowInv'
<1>1. CASE Switch
  BY <1>1, SwitchedPlugin DEF FollowInv, AloneInv, SettledInv
<1>2. CASE UNCHANGED vars
  BY <1>2 DEF vars, FollowInv, AloneInv, SettledInv, SettledNow, SettledReq, LoneInv,
     TwinsAreGone,
     NoTwins, SnapshotIsCurrent, NothingIsLeft, RouteIsFree, StaleIsCurrent, RowIsFree, Live,
     Offered
<1> QED
  BY <1>1, <1>2, FollowBegin, FollowEnsure, FollowEdit, FollowCheck, FollowSnapshot,
     FollowContribution,
     FollowRound, FollowLegacyParent, FollowLookup, FollowLegacy, FollowAlign, FollowProjected,
     FollowRecord, FollowMappings, FollowDropMapping, FollowDropRow, FollowRows, FollowFail
     DEF Next, Edit, Project, Sweep

\* Once a listing has run alone after the last change, the contributions that have
\* a row are exactly those of the enabled plugins, whatever listings that
\* overlapped, edits and failures came before.
THEOREM MenuFollowsTheSnapshot == Spec => []MenuFollowsPlugins
<1>1. Init => FollowInv
  BY DEF Init, NoReq, FollowInv, AloneInv, SettledInv
<1>2. TypeInv /\ FollowInv /\ [Next]_vars => FollowInv'
  BY FollowStep
<1>3. FollowInv => MenuFollowsPlugins
  BY DEF FollowInv, SettledInv, SettledNow, MenuFollowsPlugins
<1> QED
  BY <1>1, <1>2, <1>3, TypeInvariant, PTL DEF Spec

(***************************************************************************)
(* What a listing that runs alone answers.                                 *)
(*                                                                         *)
(* While it is alone, what it has been through is mapped where it has      *)
(* noted, what waits for a parent has one in the snapshot, one that the    *)
(* round has not come to when nothing has moved, and the parent and the    *)
(* row it has in hand are there.  So a round that moves nothing is a       *)
(* circle, and no statement fails on a key but the one that records a      *)
(* mapping of a row that has one.                                          *)
(***************************************************************************)
RoundIsTrue(r) ==
  r.at \in Handling \cup {"next"} =>
    /\ \A k \in r.snap : k \in r.left \cup r.later \/ r.done[k] # 0 \/ (r.at \in Handling /\ k = r.cur)
    /\ \A k \in Contribs : r.done[k] # 0 => r.done[k] = mapped[k]
    /\ \A k \in r.later : Parent[k] \in r.snap /\ (~r.moved => r.done[Parent[k]] = 0)
HandIsTrue(r) ==
  /\ r.at = "legacyParent" => Parent[r.cur] = System /\ System \notin r.snap \cup {"none"}
  /\ r.at \in Handling \ {"legacyParent"} => HasParent(r.parent)
  /\ r.at \in {"legacy", "align", "insert", "record"} => mapped[r.cur] = 0
  /\ r.at \in {"align", "record"} => r.id \in Live
Fresh(r) == r.at \in {"ensure", "list"} => r.done = [k \in Contribs |-> 0] /\ r.later = {}

Answerable(r) == RoundIsTrue(r) /\ HandIsTrue(r) /\ Fresh(r)
AnswerInv     == \A c \in Clients : req[c].alone => Answerable(req[c])

\* A request that ends without an answer, and not by a fault.
Unanswered(c) ==
  /\ req[c].alone /\ req[c].op = "list" /\ req'[c].at = "idle" /\ used' = used
  /\ ~(req[c].at = "stale" /\ req[c].stale = {})
AnswersNow == \A c \in Clients : Unanswered(c) => Obstacle(req[c])

\* A request at work goes on from q to r, or ends.
LEMMA AnswerKept ==
  ASSUME TypeInv, FollowInv, AnswerInv, NEW c \in Clients, NEW q, NEW r, q = req[c], Set(c, r),
         q.at # "idle", r.alone => q.alone,
         q.alone /\ Answerable(q) /\ r.alone => Answerable(r)',
         q.alone /\ Answerable(q) /\ r.at = "idle" /\ q.op = "list" /\ used' = used
           /\ ~(q.at = "stale" /\ q.stale = {}) => Obstacle(q)
  PROVE  AnswerInv' /\ AnswersNow
<1>1. req'[c] = r /\ \A d \in Clients \ {c} : req'[d] = req[d]
  BY OwnRequest
<1>2. ASSUME NEW d \in Clients, req[d].alone PROVE d = c
  BY <1>2 DEF FollowInv, AloneInv
<1>3. q.alone => Answerable(q)
  BY DEF AnswerInv
<1>4. AnswerInv'
  <2> SUFFICES ASSUME NEW d \in Clients, req'[d].alone PROVE Answerable(req[d])'
    BY DEF AnswerInv
  <2>1. d = c
    BY <1>1, <1>2
  <2>2. Answerable(r)'
    BY <1>1, <1>3, <2>1
  <2> QED
    BY <1>1, <2>1, <2>2
<1>5. ASSUME NEW d \in Clients, Unanswered(d) PROVE Obstacle(req[d])
  <2>1. d = c
    BY <1>2, <1>5 DEF Unanswered
  <2>2. Obstacle(q)
    BY <1>1, <1>3, <1>5, <2>1 DEF Unanswered
  <2> QED
    BY <2>1, <2>2
<1> QED
  BY <1>4, <1>5 DEF AnswersNow

\* A request that goes on answers nothing yet.
LEMMA AnswerGoesOn ==
  ASSUME TypeInv, FollowInv, AnswerInv, NEW c \in Clients, NEW q, NEW r, q = req[c], Set(c, r),
         q.at # "idle", r.at # "idle", r.alone => q.alone,
         q.alone /\ Answerable(q) => Answerable(r)'
  PROVE  AnswerInv' /\ AnswersNow
BY AnswerKept

\* A request that ends has answered, or meets an obstacle.
LEMMA AnswerEnds ==
  ASSUME TypeInv, FollowInv, AnswerInv, NEW c \in Clients, NEW q, q = req[c], End(c), q.at # "idle",
         q.alone /\ Answerable(q) /\ q.op = "list" /\ used' = used
           /\ ~(q.at = "stale" /\ q.stale = {}) => Obstacle(q)
  PROVE  AnswerInv' /\ AnswersNow
<1>1. Set(c, NoReq) /\ ~NoReq.alone
  BY DEF End, NoReq
<1> QED
  BY <1>1, AnswerKept

\* A use of a bound is seen.
LEMMA Used ==
  ASSUME TypeInv, NEW what \in {"requests", "toggles", "faults"}, NEW max, Use(what, max)
  PROVE  used' # used
<1>1. used' = [used EXCEPT ![what] = @ + 1] /\ used \in [{"requests", "toggles", "faults"} -> Nat]
  BY DEF Use, TypeInv, RestInv
<1>2. used'[what] = used[what] + 1 /\ used[what] \in Nat
  BY <1>1
<1> QED
  BY <1>2

\* A request that begins, alone or not, has everything ahead of it.
LEMMA AnswerBegin ==
  ASSUME TypeInv, FollowInv, AnswerInv, NEW c \in Clients,
         AskCreate(c) \/ AskUpdate(c) \/ AskPatch(c) \/ AskRemove(c) \/ AskDelete(c) \/ AskList(c)
  PROVE  AnswerInv' /\ AnswersNow
<1> DEFINE zero == [k \in Contribs |-> 0]
<1>1. PICK r : Start(c, r) /\ r.done = zero /\ r.later = {} /\ r.op # "none" /\ r \in Request
  <2>0. NoReq \in Request /\ NoReq.done = zero /\ NoReq.later = {}
    BY DEF NoReq, Request
  <2>1. \A d \in Drafts : /\ [NoReq EXCEPT !.op = "create", !.draft = d] \in Request
                          /\ [NoReq EXCEPT !.op = "create", !.draft = d].done = zero
                          /\ [NoReq EXCEPT !.op = "create", !.draft = d].later = {}
                          /\ [NoReq EXCEPT !.op = "create", !.draft = d].op = "create"
    BY <2>0 DEF Request, Asking
  <2>2. ASSUME NEW d \in Drafts, NEW i \in Ids, NEW F \in SUBSET Fields,
               NEW x, x = [NoReq EXCEPT !.op = "write", !.draft = d, !.patch = F, !.id = i]
        PROVE  x \in Request /\ x.done = zero /\ x.later = {} /\ x.op = "write"
    <3>1. x.done = zero /\ x.later = {} /\ x.op = "write"
      BY <2>0, <2>2 DEF Request
    <3>2. x \in Request
      BY <2>0, <2>2 DEF Request, Asking
    <3> QED
      BY <3>1, <3>2
  <2>3. ASSUME NEW i \in Ids, NEW o \in {"check", "delete"}, NEW x, x = [NoReq EXCEPT !.op = o, !.id = i]
        PROVE  x \in Request /\ x.done = zero /\ x.later = {} /\ x.op = o
    <3>1. x.done = zero /\ x.later = {} /\ x.op = o
      BY <2>0, <2>3 DEF Request
    <3>2. x \in Request
      BY <2>0, <2>3 DEF Request, Asking
    <3> QED
      BY <3>1, <3>2
  <2>4. LET x == [NoReq EXCEPT !.op = "list"]
        IN x \in Request /\ x.done = zero /\ x.later = {} /\ x.op = "list"
    BY <2>0 DEF Request, Asking
  <2>5. CASE AskCreate(c)
    BY <2>1, <2>5 DEF AskCreate
  <2>6. CASE AskUpdate(c) \/ AskPatch(c)
    <3>1. PICK d \in Drafts, i \in Ids, F \in SUBSET Fields :
            Start(c, [NoReq EXCEPT !.op = "write", !.draft = d, !.patch = F, !.id = i])
      BY <2>6, MenuAssumption DEF AskUpdate, AskPatch, Live
    <3> QED
      BY <2>2, <3>1
  <2>7. CASE AskRemove(c) \/ AskDelete(c)
    <3>1. PICK i \in Ids, o \in {"check", "delete"} : Start(c, [NoReq EXCEPT !.op = o, !.id = i])
      BY <2>7 DEF AskRemove, AskDelete, Live
    <3>2. o # "none"
      OBVIOUS
    <3> QED
      BY <2>3, <3>1, <3>2
  <2>8. CASE AskList(c)
    BY <2>4, <2>8 DEF AskList
  <2> QED
    BY <2>5, <2>6, <2>7, <2>8
<1>2. used' # used
  BY <1>1, Used DEF Start
<1>3. \A d \in Clients \ {c} : req'[d] = [req[d] EXCEPT !.alone = FALSE]
  BY BegunRequest
<1>4. \A d \in Clients \ {c} : ~req'[d].alone
  BY <1>3, EachRequest DEF Request
<1>5. PICK x : x = req'[c]
  OBVIOUS
<1>6. x.at = "ensure" /\ x.done = zero /\ x.later = {}
  <2>1. PICK a : x = [r EXCEPT !.at = "ensure", !.dedupe = SingleRoutes, !.alone = a]
    BY <1>1, <1>5 DEF Start
  <2> QED
    BY <1>1, <2>1 DEF Request
<1>7. Answerable(x)'
  BY <1>6 DEF Answerable, RoundIsTrue, HandIsTrue, Fresh, Handling
<1>8. AnswerInv'
  <2>1. Answerable(req[c])'
    BY <1>5, <1>7
  <2> QED
    BY <1>4, <2>1 DEF AnswerInv
<1> QED
  BY <1>2, <1>8 DEF AnswersNow, Unanswered

\* A listing that loses its plugins is alone no more.
LEMMA AnswerSwitch ==
  ASSUME TypeInv, Switch
  PROVE  AnswerInv' /\ AnswersNow
<1>1. used' # used
  BY Used DEF Switch
<1> QED
  BY <1>1, SwitchedPlugin DEF AnswerInv, AnswersNow, Unanswered

\* A fault ends a request, and is one.
LEMMA AnswerFail ==
  ASSUME TypeInv, FollowInv, AnswerInv, NEW c \in Clients, Fail(c)
  PROVE  AnswerInv' /\ AnswersNow
<1>1. used' # used
  BY Used DEF Fail
<1> QED
  BY <1>1, AnswerEnds DEF Fail, Abandon, At

\* An administrator's request is no listing.
LEMMA AnswerEdit ==
  ASSUME TypeInv, FollowInv, AnswerInv, NEW c \in Clients,
         InsertRow(c) \/ WriteRow(c) \/ DeleteRow(c) \/ CheckRow(c)
  PROVE  AnswerInv' /\ AnswersNow
<1>1. PICK q \in Request : q = req[c] /\ RequestInv(q)
  BY EachRequest
<1>2. q.at \in Asking /\ q.at # "idle" /\ q.op # "list"
  BY <1>1 DEF InsertRow, WriteRow, DeleteRow, CheckRow, At, RequestInv, Asking
<1>3. CASE End(c)
  BY <1>1, <1>2, <1>3, AnswerEnds
<1>4. CASE Goto(c, "delete") /\ CheckRow(c)
  <2> DEFINE r == [q EXCEPT !.at = "delete"]
  <2>1. r.at = "delete" /\ r.alone = q.alone /\ Set(c, r)
    BY <1>1, <1>4 DEF Request, Goto
  <2> HIDE DEF r
  <2>2. Answerable(r)'
    BY <2>1 DEF Answerable, RoundIsTrue, HandIsTrue, Fresh, Handling
  <2> QED
    BY <1>1, <1>2, <2>1, <2>2, AnswerGoesOn
<1> QED
  BY <1>3, <1>4 DEF InsertRow, WriteRow, DeleteRow, CheckRow

\* The deduplication changes nothing a request that has just begun relies on.
LEMMA AnswerEnsure ==
  ASSUME TypeInv, FollowInv, AnswerInv, NEW c \in Clients, Ensure(c)
  PROVE  AnswerInv' /\ AnswersNow
<1>1. PICK q \in Request : q = req[c] /\ RequestInv(q)
  BY EachRequest
<1>2. q.at = "ensure" /\ q.op # "none"
  BY <1>1 DEF Ensure, At, RequestInv
<1>3. PICK r : Set(c, r) /\ (r = [q EXCEPT !.at = q.op] \/ \E x : r = [q EXCEPT !.dedupe = @ \ {x}])
  BY <1>1 DEF Ensure, Goto
<1>4. /\ r.at \in Asking \cup {"list", "ensure"} /\ r.alone = q.alone /\ r.done = q.done /\ r.later = q.later
  BY <1>1, <1>2, <1>3 DEF Request
<1>5. Answerable(q) => Answerable(r)'
  BY <1>2, <1>4 DEF Answerable, RoundIsTrue, HandIsTrue, Fresh, Handling, Asking
<1>6. r.at # "idle"
  BY <1>4 DEF Asking
<1> QED
  BY <1>1, <1>2, <1>3, <1>4, <1>5, <1>6, AnswerGoesOn

\* A listing with its snapshot has all of it left.
LEMMA AnswerSnapshot ==
  ASSUME TypeInv, FollowInv, AnswerInv, NEW c \in Clients, TakeSnapshot(c)
  PROVE  AnswerInv' /\ AnswersNow
<1>1. PICK q \in Request : q = req[c] /\ RequestInv(q)
  BY EachRequest
<1>2. PICK O : O = Offered
  OBVIOUS
<1> DEFINE r == [q EXCEPT !.at = "next", !.snap = O, !.left = O]
<1>3. Set(c, r) /\ q.at = "list" /\ UNCHANGED <<item, mapped>>
  BY <1>1, <1>2 DEF TakeSnapshot, At
<1>4. r.at = "next" /\ r.alone = q.alone /\ r.snap = O /\ r.left = O /\ r.done = q.done /\ r.later = q.later
  BY <1>1 DEF Request
<1> HIDE DEF r
<1>5. Answerable(q) => Answerable(r)'
  BY <1>3, <1>4 DEF Answerable, RoundIsTrue, HandIsTrue, Fresh, Handling
<1>6. r.at # "idle" /\ q.at # "idle"
  BY <1>3, <1>4
<1> QED
  BY <1>1, <1>3, <1>4, <1>5, <1>6, AnswerGoesOn

\* The next contribution has a parent at hand, waits for one in the snapshot,
\* looks for the system group, or has none.
LEMMA AnswerContribution ==
  ASSUME TypeInv, FollowInv, AnswerInv, NEW c \in Clients, NextContribution(c)
  PROVE  AnswerInv' /\ AnswersNow
<1>1. PICK q \in Request : q = req[c] /\ RequestInv(q)
  BY EachRequest
<1>2. PICK k : k = First(q.left)
  OBVIOUS
<1>3. q.at = "next" /\ q.left # {} /\ UNCHANGED <<item, mapped>>
  BY <1>1 DEF NextContribution, At
<1>4. k \in q.left /\ k \in q.snap /\ k \in Contribs /\ q.snap \subseteq Contribs
  BY <1>1, <1>2, <1>3, FirstIsOne DEF Request, RequestInv
<1>5. PICK p : p = Parent[k]
  OBVIOUS
<1> DEFINE taken == [q EXCEPT !.left = @ \ {k}, !.cur = k]
<1>6. PICK r : /\ Set(c, r)
               /\ r = IF p = "none" THEN [taken EXCEPT !.at = "mapping", !.parent = 0]
                      ELSE IF p \in Contribs /\ q.done[p] # 0
                           THEN [taken EXCEPT !.at = "mapping", !.parent = q.done[p]]
                      ELSE IF p \in q.snap THEN [taken EXCEPT !.later = @ \cup {k}]
                      ELSE IF p = System THEN [taken EXCEPT !.at = "legacyParent"]
                      ELSE NoReq
  BY <1>1, <1>2, <1>5 DEF NextContribution
<1>7. ASSUME NEW x, x \in {"mapping", "legacyParent"}, r.at = x, r.cur = k, r.left = q.left \ {k}, r.snap = q.snap,
             r.later = q.later, r.done = q.done, r.moved = q.moved, r.alone = q.alone,
             r.at = "legacyParent" => p = System /\ p \notin q.snap \cup {"none"},
             r.at = "mapping" /\ Answerable(q) => HasParent(r.parent)
      PROVE  AnswerInv' /\ AnswersNow
  <2>1. Answerable(q) => RoundIsTrue(r)'
    BY <1>3, <1>4, <1>7 DEF Answerable, RoundIsTrue, Handling
  <2>2. Answerable(q) => HandIsTrue(r)'
    BY <1>3, <1>5, <1>7 DEF HandIsTrue, HasParent, Live
  <2>3. Answerable(q) => Answerable(r)'
    BY <1>7, <2>1, <2>2 DEF Answerable, Fresh
  <2>4. r.at # "idle" /\ q.at # "idle" /\ r.alone = q.alone
    BY <1>3, <1>7
  <2>5. Set(c, r)
    BY <1>6
  <2> QED
    BY <1>1, <2>3, <2>4, <2>5, AnswerGoesOn
<1>8. CASE p = "none"
  <2>1. r = [taken EXCEPT !.at = "mapping", !.parent = 0]
    BY <1>6, <1>8
  <2>2. /\ r.at = "mapping" /\ r.cur = k /\ r.left = q.left \ {k} /\ r.snap = q.snap /\ r.later = q.later
        /\ r.done = q.done /\ r.moved = q.moved /\ r.alone = q.alone /\ r.parent = 0
    BY <1>1, <2>1 DEF Request
  <2> QED
    BY <1>7, <2>2 DEF HasParent
<1>9. CASE p # "none" /\ p \in Contribs /\ q.done[p] # 0
  <2>1. r = [taken EXCEPT !.at = "mapping", !.parent = q.done[p]]
    BY <1>6, <1>9
  <2>2. /\ r.at = "mapping" /\ r.cur = k /\ r.left = q.left \ {k} /\ r.snap = q.snap /\ r.later = q.later
        /\ r.done = q.done /\ r.moved = q.moved /\ r.alone = q.alone /\ r.parent = q.done[p]
    BY <1>1, <2>1 DEF Request
  <2>3. Answerable(q) => HasParent(q.done[p])
    <3>1. Answerable(q) => q.done[p] = mapped[p]
      BY <1>3, <1>9 DEF Answerable, RoundIsTrue
    <3>2. mapped[p] \in Live \cup {0}
      BY <1>9 DEF TypeInv, TablesInv
    <3> QED
      BY <3>1, <3>2 DEF HasParent
  <2> QED
    BY <1>7, <2>2, <2>3
<1>10. CASE p # "none" /\ ~(p \in Contribs /\ q.done[p] # 0) /\ p \in q.snap
  <2>1. r = [taken EXCEPT !.later = @ \cup {k}]
    BY <1>6, <1>10
  <2>2. /\ r.at = "next" /\ r.left = q.left \ {k} /\ r.snap = q.snap /\ r.later = q.later \cup {k}
        /\ r.done = q.done /\ r.moved = q.moved /\ r.alone = q.alone
    BY <1>1, <1>3, <2>1 DEF Request
  <2>3. p \in Contribs /\ q.done[p] = 0
    BY <1>4, <1>10
  <2> HIDE DEF taken
  <2>4. Answerable(q) => RoundIsTrue(r)'
    BY <1>3, <1>4, <1>5, <1>10, <2>2, <2>3 DEF Answerable, RoundIsTrue, Handling
  <2>5. Answerable(q) => Answerable(r)'
    BY <2>2, <2>4 DEF Answerable, HandIsTrue, Fresh, Handling
  <2>6. r.at # "idle" /\ q.at # "idle" /\ r.alone = q.alone
    BY <1>3, <2>2
  <2>7. Set(c, r)
    BY <1>6
  <2> QED
    BY <1>1, <2>5, <2>6, <2>7, AnswerGoesOn
<1>11. CASE p # "none" /\ ~(p \in Contribs /\ q.done[p] # 0) /\ p \notin q.snap /\ p = System
  <2>1. r = [taken EXCEPT !.at = "legacyParent"]
    BY <1>6, <1>11
  <2>2. /\ r.at = "legacyParent" /\ r.cur = k /\ r.left = q.left \ {k} /\ r.snap = q.snap /\ r.later = q.later
        /\ r.done = q.done /\ r.moved = q.moved /\ r.alone = q.alone
    BY <1>1, <2>1 DEF Request
  <2> QED
    BY <1>7, <1>11, <2>2
<1>12. CASE p # "none" /\ ~(p \in Contribs /\ q.done[p] # 0) /\ p \notin q.snap /\ p # System
  <2>1. End(c) /\ q.at # "idle"
    BY <1>3, <1>6, <1>12 DEF End
  <2>2. Obstacle(q)
    BY <1>4, <1>5, <1>12 DEF Obstacle, Orphans
  <2> QED
    BY <1>1, <2>1, <2>2, AnswerEnds
<1> QED
  BY <1>8, <1>9, <1>10, <1>11, <1>12

\* A round that has moved nothing is a circle.
LEMMA AnswerRound ==
  ASSUME TypeInv, FollowInv, AnswerInv, NEW c \in Clients, NextRound(c)
  PROVE  AnswerInv' /\ AnswersNow
<1>1. PICK q \in Request : q = req[c] /\ RequestInv(q)
  BY EachRequest
<1>2. q.at = "next" /\ q.left = {} /\ UNCHANGED <<item, mapped>> /\ q.at # "idle"
  BY <1>1 DEF NextRound, At
<1>3. CASE q.later = {}
  <2> DEFINE r == [q EXCEPT !.at = "mappings"]
  <2>1. Set(c, r) /\ r.at = "mappings" /\ r.alone = q.alone
    BY <1>1, <1>3 DEF NextRound, Request
  <2> HIDE DEF r
  <2>2. Answerable(r)' /\ r.at # "idle"
    BY <2>1 DEF Answerable, RoundIsTrue, HandIsTrue, Fresh, Handling
  <2> QED
    BY <1>1, <1>2, <2>1, <2>2, AnswerGoesOn
<1>4. CASE q.later # {} /\ q.moved
  <2> DEFINE r == [q EXCEPT !.left = q.later, !.later = {}, !.moved = FALSE]
  <2>1. Set(c, r)
    BY <1>1, <1>4 DEF NextRound
  <2>2. /\ r.at = "next" /\ r.alone = q.alone /\ r.left = q.later /\ r.later = {} /\ r.done = q.done
        /\ r.snap = q.snap
    BY <1>1, <1>2 DEF Request
  <2> HIDE DEF r
  <2>3. Answerable(q) => RoundIsTrue(r)'
    BY <1>2, <2>2 DEF Answerable, RoundIsTrue, Handling
  <2>4. Answerable(q) => Answerable(r)'
    BY <2>2, <2>3 DEF Answerable, HandIsTrue, Fresh, Handling
  <2>5. r.at # "idle"
    BY <2>2
  <2> QED
    BY <1>1, <1>2, <2>1, <2>2, <2>4, <2>5, AnswerGoesOn
<1>5. CASE q.later # {} /\ ~q.moved
  <2>1. End(c)
    BY <1>1, <1>5 DEF NextRound, End
  <2>2. ASSUME Answerable(q) PROVE Obstacle(q)
    <3>1. q.later \subseteq q.snap
      BY <1>1 DEF RequestInv
    <3>2. ASSUME NEW k \in q.later PROVE Parent[k] \in q.later
      <4>1. Parent[k] \in q.snap /\ q.done[Parent[k]] = 0
        BY <1>2, <1>5, <2>2 DEF Answerable, RoundIsTrue
      <4> QED
        BY <1>2, <2>2, <4>1 DEF Answerable, RoundIsTrue, Handling
    <3>3. Circular(q.snap)
      BY <1>5, <3>1, <3>2 DEF Circular
    <3> QED
      BY <3>3 DEF Obstacle
  <2> QED
    BY <1>1, <1>2, <2>1, <2>2, AnswerEnds
<1> QED
  BY <1>3, <1>4, <1>5

\* The system group is there or is missed.
LEMMA AnswerLegacyParent ==
  ASSUME TypeInv, FollowInv, AnswerInv, NEW c \in Clients, LegacyParent(c)
  PROVE  AnswerInv' /\ AnswersNow
<1>1. PICK q \in Request : q = req[c] /\ RequestInv(q)
  BY EachRequest
<1>2. q.at = "legacyParent" /\ UNCHANGED <<item, mapped>> /\ q.cur \in q.snap /\ q.at # "idle"
  BY <1>1 DEF LegacyParent, At, RequestInv, Handling
<1>3. CASE find_legacy_parent_id = 0
  <2>1. End(c)
    BY <1>3 DEF LegacyParent
  <2>2. ASSUME Answerable(q) PROVE Obstacle(q)
    <3>1. Parent[q.cur] = System /\ System \notin q.snap
      BY <1>2, <2>2 DEF Answerable, HandIsTrue
    <3>2. System # "none"
      BY <1>2, <2>2 DEF Answerable, HandIsTrue
    <3>3. q.cur \in Orphans(q.snap)
      BY <1>2, <1>3, <3>1, <3>2 DEF Orphans
    <3> QED
      BY <3>3 DEF Obstacle
  <2> QED
    BY <1>1, <1>2, <2>1, <2>2, AnswerEnds
<1>4. CASE find_legacy_parent_id # 0
  <2>0. PICK f : f = find_legacy_parent_id
    OBVIOUS
  <2>1. f \in Live
    BY <1>4, <2>0, OldestOrNone DEF find_legacy_parent_id, Live
  <2> DEFINE r == [q EXCEPT !.at = "mapping", !.parent = f]
  <2>2. Set(c, r)
    BY <1>1, <1>4, <2>0 DEF LegacyParent
  <2>3. /\ r.at = "mapping" /\ r.alone = q.alone /\ r.snap = q.snap /\ r.left = q.left /\ r.later = q.later
        /\ r.cur = q.cur /\ r.done = q.done /\ r.moved = q.moved /\ r.parent = f
    BY <1>1 DEF Request
  <2> HIDE DEF r
  <2>4. Answerable(q) => RoundIsTrue(r)'
    BY <1>2, <2>3 DEF Answerable, RoundIsTrue, Handling
  <2>5. HandIsTrue(r)'
    BY <1>2, <2>1, <2>3 DEF HandIsTrue, HasParent, Live
  <2>6. Answerable(q) => Answerable(r)'
    BY <2>3, <2>4, <2>5 DEF Answerable, Fresh
  <2>7. r.at # "idle"
    BY <2>3
  <2> QED
    BY <1>1, <1>2, <2>2, <2>3, <2>6, <2>7, AnswerGoesOn
<1> QED
  BY <1>3, <1>4

\* A contribution that is done is mapped to what is noted, and something moved.
LEMMA AnswerProjected ==
  ASSUME TypeInv, FollowInv, AnswerInv, NEW c \in Clients, NEW q \in Request, q = req[c], q.at \in Handling,
         q.cur \in Contribs, NEW i \in Ids, Set(c, Projected(q, i)), mapped'[q.cur] = i,
         \A k \in Contribs : k # q.cur => mapped'[k] = mapped[k]
  PROVE  AnswerInv' /\ AnswersNow
<1>1. PICK r : r = Projected(q, i)
  OBVIOUS
<1>2. /\ r.at = "next" /\ r.alone = q.alone /\ r.snap = q.snap /\ r.left = q.left /\ r.later = q.later
      /\ r.moved = TRUE /\ r.done = [q.done EXCEPT ![q.cur] = i]
  BY <1>1 DEF Projected, Request
<1>3. r.done[q.cur] = i /\ \A k \in Contribs : k # q.cur => r.done[k] = q.done[k]
  BY <1>2 DEF Request
<1>4. i # 0 /\ q.snap \subseteq Contribs
  BY Bounds DEF Request
<1>5. Answerable(q) => RoundIsTrue(r)'
  BY <1>2, <1>3, <1>4 DEF Answerable, RoundIsTrue, Handling
<1>6. Answerable(q) => Answerable(r)'
  BY <1>2, <1>5 DEF Answerable, HandIsTrue, Fresh, Handling
<1>7. r.at # "idle" /\ q.at # "idle"
  BY <1>2 DEF Handling
<1> QED
  BY <1>1, <1>2, <1>6, <1>7, AnswerGoesOn

\* The mapping of a contribution is looked up.
LEMMA AnswerLookup ==
  ASSUME TypeInv, FollowInv, AnswerInv, NEW c \in Clients, LookupMapping(c)
  PROVE  AnswerInv' /\ AnswersNow
<1>1. PICK q \in Request : q = req[c] /\ RequestInv(q)
  BY EachRequest
<1>2. q.at = "mapping" /\ UNCHANGED <<item, mapped>> /\ q.cur \in Contribs /\ q.at \in Handling
  BY <1>1 DEF LookupMapping, At, RequestInv, Handling, Request
<1>3. PICK i : i = mapped[q.cur]
  OBVIOUS
<1>4. CASE i # 0
  <2>1. Set(c, Projected(q, i))
    BY <1>1, <1>3, <1>4 DEF LookupMapping
  <2>2. i \in Ids
    BY <1>2, <1>3, <1>4 DEF TypeInv, TablesInv, Live
  <2> QED
    BY <1>1, <1>2, <1>3, <2>1, <2>2, AnswerProjected
<1>5. CASE i = 0
  <2> DEFINE r == [q EXCEPT !.at = "legacy"]
  <2>1. Set(c, r)
    BY <1>1, <1>3, <1>5 DEF LookupMapping, Goto
  <2>2. /\ r.at = "legacy" /\ r.alone = q.alone /\ r.snap = q.snap /\ r.left = q.left /\ r.later = q.later
        /\ r.cur = q.cur /\ r.done = q.done /\ r.moved = q.moved /\ r.parent = q.parent
    BY <1>1 DEF Request
  <2> HIDE DEF r
  <2>3. Answerable(q) => RoundIsTrue(r)'
    BY <1>2, <2>2 DEF Answerable, RoundIsTrue, Handling
  <2>4. Answerable(q) => HandIsTrue(r)'
    BY <1>2, <1>3, <1>5, <2>2 DEF Answerable, HandIsTrue, HasParent, Live
  <2>5. Answerable(q) => Answerable(r)'
    BY <2>2, <2>3, <2>4 DEF Answerable, Fresh
  <2>6. r.at # "idle" /\ q.at # "idle"
    BY <1>2, <2>2
  <2> QED
    BY <1>1, <2>1, <2>2, <2>5, <2>6, AnswerGoesOn
<1> QED
  BY <1>4, <1>5

\* A row to take over is there.
LEMMA AnswerLegacy ==
  ASSUME TypeInv, FollowInv, AnswerInv, NEW c \in Clients, FindLegacy(c)
  PROVE  AnswerInv' /\ AnswersNow
<1>1. PICK q \in Request : q = req[c] /\ RequestInv(q)
  BY EachRequest
<1>2. q.at = "legacy" /\ UNCHANGED <<item, mapped>>
  BY <1>1 DEF FindLegacy, At
<1>3. PICK i : i = MinId(Lookalikes(q.cur, q.parent))
  OBVIOUS
<1>4. PICK at \in {"insert", "align"} : at = (IF i = 0 THEN "insert" ELSE "align")
  OBVIOUS
<1>5. at = "align" => i \in Live
  BY <1>3, <1>4, OldestOrNone DEF Lookalikes, Live
<1> DEFINE r == [q EXCEPT !.id = i, !.at = at]
<1>6. Set(c, r)
  BY <1>1, <1>3, <1>4 DEF FindLegacy
<1>7. /\ r.at = at /\ r.alone = q.alone /\ r.snap = q.snap /\ r.left = q.left /\ r.later = q.later
      /\ r.cur = q.cur /\ r.done = q.done /\ r.moved = q.moved /\ r.parent = q.parent /\ r.id = i
  BY <1>1 DEF Request
<1> HIDE DEF r
<1>8. Answerable(q) => RoundIsTrue(r)'
  BY <1>2, <1>4, <1>7 DEF Answerable, RoundIsTrue, Handling
<1>9. Answerable(q) => HandIsTrue(r)'
  BY <1>2, <1>4, <1>5, <1>7 DEF Answerable, HandIsTrue, HasParent, Live, Handling
<1>10. Answerable(q) => Answerable(r)'
  BY <1>4, <1>7, <1>8, <1>9 DEF Answerable, Fresh
<1>11. r.at # "idle" /\ q.at # "idle"
  BY <1>2, <1>4, <1>7
<1> QED
  BY <1>1, <1>6, <1>7, <1>10, <1>11, AnswerGoesOn

\* The row that is taken over is there, and so is its parent.
LEMMA AnswerAlign ==
  ASSUME TypeInv, FollowInv, AnswerInv, NEW c \in Clients, Align(c)
  PROVE  AnswerInv' /\ AnswersNow
<1>1. PICK q \in Request : q = req[c] /\ RequestInv(q)
  BY EachRequest
<1>2. q.at = "align" /\ q.at # "idle"
  BY <1>1 DEF Align, At
<1>3. CASE ~HasParent(q.parent) /\ End(c)
  BY <1>1, <1>2, <1>3, AnswerEnds DEF Answerable, HandIsTrue, Handling
<1>4. CASE Goto(c, "record")
  <2> DEFINE r == [q EXCEPT !.at = "record"]
  <2>1. Set(c, r)
    BY <1>1, <1>4 DEF Goto
  <2>2. /\ r.at = "record" /\ r.alone = q.alone /\ r.snap = q.snap /\ r.left = q.left /\ r.later = q.later
        /\ r.cur = q.cur /\ r.done = q.done /\ r.moved = q.moved /\ r.parent = q.parent /\ r.id = q.id
    BY <1>1 DEF Request
  <2> HIDE DEF r
  <2>3. Live' = Live /\ mapped' = mapped
    BY AlignedRow
  <2>4. Answerable(q) => RoundIsTrue(r)'
    BY <1>2, <2>2, <2>3 DEF Answerable, RoundIsTrue, Handling
  <2>5. Answerable(q) => HandIsTrue(r)'
    BY <1>2, <2>2, <2>3 DEF Answerable, HandIsTrue, HasParent, Handling
  <2>6. Answerable(q) => Answerable(r)'
    BY <2>2, <2>4, <2>5 DEF Answerable, Fresh
  <2>7. r.at # "idle"
    BY <2>2
  <2> QED
    BY <1>1, <1>2, <2>1, <2>2, <2>6, <2>7, AnswerGoesOn
<1> QED
  BY <1>1, <1>3, <1>4 DEF Align

\* The parent of a row that is inserted is there.
LEMMA AnswerInsert ==
  ASSUME TypeInv, FollowInv, AnswerInv, NEW c \in Clients, InsertProjected(c)
  PROVE  AnswerInv' /\ AnswersNow
<1>1. PICK q \in Request : q = req[c] /\ RequestInv(q)
  BY EachRequest
<1>2. q.at = "insert" /\ q.at # "idle" /\ mapped' = mapped
  BY <1>1 DEF InsertProjected, At
<1>3. CASE ~HasParent(q.parent)
  <2>1. End(c)
    BY <1>1, <1>3 DEF InsertProjected
  <2> QED
    BY <1>1, <1>2, <1>3, <2>1, AnswerEnds DEF Answerable, HandIsTrue, Handling
<1>4. CASE HasParent(q.parent)
  <2>0. PICK n : n = lastId + 1
    OBVIOUS
  <2> DEFINE r == [q EXCEPT !.at = "record", !.id = n]
  <2>1. Set(c, r)
    BY <1>1, <1>4, <2>0 DEF InsertProjected
  <2>2. /\ r.at = "record" /\ r.alone = q.alone /\ r.snap = q.snap /\ r.left = q.left /\ r.later = q.later
        /\ r.cur = q.cur /\ r.done = q.done /\ r.moved = q.moved /\ r.parent = q.parent /\ r.id = n
    BY <1>1 DEF Request
  <2> HIDE DEF r
  <2>3. Live' = Live \cup {n}
    BY <1>1, <1>4, <2>0, ProjectedRow
  <2>4. Answerable(q) => RoundIsTrue(r)'
    BY <1>2, <2>2 DEF Answerable, RoundIsTrue, Handling
  <2>5. Answerable(q) => HandIsTrue(r)'
    BY <1>2, <2>2, <2>3 DEF Answerable, HandIsTrue, HasParent, Handling
  <2>6. Answerable(q) => Answerable(r)'
    BY <2>2, <2>4, <2>5 DEF Answerable, Fresh
  <2>7. r.at # "idle"
    BY <2>2
  <2> QED
    BY <1>1, <1>2, <2>1, <2>2, <2>6, <2>7, AnswerGoesOn
<1> QED
  BY <1>3, <1>4

\* A mapping is recorded, unless the row has one.
LEMMA AnswerRecord ==
  ASSUME TypeInv, FollowInv, AnswerInv, NEW c \in Clients, RecordMapping(c)
  PROVE  AnswerInv' /\ AnswersNow
<1>1. PICK q \in Request : q = req[c] /\ RequestInv(q)
  BY EachRequest
<1>2. q.at = "record" /\ q.at # "idle" /\ q.at \in Handling /\ q.cur \in Contribs /\ q.id \in Ids
  BY <1>1 DEF RecordMapping, At, RequestInv, Request, Handling
<1>3. CASE q.id \in Live /\ mapped[q.cur] = 0 /\ \A k \in Contribs : mapped[k] # q.id
  <2>1. Set(c, Projected(q, q.id)) /\ mapped' = [mapped EXCEPT ![q.cur] = q.id]
    BY <1>1, <1>3 DEF RecordMapping
  <2>2. mapped'[q.cur] = q.id /\ \A k \in Contribs : k # q.cur => mapped'[k] = mapped[k]
    BY <1>2, <2>1 DEF TypeInv, TablesInv
  <2>3. PICK i \in Ids : i = q.id
    BY <1>2
  <2> QED
    BY <1>1, <1>2, <2>1, <2>2, <2>3, AnswerProjected
<1>4. CASE ~(q.id \in Live /\ mapped[q.cur] = 0 /\ \A k \in Contribs : mapped[k] # q.id)
  <2>1. End(c)
    BY <1>1, <1>4 DEF RecordMapping, Abandon
  <2>2. ASSUME Answerable(q) PROVE Obstacle(q)
    <3>1. q.id \in Live /\ mapped[q.cur] = 0
      BY <1>2, <2>2 DEF Answerable, HandIsTrue
    <3>2. PICK k \in Contribs : mapped[k] = q.id
      BY <1>4, <3>1
    <3>3. mapped[k] # 0 /\ k # q.cur
      BY <1>2, <3>1, <3>2, Bounds
    <3> QED
      BY <3>2, <3>3 DEF Obstacle
  <2> QED
    BY <1>1, <1>2, <2>1, <2>2, AnswerEnds
<1> QED
  BY <1>3, <1>4

\* What is swept fails on nothing.
LEMMA AnswerSweep ==
  ASSUME TypeInv, FollowInv, AnswerInv, NEW c \in Clients, Sweep(c)
  PROVE  AnswerInv' /\ AnswersNow
<1>1. PICK q \in Request : q = req[c] /\ RequestInv(q)
  BY EachRequest
<1>2. CASE ReadRows(c)
  <2>1. End(c) /\ q.at = "stale" /\ q.stale = {}
    BY <1>1, <1>2 DEF ReadRows, At
  <2> QED
    BY <1>1, <2>1, AnswerEnds
<1>3. ASSUME NEW r, Set(c, r), q.at # "idle", r.at \in {"stale", "drop"}, r.alone = q.alone
      PROVE  AnswerInv' /\ AnswersNow
  <2>1. Answerable(r)' /\ r.at # "idle"
    BY <1>3 DEF Answerable, RoundIsTrue, HandIsTrue, Fresh, Handling
  <2> QED
    BY <1>1, <1>3, <2>1, AnswerGoesOn
<1>4. CASE ReadMappings(c)
  <2>1. PICK S : Set(c, [q EXCEPT !.at = "stale", !.stale = S]) /\ q.at = "mappings"
    BY <1>1, <1>4 DEF ReadMappings, At
  <2>2. PICK r : r = [q EXCEPT !.at = "stale", !.stale = S]
    OBVIOUS
  <2>3. r.at = "stale" /\ r.alone = q.alone
    BY <1>1, <2>2 DEF Request
  <2> QED
    BY <1>3, <2>1, <2>2, <2>3
<1>5. CASE DropMapping(c)
  <2>1. PICK s : Set(c, [q EXCEPT !.at = "drop", !.id = s[2], !.stale = @ \ {s}]) /\ q.at = "stale"
    BY <1>1, <1>5 DEF DropMapping, At
  <2>2. PICK r : r = [q EXCEPT !.at = "drop", !.id = s[2], !.stale = @ \ {s}]
    OBVIOUS
  <2>3. r.at = "drop" /\ r.alone = q.alone
    BY <1>1, <2>2 DEF Request
  <2> QED
    BY <1>3, <2>1, <2>2, <2>3
<1>6. CASE DropRow(c)
  <2>1. Set(c, [q EXCEPT !.at = "stale", !.id = 0]) /\ q.at = "drop"
    BY <1>1, <1>6 DEF DropRow, At
  <2>2. PICK r : r = [q EXCEPT !.at = "stale", !.id = 0]
    OBVIOUS
  <2>3. r.at = "stale" /\ r.alone = q.alone
    BY <1>1, <2>2 DEF Request
  <2> QED
    BY <1>3, <2>1, <2>2, <2>3
<1> QED
  BY <1>2, <1>4, <1>5, <1>6 DEF Sweep

\* Every step keeps what a listing alone may rely on, and answers as it should.
LEMMA AnswerStep ==
  ASSUME TypeInv, FollowInv, AnswerInv, Next
  PROVE  AnswerInv' /\ AnswersNow
BY AnswerSwitch, AnswerBegin, AnswerEnsure, AnswerEdit, AnswerSnapshot, AnswerContribution, AnswerRound,
   AnswerLegacyParent, AnswerLookup, AnswerLegacy, AnswerAlign, AnswerInsert, AnswerRecord, AnswerSweep, AnswerFail
   DEF Next, Edit, Project

\* A listing of the menu that runs alone answers, unless a contribution's parent
\* is gone, contributions are each other's parents in a circle, or a row that
\* looks like one's own is mapped to another one.
THEOREM AListingAloneAnswers == Spec => AloneListingAnswers
<1>1. Init => FollowInv
  BY DEF Init, NoReq, FollowInv, AloneInv, SettledInv
<1>2. TypeInv /\ FollowInv /\ [Next]_vars => FollowInv'
  BY FollowStep
<1>3. Init => AnswerInv
  BY DEF Init, NoReq, AnswerInv
<1>4. TypeInv /\ FollowInv /\ AnswerInv /\ [Next]_vars => AnswerInv'
  <2>1. AnswerInv /\ UNCHANGED vars => AnswerInv'
    BY DEF vars, AnswerInv, Answerable, RoundIsTrue, HandIsTrue, Fresh, HasParent, Live
  <2> QED
    BY <2>1, AnswerStep
<1>5. TypeInv /\ FollowInv /\ AnswerInv /\ [Next]_vars =>
        [\A c \in Clients :
           /\ req[c].alone /\ req[c].op = "list" /\ req'[c].at = "idle" /\ used' = used
           /\ ~(req[c].at = "stale" /\ req[c].stale = {})
           => Obstacle(req[c])]_vars
  BY AnswerStep DEF AnswersNow, Unanswered
<1> QED
  BY <1>1, <1>2, <1>3, <1>4, <1>5, TypeInvariant, PTL DEF Spec, AloneListingAnswers
===============================================================================
