------------------------- MODULE PluginLifecycleProofs -------------------------
(***************************************************************************)
(* Proofs about PluginLifecycle for any callers, dispatches and bounds:    *)
(* first what holds even when operations are dropped, database calls fail  *)
(* and the host crashes (IInv), then what holds when no operation is       *)
(* dropped, and when no database call fails either (AllInv).               *)
(***************************************************************************)
EXTENDS PluginLifecycle, TLAPS

\* The two halves of TypeOK: the calls with the lock, and everything else.
CallOK ==
  /\ lock \in Procs \cup {NoCaller}
  /\ call \in [Procs -> Call]
  /\ \A c \in Procs : lock = c <=> call[c].at \notin {"idle", "lock"}

DataOK ==
  /\ phase \in {"down", "boot", "serving"}
  /\ entry \in Entry
  /\ row \in [enabled : BOOLEAN, loaded : BOOLEAN]
  /\ policy \in Gens \cup {0}
  /\ late \subseteq [field : {"enabled", "loaded"}, value : BOOLEAN]
                     \cup [field : {"policy"}, value : Gens \cup {0}]
  /\ caps \in Gens \cup {0}
  /\ vm \in Gens \cup {0}
  /\ handle \in [gen : Gens \cup {0}, tasks : SUBSET Gens]
  /\ tasks \subseteq Gens
  /\ status \in [state : States, error : BOOLEAN]
  /\ answer \in [Procs -> {"none", "ok", "err"}]
  /\ dispatch \in [Dispatches -> [at : {"idle", "guard", "run"}, gen : Gens \cup {0}]]
  /\ used \in [{"gens", "requests", "starts", "faults", "drops"} -> Nat]
  /\ dead \subseteq Gens
  /\ off \in BOOLEAN

\* When the process is down, its memory is empty and no operation runs.
DownIsEmpty ==
  phase = "down" =>
    /\ caps = 0 /\ vm = 0 /\ handle = NoHandle /\ tasks = {}
    /\ lock = NoCaller
    /\ \A c \in Procs : call[c] = NoCall

\* The places of an activation between its VM and its publication.
Building == {"prepare", "policy", "publish"}

\* What operation c knows at its place: how far a deactivation has come, that
\* the status is not inactive, and that its generation has not been seen.
Progress(c) ==
  /\ call[c].at \in {"stop", "erase", "unload"} => caps = 0
  /\ call[c].at \in {"erase", "unload"} => tasks = {}
  /\ call[c].at = "unload" => vm = 0
  /\ call[c].at \in {"prepare", "policy", "publish", "loaded", "previous",
                     "remove", "stop", "erase", "unload"} => status.state # "inactive"
  /\ call[c].at \in Building =>
       /\ call[c].gen \notin {caps, vm, handle.gen}
       /\ call[c].gen \notin tasks
  /\ call[c].at \in Building \cup {"loaded"} =>
       call[c].gen # 0 /\ call[c].gen \notin dead /\ call[c].gen <= used["gens"]

\* Every generation in sight has been counted, so that a new one is new.
Counted ==
  /\ caps <= used["gens"] /\ vm <= used["gens"] /\ handle.gen <= used["gens"]
  /\ \A g \in tasks \cup dead : g <= used["gens"]

\* The part of DeadNeverSeen that is about the host.
DeadUnseen == \A g \in dead : g \notin {caps, vm, handle.gen} /\ g \notin tasks

\* The inductive invariant.
IInv ==
  /\ DataOK
  /\ CallOK
  /\ DownIsEmpty
  /\ \A c \in Procs : Progress(c)
  /\ Counted
  /\ InactiveIsEmpty
  /\ DeadUnseen

Working(c) == call[c].at \notin {"idle", "lock"}

-------------------------------------------------------------------------------
LEMMA TypeSplit == TypeOK <=> DataOK /\ CallOK
BY DEF TypeOK, DataOK, CallOK

LEMMA NoCallTyped == NoCall \in Call /\ NoCall.at = "idle"
BY DEF NoCall, Call, Places

LEMMA GensAreCounted == MaxGens \in Nat /\ Gens \subseteq Nat \ {0}
BY BoundsAssumption DEF Gens

LEMMA CallersAreProcs == Callers \subseteq Procs /\ Booter \in Procs /\ NoCaller \notin Procs
BY CallersAssumption DEF Procs

\* An operation at work moves on and keeps the lock.
LEMMA KeepsLock ==
  ASSUME CallOK, NEW c \in Procs, Working(c), lock' = lock,
         NEW r \in Call, r.at \notin {"idle", "lock"}, call' = [call EXCEPT ![c] = r]
  PROVE  CallOK'
BY DEF CallOK, Working

\* An operation that returns leaves the lock to the others.
LEMMA GivesLockBack ==
  ASSUME CallOK, NEW c \in Procs, NEW a, Answer(c, a)
  PROVE  CallOK'
BY NoCallTyped, CallersAreProcs DEF CallOK, Answer

\* Only the lock's holder is at work, so what it does disturbs no one's progress.
LEMMA OthersProgress ==
  ASSUME CallOK, NEW c \in Procs, Working(c), NEW r, call' = [call EXCEPT ![c] = r],
         Progress(c)'
  PROVE  \A d \in Procs : Progress(d)'
<1> SUFFICES ASSUME NEW d \in Procs, d # c PROVE Progress(d)'
  OBVIOUS
<1>1. call'[d].at \in {"idle", "lock"}
  BY DEF CallOK, Working
<1>2. QED
  BY <1>1 DEF Progress, Building

\* A place the operation moves to is still a call.
LEMMA PlaceTyped ==
  ASSUME CallOK, NEW c \in Procs, NEW place \in Places
  PROVE  /\ [call[c] EXCEPT !.at = place] \in Call
         /\ [call[c] EXCEPT !.at = place].at = place
         /\ [call[c] EXCEPT !.at = place].gen = call[c].gen
BY DEF CallOK, Call

LEMMA InitInv == Init => IInv
<1> SUFFICES ASSUME Init PROVE IInv
  OBVIOUS
<1>1. DataOK
  <2>1. entry \in Entry
    BY DEF Init, Entry
  <2>2. used \in [{"gens", "requests", "starts", "faults", "drops"} -> Nat]
    BY DEF Init
  <2>3. dispatch \in [Dispatches -> [at : {"idle", "guard", "run"}, gen : Gens \cup {0}]]
    BY DEF Init, NoDispatch
  <2>4. handle \in [gen : Gens \cup {0}, tasks : SUBSET Gens]
    BY DEF Init, NoHandle
  <2>5. QED
    BY <2>1, <2>2, <2>3, <2>4 DEF Init, DataOK, Status, States
<1>2. CallOK
  BY NoCallTyped, CallersAreProcs DEF Init, CallOK
<1>3. DownIsEmpty /\ InactiveIsEmpty /\ DeadUnseen /\ Counted
  BY DEF Init, DownIsEmpty, InactiveIsEmpty, DeadUnseen, Counted, Status, NoHandle
<1>4. \A c \in Procs : Progress(c)
  BY DEF Init, Progress, Building, NoCall
<1>5. QED
  BY <1>1, <1>2, <1>3, <1>4 DEF IInv

-------------------------------------------------------------------------------
\* Counting a use of a bound keeps the counters typed.
LEMMA UseTyped ==
  ASSUME DataOK, NEW b \in {"gens", "requests", "starts", "faults", "drops"}, NEW max, Use(b, max)
  PROVE  /\ used' \in [{"gens", "requests", "starts", "faults", "drops"} -> Nat]
         /\ used[b] < max /\ used'[b] = used[b] + 1
         /\ b # "gens" => used'["gens"] = used["gens"]
BY DEF DataOK, Use

LEMMA FaultTyped ==
  ASSUME DataOK, DbFails
  PROVE  /\ used' \in [{"gens", "requests", "starts", "faults", "drops"} -> Nat]
         /\ used'["gens"] = used["gens"]
BY UseTyped DEF DbFails

LEMMA MarkTyped ==
  ASSUME DataOK, NEW loaded \in BOOLEAN, MarkLoaded(loaded)
  PROVE  /\ row' \in [enabled : BOOLEAN, loaded : BOOLEAN]
         /\ used' \in [{"gens", "requests", "starts", "faults", "drops"} -> Nat]
         /\ used'["gens"] = used["gens"]
BY FaultTyped DEF MarkLoaded, DataOK

LEMMA AnswerTyped ==
  ASSUME DataOK, NEW c \in Procs, NEW a \in {"none", "ok", "err"}, Answer(c, a)
  PROVE  answer' \in [Procs -> {"none", "ok", "err"}]
BY DEF DataOK, Answer

LEMMA StatusTyped ==
  ASSUME NEW s \in States, NEW e \in BOOLEAN
  PROVE  Status(s, e) \in [state : States, error : BOOLEAN] /\ Status(s, e).state = s
BY DEF Status

LEMMA NoHandleTyped ==
  NoHandle \in [gen : Gens \cup {0}, tasks : SUBSET Gens] /\ NoHandle.gen = 0
BY DEF NoHandle

\* A process that ends leaves nothing in memory.
LEMMA DieKeepsInv == IInv /\ Die => IInv'
<1> SUFFICES ASSUME IInv, Die PROVE IInv'
  OBVIOUS
<1>1. DataOK'
  <2>1. Status("discovered", FALSE) \in [state : States, error : BOOLEAN]
    BY StatusTyped DEF States
  <2>2. [d \in Dispatches |-> NoDispatch] \in
          [Dispatches -> [at : {"idle", "guard", "run"}, gen : Gens \cup {0}]]
    BY DEF NoDispatch
  <2>3. QED
    BY <2>1, <2>2, NoHandleTyped DEF IInv, Die, DataOK
<1>2. CallOK'
  BY NoCallTyped, CallersAreProcs DEF Die, CallOK
<1>3. DownIsEmpty' /\ InactiveIsEmpty'
  BY DEF Die, DownIsEmpty, InactiveIsEmpty, Status
<1>4. Counted' /\ DeadUnseen'
  <2>1. 0 \notin dead
    BY GensAreCounted DEF IInv, DataOK
  <2>2. used["gens"] \in Nat
    BY DEF IInv, DataOK
  <2>3. caps' = 0 /\ vm' = 0 /\ handle'.gen = 0 /\ tasks' = {} /\ UNCHANGED <<dead, used>>
    BY NoHandleTyped DEF Die
  <2>4. QED
    BY <2>1, <2>2, <2>3 DEF IInv, Counted, DeadUnseen
<1>5. \A c \in Procs : Progress(c)'
  BY NoCallTyped DEF Die, Progress, Building
<1>6. QED
  BY <1>1, <1>2, <1>3, <1>4, <1>5 DEF IInv

\* A start, which bootstrap begins with nothing in memory.
LEMMA StartKeepsInv ==
  ASSUME IInv, NEW e \in Entry, Boot(e), used' \in [{"gens", "requests", "starts", "faults", "drops"} -> Nat],
         used'["gens"] = used["gens"],
         row' \in [enabled : BOOLEAN, loaded : BOOLEAN],
         phase' \in {"boot", "serving"},
         status' \in [state : States, error : BOOLEAN],
         NEW booted \in Call, booted.at = "begin",
         \/ UNCHANGED <<lock, call>>
         \/ lock' = Booter /\ call' = [call EXCEPT ![Booter] = booted]
  PROVE  IInv'
<1>2. /\ caps = 0 /\ vm = 0 /\ handle = NoHandle /\ tasks = {} /\ lock = NoCaller
      /\ UNCHANGED <<caps, vm, handle, tasks, dead>>
      /\ \A c \in Procs : call[c] = NoCall
  BY DEF IInv, DownIsEmpty, Boot
<1>3. DataOK'
  BY DEF IInv, DataOK, Boot
<1>4. CallOK'
  <2>1. CASE UNCHANGED <<lock, call>>
    BY <2>1 DEF IInv, CallOK
  <2>2. CASE lock' = Booter /\ call' = [call EXCEPT ![Booter] = booted]
    BY <2>2, <1>2, CallersAreProcs, NoCallTyped DEF IInv, CallOK
  <2>3. QED
    BY <2>1, <2>2
<1>5. DownIsEmpty' /\ InactiveIsEmpty'
  BY <1>2 DEF DownIsEmpty, InactiveIsEmpty
<1>6. Counted' /\ DeadUnseen'
  BY <1>2 DEF IInv, Counted, DeadUnseen
<1>7. \A c \in Procs : call'[c].at \in {"idle", "begin"}
  BY <1>2, NoCallTyped DEF IInv, CallOK
<1>8. QED
  BY <1>3, <1>4, <1>5, <1>6, <1>7 DEF IInv, Progress, Building

-------------------------------------------------------------------------------
\* Memory that does not change keeps what is said of it.
LEMMA QuietMemory ==
  ASSUME IInv, UNCHANGED <<caps, vm, handle, tasks, status, dead>>,
         used'["gens"] = used["gens"]
  PROVE  Counted' /\ InactiveIsEmpty' /\ DeadUnseen'
BY DEF IInv, Counted, InactiveIsEmpty, DeadUnseen

\* No operation is at work while the process is down.
LEMMA WorkingIsUp ==
  ASSUME IInv, NEW c \in Procs, call[c].at # "idle"
  PROVE  phase # "down"
BY NoCallTyped DEF IInv, DownIsEmpty

\* The obligations of an operation at work that moves on.
LEMMA MoveKeepsInv ==
  ASSUME IInv, NEW c \in Procs, Working(c),
         NEW r \in Call, r.at \notin {"idle", "lock"},
         call' = [call EXCEPT ![c] = r], UNCHANGED <<lock, phase>>,
         DataOK', Progress(c)', Counted', InactiveIsEmpty', DeadUnseen'
  PROVE  IInv'
<1>1. CallOK'
  BY KeepsLock DEF IInv
<1>2. DownIsEmpty'
  BY WorkingIsUp DEF Working, DownIsEmpty
<1>3. \A d \in Procs : Progress(d)'
  BY OthersProgress DEF IInv
<1>4. QED
  BY <1>1, <1>2, <1>3 DEF IInv

\* The obligations of an operation at work that returns.
LEMMA AnswerKeepsInv ==
  ASSUME IInv, NEW c \in Procs, Working(c), NEW a, Answer(c, a), phase' # "down",
         DataOK', Counted', InactiveIsEmpty', DeadUnseen'
  PROVE  IInv'
<1>1. CallOK'
  BY GivesLockBack DEF IInv
<1>2. DownIsEmpty'
  BY DEF DownIsEmpty
<1>3. call' = [call EXCEPT ![c] = NoCall]
  BY DEF Answer
<1>4. Progress(c)'
  BY <1>3, NoCallTyped DEF Progress, Building, IInv, CallOK
<1>5. \A d \in Procs : Progress(d)'
  BY <1>3, <1>4, OthersProgress DEF IInv
<1>6. QED
  BY <1>1, <1>2, <1>5 DEF IInv

\* The obligations of a step that moves no operation and leaves memory alone.
LEMMA StillKeepsInv ==
  ASSUME IInv, UNCHANGED <<caps, vm, handle, tasks, status, dead, lock, call, phase>>,
         used'["gens"] = used["gens"], DataOK'
  PROVE  IInv'
<1>1. CallOK' /\ DownIsEmpty' /\ \A c \in Procs : Progress(c)'
  BY DEF IInv, CallOK, DownIsEmpty, Progress, Building
<1>2. QED
  BY <1>1, QuietMemory DEF IInv

-------------------------------------------------------------------------------
\* Deactivation takes the plugin down in an order its progress records.
LEMMA DeactivationKeepsInv ==
  ASSUME IInv, NEW c \in Procs, Deactivation(c)
  PROVE  IInv'
<1>1. CASE Retire(c)
  <2> DEFINE r == [call[c] EXCEPT !.at = "remove"]
  <2>1. /\ r \in Call /\ r.at = "remove" /\ Working(c)
        /\ call' = [call EXCEPT ![c] = r]
        /\ call'[c].at = "remove"
    BY <1>1, PlaceTyped DEF Retire, Goto, Working, IInv, CallOK, Places
  <2>2. status' \in [state : States, error : BOOLEAN] /\ status'.state = "deactivating"
    BY <1>1, StatusTyped DEF Retire, States
  <2>3. DataOK'
    BY <1>1, <2>2 DEF Retire, IInv, DataOK, database
  <2>4. Progress(c)' /\ Counted' /\ InactiveIsEmpty' /\ DeadUnseen'
    BY <1>1, <2>1, <2>2 DEF Retire, IInv, Progress, Building, Counted, InactiveIsEmpty, DeadUnseen
  <2>5. QED
    BY <1>1, <2>1, <2>3, <2>4, MoveKeepsInv DEF Retire
<1>2. CASE RemoveCapabilities(c)
  <2> DEFINE r == [call[c] EXCEPT !.at = "stop"]
  <2>1. /\ r \in Call /\ r.at = "stop" /\ Working(c)
        /\ call' = [call EXCEPT ![c] = r]
        /\ call'[c].at = "stop"
    BY <1>2, PlaceTyped DEF RemoveCapabilities, Goto, Working, IInv, CallOK, Places
  <2>2. DataOK'
    BY <1>2 DEF RemoveCapabilities, IInv, DataOK, database
  <2>3. status.state # "inactive" /\ UNCHANGED status
    BY <1>2 DEF RemoveCapabilities, IInv, Progress, Building
  <2>4. Progress(c)' /\ InactiveIsEmpty'
    BY <1>2, <2>1, <2>3 DEF RemoveCapabilities, Progress, Building, InactiveIsEmpty
  <2>5. Counted' /\ DeadUnseen'
    BY <1>2, GensAreCounted DEF RemoveCapabilities, IInv, DataOK, Counted, DeadUnseen
  <2>6. QED
    BY <1>2, <2>1, <2>2, <2>4, <2>5, MoveKeepsInv DEF RemoveCapabilities
<1>3. CASE StopTasks(c)
  <2> DEFINE r == [call[c] EXCEPT !.at = "erase"]
  <2>1. /\ r \in Call /\ r.at = "erase" /\ Working(c)
        /\ call' = [call EXCEPT ![c] = r]
        /\ call'[c].at = "erase"
    BY <1>3, PlaceTyped DEF StopTasks, Goto, Working, IInv, CallOK, Places
  <2>2. DataOK'
    BY <1>3 DEF StopTasks, IInv, DataOK, database
  <2>3. status.state # "inactive" /\ caps = 0 /\ UNCHANGED <<status, caps, vm, handle>>
    BY <1>3 DEF StopTasks, IInv, Progress, Building
  <2>4. Progress(c)' /\ InactiveIsEmpty'
    BY <1>3, <2>1, <2>3 DEF StopTasks, Progress, Building, InactiveIsEmpty
  <2>5. Counted' /\ DeadUnseen'
    BY <1>3 DEF StopTasks, IInv, Counted, DeadUnseen
  <2>6. QED
    BY <1>3, <2>1, <2>2, <2>4, <2>5, MoveKeepsInv DEF StopTasks
<1>4. CASE Erase(c)
  <2>1. PICK e \in BOOLEAN :
          call' = [call EXCEPT ![c] = [call[c] EXCEPT !.at = "unload", !.error = e]]
    <3>1. CASE Goto(c, "unload")
      <4>1. call[c] \in Call
        BY DEF IInv, CallOK
      <4>2. [call[c] EXCEPT !.at = "unload"]
              = [call[c] EXCEPT !.at = "unload", !.error = call[c].error] /\ call[c].error \in BOOLEAN
        BY <4>1 DEF Call
      <4>3. QED
        BY <3>1, <4>2 DEF Goto
    <3>2. QED
      BY <1>4, <3>1 DEF Erase
  <2> DEFINE r == [call[c] EXCEPT !.at = "unload", !.error = e]
  <2>2. r \in Call /\ r.at = "unload" /\ Working(c)
    <3>1. call[c] \in Call /\ Working(c)
      BY <1>4 DEF Erase, Working, IInv, CallOK
    <3>2. [call[c] EXCEPT !.at = "unload"] \in Call /\ [call[c] EXCEPT !.at = "unload"].at = "unload"
      BY PlaceTyped DEF IInv, Places
    <3>3. ASSUME NEW q \in Call, NEW b \in BOOLEAN
          PROVE  [q EXCEPT !.error = b] \in Call /\ [q EXCEPT !.error = b].at = q.at
      BY DEF Call
    <3>4. QED
      BY <3>1, <3>2, <3>3
  <2>3. call' = [call EXCEPT ![c] = r] /\ call'[c].at = "unload"
    BY <2>1, <2>2 DEF IInv, CallOK
  <2>4. /\ used' \in [{"gens", "requests", "starts", "faults", "drops"} -> Nat]
        /\ used'["gens"] = used["gens"]
    BY <1>4, FaultTyped DEF Erase, IInv, DataOK
  <2>5. policy' \in Gens \cup {0} /\ vm' = 0
    BY <1>4 DEF Erase, IInv, DataOK
  <2>6. DataOK'
    BY <1>4, <2>4, <2>5 DEF Erase, IInv, DataOK
  <2>7. /\ status.state # "inactive" /\ caps = 0 /\ tasks = {}
        /\ UNCHANGED <<status, caps, tasks, handle, dead>>
    BY <1>4 DEF Erase, IInv, Progress, Building
  <2>8. Progress(c)' /\ InactiveIsEmpty'
    BY <2>3, <2>5, <2>7 DEF Progress, Building, InactiveIsEmpty
  <2>9. Counted' /\ DeadUnseen'
    BY <2>4, <2>5, <2>7, GensAreCounted DEF IInv, DataOK, Counted, DeadUnseen
  <2>10. QED
    BY <1>4, <2>2, <2>3, <2>6, <2>8, <2>9, MoveKeepsInv DEF Erase
<1>5. CASE Unload(c)
  <2>1. /\ row' \in [enabled : BOOLEAN, loaded : BOOLEAN]
        /\ used' \in [{"gens", "requests", "starts", "faults", "drops"} -> Nat]
        /\ used'["gens"] = used["gens"]
    BY <1>5, MarkTyped DEF Unload, IInv
  <2>2. call[c].error \in BOOLEAN /\ Working(c)
    BY <1>5 DEF Unload, IInv, CallOK, Call, Working
  <2>3. status' \in [state : States, error : BOOLEAN] /\ status'.state = "inactive"
    BY <1>5, <2>2, StatusTyped DEF Unload, States
  <2>4. PICK a \in {"none", "ok", "err"} : Answer(c, a)
    BY <1>5 DEF Unload
  <2>5. answer' \in [Procs -> {"none", "ok", "err"}]
    BY <2>4, AnswerTyped DEF IInv
  <2>6. handle' = NoHandle /\ off' = TRUE
          /\ UNCHANGED <<phase, entry, policy, late, caps, vm, tasks, dispatch, dead>>
    BY <1>5 DEF Unload
  <2>7. DataOK'
    BY <2>1, <2>3, <2>5, <2>6, NoHandleTyped DEF IInv, DataOK
  <2>8. caps = 0 /\ vm = 0 /\ tasks = {}
    BY <1>5 DEF Unload, IInv, Progress, Building
  <2>9. InactiveIsEmpty'
    BY <2>6, <2>8 DEF InactiveIsEmpty
  <2>10. Counted' /\ DeadUnseen'
    BY <2>1, <2>6, <2>8, NoHandleTyped, GensAreCounted DEF IInv, DataOK, Counted, DeadUnseen
  <2>11. phase' # "down"
    BY <2>2, <2>6, WorkingIsUp DEF Working
  <2>12. QED
    BY <2>2, <2>4, <2>7, <2>9, <2>10, <2>11, AnswerKeepsInv
<1>6. QED
  BY <1>1, <1>2, <1>3, <1>4, <1>5 DEF Deactivation

-------------------------------------------------------------------------------
\* Generations in sight are numbers.
LEMMA GensTyped ==
  ASSUME DataOK
  PROVE  /\ caps \in Nat /\ vm \in Nat /\ handle.gen \in Nat /\ used["gens"] \in Nat
         /\ tasks \subseteq Nat \ {0} /\ dead \subseteq Nat \ {0}
<1>1. \A g \in Gens \cup {0} : g \in Nat
  BY GensAreCounted
<1>2. handle.gen \in Gens \cup {0}
  BY DEF DataOK
<1>3. QED
  BY <1>1, <1>2, GensAreCounted DEF DataOK

\* A new generation is one nothing in sight belongs to.
LEMMA BeginKeepsInv ==
  ASSUME IInv, NEW c \in Procs, Begin(c)
  PROVE  IInv'
<1> DEFINE g == used'["gens"]
           r == [call[c] EXCEPT !.at = "prepare", !.gen = g]
<1>1. /\ used' \in [{"gens", "requests", "starts", "faults", "drops"} -> Nat]
      /\ used["gens"] < MaxGens /\ used'["gens"] = used["gens"] + 1
      /\ used["gens"] \in Nat
  BY UseTyped DEF Begin, IInv, DataOK
<1>2. g \in Gens /\ g \in Nat /\ g # 0 /\ g > used["gens"] /\ g <= used'["gens"]
  BY <1>1, GensAreCounted DEF Gens
<1> HIDE DEF g
<1>3. r \in Call /\ r.at = "prepare" /\ r.gen = g /\ Working(c)
  <2>1. call[c] \in Call /\ Working(c)
    BY DEF Begin, Working, IInv, CallOK
  <2>2. [call[c] EXCEPT !.at = "prepare"] \in Call
          /\ [call[c] EXCEPT !.at = "prepare"].at = "prepare"
    BY PlaceTyped DEF IInv, Places
  <2>3. ASSUME NEW q \in Call
        PROVE  /\ [q EXCEPT !.gen = g] \in Call
               /\ [q EXCEPT !.gen = g].at = q.at /\ [q EXCEPT !.gen = g].gen = g
    BY <1>2 DEF Call
  <2>4. QED
    BY <2>1, <2>2, <2>3
<1>4. call' = [call EXCEPT ![c] = r] /\ call'[c].at = "prepare" /\ call'[c].gen = g
  BY <1>3 DEF Begin, IInv, CallOK, g
<1>5. /\ status' \in [state : States, error : BOOLEAN] /\ status'.state = "activating"
      /\ UNCHANGED <<phase, entry, row, policy, late, caps, vm, handle, tasks, lock,
                     answer, dispatch, dead, off>>
  BY StatusTyped DEF Begin, States, database
<1>6. DataOK'
  BY <1>1, <1>5 DEF IInv, DataOK
<1>7. /\ g \notin {caps, vm, handle.gen} /\ g \notin tasks /\ g \notin dead
  <2>1. /\ caps \in Nat /\ vm \in Nat /\ handle.gen \in Nat
        /\ tasks \subseteq Nat /\ dead \subseteq Nat
    BY GensTyped DEF IInv
  <2>2. QED
    BY <1>1, <1>2, <2>1 DEF IInv, Counted
<1>8. Progress(c)' /\ InactiveIsEmpty' /\ DeadUnseen'
  BY <1>1, <1>2, <1>4, <1>5, <1>7 DEF IInv, Progress, Building, InactiveIsEmpty, DeadUnseen
<1>9. Counted'
  <2>1. /\ caps \in Nat /\ vm \in Nat /\ handle.gen \in Nat
        /\ tasks \subseteq Nat /\ dead \subseteq Nat
    BY GensTyped DEF IInv
  <2>2. QED
    BY <1>1, <1>5, <2>1 DEF IInv, Counted
<1>10. QED
  BY <1>3, <1>4, <1>5, <1>6, <1>8, <1>9, MoveKeepsInv

\* An activation that ends before there is a VM.
LEMMA EndBeginKeepsInv ==
  ASSUME IInv, NEW c \in Procs, Working(c), EndBegin(c),
         NEW s \in {"failed", "activating"}, NEW e \in BOOLEAN, status' = Status(s, e)
  PROVE  IInv'
<1>1. /\ status' \in [state : States, error : BOOLEAN] /\ status'.state # "inactive"
      /\ UNCHANGED <<phase, entry, row, policy, late, caps, vm, handle, tasks, dispatch,
                     used, dead, off>>
  BY StatusTyped DEF EndBegin, States, database
<1>2. Counted' /\ InactiveIsEmpty' /\ DeadUnseen'
  BY <1>1 DEF IInv, Counted, InactiveIsEmpty, DeadUnseen
<1>3. CASE Answer(c, "err")
  <2>1. DataOK'
    BY <1>1, <1>3, AnswerTyped DEF IInv, DataOK
  <2>2. QED
    BY <1>1, <1>2, <1>3, <2>1, AnswerKeepsInv, WorkingIsUp DEF Working
<1>4. CASE Goto(c, "giveup") /\ UNCHANGED <<lock, answer>>
  <2> DEFINE r == [call[c] EXCEPT !.at = "giveup"]
  <2>1. r \in Call /\ r.at = "giveup" /\ call' = [call EXCEPT ![c] = r]
          /\ call'[c].at = "giveup"
    BY <1>4, PlaceTyped DEF Goto, IInv, CallOK, Places
  <2>2. DataOK'
    BY <1>1, <1>4 DEF IInv, DataOK
  <2>3. Progress(c)'
    BY <2>1 DEF Progress, Building
  <2>4. QED
    BY <1>1, <1>2, <1>4, <2>1, <2>2, <2>3, MoveKeepsInv
<1>5. QED
  BY <1>3, <1>4 DEF EndBegin

\* An operation whose generation is published, or dies unpublished.
LEMMA PrepareKeepsInv ==
  ASSUME IInv, NEW c \in Procs, Prepare(c) \/ PrepareFails(c)
  PROVE  IInv'
<1>1. PICK place \in {"policy", "fail"} :
        /\ Goto(c, place)
        /\ \/ place = "policy" /\ UNCHANGED dead
           \/ place = "fail" /\ dead' = dead \cup {call[c].gen}
  BY DEF Prepare, PrepareFails
<1>0. place \in Places
  BY DEF Places
<1> DEFINE r == [call[c] EXCEPT !.at = place]
<1>2. /\ r \in Call /\ r.at = place /\ r.gen = call[c].gen /\ call' = [call EXCEPT ![c] = r]
      /\ call'[c].at = place /\ call'[c].gen = call[c].gen
  BY <1>0, <1>1, PlaceTyped DEF Goto, IInv, CallOK
<1>3. /\ UNCHANGED <<phase, entry, row, policy, late, caps, vm, handle, tasks, status,
                     lock, answer, dispatch, used, off>>
      /\ call[c].at = "prepare" /\ Working(c)
  BY DEF Prepare, PrepareFails, database, memory, Working
<1>4. /\ status.state # "inactive" /\ call[c].gen # 0
      /\ call[c].gen \notin {caps, vm, handle.gen} /\ call[c].gen \notin tasks
      /\ call[c].gen \notin dead /\ call[c].gen <= used["gens"]
      /\ call[c].gen \in Gens
  BY <1>3 DEF IInv, Progress, Building, CallOK, Call
<1>5. InactiveIsEmpty'
  BY <1>3, <1>4 DEF InactiveIsEmpty
<1>6. CASE UNCHANGED dead /\ place = "policy"
  <2>1. DataOK' /\ Counted' /\ DeadUnseen'
    BY <1>3, <1>6 DEF IInv, DataOK, Counted, DeadUnseen
  <2>2. Progress(c)'
    BY <1>2, <1>3, <1>4, <1>6 DEF Progress, Building
  <2>3. QED
    BY <1>2, <1>3, <1>5, <1>6, <2>1, <2>2, MoveKeepsInv
<1>7. CASE dead' = dead \cup {call[c].gen} /\ place = "fail"
  <2>1. DataOK' /\ DeadUnseen'
    BY <1>3, <1>4, <1>7 DEF IInv, DataOK, DeadUnseen
  <2>2. Progress(c)'
    BY <1>2, <1>7 DEF Progress, Building
  <2>3. Counted'
    BY <1>3, <1>4, <1>7 DEF IInv, Counted
  <2>4. QED
    BY <1>2, <1>3, <1>5, <1>7, <2>1, <2>2, <2>3, MoveKeepsInv
<1>8. QED
  BY <1>1, <1>6, <1>7

\* The bindings are written, or the generation dies.
LEMMA BindKeepsInv ==
  ASSUME IInv, NEW c \in Procs, Bind(c)
  PROVE  IInv'
<1>1. /\ UNCHANGED <<phase, entry, row, late, caps, vm, handle, tasks, status, lock, answer,
                     dispatch, off>>
      /\ call[c].at = "policy" /\ Working(c)
  BY DEF Bind, memory, Working
<1>2. /\ status.state # "inactive" /\ call[c].gen # 0
      /\ call[c].gen \notin {caps, vm, handle.gen} /\ call[c].gen \notin tasks
      /\ call[c].gen \notin dead /\ call[c].gen <= used["gens"]
      /\ call[c].gen \in Gens
  BY <1>1 DEF IInv, Progress, Building, CallOK, Call
<1>3. InactiveIsEmpty'
  BY <1>1, <1>2 DEF InactiveIsEmpty
<1>4. CASE policy' = call[c].gen /\ Goto(c, "publish") /\ UNCHANGED <<used, dead>>
  <2> DEFINE r == [call[c] EXCEPT !.at = "publish"]
  <2>1. /\ r \in Call /\ r.at = "publish" /\ call' = [call EXCEPT ![c] = r]
        /\ call'[c].at = "publish" /\ call'[c].gen = call[c].gen
    BY <1>4, PlaceTyped DEF Goto, IInv, CallOK, Places
  <2>2. DataOK' /\ Counted' /\ DeadUnseen'
    BY <1>1, <1>2, <1>4 DEF IInv, DataOK, Counted, DeadUnseen
  <2>3. Progress(c)'
    BY <1>1, <1>2, <1>4, <2>1 DEF Progress, Building
  <2>4. QED
    BY <1>1, <1>3, <2>1, <2>2, <2>3, MoveKeepsInv
<1>5. CASE /\ DbFails /\ Goto(c, "fail") /\ dead' = dead \cup {call[c].gen}
           /\ UNCHANGED policy
  <2> DEFINE r == [call[c] EXCEPT !.at = "fail"]
  <2>1. /\ r \in Call /\ r.at = "fail" /\ call' = [call EXCEPT ![c] = r]
        /\ call'[c].at = "fail"
    BY <1>5, PlaceTyped DEF Goto, IInv, CallOK, Places
  <2>2. /\ used' \in [{"gens", "requests", "starts", "faults", "drops"} -> Nat]
        /\ used'["gens"] = used["gens"]
    BY <1>5, FaultTyped DEF IInv
  <2>3. DataOK' /\ Counted' /\ DeadUnseen'
    BY <1>1, <1>2, <1>5, <2>2 DEF IInv, DataOK, Counted, DeadUnseen
  <2>4. Progress(c)'
    BY <2>1 DEF Progress, Building
  <2>5. QED
    BY <1>1, <1>3, <2>1, <2>3, <2>4, MoveKeepsInv
<1>6. QED
  BY <1>4, <1>5 DEF Bind

\* The VM and the capabilities are published.
LEMMA PublishKeepsInv ==
  ASSUME IInv, NEW c \in Procs, Publish(c)
  PROVE  IInv'
<1>1. /\ UNCHANGED <<phase, entry, row, policy, late, handle, tasks, status, lock, answer,
                     dispatch, used, dead, off>>
      /\ call[c].at = "publish" /\ Working(c)
      /\ vm' = call[c].gen /\ caps' = call[c].gen /\ Goto(c, "loaded")
  BY DEF Publish, database, Working
<1>2. /\ status.state # "inactive" /\ call[c].gen # 0
      /\ call[c].gen \notin dead /\ call[c].gen <= used["gens"]
      /\ call[c].gen \in Gens
  BY <1>1 DEF IInv, Progress, Building, CallOK, Call
<1>3. InactiveIsEmpty'
  BY <1>1, <1>2 DEF InactiveIsEmpty
<1> DEFINE r == [call[c] EXCEPT !.at = "loaded"]
<1>4. /\ r \in Call /\ r.at = "loaded" /\ call' = [call EXCEPT ![c] = r]
      /\ call'[c].at = "loaded" /\ call'[c].gen = call[c].gen
  BY <1>1, PlaceTyped DEF Goto, IInv, CallOK, Places
<1>5. DataOK' /\ Counted' /\ DeadUnseen'
  BY <1>1, <1>2 DEF IInv, DataOK, Counted, DeadUnseen
<1>6. Progress(c)'
  BY <1>1, <1>2, <1>4 DEF Progress, Building
<1>7. QED
  BY <1>1, <1>3, <1>4, <1>5, <1>6, MoveKeepsInv

\* The published generation gets its tasks and its handle.
LEMMA SettleKeepsInv ==
  ASSUME IInv, NEW c \in Procs, Settle(c)
  PROVE  IInv'
<1>1. /\ UNCHANGED <<entry, policy, late, caps, vm, dispatch, dead, off>>
      /\ call[c].at = "loaded" /\ Working(c)
      /\ tasks' = tasks \cup {call[c].gen}
      /\ handle' = [gen |-> vm, tasks |-> tasks' \ call[c].prev]
  BY DEF Settle, Working
<1>2. /\ row' \in [enabled : BOOLEAN, loaded : BOOLEAN]
      /\ used' \in [{"gens", "requests", "starts", "faults", "drops"} -> Nat]
      /\ used'["gens"] = used["gens"]
  BY MarkTyped DEF Settle, IInv
<1>3. /\ status.state # "inactive" /\ call[c].gen \in Gens \cup {0}
      /\ call[c].gen \notin dead /\ call[c].gen <= used["gens"]
  BY <1>1 DEF IInv, Progress, Building, CallOK, Call
<1>4. call[c].gen # 0
  BY <1>1 DEF IInv, Progress, Building
<1>5. /\ tasks' \subseteq Gens
      /\ handle' \in [gen : Gens \cup {0}, tasks : SUBSET Gens] /\ handle'.gen = vm
  BY <1>1, <1>3, <1>4 DEF IInv, DataOK
<1>6. Counted'
  BY <1>1, <1>2, <1>3, <1>5 DEF IInv, Counted
<1>7. DeadUnseen'
  BY <1>1, <1>3, <1>5 DEF IInv, DeadUnseen
<1>8. CASE Goto(c, "previous") /\ UNCHANGED <<phase, status, lock, answer>>
  <2> DEFINE r == [call[c] EXCEPT !.at = "previous"]
  <2>1. /\ r \in Call /\ r.at = "previous" /\ call' = [call EXCEPT ![c] = r]
        /\ call'[c].at = "previous"
    BY <1>8, PlaceTyped DEF Goto, IInv, CallOK, Places
  <2>2. DataOK'
    BY <1>1, <1>2, <1>5, <1>8 DEF IInv, DataOK
  <2>3. Progress(c)' /\ InactiveIsEmpty'
    BY <1>3, <1>8, <2>1 DEF Progress, Building, InactiveIsEmpty
  <2>4. QED
    BY <1>1, <1>6, <1>7, <1>8, <2>1, <2>2, <2>3, MoveKeepsInv
<1>9. CASE status' = Status("active", FALSE) /\ phase' = "serving" /\ Answer(c, "ok")
  <2>1. status' \in [state : States, error : BOOLEAN] /\ status'.state # "inactive"
    BY <1>9, StatusTyped DEF States
  <2>2. DataOK'
    BY <1>1, <1>2, <1>5, <1>9, <2>1, AnswerTyped DEF IInv, DataOK
  <2>3. InactiveIsEmpty'
    BY <2>1 DEF InactiveIsEmpty
  <2>4. QED
    BY <1>1, <1>6, <1>7, <1>9, <2>2, <2>3, AnswerKeepsInv
<1>10. QED
  BY <1>8, <1>9 DEF Settle

\* A reload cancels the tasks of the handle it replaced.
LEMMA CancelPreviousKeepsInv ==
  ASSUME IInv, NEW c \in Procs, CancelPrevious(c)
  PROVE  IInv'
<1>1. /\ tasks' = tasks \ call[c].prev /\ Answer(c, "ok") /\ Working(c)
      /\ status' = Status("active", FALSE)
      /\ UNCHANGED <<phase, entry, row, policy, late, caps, vm, handle, dispatch, used,
                     dead, off>>
  BY DEF CancelPrevious, Working, database
<1>2. status' \in [state : States, error : BOOLEAN] /\ status'.state # "inactive"
  BY <1>1, StatusTyped DEF States
<1>3. DataOK'
  BY <1>1, <1>2, AnswerTyped DEF IInv, DataOK
<1>4. Counted' /\ InactiveIsEmpty' /\ DeadUnseen'
  BY <1>1, <1>2 DEF IInv, Counted, InactiveIsEmpty, DeadUnseen
<1>5. QED
  BY <1>1, <1>3, <1>4, AnswerKeepsInv, WorkingIsUp DEF Working

\* A failed activation takes nothing back but the loaded flag.
LEMMA FailKeepsInv ==
  ASSUME IInv, NEW c \in Procs, Fail(c) \/ GiveUp(c)
  PROVE  IInv'
<1>1. /\ UNCHANGED <<entry, policy, late, caps, vm, handle, tasks, dispatch, dead, off>>
      /\ Working(c)
  BY DEF Fail, GiveUp, memory, Working
<1>2. /\ row' \in [enabled : BOOLEAN, loaded : BOOLEAN]
      /\ used' \in [{"gens", "requests", "starts", "faults", "drops"} -> Nat]
      /\ used'["gens"] = used["gens"]
  BY MarkTyped DEF Fail, GiveUp, IInv, DataOK
<1>3. PICK s \in {"active", "failed"} : UNCHANGED status \/ status' = Status(s, TRUE)
  BY DEF Fail, GiveUp, memory
<1>4. status' \in [state : States, error : BOOLEAN]
  <2>1. Status(s, TRUE) \in [state : States, error : BOOLEAN]
    BY <1>3, StatusTyped DEF States
  <2>2. QED
    BY <1>3, <2>1 DEF IInv, DataOK
<1>5. Counted' /\ InactiveIsEmpty' /\ DeadUnseen'
  <2>1. Status(s, TRUE).state # "inactive"
    BY <1>3 DEF Status
  <2>2. QED
    BY <1>1, <1>2, <1>3, <2>1 DEF IInv, Counted, InactiveIsEmpty, DeadUnseen
<1>6. CASE Answer(c, "err") /\ phase' \in {phase, "serving"}
  <2>1. DataOK'
    BY <1>1, <1>2, <1>4, <1>6, AnswerTyped DEF IInv, DataOK
  <2>2. phase' # "down"
    BY <1>1, <1>6, WorkingIsUp DEF Working
  <2>3. QED
    BY <1>1, <1>5, <1>6, <2>1, <2>2, AnswerKeepsInv
<1>7. CASE Goto(c, "giveup") /\ UNCHANGED <<lock, answer, phase>>
  <2> DEFINE r == [call[c] EXCEPT !.at = "giveup"]
  <2>1. r \in Call /\ r.at = "giveup" /\ call' = [call EXCEPT ![c] = r]
          /\ call'[c].at = "giveup"
    BY <1>7, PlaceTyped DEF Goto, IInv, CallOK, Places
  <2>2. DataOK' /\ Progress(c)'
    BY <1>1, <1>2, <1>4, <1>7, <2>1 DEF IInv, DataOK, Progress, Building
  <2>3. QED
    BY <1>1, <1>5, <1>7, <2>1, <2>2, MoveKeepsInv
<1>8. QED
  BY <1>6, <1>7 DEF Fail, GiveUp

-------------------------------------------------------------------------------
\* A request for an operation, and its entry once it has the lock.
LEMMA IdleKeepsInv ==
  ASSUME IInv, NEW c \in Procs, phase # "down", UNCHANGED <<caps, vm, handle, tasks, status,
         phase, dead>>, used'["gens"] = used["gens"], NEW r \in Call,
         r.at \notin {"prepare", "policy", "publish", "loaded", "previous",
                     "remove", "stop", "erase", "unload"},
         call' = [call EXCEPT ![c] = r], DataOK', CallOK'
  PROVE  IInv'
<1>1. DownIsEmpty'
  BY DEF DownIsEmpty
<1>2. \A d \in Procs : Progress(d)'
  <2>1. Progress(c)'
    BY DEF IInv, CallOK, Progress, Building
  <2>2. \A d \in Procs : d # c => Progress(d)'
    BY DEF IInv, CallOK, Progress, Building
  <2>3. QED
    BY <2>1, <2>2
<1>3. QED
  BY <1>1, <1>2, QuietMemory DEF IInv

LEMMA RequestKeepsInv ==
  ASSUME IInv, NEW c \in Callers, Request(c)
  PROVE  IInv'
<1> c \in Procs
  BY CallersAreProcs
<1>1. PICK k \in Kinds : call' = [call EXCEPT ![c] = [NoCall EXCEPT !.at = "lock", !.kind = k]]
  BY DEF Request
<1> DEFINE r == [NoCall EXCEPT !.at = "lock", !.kind = k]
<1>2. r \in Call /\ r.at = "lock"
  BY KindsAssumption DEF NoCall, Call, Places
<1> HIDE DEF r
<1>3. /\ used' \in [{"gens", "requests", "starts", "faults", "drops"} -> Nat]
      /\ used'["gens"] = used["gens"]
  BY UseTyped DEF Request, IInv
<1>4. DataOK'
  BY <1>3 DEF Request, IInv, DataOK, database, memory
<1>5. call' = [call EXCEPT ![c] = r]
  BY <1>1 DEF r
<1>6. CallOK'
  BY <1>2, <1>5 DEF Request, IInv, CallOK
<1>7. QED
  BY <1>2, <1>3, <1>4, <1>5, <1>6, IdleKeepsInv DEF Request, memory

\* A waiting operation that enters takes the free lock.
LEMMA TakesLock ==
  ASSUME CallOK, NEW c \in Procs, lock = NoCaller, lock' = c,
         NEW r \in Call, r.at \notin {"idle", "lock"}, call' = [call EXCEPT ![c] = r]
  PROVE  CallOK'
BY CallersAreProcs DEF CallOK

LEMMA EnterKeepsInv ==
  ASSUME IInv, NEW c \in Callers, EnterToggle(c) \/ EnterReload(c)
  PROVE  IInv'
<1> c \in Procs
  BY CallersAreProcs
<1>1. /\ UNCHANGED <<phase, entry, row, policy, late, caps, vm, handle, tasks, status,
                     dispatch, used, dead>>
      /\ lock = NoCaller /\ phase # "down" /\ off' \in BOOLEAN
  BY WorkingIsUp DEF EnterToggle, EnterReload, database, memory, IInv, DataOK
<1>2. CASE \E a \in {"ok", "err"} : Answer(c, a)
  <2>1. PICK a \in {"ok", "err"} : Answer(c, a)
    BY <1>2
  <2>2. DataOK'
    BY <1>1, <2>1, AnswerTyped DEF IInv, DataOK
  <2>3. CallOK'
    BY <2>1, GivesLockBack DEF IInv
  <2>4. QED
    BY <1>1, <2>1, <2>2, <2>3, NoCallTyped, IdleKeepsInv DEF Answer
<1>3. CASE \E place \in {"intent", "begin", "retire"} :
             Goto(c, place) /\ lock' = c /\ UNCHANGED answer
  <2>1. PICK place \in {"intent", "begin", "retire"} :
          Goto(c, place) /\ lock' = c /\ UNCHANGED answer
    BY <1>3
  <2> DEFINE r == [call[c] EXCEPT !.at = place]
  <2>2. place \in Places
    BY DEF Places
  <2>3. r \in Call /\ r.at = place /\ call' = [call EXCEPT ![c] = r]
    BY <2>1, <2>2, PlaceTyped DEF Goto, IInv
  <2>4. DataOK'
    BY <1>1, <2>1 DEF IInv, DataOK
  <2>5. CallOK'
    BY <1>1, <2>1, <2>3, TakesLock DEF IInv
  <2>6. QED
    BY <1>1, <2>3, <2>4, <2>5, IdleKeepsInv
<1>4. CASE EnterReload(c)
  <2> DEFINE r == [call[c] EXCEPT !.at = "begin", !.prev = handle.tasks]
  <2>1. r \in Call /\ r.at = "begin"
    <3>1. [call[c] EXCEPT !.at = "begin"] \in Call /\ [call[c] EXCEPT !.at = "begin"].at = "begin"
      BY PlaceTyped DEF IInv, Places
    <3>2. handle.tasks \in SUBSET Gens
      BY DEF IInv, DataOK
    <3>3. ASSUME NEW q \in Call, NEW S \in SUBSET Gens
          PROVE  [q EXCEPT !.prev = S] \in Call /\ [q EXCEPT !.prev = S].at = q.at
      BY DEF Call
    <3>4. QED
      BY <3>1, <3>2, <3>3
  <2>2. call' = [call EXCEPT ![c] = r] /\ lock' = c /\ UNCHANGED answer
    BY <1>4 DEF EnterReload
  <2>3. DataOK'
    BY <1>1, <2>2 DEF IInv, DataOK
  <2>4. CallOK'
    BY <1>1, <2>1, <2>2, TakesLock DEF IInv
  <2>5. QED
    BY <1>1, <2>1, <2>2, <2>3, <2>4, IdleKeepsInv
<1>5. QED
  BY <1>2, <1>3, <1>4 DEF EnterToggle

LEMMA IntentKeepsInv ==
  ASSUME IInv, NEW c \in Callers, Intent(c)
  PROVE  IInv'
<1> c \in Procs
  BY CallersAreProcs
<1>1. /\ UNCHANGED <<phase, entry, policy, late, caps, vm, handle, tasks, status,
                     dispatch, dead>>
      /\ Working(c) /\ call[c].at = "intent"
  BY DEF Intent, memory, Working
<1>2. row' \in [enabled : BOOLEAN, loaded : BOOLEAN]
  BY DEF Intent, IInv, DataOK, Want
<1>3. off' \in BOOLEAN
  BY <1>2 DEF Intent, IInv, DataOK
<1>4. CASE \E place \in {"begin", "retire"} : Goto(c, place) /\ UNCHANGED <<lock, answer, used>>
  <2>1. PICK place \in {"begin", "retire"} : Goto(c, place) /\ UNCHANGED <<lock, answer, used>>
    BY <1>4
  <2> DEFINE r == [call[c] EXCEPT !.at = place]
  <2>2. place \in Places
    BY DEF Places
  <2>3. r \in Call /\ r.at = place /\ call' = [call EXCEPT ![c] = r]
    BY <2>1, <2>2, PlaceTyped DEF Goto, IInv
  <2>4. DataOK'
    BY <1>1, <1>2, <1>3, <2>1 DEF IInv, DataOK
  <2>5. CallOK'
    BY <1>1, <2>1, <2>3, KeepsLock DEF IInv
  <2>6. QED
    BY <1>1, <2>1, <2>3, <2>4, <2>5, IdleKeepsInv, WorkingIsUp
<1>5. CASE DbFails /\ Answer(c, "err")
  <2>1. DataOK' /\ used'["gens"] = used["gens"]
    BY <1>1, <1>2, <1>3, <1>5, AnswerTyped, FaultTyped DEF IInv, DataOK
  <2>2. QED
    BY <1>1, <1>5, <2>1, QuietMemory, AnswerKeepsInv, WorkingIsUp
<1>6. QED
  BY <1>4, <1>5 DEF Intent

\* A dropped operation may leave a write behind and a generation unseen.
LEMMA WaitedTyped ==
  ASSUME DataOK, CallOK, NEW c \in Procs
  PROVE  Waited(c) \subseteq [field : {"enabled", "loaded"}, value : BOOLEAN]
                              \cup [field : {"policy"}, value : Gens \cup {0}]
<1>1. call[c].gen \in Gens \cup {0}
  BY DEF CallOK, Call
<1>2. \A f \in {"enabled", "loaded"}, b \in BOOLEAN :
        Write(f, b) \in [field : {"enabled", "loaded"}, value : BOOLEAN]
  BY DEF Write
<1>3. \A g \in Gens \cup {0} : Write("policy", g) \in [field : {"policy"}, value : Gens \cup {0}]
  BY DEF Write
<1>4. Want(c) \in BOOLEAN
  BY DEF Want
<1>5. \/ Waited(c) = {}
      \/ \E f \in {"enabled", "loaded"}, b \in BOOLEAN : Waited(c) = {Write(f, b)}
      \/ \E g \in Gens \cup {0} : Waited(c) = {Write("policy", g)}
  <2>1. CASE call[c].at = "intent"
    BY <1>4, <2>1 DEF Waited
  <2>2. CASE call[c].at = "policy"
    BY <1>1, <2>2 DEF Waited
  <2>3. CASE call[c].at = "loaded"
    BY <2>3 DEF Waited
  <2>4. CASE call[c].at \in {"fail", "giveup", "unload"}
    BY <2>4 DEF Waited
  <2>5. CASE call[c].at = "erase"
    BY <2>5 DEF Waited
  <2>6. CASE call[c].at \notin {"intent", "policy", "loaded", "fail", "giveup", "unload", "erase"}
    BY <2>6 DEF Waited
  <2>7. QED
    BY <2>1, <2>2, <2>3, <2>4, <2>5, <2>6
<1>6. QED
  BY <1>2, <1>3, <1>5

LEMMA DropKeepsInv ==
  ASSUME IInv, NEW c \in Callers, Drop(c)
  PROVE  IInv'
<1> c \in Procs
  BY CallersAreProcs
<1>1. /\ UNCHANGED <<phase, entry, row, policy, caps, vm, handle, tasks, status, dispatch, off>>
      /\ Answer(c, "none") /\ call[c].at # "idle" /\ phase # "down"
  BY WorkingIsUp DEF Drop, memory
<1>2. /\ used' \in [{"gens", "requests", "starts", "faults", "drops"} -> Nat]
      /\ used'["gens"] = used["gens"]
  BY UseTyped DEF Drop, IInv
<1>3. late' \subseteq [field : {"enabled", "loaded"}, value : BOOLEAN]
                         \cup [field : {"policy"}, value : Gens \cup {0}]
  BY WaitedTyped DEF Drop, IInv, DataOK
<1>4. CASE call[c].at \in Building
  <2>1. dead' = dead \cup {call[c].gen} /\ Working(c)
    BY <1>4 DEF Drop, Working, Building
  <2>2. /\ call[c].gen # 0 /\ call[c].gen \in Gens \cup {0} /\ call[c].gen <= used["gens"]
        /\ call[c].gen \notin {caps, vm, handle.gen} /\ call[c].gen \notin tasks
    BY <1>4 DEF IInv, Progress, Building, CallOK, Call
  <2>3. DataOK'
    BY <1>1, <1>2, <1>3, <2>1, <2>2, AnswerTyped DEF IInv, DataOK
  <2>4. Counted' /\ DeadUnseen' /\ InactiveIsEmpty'
    BY <1>1, <1>2, <2>1, <2>2 DEF IInv, Counted, DeadUnseen, InactiveIsEmpty
  <2>5. QED
    BY <1>1, <2>1, <2>3, <2>4, AnswerKeepsInv
<1>5. CASE call[c].at \notin Building
  <2>1. UNCHANGED dead
    BY <1>5 DEF Drop, Building
  <2>2. DataOK'
    BY <1>1, <1>2, <1>3, <2>1, AnswerTyped DEF IInv, DataOK
  <2>3. CallOK'
    BY <1>1, GivesLockBack DEF IInv
  <2>4. QED
    BY <1>1, <1>2, <2>1, <2>2, <2>3, NoCallTyped, IdleKeepsInv DEF Answer
<1>6. QED
  BY <1>4, <1>5

\* A late write, and the requests to the plugin, leave the memory as it is.
LEMMA LandKeepsInv == IInv /\ Land => IInv'
<1> SUFFICES ASSUME IInv, Land PROVE IInv'
  OBVIOUS
<1>1. PICK w \in late :
        /\ late' = late \ {w}
        /\ row' = [row EXCEPT !.enabled = IF w.field = "enabled" THEN w.value ELSE row.enabled,
                              !.loaded  = IF w.field = "loaded"  THEN w.value ELSE row.loaded]
        /\ policy' = IF w.field = "policy" THEN w.value ELSE policy
  BY DEF Land
<1>2. /\ w.field \in {"enabled", "loaded"} => w.value \in BOOLEAN
      /\ w.field = "policy" => w.value \in Gens \cup {0}
  BY DEF IInv, DataOK
<1>3. row' \in [enabled : BOOLEAN, loaded : BOOLEAN] /\ policy' \in Gens \cup {0}
  BY <1>1, <1>2 DEF IInv, DataOK
<1>4. UNCHANGED <<phase, entry, caps, vm, handle, tasks, status, lock, call, answer,
                  dispatch, used, dead, off>>
  BY DEF Land, memory
<1>5. DataOK'
  BY <1>1, <1>3, <1>4 DEF IInv, DataOK
<1>6. QED
  BY <1>4, <1>5, StillKeepsInv

LEMMA DispatchKeepsInv ==
  ASSUME IInv, NEW d \in Dispatches, Match(d) \/ Guard(d) \/ Respond(d)
  PROVE  IInv'
<1>1. UNCHANGED <<phase, entry, row, policy, late, caps, vm, handle, tasks, status, lock,
                  call, answer, dead, off>>
  BY DEF Match, Guard, Respond, database, memory
<1>2. /\ used' \in [{"gens", "requests", "starts", "faults", "drops"} -> Nat]
      /\ used'["gens"] = used["gens"]
  BY FaultTyped DEF Match, Guard, Respond, IInv, DataOK
<1> DEFINE D == [at : {"idle", "guard", "run"}, gen : Gens \cup {0}]
<1>3. \E r \in D : dispatch' = [dispatch EXCEPT ![d] = r]
  <2>1. NoDispatch \in D
    BY DEF NoDispatch
  <2>2. dispatch[d] \in D /\ caps \in Gens \cup {0}
    BY DEF IInv, DataOK
  <2>3. [at |-> "guard", gen |-> caps] \in D
    BY <2>2
  <2>4. [dispatch[d] EXCEPT !.at = "run"] \in D
    BY <2>2
  <2>5. QED
    BY <2>1, <2>3, <2>4 DEF Match, Guard, Respond
<1>4. dispatch' \in [Dispatches -> D]
  BY <1>3 DEF IInv, DataOK
<1>5. DataOK'
  BY <1>1, <1>2, <1>4 DEF IInv, DataOK
<1>6. QED
  BY <1>1, <1>2, <1>5, StillKeepsInv

\* The three branches of a start.
LEMMA BootKeepsInv == IInv /\ (StartActivating \/ StartSkipping \/ StartUnread) => IInv'
<1> SUFFICES ASSUME IInv, StartActivating \/ StartSkipping \/ StartUnread PROVE IInv'
  OBVIOUS
<1> DEFINE U == [{"gens", "requests", "starts", "faults", "drops"} -> Nat]
           R == [enabled : BOOLEAN, loaded : BOOLEAN]
           booted == [NoCall EXCEPT !.at = "begin", !.kind = "boot"]
<1>1. \A e \in Entry : Registered(e) \in R /\ [Registered(e) EXCEPT !.loaded = FALSE] \in R
  BY DEF IInv, DataOK, Registered, Entry
<1>2. [used EXCEPT !.starts = used["starts"] + 1] \in U
        /\ [used EXCEPT !.starts = used["starts"] + 1, !.faults = used["faults"] + 1] \in U
  <2>1. \A u \in U, n \in Nat : [u EXCEPT !.starts = n] \in U /\ [u EXCEPT !.faults = n] \in U
    OBVIOUS
  <2>2. used \in U /\ used["starts"] + 1 \in Nat /\ used["faults"] + 1 \in Nat
    BY DEF IInv, DataOK
  <2>3. [used EXCEPT !.starts = used["starts"] + 1] \in U
    BY <2>1, <2>2
  <2>4. [used EXCEPT !.starts = used["starts"] + 1, !.faults = used["faults"] + 1]
          = [[used EXCEPT !.starts = used["starts"] + 1] EXCEPT !.faults = used["faults"] + 1]
    OBVIOUS
  <2>5. QED
    BY <2>1, <2>2, <2>3, <2>4
<1>3. /\ [used EXCEPT !.starts = used["starts"] + 1]["gens"] = used["gens"]
      /\ [used EXCEPT !.starts = used["starts"] + 1, !.faults = used["faults"] + 1]["gens"]
           = used["gens"]
  BY DEF IInv, DataOK
<1>4. booted \in Call /\ booted.at = "begin"
  BY DEF NoCall, Call, Places
<1>5. \A s \in {"resolved", "failed", "inactive"}, b \in BOOLEAN :
        Status(s, b) \in [state : States, error : BOOLEAN]
  BY StatusTyped DEF States
<1>6. CASE StartActivating
  <2>1. PICK e \in Entry :
          /\ Boot(e) /\ row' = Registered(e)
          /\ used' = [used EXCEPT !.starts = used["starts"] + 1]
          /\ phase' = "boot" /\ status' = Status("resolved", FALSE)
          /\ lock' = Booter /\ call' = [call EXCEPT ![Booter] = booted]
    BY <1>6 DEF StartActivating
  <2>2. QED
    BY <1>1, <1>2, <1>3, <1>4, <1>5, <2>1, StartKeepsInv
<1>7. CASE StartSkipping
  <2>1. PICK e \in Entry :
          /\ Boot(e) /\ row' \in R /\ used' \in U /\ used'["gens"] = used["gens"]
          /\ phase' = "serving"
          /\ status' = Status("failed", TRUE) \/ status' = Status("inactive", FALSE)
          /\ UNCHANGED <<lock, call>>
    BY <1>1, <1>2, <1>3, <1>7 DEF StartSkipping
  <2>2. QED
    BY <1>4, <1>5, <2>1, StartKeepsInv
<1>8. CASE StartUnread
  <2>1. PICK e \in Entry :
          /\ Boot(e) /\ row' \in R /\ used' \in U /\ used'["gens"] = used["gens"]
          /\ phase' = "serving" /\ status' = Status("failed", TRUE)
          /\ UNCHANGED <<lock, call>>
    BY <1>1, <1>2, <1>3, <1>8 DEF StartUnread
  <2>2. QED
    BY <1>4, <1>5, <2>1, StartKeepsInv
<1>9. QED
  BY <1>6, <1>7, <1>8

LEMMA ActivationKeepsInv ==
  ASSUME IInv, NEW c \in Procs, Activation(c)
  PROVE  IInv'
<1>1. CASE BeginUnapproved(c) \/ BeginWithoutVm(c)
  <2>1. Working(c) /\ EndBegin(c)
    BY <1>1 DEF BeginUnapproved, BeginWithoutVm, Working
  <2>2. status' = Status("failed", TRUE) \/ status' = Status("activating", FALSE)
    BY <1>1 DEF BeginUnapproved, BeginWithoutVm
  <2>3. QED
    BY <2>1, <2>2, EndBeginKeepsInv
<1>2. QED
  BY <1>1, BeginKeepsInv, PrepareKeepsInv, BindKeepsInv, PublishKeepsInv, SettleKeepsInv,
     CancelPreviousKeepsInv, FailKeepsInv DEF Activation

LEMMA StepKeepsInv == IInv /\ [Next]_vars => IInv'
<1> SUFFICES ASSUME IInv, [Next]_vars PROVE IInv'
  OBVIOUS
<1>1. ASSUME NEW c \in Callers,
             Request(c) \/ EnterToggle(c) \/ EnterReload(c) \/ Step(c) \/ Drop(c)
      PROVE  IInv'
  BY <1>1, CallersAreProcs, RequestKeepsInv, EnterKeepsInv, IntentKeepsInv,
     ActivationKeepsInv, DeactivationKeepsInv, DropKeepsInv DEF Step
<1>2. CASE Activation(Booter)
  BY <1>2, CallersAreProcs, ActivationKeepsInv
<1>3. CASE Refuse \/ Crash
  BY <1>3, DieKeepsInv DEF Refuse, Crash
<1>4. CASE UNCHANGED vars
  <2>1. UNCHANGED <<phase, entry, row, policy, late, caps, vm, handle, tasks, status, lock,
                    call, answer, dispatch, used, dead, off>>
    BY <1>4 DEF vars, database, memory
  <2>2. DataOK'
    BY <2>1 DEF IInv, DataOK
  <2>3. QED
    BY <2>1, <2>2, StillKeepsInv
<1>5. QED
  BY <1>1, <1>2, <1>3, <1>4, BootKeepsInv, LandKeepsInv, DispatchKeepsInv DEF Next

-------------------------------------------------------------------------------
\* The host's state is well typed and the lifecycle lock has one holder (TypeOK),
\* whatever is dropped, fails or crashes.
THEOREM TypeCorrect == Spec => []TypeOK
<1>1. IInv => TypeOK
  BY TypeSplit DEF IInv
<1>2. QED
  BY <1>1, InitInv, StepKeepsInv, PTL DEF Spec

\* A plugin shown as inactive has nothing left in the host (InactiveIsEmpty):
\* deactivate_locked sets the status last, and no drop or failure skips a step
\* before it.
THEOREM InactiveHoldsNothing == Spec => []InactiveIsEmpty
<1>1. IInv => InactiveIsEmpty
  BY DEF IInv
<1>2. QED
  BY <1>1, InitInv, StepKeepsInv, PTL DEF Spec

-------------------------------------------------------------------------------
(***************************************************************************)
(* What holds when no operation has been dropped (WholeInv) and when also  *)
(* no database call has failed (CalmInv).  Both rest on the roles of the   *)
(* operations (Roles) and on the invariant above.                          *)
(***************************************************************************)

ActivationPlaces == {"begin", "prepare", "policy", "publish", "loaded", "fail",
                     "giveup"}
DeactivationPlaces == {"retire", "remove", "stop", "erase", "unload"}

\* The kind of an operation decides its places.
Role(c) ==
  /\ call[c].kind # "reload" => call[c].prev = {}
  /\ call[c].at \in {"intent", "giveup"} => call[c].kind # "reload"
  /\ call[c].at \in ActivationPlaces => call[c].kind # "disable"
  /\ call[c].at \in DeactivationPlaces => call[c].kind = "disable"
  /\ call[c].at = "previous" => call[c].kind = "reload"

\* Only bootstrap activates before the host serves, and it does nothing else.
Roles ==
  /\ phase = "boot" <=> lock = Booter
  /\ call[Booter].at \in {"idle"} \cup ActivationPlaces
  /\ call[Booter].at # "idle" => call[Booter].kind = "boot"
  /\ \A c \in Callers : call[c].at # "idle" => phase = "serving" /\ call[c].kind \in Kinds
  /\ \A c \in Procs : Role(c)

-------------------------------------------------------------------------------
\* Beside an operation that has the lock or takes it, all others wait.
LEMMA OthersWait ==
  ASSUME CallOK, NEW c \in Procs, lock \in {c, NoCaller}, NEW r, call' = [call EXCEPT ![c] = r]
  PROVE  /\ call'[c] = r
         /\ \A d \in Procs : d # c => call'[d] = call[d] /\ call'[d].at \in {"idle", "lock"}
BY CallersAreProcs DEF CallOK

\* An operation at work holds the lifecycle lock.
LEMMA WorkingHoldsLock ==
  ASSUME CallOK, NEW c \in Procs, Working(c)
  PROVE  lock = c
BY DEF CallOK, Working

LEMMA InitRoles == Init => Roles
<1> SUFFICES ASSUME Init PROVE Roles
  OBVIOUS
<1>1. \A c \in Procs : call[c] = NoCall
  BY DEF Init
<1>2. lock = NoCaller /\ phase = "down"
  BY DEF Init
<1>3. QED
  BY <1>1, <1>2, CallersAreProcs DEF Roles, Role, NoCall, ActivationPlaces, DeactivationPlaces

\* The obligations of an operation at work, or entering, that moves to r.
LEMMA MoveKeepsRoles ==
  ASSUME IInv, Roles, NEW c \in Procs, lock \in {c, NoCaller}, lock' = c,
         NEW r, call' = [call EXCEPT ![c] = r], phase' = phase,
         call[c].at # "idle",
         r.kind = call[c].kind, r.at # "idle",
         c = Booter => lock = Booter /\ r.at \in ActivationPlaces,
         Role(c)'
  PROVE  Roles'
<1>1. /\ call'[c] = r
      /\ \A d \in Procs : d # c => call'[d] = call[d]
  BY OthersWait DEF IInv
<1>2. phase = "boot" <=> lock' = Booter
  BY CallersAreProcs, CallersAssumption DEF Roles, Procs, IInv, CallOK
<1>3. \A d \in Procs : Role(d)'
  BY <1>1 DEF Roles, Role
<1>4. /\ call'[Booter].at \in {"idle"} \cup ActivationPlaces
      /\ call'[Booter].at # "idle" => call'[Booter].kind = "boot"
  BY <1>1, CallersAreProcs DEF Roles
<1>5. \A d \in Callers : call'[d].at # "idle" => phase' = "serving" /\ call'[d].kind \in Kinds
  BY <1>1, CallersAreProcs DEF Roles
<1>6. QED
  BY <1>2, <1>3, <1>4, <1>5 DEF Roles

\* The obligations of an operation that returns.
LEMMA AnswerKeepsRoles ==
  ASSUME IInv, Roles, NEW c \in Procs, call[c].at # "idle", lock \in {c, NoCaller},
         NEW a, Answer(c, a), phase' \in {phase, "serving"},
         c = Booter => phase' = "serving",
         c # Booter => phase' = phase
  PROVE  Roles'
<1>1. call'[c] = NoCall /\ (\A d \in Procs : d # c => call'[d] = call[d])
  BY OthersWait DEF Answer, IInv
<1>2. lock' = NoCaller
  BY DEF Answer
<1>3. phase' # "boot"
  BY CallersAreProcs, CallersAssumption DEF Roles, Procs
<1>4. \A d \in Procs : Role(d)'
  BY <1>1 DEF Roles, Role, NoCall, ActivationPlaces, DeactivationPlaces
<1>5. /\ call'[Booter].at \in {"idle"} \cup ActivationPlaces
      /\ call'[Booter].at # "idle" => call'[Booter].kind = "boot"
  BY <1>1, CallersAreProcs, NoCallTyped DEF Roles
<1>6. \A d \in Callers : call'[d].at # "idle" => phase' = "serving" /\ call'[d].kind \in Kinds
  BY <1>1, CallersAreProcs, NoCallTyped DEF Roles
<1>7. QED
  BY <1>2, <1>3, <1>4, <1>5, <1>6, CallersAreProcs DEF Roles

\* What a step of an operation at work does to its place, kind and lock.
LEMMA EntryKeepsRoles ==
  ASSUME IInv, Roles, NEW c \in Callers,
         Request(c) \/ EnterToggle(c) \/ EnterReload(c) \/ Intent(c) \/ Drop(c)
  PROVE  Roles'
<1> c \in Procs /\ c # Booter
  BY CallersAreProcs, CallersAssumption
<1>0. call[c] \in Call /\ Role(c) /\ (call[c].at # "idle" => call[c].kind \in Kinds)
  BY DEF IInv, CallOK, Roles
<1>1. CASE Request(c)
  <2>1. PICK k \in Kinds : call' = [call EXCEPT ![c] = [NoCall EXCEPT !.at = "lock", !.kind = k]]
    BY <1>1 DEF Request
  <2> DEFINE r == [NoCall EXCEPT !.at = "lock", !.kind = k]
  <2>2. r.at = "lock" /\ r.kind = k /\ r.prev = {}
    BY DEF NoCall
  <2>3. call'[c] = r /\ \A d \in Procs : d # c => call'[d] = call[d]
    BY <2>1 DEF IInv, CallOK
  <2>4. phase = "serving" /\ UNCHANGED <<phase, lock>>
    BY <1>1 DEF Request
  <2> HIDE DEF r
  <2>5. \A d \in Procs : Role(d)'
    BY <2>2, <2>3 DEF Roles, Role, ActivationPlaces, DeactivationPlaces
  <2>6. QED
    BY <2>2, <2>3, <2>4, <2>5, CallersAreProcs DEF Roles
<1>2. CASE EnterToggle(c) \/ EnterReload(c)
  <2>1. lock = NoCaller /\ call[c].at = "lock" /\ UNCHANGED phase
    BY <1>2 DEF EnterToggle, EnterReload
  <2>2. CASE \E a \in {"ok", "err"} : Answer(c, a)
    BY <2>1, <2>2, AnswerKeepsRoles
  <2>3. CASE /\ call[c].kind # "reload" /\ lock' = c
             /\ Goto(c, IF row.enabled # Want(c) THEN "intent"
                        ELSE IF Want(c) THEN "begin" ELSE "retire")
    <3>0. PICK place : /\ place = IF row.enabled # Want(c) THEN "intent"
                                  ELSE IF Want(c) THEN "begin" ELSE "retire"
                       /\ Goto(c, place)
      BY <2>3
    <3> DEFINE r == [call[c] EXCEPT !.at = place]
    <3>1. call' = [call EXCEPT ![c] = r] /\ r.at = place /\ r.kind = call[c].kind
            /\ r.prev = call[c].prev
      BY <1>0, <3>0 DEF Goto, Call
    <3>2. call'[c] = r
      BY <3>1, <2>1, OthersWait DEF IInv
    <3>3. call[c].kind \in {"enable", "disable"}
      BY <1>0, <2>1, <2>3, KindsAssumption
    <3>4. Role(c)'
      BY <1>0, <3>0, <3>1, <3>2, <3>3 DEF Role, ActivationPlaces, DeactivationPlaces, Want
    <3> HIDE DEF r
    <3>5. r.at # "idle" /\ call[c].at # "idle" /\ lock \in {c, NoCaller} /\ lock' = c
      BY <2>1, <2>3, <3>0, <3>1
    <3>6. QED
      BY <2>1, <3>1, <3>4, <3>5, MoveKeepsRoles
  <2>4. CASE EnterReload(c)
    <3> DEFINE r == [call[c] EXCEPT !.at = "begin", !.prev = handle.tasks]
    <3>1. /\ call' = [call EXCEPT ![c] = r] /\ lock' = c
          /\ r.at = "begin" /\ r.kind = "reload" /\ call[c].kind = "reload"
      BY <1>0, <2>4 DEF EnterReload, Call
    <3>2. call'[c] = r
      BY <3>1, <2>1, OthersWait DEF IInv
    <3>3. Role(c)'
      BY <3>1, <3>2 DEF Role, ActivationPlaces, DeactivationPlaces
    <3>4. QED
      BY <2>1, <3>1, <3>3, MoveKeepsRoles
  <2>5. QED
    BY <1>2, <2>2, <2>3, <2>4 DEF EnterToggle
<1>3. CASE Intent(c)
  <2>1. call[c].at = "intent" /\ UNCHANGED phase /\ lock = c
    BY <1>3, WorkingHoldsLock DEF Intent, Working, IInv
  <2>2. CASE Answer(c, "err")
    BY <2>1, <2>2, AnswerKeepsRoles
  <2>3. CASE Goto(c, IF Want(c) THEN "begin" ELSE "retire") /\ UNCHANGED lock
    <3>0. PICK place : place = (IF Want(c) THEN "begin" ELSE "retire") /\ Goto(c, place)
      BY <2>3
    <3> DEFINE r == [call[c] EXCEPT !.at = place]
    <3>1. call' = [call EXCEPT ![c] = r] /\ r.at = place /\ r.kind = call[c].kind
            /\ r.prev = call[c].prev
      BY <1>0, <3>0 DEF Goto, Call
    <3>2. call'[c] = r
      BY <3>1, <2>1, OthersWait DEF IInv
    <3>3. call[c].kind \in {"enable", "disable"}
      BY <1>0, <2>1, KindsAssumption DEF Role
    <3>4. Role(c)'
      BY <1>0, <3>0, <3>1, <3>2, <3>3 DEF Role, ActivationPlaces, DeactivationPlaces, Want
    <3> HIDE DEF r
    <3>5. r.at # "idle" /\ call[c].at # "idle" /\ lock \in {c, NoCaller} /\ lock' = c
      BY <2>1, <2>3, <3>0, <3>1
    <3>6. QED
      BY <2>1, <3>1, <3>4, <3>5, MoveKeepsRoles
  <2>4. QED
    BY <1>3, <2>2, <2>3 DEF Intent
<1>4. CASE Drop(c)
  <2>1. Answer(c, "none") /\ call[c].at # "idle" /\ UNCHANGED phase
    BY <1>4 DEF Drop
  <2>2. CASE Working(c)
    BY <2>1, <2>2, WorkingHoldsLock, AnswerKeepsRoles DEF IInv
  <2>3. CASE call[c].at = "lock"
    <3>1. lock # c /\ lock' = lock
      BY <2>1, <2>3 DEF Answer, IInv, CallOK
    <3>2. call'[c] = NoCall /\ \A d \in Procs : d # c => call'[d] = call[d]
      BY <2>1 DEF Answer, IInv, CallOK
    <3>3. \A d \in Procs : Role(d)'
      BY <3>2 DEF Roles, Role, NoCall, ActivationPlaces, DeactivationPlaces
    <3>4. QED
      BY <2>1, <3>1, <3>2, <3>3, CallersAreProcs, NoCallTyped DEF Roles
  <2>4. QED
    BY <2>1, <2>2, <2>3 DEF Working
<1>5. QED
  BY <1>1, <1>2, <1>3, <1>4

\* Moving to another place changes nothing else of the operation.
LEMMA GotoMoves ==
  ASSUME CallOK, NEW c \in Procs, NEW place \in Places, Goto(c, place)
  PROVE  \E r \in Call : /\ call' = [call EXCEPT ![c] = r] /\ call'[c] = r
                         /\ r.at = place /\ r.kind = call[c].kind /\ r.prev = call[c].prev
                         /\ r.gen = call[c].gen
<1> DEFINE r == [call[c] EXCEPT !.at = place]
<1>1. r \in Call /\ r.at = place /\ r.kind = call[c].kind /\ r.prev = call[c].prev
        /\ r.gen = call[c].gen
  BY DEF CallOK, Call
<1>2. call' = [call EXCEPT ![c] = r] /\ call'[c] = r
  BY DEF Goto, CallOK
<1>3. QED
  BY <1>1, <1>2

\* Operation c goes from one place to another and is otherwise the same.
Moves(c, from, to) ==
  /\ call[c].at = from /\ UNCHANGED lock
  /\ \E r \in Call : /\ call' = [call EXCEPT ![c] = r] /\ call'[c] = r
                     /\ r.at = to /\ r.kind = call[c].kind /\ r.prev = call[c].prev

\* An operation at work answers, or moves on inside the activation or the
\* deactivation it is in.
LEMMA StepKeepsRoles ==
  ASSUME IInv, Roles, NEW c \in Procs, Activation(c) \/ Deactivation(c)
  PROVE  Roles'
<1>0. Role(c) /\ CallOK /\ (c = Booter => call[c].at \in {"idle"} \cup ActivationPlaces)
        /\ (c = Booter => call[c].at = "idle" \/ call[c].kind = "boot")
  BY DEF IInv, Roles
<1>1. CASE \E a \in {"ok", "err"} : Answer(c, a) /\ Working(c)
             /\ phase' \in {phase, "serving"} /\ (c = Booter => phase' = "serving")
  <2>1. PICK a : Answer(c, a)
    BY <1>1
  <2>2. lock = c
    BY <1>0, <1>1, WorkingHoldsLock
  <2>3. c # Booter => c \in Callers
    BY DEF Procs
  <2>4. c # Booter => phase' = phase
    BY <1>1, <2>3 DEF Roles, Working
  <2>5. QED
    BY <1>1, <2>1, <2>2, <2>4, AnswerKeepsRoles DEF Working
<1>2. ASSUME NEW from, NEW to, Moves(c, from, to), UNCHANGED phase,
             \/ from \in ActivationPlaces /\ to \in ActivationPlaces
             \/ from \in DeactivationPlaces /\ to \in DeactivationPlaces
             \/ from = "loaded" /\ to = "previous" /\ call[c].kind = "reload",
             to = "giveup" => call[c].kind # "reload"
      PROVE  Roles'
  <2>1. PICK r \in Call : /\ call' = [call EXCEPT ![c] = r] /\ call'[c] = r
                          /\ r.at = to /\ r.kind = call[c].kind /\ r.prev = call[c].prev
    BY <1>2 DEF Moves
  <2>2. from \notin {"idle", "lock"} /\ to \notin {"idle", "lock"} /\ call[c].at = from
    BY <1>2 DEF Moves, ActivationPlaces, DeactivationPlaces
  <2>3. lock = c /\ lock' = c
    BY <1>0, <1>2, <2>2, WorkingHoldsLock DEF Moves, Working
  <2>4. c = Booter => to \in ActivationPlaces
    BY <1>0, <1>2, <2>2 DEF ActivationPlaces, DeactivationPlaces
  <2>5. Role(c)'
    BY <1>0, <1>2, <2>1, <2>2 DEF Role, ActivationPlaces, DeactivationPlaces
  <2>6. QED
    BY <1>2, <2>1, <2>2, <2>3, <2>4, <2>5, MoveKeepsRoles
<1>3. ASSUME NEW from, NEW to \in Places, call[c].at = from, Goto(c, to), UNCHANGED lock
      PROVE  Moves(c, from, to)
  BY <1>0, <1>3, GotoMoves DEF Moves
<1>4. CASE Begin(c)
  <2> DEFINE r == [call[c] EXCEPT !.at = "prepare", !.gen = used'["gens"]]
  <2>1. Moves(c, "begin", "prepare") /\ UNCHANGED phase
    <3>1. used'["gens"] \in Gens \cup {0}
      <4>1. used["gens"] \in Nat /\ used["gens"] < MaxGens /\ used'["gens"] = used["gens"] + 1
        BY <1>4, UseTyped DEF Begin, IInv, DataOK
      <4>2. QED
        BY <4>1, GensAreCounted DEF Gens
    <3>2. r \in Call /\ r.at = "prepare" /\ r.kind = call[c].kind /\ r.prev = call[c].prev
      BY <1>0, <3>1 DEF CallOK, Call, Places
    <3>3. call' = [call EXCEPT ![c] = r] /\ call'[c] = r
      BY <1>0, <1>4 DEF Begin, CallOK
    <3>4. QED
      BY <1>4, <3>2, <3>3 DEF Begin, Moves
  <2>2. QED
    BY <1>2, <2>1 DEF ActivationPlaces
<1>5. CASE BeginUnapproved(c) \/ BeginWithoutVm(c)
  <2>1. call[c].at = "begin" /\ EndBegin(c) /\ UNCHANGED phase /\ Working(c)
    BY <1>5 DEF BeginUnapproved, BeginWithoutVm, EndBegin, Working
  <2>2. CASE call[c].kind = "reload" /\ Answer(c, "err")
    BY <1>0, <1>1, <2>1, <2>2
  <2>3. CASE call[c].kind # "reload" /\ Goto(c, "giveup") /\ UNCHANGED lock
    <3>1. Moves(c, "begin", "giveup")
      BY <1>3, <2>1, <2>3 DEF Places
    <3>2. QED
      BY <1>2, <2>1, <2>3, <3>1 DEF ActivationPlaces
  <2>4. QED
    BY <2>1, <2>2, <2>3 DEF EndBegin
<1>6. CASE Prepare(c) \/ PrepareFails(c) \/ Bind(c) \/ Publish(c)
  <2>1. PICK from \in Building, to \in {"policy", "fail", "publish", "loaded"} :
          call[c].at = from /\ Goto(c, to) /\ UNCHANGED <<lock, phase>>
    BY <1>6 DEF Prepare, PrepareFails, Bind, Publish, Building
  <2>2. Moves(c, from, to)
    BY <1>3, <2>1 DEF Places
  <2>3. QED
    BY <1>2, <2>1, <2>2 DEF ActivationPlaces, Building
<1>7. CASE Settle(c)
  <2>1. CASE call[c].kind = "reload" /\ Goto(c, "previous") /\ UNCHANGED <<phase, lock>>
    <3>1. Moves(c, "loaded", "previous")
      BY <1>3, <1>7, <2>1 DEF Places, Settle
    <3>2. QED
      BY <1>2, <2>1, <3>1
  <2>2. CASE phase' = "serving" /\ Answer(c, "ok")
    BY <1>1, <1>7, <2>2 DEF Settle, Working
  <2>3. QED
    BY <1>7, <2>1, <2>2 DEF Settle
<1>8. CASE CancelPrevious(c)
  <2>1. c # Booter /\ Working(c)
    BY <1>0, <1>8 DEF CancelPrevious, ActivationPlaces, Working
  <2>2. QED
    BY <1>1, <1>8, <2>1 DEF CancelPrevious
<1>9. CASE Fail(c)
  <2>1. CASE call[c].kind = "reload" /\ Answer(c, "err")
    BY <1>0, <1>1, <1>9, <2>1 DEF Fail, Working
  <2>2. CASE call[c].kind # "reload" /\ Goto(c, "giveup") /\ UNCHANGED lock
    <3>1. Moves(c, "fail", "giveup")
      BY <1>3, <1>9, <2>2 DEF Places, Fail
    <3>2. QED
      BY <1>2, <1>9, <2>2, <3>1 DEF ActivationPlaces, Fail
  <2>3. QED
    BY <1>9, <2>1, <2>2 DEF Fail
<1>10. CASE GiveUp(c)
  BY <1>1, <1>10 DEF GiveUp, Working
<1>11. CASE Retire(c) \/ RemoveCapabilities(c) \/ StopTasks(c)
  <2>1. PICK from \in {"retire", "remove", "stop"}, to \in {"remove", "stop", "erase"} :
          call[c].at = from /\ Goto(c, to) /\ UNCHANGED <<lock, phase>>
    BY <1>11 DEF Retire, RemoveCapabilities, StopTasks
  <2>2. Moves(c, from, to)
    BY <1>3, <2>1 DEF Places
  <2>3. QED
    BY <1>2, <2>1, <2>2 DEF DeactivationPlaces
<1>12. CASE Erase(c)
  <2>1. CASE Goto(c, "unload")
    BY <1>2, <1>3, <1>12, <2>1 DEF Places, DeactivationPlaces, Erase
  <2>2. CASE call' = [call EXCEPT ![c] = [call[c] EXCEPT !.at = "unload", !.error = TRUE]]
    <3> DEFINE r == [call[c] EXCEPT !.at = "unload", !.error = TRUE]
    <3>1. r \in Call /\ r.at = "unload" /\ r.kind = call[c].kind /\ r.prev = call[c].prev
      BY <1>0 DEF CallOK, Call, Places
    <3>2. call' = [call EXCEPT ![c] = r] /\ call'[c] = r
      BY <1>0, <2>2 DEF CallOK
    <3>3. Moves(c, "erase", "unload")
      BY <1>12, <3>1, <3>2 DEF Erase, Moves
    <3>4. QED
      BY <1>2, <1>12, <3>3 DEF Erase, DeactivationPlaces
  <2>3. QED
    BY <1>12, <2>1, <2>2 DEF Erase
<1>13. CASE Unload(c)
  <2>1. c # Booter /\ Working(c) /\ UNCHANGED phase
    BY <1>0, <1>13 DEF Unload, ActivationPlaces, Working
  <2>2. Answer(c, "err") \/ Answer(c, "ok")
    BY <1>13 DEF Unload
  <2>3. QED
    BY <1>1, <2>1, <2>2
<1>14. QED
  BY <1>4, <1>5, <1>6, <1>7, <1>8, <1>9, <1>10, <1>11, <1>12, <1>13 DEF Activation, Deactivation

\* Every step keeps the roles.
LEMMA NextKeepsRoles == IInv /\ Roles /\ [Next]_vars => Roles'
<1> SUFFICES ASSUME IInv, Roles, [Next]_vars PROVE Roles'
  OBVIOUS
<1>1. ASSUME NEW c \in Callers, Request(c) \/ EnterToggle(c) \/ EnterReload(c) \/ Step(c) \/ Drop(c)
      PROVE  Roles'
  BY <1>1, CallersAreProcs, EntryKeepsRoles, StepKeepsRoles DEF Step
<1>2. CASE Activation(Booter)
  BY <1>2, CallersAreProcs, StepKeepsRoles
<1>3. CASE Refuse \/ Crash
  <2>1. Die
    BY <1>3 DEF Refuse, Crash
  <2>2. (\A c \in Procs : call'[c] = NoCall) /\ phase' = "down" /\ lock' = NoCaller
    BY <2>1 DEF Die
  <2>3. QED
    BY <2>2, CallersAreProcs DEF Roles, Role, NoCall, ActivationPlaces, DeactivationPlaces
<1>4. CASE StartActivating
  <2> DEFINE booted == [NoCall EXCEPT !.at = "begin", !.kind = "boot"]
  <2>1. /\ \A c \in Procs : call[c] = NoCall
        /\ phase' = "boot" /\ lock' = Booter /\ call' = [call EXCEPT ![Booter] = booted]
    BY <1>4 DEF StartActivating, Boot, IInv, DownIsEmpty
  <2>2. booted.at = "begin" /\ booted.kind = "boot" /\ booted.prev = {}
    BY DEF NoCall
  <2>3. call'[Booter] = booted /\ \A c \in Procs : c # Booter => call'[c] = NoCall
    BY <2>1, CallersAreProcs DEF IInv, CallOK
  <2> HIDE DEF booted
  <2>4. \A c \in Procs : Role(c)'
    BY <2>2, <2>3 DEF Role, NoCall, ActivationPlaces, DeactivationPlaces
  <2>5. QED
    BY <2>1, <2>2, <2>3, <2>4, CallersAreProcs, CallersAssumption, NoCallTyped
    DEF Roles, ActivationPlaces
<1>5. CASE StartSkipping \/ StartUnread
  <2>1. /\ \A c \in Procs : call[c] = NoCall /\ lock = NoCaller
        /\ phase' = "serving" /\ UNCHANGED <<lock, call>>
    BY <1>5 DEF StartSkipping, StartUnread, Boot, IInv, DownIsEmpty
  <2>2. QED
    BY <2>1, CallersAreProcs, NoCallTyped DEF Roles, Role
<1>6. CASE Land \/ (\E d \in Dispatches : Match(d) \/ Guard(d) \/ Respond(d)) \/ UNCHANGED vars
  <2>1. UNCHANGED <<phase, lock, call>>
    BY <1>6 DEF Land, Match, Guard, Respond, vars
  <2>2. QED
    BY <2>1 DEF Roles, Role
<1>7. QED
  BY <1>1, <1>2, <1>3, <1>4, <1>5, <1>6 DEF Next

-------------------------------------------------------------------------------
\* The memory is of one generation; and so are the stored bindings.
Even == caps = vm /\ vm = handle.gen /\ tasks = handle.tasks /\ (vm # 0 => vm \in tasks)
Settled == Even /\ (caps # 0 => policy = caps)

\* What is in memory at each place of an operation, when nothing has been dropped.
Whole(c) ==
  /\ call[c].at \in {"intent", "begin", "prepare", "policy", "fail", "giveup", "retire",
                     "remove"} => Settled
  /\ call[c].at = "publish" => Even /\ policy = call[c].gen
  /\ call[c].at \in {"begin"} \cup Building \cup {"loaded"} /\ call[c].kind = "reload" =>
       call[c].prev = handle.tasks
  /\ call[c].at = "loaded" =>
       /\ policy = caps
       /\ caps = call[c].gen /\ vm = call[c].gen
       /\ tasks = handle.tasks /\ call[c].gen \notin tasks
  /\ call[c].at = "previous" =>
       /\ policy = caps
       /\ caps = vm /\ vm = handle.gen /\ vm \in handle.tasks
       /\ handle.tasks = tasks \ call[c].prev
  /\ call[c].at \in DeactivationPlaces => ~row.enabled

\* What needs no operation to be said.
Steady ==
  /\ late = {}
  /\ off => phase # "down" /\ ~row.enabled
  /\ lock = NoCaller => Settled

WholeInv == Undropped => Steady /\ \A c \in Procs : Whole(c)

LEMMA InitWhole == Init => WholeInv
<1> SUFFICES ASSUME Init PROVE WholeInv
  OBVIOUS
<1>1. \A c \in Procs : call[c].at = "idle"
  BY NoCallTyped DEF Init
<1>2. QED
  BY <1>1 DEF Init, WholeInv, Steady, Settled, Even, Whole, Building, NoHandle, DeactivationPlaces

\* Only a drop counts as one.
LEMMA UseKeepsDrops ==
  ASSUME DataOK, NEW b \in {"gens", "requests", "starts", "faults"}, NEW max, Use(b, max)
  PROVE  used'.drops = used.drops
BY DEF DataOK, Use

LEMMA FaultKeepsDrops == DataOK /\ DbFails => used'.drops = used.drops
BY UseKeepsDrops DEF DbFails

\* Writing the loaded flag drops nothing and leaves the intent alone.
LEMMA MarkKeeps ==
  ASSUME DataOK, NEW loaded \in BOOLEAN, MarkLoaded(loaded)
  PROVE  used'.drops = used.drops /\ row'.enabled = row.enabled
BY FaultKeepsDrops DEF MarkLoaded, DataOK

\* The obligations of a step that moves one operation: the others only wait.
LEMMA OneKeepsWhole ==
  ASSUME CallOK, NEW c \in Procs, lock \in {c, NoCaller}, NEW r, call' = [call EXCEPT ![c] = r],
         Undropped' => Steady' /\ Whole(c)'
  PROVE  WholeInv'
<1>1. \A d \in Procs : d # c => Whole(d)'
  BY OthersWait DEF Whole, Building, DeactivationPlaces
<1>2. QED
  BY <1>1 DEF WholeInv

\* The obligations of an operation that returns.
LEMMA AnswerKeepsWhole ==
  ASSUME CallOK, NEW c \in Procs, lock \in {c, NoCaller}, NEW a, Answer(c, a),
         Undropped' => Steady'
  PROVE  WholeInv'
<1>1. call' = [call EXCEPT ![c] = NoCall] /\ call'[c] = NoCall
  BY DEF Answer, CallOK
<1>2. Whole(c)'
  BY <1>1, NoCallTyped DEF Whole, Building, DeactivationPlaces
<1>3. QED
  BY <1>1, <1>2, OneKeepsWhole

\* What the invariants say of one operation.
LEMMA WholeFacts ==
  ASSUME IInv, Roles, WholeInv, Undropped, NEW c \in Procs
  PROVE  Steady /\ Whole(c) /\ Progress(c) /\ Role(c) /\ call[c] \in Call
BY DEF WholeInv, IInv, CallOK, Roles

\* An operation that leaves the memory alone, on its way to a new generation, in
\* its failure or before a deactivation.
LEMMA StillKeepsWhole ==
  ASSUME IInv, Roles, WholeInv, NEW c \in Procs,
         call[c].at \in {"begin", "prepare", "policy", "fail", "giveup", "retire"},
         UNCHANGED <<policy, late, caps, vm, handle, tasks, off>>, phase' # "down",
         used'.drops = used.drops, row'.enabled = row.enabled,
         \/ \E a : Answer(c, a)
         \/ \E r : /\ call' = [call EXCEPT ![c] = r] /\ UNCHANGED lock
                   /\ r.kind = call[c].kind /\ r.prev = call[c].prev
                   /\ \/ r.at \in {"fail", "giveup"}
                      \/ r.at \in {"prepare", "policy"} /\ call[c].at \in {"begin", "prepare"}
                      \/ r.at = "remove" /\ call[c].at = "retire"
  PROVE  WholeInv'
<1>1. lock = c /\ c # NoCaller
  BY WorkingHoldsLock, CallersAreProcs DEF Working, IInv
<1>2. ASSUME Undropped' PROVE Undropped /\ Steady' /\ Settled' /\ Settled
  <2>1. Undropped /\ Steady /\ Whole(c)
    BY <1>2, WholeFacts DEF Undropped
  <2>2. QED
    BY <2>1 DEF Steady, Settled, Even, Whole, Building
<1>3. CASE \E a : Answer(c, a)
  BY <1>1, <1>2, <1>3, AnswerKeepsWhole DEF IInv
<1>4. ASSUME NEW r, call' = [call EXCEPT ![c] = r],
             r.kind = call[c].kind, r.prev = call[c].prev,
             \/ r.at \in {"fail", "giveup"}
             \/ r.at \in {"prepare", "policy"} /\ call[c].at \in {"begin", "prepare"}
             \/ r.at = "remove" /\ call[c].at = "retire"
      PROVE  WholeInv'
  <2>1. call'[c] = r
    BY <1>4 DEF IInv, CallOK
  <2>2. ASSUME Undropped' PROVE Whole(c)'
    <3>1. Settled' /\ Whole(c) /\ Role(c) /\ UNCHANGED handle /\ row'.enabled = row.enabled
      BY <1>2, <2>2, WholeFacts
    <3>2. CASE r.at = "remove" /\ call[c].at = "retire"
      BY <1>4, <2>1, <3>1, <3>2 DEF Whole, Building, DeactivationPlaces
    <3>3. CASE r.at \in {"prepare", "policy", "fail", "giveup"}
      <4>1. r.at \notin DeactivationPlaces /\ r.at # "loaded" /\ r.at # "previous"
        BY <3>3 DEF DeactivationPlaces
      <4>2. QED
        BY <1>4, <2>1, <3>1, <3>3, <4>1 DEF Whole, Building
    <3>4. QED
      BY <1>4, <3>2, <3>3
  <2>3. QED
    BY <1>1, <1>2, <1>4, <2>2, OneKeepsWhole DEF IInv
<1>5. QED
  BY <1>3, <1>4

LEMMA UpStaysUp ==
  ASSUME IInv, NEW c \in Procs, Working(c), phase' \in {phase, "serving"}
  PROVE  phase' # "down"
BY WorkingIsUp DEF Working

\* The steps of an activation.
LEMMA ActivationKeepsWhole ==
  ASSUME IInv, Roles, WholeInv, NEW c \in Procs, Activation(c)
  PROVE  WholeInv'
<1>0. CallOK /\ DataOK /\ call[c] \in Call
  BY DEF IInv, CallOK
<1>1. CASE Begin(c)
  <2> DEFINE r == [call[c] EXCEPT !.at = "prepare", !.gen = used'["gens"]]
  <2>1. r.at = "prepare" /\ r.kind = call[c].kind /\ r.prev = call[c].prev
    BY <1>0 DEF Call
  <2>2. call' = [call EXCEPT ![c] = r] /\ call[c].at = "begin"
          /\ UNCHANGED <<phase, row, policy, late, caps, vm, handle, tasks, off, lock>>
    BY <1>1 DEF Begin, database
  <2>3. used'.drops = used.drops /\ phase' # "down"
    BY <1>0, <1>1, <2>2, UseKeepsDrops, UpStaysUp DEF Begin, Working
  <2> HIDE DEF r
  <2>4. QED
    BY <2>1, <2>2, <2>3, StillKeepsWhole
<1>2. CASE BeginUnapproved(c) \/ BeginWithoutVm(c) \/ Prepare(c) \/ PrepareFails(c)
  <2>1. /\ UNCHANGED <<phase, row, policy, late, caps, vm, handle, tasks, off, used>>
        /\ call[c].at \in {"begin", "prepare"} /\ phase' # "down"
    BY <1>2, UpStaysUp DEF BeginUnapproved, BeginWithoutVm, EndBegin, Prepare, PrepareFails,
                           database, memory, Working
  <2>2. CASE Answer(c, "err")
    BY <2>1, <2>2, StillKeepsWhole
  <2>3. CASE \E to \in {"giveup", "policy", "fail"} : Goto(c, to) /\ UNCHANGED lock
    <3>1. PICK to \in {"giveup", "policy", "fail"} : Goto(c, to) /\ UNCHANGED lock
      BY <2>3
    <3>2. PICK r \in Call : /\ call' = [call EXCEPT ![c] = r] /\ call'[c] = r
                            /\ r.at = to /\ r.kind = call[c].kind /\ r.prev = call[c].prev
      BY <1>0, <3>1, GotoMoves DEF Places
    <3>3. QED
      BY <2>1, <3>1, <3>2, StillKeepsWhole
  <2>4. QED
    BY <1>2, <2>2, <2>3 DEF BeginUnapproved, BeginWithoutVm, EndBegin, Prepare, PrepareFails
<1>3. CASE Bind(c)
  <2>1. /\ UNCHANGED <<phase, row, late, caps, vm, handle, tasks, lock, off>>
        /\ call[c].at = "policy" /\ phase' # "down"
    BY <1>3, UpStaysUp DEF Bind, memory, Working
  <2>2. CASE DbFails /\ Goto(c, "fail") /\ UNCHANGED policy
    <3>1. PICK r \in Call : /\ call' = [call EXCEPT ![c] = r] /\ call'[c] = r
                            /\ r.at = "fail" /\ r.kind = call[c].kind /\ r.prev = call[c].prev
      BY <1>0, <2>2, GotoMoves DEF Places
    <3>2. used'.drops = used.drops
      BY <1>0, <2>2, FaultKeepsDrops
    <3>3. QED
      BY <2>1, <2>2, <3>1, <3>2, StillKeepsWhole
  <2>3. CASE policy' = call[c].gen /\ Goto(c, "publish") /\ UNCHANGED used
    <3>1. PICK r \in Call : /\ call' = [call EXCEPT ![c] = r] /\ call'[c] = r
                            /\ r.at = "publish" /\ r.kind = call[c].kind
                            /\ r.prev = call[c].prev /\ r.gen = call[c].gen
      BY <1>0, <2>3, GotoMoves DEF Places
    <3>2. lock = c /\ c # NoCaller
      BY <1>0, <2>1, WorkingHoldsLock, CallersAreProcs DEF Working
    <3>3. ASSUME Undropped' PROVE Steady' /\ Whole(c)'
      <4>1. Undropped /\ Steady /\ Whole(c)
        BY <2>3, <3>3, WholeFacts DEF Undropped
      <4>2. Steady'
        BY <2>1, <2>3, <3>2, <4>1 DEF Steady
      <4>3. Whole(c)'
        BY <2>1, <2>3, <3>1, <4>1 DEF Whole, Building, Settled, Even, DeactivationPlaces
      <4>4. QED
        BY <4>2, <4>3
    <3>4. QED
      BY <1>0, <3>1, <3>2, <3>3, OneKeepsWhole
  <2>4. QED
    BY <1>3, <2>2, <2>3 DEF Bind
<1>8. CASE Publish(c)
  <2>1. /\ UNCHANGED <<phase, row, policy, late, handle, tasks, lock, off, used>>
        /\ call[c].at = "publish" /\ phase' # "down"
        /\ vm' = call[c].gen /\ caps' = call[c].gen /\ Goto(c, "loaded")
    BY <1>8, UpStaysUp DEF Publish, database, Working
  <2>2. PICK r \in Call : /\ call' = [call EXCEPT ![c] = r] /\ call'[c] = r
                          /\ r.at = "loaded" /\ r.kind = call[c].kind
                          /\ r.prev = call[c].prev /\ r.gen = call[c].gen
    BY <1>0, <2>1, GotoMoves DEF Places
  <2>3. lock = c /\ c # NoCaller
    BY <1>0, <2>1, WorkingHoldsLock, CallersAreProcs DEF Working
  <2>4. ASSUME Undropped' PROVE Steady' /\ Whole(c)'
    <3>1. Undropped /\ Steady /\ Whole(c) /\ Progress(c)
      BY <2>1, <2>4, WholeFacts DEF Undropped
    <3>2. Steady'
      BY <2>1, <2>3, <3>1 DEF Steady
    <3>3. Whole(c)'
      BY <2>1, <2>2, <3>1 DEF Whole, Even, Progress, Building, DeactivationPlaces
    <3>4. QED
      BY <3>2, <3>3
  <2>5. QED
    BY <1>0, <2>2, <2>3, <2>4, OneKeepsWhole
<1>4. CASE Settle(c)
  <2>1. /\ UNCHANGED <<policy, late, caps, vm, off>> /\ call[c].at = "loaded"
        /\ tasks' = tasks \cup {call[c].gen}
        /\ handle' = [gen |-> vm, tasks |-> tasks' \ call[c].prev]
        /\ used'.drops = used.drops /\ row'.enabled = row.enabled
        /\ handle'.gen = vm /\ handle'.tasks = tasks' \ call[c].prev
    BY <1>0, <1>4, MarkKeeps DEF Settle
  <2>2. phase' # "down" /\ lock = c /\ c # NoCaller
    BY <1>0, <1>4, WorkingHoldsLock, CallersAreProcs, UpStaysUp DEF Working, Settle
  <2>3. ASSUME Undropped'
        PROVE  /\ Undropped /\ Steady /\ Role(c)
               /\ policy = caps
               /\ caps = call[c].gen /\ vm = call[c].gen /\ tasks = handle.tasks
               /\ call[c].gen \notin tasks
               /\ call[c].kind = "reload" => call[c].prev = tasks
               /\ call[c].kind # "reload" => call[c].prev = {}
    BY <2>1, <2>3, WholeFacts DEF Undropped, Whole, Building, Role
  <2>4. CASE call[c].kind = "reload" /\ Goto(c, "previous") /\ UNCHANGED lock
    <3>1. PICK r \in Call : /\ call' = [call EXCEPT ![c] = r] /\ call'[c] = r
                            /\ r.at = "previous" /\ r.kind = call[c].kind /\ r.prev = call[c].prev
      BY <1>0, <2>4, GotoMoves DEF Places
    <3>2. ASSUME Undropped' PROVE Steady' /\ Whole(c)'
      <4>1. Steady'
        BY <2>1, <2>2, <2>3, <2>4, <3>2 DEF Steady
      <4>2. Whole(c)'
        BY <2>1, <2>3, <2>4, <3>1, <3>2 DEF Whole, Building, DeactivationPlaces
      <4>3. QED
        BY <4>1, <4>2
    <3>3. QED
      BY <1>0, <2>2, <3>1, <3>2, OneKeepsWhole
  <2>5. CASE call[c].kind # "reload" /\ Answer(c, "ok")
    <3>1. ASSUME Undropped' PROVE Steady'
      BY <2>1, <2>2, <2>3, <2>5, <3>1 DEF Steady, Settled, Even
    <3>2. QED
      BY <1>0, <2>2, <2>5, <3>1, AnswerKeepsWhole
  <2>6. QED
    BY <1>4, <2>4, <2>5 DEF Settle
<1>5. CASE CancelPrevious(c)
  <2>1. /\ UNCHANGED <<phase, row, policy, late, caps, vm, handle, used, off>>
        /\ call[c].at = "previous" /\ tasks' = tasks \ call[c].prev
        /\ Answer(c, "ok") /\ phase' # "down" /\ lock = c
    BY <1>0, <1>5, WorkingHoldsLock, UpStaysUp DEF CancelPrevious, database, Working
  <2>2. ASSUME Undropped' PROVE Steady'
    <3>1. Steady /\ Whole(c)
      BY <2>1, <2>2, WholeFacts DEF Undropped
    <3>2. QED
      BY <2>1, <3>1 DEF Steady, Settled, Even, Whole, Building
  <2>3. QED
    BY <1>0, <2>1, <2>2, AnswerKeepsWhole
<1>6. CASE Fail(c) \/ GiveUp(c)
  <2>1. /\ UNCHANGED <<policy, late, caps, vm, handle, tasks, off>>
        /\ call[c].at \in {"fail", "giveup"} /\ phase' \in {phase, "serving"}
    BY <1>6 DEF Fail, GiveUp, memory
  <2>2. used'.drops = used.drops /\ row'.enabled = row.enabled /\ phase' # "down"
    BY <1>0, <1>6, <2>1, MarkKeeps, UpStaysUp DEF Fail, GiveUp, Working
  <2>3. CASE Answer(c, "err")
    BY <2>1, <2>2, <2>3, StillKeepsWhole
  <2>4. CASE Goto(c, "giveup") /\ UNCHANGED lock
    <3>1. PICK r \in Call : /\ call' = [call EXCEPT ![c] = r] /\ call'[c] = r
                            /\ r.at = "giveup" /\ r.kind = call[c].kind /\ r.prev = call[c].prev
      BY <1>0, <2>4, GotoMoves DEF Places
    <3>2. QED
      BY <2>1, <2>2, <2>4, <3>1, StillKeepsWhole
  <2>5. QED
    BY <1>6, <2>3, <2>4 DEF Fail, GiveUp
<1>9. QED
  BY <1>1, <1>2, <1>3, <1>4, <1>5, <1>6, <1>8 DEF Activation

\* The steps of a deactivation.
LEMMA DeactivationKeepsWhole ==
  ASSUME IInv, Roles, WholeInv, NEW c \in Procs, Deactivation(c)
  PROVE  WholeInv'
<1>0. CallOK /\ DataOK /\ call[c] \in Call
  BY DEF IInv, CallOK
<1>1. CASE Retire(c)
  <2>1. /\ UNCHANGED <<phase, row, policy, late, caps, vm, handle, tasks, off, used, lock>>
        /\ call[c].at = "retire" /\ Goto(c, "remove") /\ phase' # "down"
    BY <1>1, UpStaysUp DEF Retire, database, Working
  <2>2. PICK r \in Call : /\ call' = [call EXCEPT ![c] = r] /\ call'[c] = r
                          /\ r.at = "remove" /\ r.kind = call[c].kind /\ r.prev = call[c].prev
    BY <1>0, <2>1, GotoMoves DEF Places
  <2>3. QED
    BY <2>1, <2>2, StillKeepsWhole
<1>2. CASE RemoveCapabilities(c) \/ StopTasks(c) \/ Erase(c)
  <2>1. /\ UNCHANGED <<phase, row, late, off, lock>>
        /\ call[c].at \in {"remove", "stop", "erase"}
        /\ caps' \in {0, caps} /\ (call[c].at \in {"remove", "stop"} => UNCHANGED policy)
        /\ used'.drops = used.drops
    BY <1>0, <1>2, FaultKeepsDrops DEF RemoveCapabilities, StopTasks, Erase, database
  <2>2. \E r : /\ call' = [call EXCEPT ![c] = r] /\ r.at \in {"stop", "erase", "unload"}
    <3>1. [call[c] EXCEPT !.at = "unload", !.error = TRUE].at = "unload"
      BY <1>0 DEF Call
    <3>2. CASE \E to \in {"stop", "erase", "unload"} : Goto(c, to)
      BY <1>0, <3>2, GotoMoves DEF Places
    <3>3. QED
      BY <1>2, <3>1, <3>2 DEF RemoveCapabilities, StopTasks, Erase
  <2>3. PICK r : /\ call' = [call EXCEPT ![c] = r] /\ r.at \in {"stop", "erase", "unload"}
    BY <2>2
  <2>4. lock = c /\ c # NoCaller /\ call'[c] = r
    BY <1>0, <2>1, <2>3, WorkingHoldsLock, CallersAreProcs DEF Working, CallOK
  <2>5. ASSUME Undropped' PROVE Steady' /\ Whole(c)'
    <3>1. Steady /\ Whole(c) /\ Progress(c)
      BY <2>1, <2>5, WholeFacts DEF Undropped
    <3>2. ~row.enabled /\ (call[c].at = "erase" => caps = 0)
      BY <2>1, <3>1 DEF Whole, Progress, Building, DeactivationPlaces
    <3>3. Steady'
      BY <2>1, <2>4, <3>1, <3>2 DEF Steady
    <3>4. Whole(c)'
      BY <2>1, <2>3, <2>4, <3>2 DEF Whole, Building, DeactivationPlaces
    <3>5. QED
      BY <3>3, <3>4
  <2>6. QED
    BY <1>0, <2>3, <2>4, <2>5, OneKeepsWhole
<1>3. CASE Unload(c)
  <2>1. /\ UNCHANGED <<phase, policy, late, caps, vm, tasks>> /\ handle' = NoHandle
        /\ call[c].at = "unload" /\ phase' # "down" /\ lock = c
        /\ used'.drops = used.drops /\ row'.enabled = row.enabled
        /\ (Answer(c, "err") \/ Answer(c, "ok"))
    BY <1>0, <1>3, MarkKeeps, WorkingHoldsLock, UpStaysUp DEF Unload, Working
  <2>2. ASSUME Undropped' PROVE Steady'
    <3>1. Steady /\ Whole(c) /\ Progress(c)
      BY <2>1, <2>2, WholeFacts DEF Undropped
    <3>2. caps = 0 /\ vm = 0 /\ tasks = {} /\ ~row.enabled
      BY <2>1, <3>1 DEF Whole, Progress, Building, DeactivationPlaces
    <3>3. QED
      BY <2>1, <3>1, <3>2 DEF Steady, Settled, Even, NoHandle
  <2>3. QED
    BY <1>0, <2>1, <2>2, AnswerKeepsWhole
<1>4. QED
  BY <1>1, <1>2, <1>3 DEF Deactivation

\* Calling, entering, writing the intent and being dropped.
LEMMA EntryKeepsWhole ==
  ASSUME IInv, Roles, WholeInv, NEW c \in Callers,
         Request(c) \/ EnterToggle(c) \/ EnterReload(c) \/ Intent(c) \/ Drop(c)
  PROVE  WholeInv'
<1> c \in Procs
  BY CallersAreProcs
<1>0. CallOK /\ DataOK /\ call[c] \in Call /\ c # NoCaller
  BY CallersAreProcs DEF IInv, CallOK
<1>1. CASE Request(c)
  <2>1. PICK k \in Kinds : call' = [call EXCEPT ![c] = [NoCall EXCEPT !.at = "lock", !.kind = k]]
    BY <1>1 DEF Request
  <2>2. [NoCall EXCEPT !.at = "lock", !.kind = k].at = "lock"
    BY DEF NoCall
  <2>3. call'[c].at = "lock" /\ \A d \in Procs : d # c => call'[d] = call[d]
    BY <2>1, <2>2, <1>0 DEF CallOK
  <2>4. /\ UNCHANGED <<phase, row, policy, late, caps, vm, handle, tasks, off, lock>>
        /\ used'.drops = used.drops
    BY <1>0, <1>1, UseKeepsDrops DEF Request, database, memory
  <2>5. ASSUME Undropped' PROVE Steady'
    BY <2>4, <2>5 DEF WholeInv, Undropped, Steady, Settled, Even
  <2>6. ASSUME Undropped', NEW d \in Procs PROVE Whole(d)'
    <3>1. Whole(d)
      BY <2>4, <2>6 DEF WholeInv, Undropped
    <3>2. QED
      BY <2>3, <2>4, <3>1 DEF Whole, Building, Settled, Even, DeactivationPlaces
  <2>7. QED
    BY <2>5, <2>6 DEF WholeInv
<1>2. CASE EnterToggle(c) \/ EnterReload(c)
  <2>1. /\ UNCHANGED <<phase, row, policy, late, caps, vm, handle, tasks, used>>
        /\ lock = NoCaller /\ call[c].at = "lock" /\ phase # "down"
        /\ off' => off \/ ~row.enabled
    BY <1>2, WorkingIsUp
    DEF EnterToggle, EnterReload, database, memory, AlreadySo, IInv, DataOK, Want
  <2>2. ASSUME Undropped' PROVE Steady' /\ Settled' /\ Role(c)
    <3>1. Steady /\ Role(c)
      BY <2>1, <2>2, WholeFacts DEF Undropped
    <3>2. QED
      BY <2>1, <3>1 DEF Steady, Settled, Even
  <2>3. CASE \E a : Answer(c, a)
    BY <1>0, <2>1, <2>2, <2>3, AnswerKeepsWhole
  <2>4. CASE /\ call[c].kind # "reload"
             /\ Goto(c, IF row.enabled # Want(c) THEN "intent"
                        ELSE IF Want(c) THEN "begin" ELSE "retire")
    <3>1. PICK place \in Places : /\ place = IF row.enabled # Want(c) THEN "intent"
                                             ELSE IF Want(c) THEN "begin" ELSE "retire"
                                  /\ Goto(c, place)
      BY <2>4 DEF Places
    <3>2. PICK r \in Call : /\ call' = [call EXCEPT ![c] = r] /\ call'[c] = r
                            /\ r.at = place /\ r.kind = call[c].kind /\ r.prev = call[c].prev
      BY <1>0, <3>1, GotoMoves
    <3>3. place \in {"intent", "begin"} \/ (place = "retire" /\ ~row.enabled)
      BY <3>1 DEF IInv, DataOK, Want
    <3>4. ASSUME Undropped' PROVE Whole(c)'
      BY <2>1, <2>2, <2>4, <3>2, <3>3, <3>4 DEF Whole, Building, DeactivationPlaces
    <3>5. QED
      BY <1>0, <2>1, <2>2, <3>2, <3>4, OneKeepsWhole
  <2>5. CASE EnterReload(c)
    <3> DEFINE r == [call[c] EXCEPT !.at = "begin", !.prev = handle.tasks]
    <3>1. call' = [call EXCEPT ![c] = r] /\ r.at = "begin" /\ r.prev = handle.tasks
      BY <1>0, <2>5 DEF EnterReload, Call
    <3> HIDE DEF r
    <3>2. call'[c] = r
      BY <1>0, <3>1 DEF CallOK
    <3>3. ASSUME Undropped' PROVE Whole(c)'
      BY <2>1, <2>2, <3>1, <3>2, <3>3 DEF Whole, Building, DeactivationPlaces
    <3>4. QED
      BY <1>0, <2>1, <2>2, <3>1, <3>3, OneKeepsWhole
  <2>6. QED
    BY <1>2, <2>3, <2>4, <2>5 DEF EnterToggle
<1>3. CASE Intent(c)
  <2>1. /\ UNCHANGED <<phase, policy, late, caps, vm, handle, tasks>>
        /\ call[c].at = "intent" /\ phase # "down" /\ lock = c
        /\ used'.drops = used.drops
        /\ off' => off /\ ~row'.enabled
    BY <1>0, <1>3, WorkingIsUp, WorkingHoldsLock, FaultKeepsDrops DEF Intent, memory, Working
  <2>2. ASSUME Undropped' PROVE Steady' /\ Settled' /\ Role(c)
    <3>1. Steady /\ Whole(c) /\ Role(c)
      BY <2>1, <2>2, WholeFacts DEF Undropped
    <3>2. QED
      BY <2>1, <3>1 DEF Steady, Settled, Even, Whole, Building
  <2>3. CASE Answer(c, "err")
    BY <1>0, <2>1, <2>2, <2>3, AnswerKeepsWhole
  <2>4. CASE /\ row' = [row EXCEPT !.enabled = Want(c)]
             /\ Goto(c, IF Want(c) THEN "begin" ELSE "retire")
             /\ UNCHANGED lock
    <3>1. PICK place \in Places : /\ place = (IF Want(c) THEN "begin" ELSE "retire")
                                  /\ Goto(c, place)
      BY <2>4 DEF Places
    <3>2. PICK r \in Call : /\ call' = [call EXCEPT ![c] = r] /\ call'[c] = r
                            /\ r.at = place /\ r.kind = call[c].kind /\ r.prev = call[c].prev
      BY <1>0, <3>1, GotoMoves
    <3>3. place = "begin" \/ (place = "retire" /\ ~row'.enabled)
      BY <1>0, <2>4, <3>1 DEF DataOK, Want
    <3>4. ASSUME Undropped' PROVE Whole(c)'
      BY <2>1, <2>2, <3>2, <3>3, <3>4 DEF Whole, Building, Role, DeactivationPlaces
    <3>5. QED
      BY <1>0, <2>1, <2>2, <3>2, <3>4, OneKeepsWhole
  <2>5. QED
    BY <1>3, <2>3, <2>4 DEF Intent
<1>4. CASE Drop(c)
  <2>1. used["drops"] \in Nat /\ used'["drops"] = used["drops"] + 1
    BY <1>0, <1>4, UseTyped DEF Drop, DataOK
  <2>2. ~Undropped'
    BY <2>1 DEF Undropped
  <2>3. QED
    BY <2>2 DEF WholeInv
<1>5. QED
  BY <1>1, <1>2, <1>3, <1>4

\* Every step keeps what holds without drops: a drop ends it, and no write lands late.
LEMMA NextKeepsWhole == IInv /\ Roles /\ WholeInv /\ [Next]_vars => WholeInv'
<1> SUFFICES ASSUME IInv, Roles, WholeInv, [Next]_vars PROVE WholeInv'
  OBVIOUS
<1>1. ASSUME NEW c \in Callers, Request(c) \/ EnterToggle(c) \/ EnterReload(c) \/ Step(c) \/ Drop(c)
      PROVE  WholeInv'
  BY <1>1, CallersAreProcs, EntryKeepsWhole, ActivationKeepsWhole, DeactivationKeepsWhole DEF Step
<1>2. CASE Activation(Booter)
  BY <1>2, CallersAreProcs, ActivationKeepsWhole
<1>3. CASE Refuse \/ Crash
  <2>1. Die
    BY <1>3 DEF Refuse, Crash
  <2>2. \A c \in Procs : call'[c].at = "idle"
    BY <2>1, NoCallTyped DEF Die
  <2>3. Steady'
    BY <2>1 DEF Die, Steady, Settled, Even, NoHandle
  <2>4. QED
    BY <2>2, <2>3 DEF WholeInv, Whole, Building, DeactivationPlaces
<1>4. CASE StartActivating \/ StartSkipping \/ StartUnread
  <2>1. /\ phase = "down" /\ used'.drops = used.drops
        /\ UNCHANGED <<policy, late, caps, vm, handle, tasks, off>>
    BY <1>4 DEF StartActivating, StartSkipping, StartUnread, Boot, IInv, DataOK
  <2>2. /\ caps = 0 /\ vm = 0 /\ handle = NoHandle /\ tasks = {}
        /\ \A c \in Procs : call[c] = NoCall
    BY <2>1 DEF IInv, DownIsEmpty
  <2>3. \A c \in Procs : call'[c].at \in {"idle", "begin"} /\ call'[c].kind # "reload"
    <3>1. CASE UNCHANGED call
      BY <2>2, <3>1 DEF NoCall
    <3>2. CASE call' = [call EXCEPT ![Booter] = [NoCall EXCEPT !.at = "begin", !.kind = "boot"]]
      <4>1. /\ [NoCall EXCEPT !.at = "begin", !.kind = "boot"].at = "begin"
            /\ [NoCall EXCEPT !.at = "begin", !.kind = "boot"].kind = "boot"
        BY DEF NoCall
      <4>2. call \in [Procs -> Call]
        BY DEF IInv, CallOK
      <4>3. QED
        BY <2>2, <3>2, <4>1, <4>2 DEF NoCall
    <3>3. QED
      BY <1>4, <3>1, <3>2 DEF StartActivating, StartSkipping, StartUnread
  <2>4. ASSUME Undropped' PROVE Steady' /\ Settled'
    BY <2>1, <2>2, <2>4 DEF WholeInv, Undropped, Steady, Settled, Even, NoHandle
  <2>5. QED
    BY <2>3, <2>4 DEF WholeInv, Whole, Building, DeactivationPlaces
<1>5. CASE Land
  <2>1. late # {} /\ UNCHANGED used
    BY <1>5 DEF Land
  <2>2. ~Undropped'
    BY <2>1 DEF WholeInv, Undropped, Steady
  <2>3. QED
    BY <2>2 DEF WholeInv
<1>6. CASE (\E d \in Dispatches : Match(d) \/ Guard(d) \/ Respond(d)) \/ UNCHANGED vars
  <2>1. /\ UNCHANGED <<phase, row, policy, late, caps, vm, handle, tasks, off, lock, call>>
        /\ used'.drops = used.drops
    BY <1>6, FaultKeepsDrops DEF Match, Guard, Respond, vars, database, memory, IInv
  <2>2. QED
    BY <2>1 DEF WholeInv, Undropped, Steady, Settled, Even, Whole, Building
<1>7. QED
  BY <1>1, <1>2, <1>3, <1>4, <1>5, <1>6 DEF Next

-------------------------------------------------------------------------------
\* A required plugin is published once the host serves, and only reloads touch it.
Required ==
  /\ phase # "down" => row.enabled
  /\ phase = "serving" => caps # 0
  /\ \A c \in Callers : lock = c => call[c].kind = "reload"

\* The row says what is published.
Told == (row.loaded <=> caps # 0) /\ (caps # 0 => row.enabled)

\* What a toggle finds published at each of its places.
Marked(c) ==
  /\ call[c].at = "intent" /\ Want(c) => caps = 0
  /\ call[c].at \in {"begin", "prepare", "policy", "publish", "fail", "giveup"} => caps = 0
  /\ call[c].at = "loaded" => caps # 0
  /\ call[c].at \in ActivationPlaces => row.enabled

CalmInv ==
  Calm =>
    /\ entry.required => Required
    /\ "reload" \notin Kinds => (Quiet => Told) /\ \A c \in Procs : Marked(c)

\* All that is known of the host when nothing is dropped or fails.
AllInv == IInv /\ Roles /\ WholeInv /\ CalmInv

LEMMA InitCalm == Init => CalmInv
<1> SUFFICES ASSUME Init PROVE CalmInv
  OBVIOUS
<1>1. \A c \in Procs : call[c].at = "idle"
  BY NoCallTyped DEF Init
<1>2. QED
  BY <1>1 DEF Init, CalmInv, Quiet, Marked, ActivationPlaces

\* A failed call or a drop is a use that ends the calm; no other does.
LEMMA UseKeepsCalm ==
  ASSUME DataOK, NEW b \in {"gens", "requests", "starts"}, NEW max, Use(b, max)
  PROVE  Calm' => Calm
BY DEF DataOK, Use, Calm, Undropped

LEMMA FaultEndsCalm == DataOK /\ DbFails => ~Calm'
BY DEF DataOK, DbFails, Use, Calm, Undropped

LEMMA DropEndsCalm == DataOK /\ Use("drops", MaxDrops) => ~Calm'
BY DEF DataOK, Use, Calm, Undropped

\* In the calm the loaded flag is written.
LEMMA MarkIsMade ==
  ASSUME DataOK, NEW loaded \in BOOLEAN, MarkLoaded(loaded), Calm'
  PROVE  Calm /\ row'.loaded = loaded /\ row'.enabled = row.enabled
BY FaultEndsCalm DEF MarkLoaded, DataOK, Calm, Undropped

\* The obligations of a step that moves one operation.
LEMMA OneKeepsCalm ==
  ASSUME CallOK, NEW c \in Procs, lock \in {c, NoCaller}, lock' \in {c, NoCaller},
         NEW r, call' = [call EXCEPT ![c] = r],
         ASSUME Calm'
         PROVE  /\ entry'.required => /\ phase' # "down" => row'.enabled
                                      /\ phase' = "serving" => caps' # 0
                                      /\ lock' = c /\ c \in Callers => r.kind = "reload"
                /\ "reload" \notin Kinds => (Quiet' => Told') /\ Marked(c)'
  PROVE  CalmInv'
<1>1. call'[c] = r /\ \A d \in Procs : d # c => call'[d].at \in {"idle", "lock"}
  BY OthersWait
<1>2. \A d \in Procs : d # c => Marked(d)'
  BY <1>1 DEF Marked, ActivationPlaces
<1>3. \A d \in Callers : lock' = d => d = c
  BY CallersAreProcs
<1>4. QED
  BY <1>1, <1>2, <1>3 DEF CalmInv, Required

\* The obligations of an operation that returns.
LEMMA AnswerKeepsCalm ==
  ASSUME CallOK, NEW c \in Procs, lock \in {c, NoCaller}, NEW a, Answer(c, a),
         ASSUME Calm'
         PROVE  /\ entry'.required => /\ phase' # "down" => row'.enabled
                                      /\ phase' = "serving" => caps' # 0
                /\ "reload" \notin Kinds => (Quiet' => Told')
  PROVE  CalmInv'
<1>1. call' = [call EXCEPT ![c] = NoCall] /\ call'[c] = NoCall /\ lock' = NoCaller
  BY DEF Answer, CallOK
<1>2. Marked(c)'
  BY <1>1, NoCallTyped DEF Marked, ActivationPlaces
<1>3. QED
  BY <1>1, <1>2, CallersAreProcs, OneKeepsCalm

\* What is known of an operation at work.
LEMMA AtWork ==
  ASSUME AllInv, NEW c \in Procs, Working(c)
  PROVE  /\ CallOK /\ DataOK /\ call[c] \in Call /\ lock = c /\ c # NoCaller
         /\ phase # "down" /\ Role(c) /\ Progress(c)
         /\ c = Booter => phase = "boot" /\ call[c].kind = "boot" /\ call[c].at \in ActivationPlaces
         /\ c # Booter => c \in Callers /\ phase = "serving" /\ call[c].kind \in Kinds
         /\ Calm => /\ Whole(c) /\ Steady
                    /\ entry.required => row.enabled
                    /\ entry.required /\ c # Booter => caps # 0 /\ call[c].kind = "reload"
                    /\ "reload" \notin Kinds => Marked(c)
<1>1. lock = c /\ c # NoCaller /\ phase # "down" /\ CallOK /\ DataOK /\ call[c] \in Call
  BY WorkingHoldsLock, WorkingIsUp, CallersAreProcs DEF AllInv, IInv, CallOK, Working
<1>2. Role(c) /\ Progress(c)
  BY DEF AllInv, IInv, Roles
<1>3. /\ c = Booter => phase = "boot" /\ call[c].kind = "boot" /\ call[c].at \in ActivationPlaces
      /\ c # Booter => c \in Callers /\ phase = "serving" /\ call[c].kind \in Kinds
  BY <1>1 DEF AllInv, Roles, Procs, Working
<1>4. Calm => /\ Whole(c) /\ Steady
              /\ entry.required => Required
              /\ "reload" \notin Kinds => Marked(c)
  BY DEF AllInv, WholeInv, Calm, CalmInv
<1>5. QED
  BY <1>1, <1>2, <1>3, <1>4 DEF Required

\* An operation at work that changes neither what is published nor whether the plugin
\* is enabled.
LEMMA StillKeepsCalm ==
  ASSUME AllInv, NEW c \in Procs, Working(c), NEW r \in Call, call' = [call EXCEPT ![c] = r],
         UNCHANGED <<lock, phase, entry, caps>>, row'.enabled = row.enabled,
         Calm' => Calm, r.kind = call[c].kind,
         ASSUME Calm, "reload" \notin Kinds PROVE Marked(c)'
  PROVE  CalmInv'
<1>1. call'[c] = r
  BY DEF AllInv, IInv, CallOK
<1>2. ASSUME Calm'
      PROVE  /\ entry'.required => /\ phase' # "down" => row'.enabled
                                   /\ phase' = "serving" => caps' # 0
                                   /\ lock' = c /\ c \in Callers => r.kind = "reload"
             /\ "reload" \notin Kinds => (Quiet' => Told') /\ Marked(c)'
  <2>1. entry.required => Required
    BY <1>2 DEF AllInv, CalmInv
  <2>2. QED
    BY <1>1, <1>2, <2>1, AtWork DEF Required, Quiet
<1>3. QED
  BY <1>2, AtWork, OneKeepsCalm

\* An activation publishes and marks, or gives up and marks that nothing is published.
LEMMA ActivationKeepsCalm ==
  ASSUME AllInv, NEW c \in Procs, Activation(c)
  PROVE  CalmInv'
<1>0. Working(c)
  BY DEF Activation, Begin, BeginUnapproved, BeginWithoutVm, Prepare, PrepareFails, Bind,
         Publish, Settle, CancelPrevious, Fail, GiveUp, Working
<1>1. CallOK /\ DataOK /\ call[c] \in Call /\ lock = c
  BY <1>0, AtWork
<1>2. ASSUME NEW to \in {"giveup", "policy", "publish", "fail"}, Goto(c, to), Calm' => Calm,
             UNCHANGED <<lock, phase, entry, caps>>, row'.enabled = row.enabled,
             call[c].at \in {"begin", "prepare", "policy", "fail"}
      PROVE  CalmInv'
  <2>1. PICK r \in Call : /\ call' = [call EXCEPT ![c] = r] /\ call'[c] = r
                          /\ r.at = to /\ r.kind = call[c].kind
    BY <1>1, <1>2, GotoMoves DEF Places
  <2>2. ASSUME Calm, "reload" \notin Kinds PROVE Marked(c)'
    BY <1>0, <1>2, <2>1, <2>2, AtWork DEF Marked, ActivationPlaces
  <2>3. QED
    BY <1>0, <1>2, <2>1, <2>2, StillKeepsCalm
<1>3. CASE Begin(c)
  <2> DEFINE r == [call[c] EXCEPT !.at = "prepare", !.gen = used'["gens"]]
  <2>1. r.at = "prepare" /\ r.kind = call[c].kind
    BY <1>1 DEF Call
  <2>2. call' = [call EXCEPT ![c] = r] /\ call[c].at = "begin"
          /\ UNCHANGED <<phase, entry, row, caps, lock>> /\ (Calm' => Calm)
    BY <1>1, <1>3, UseKeepsCalm DEF Begin, database
  <2>3. call'[c] = r /\ call'[c] \in Call
    <3>1. call'[c] = r
      BY <1>1, <2>2 DEF CallOK
    <3>2. CallOK'
      BY <1>3, BeginKeepsInv DEF AllInv, IInv
    <3>3. QED
      BY <3>1, <3>2 DEF CallOK
  <2> HIDE DEF r
  <2>4. ASSUME Calm, "reload" \notin Kinds PROVE Marked(c)'
    BY <1>0, <2>1, <2>2, <2>3, <2>4, AtWork DEF Marked, ActivationPlaces
  <2>5. QED
    BY <1>0, <2>1, <2>2, <2>3, <2>4, StillKeepsCalm
<1>4. CASE BeginUnapproved(c) \/ BeginWithoutVm(c)
  <2>1. /\ EndBegin(c) /\ call[c].at = "begin" /\ (Calm' => Calm)
        /\ UNCHANGED <<phase, entry, row, caps>>
    BY <1>4 DEF BeginUnapproved, BeginWithoutVm, EndBegin, Calm, Undropped, database
  <2>2. CASE Goto(c, "giveup") /\ UNCHANGED lock
    BY <1>2, <2>1, <2>2
  <2>3. CASE call[c].kind = "reload" /\ Answer(c, "err")
    <3>1. c # Booter /\ "reload" \in Kinds
      BY <1>0, <2>3, AtWork
    <3>2. QED
      BY <1>0, <1>1, <2>1, <2>3, <3>1, AtWork, AnswerKeepsCalm
  <2>4. QED
    BY <2>1, <2>2, <2>3 DEF EndBegin
<1>5. CASE Prepare(c) \/ PrepareFails(c)
  <2>1. /\ \E to \in {"policy", "fail"} : Goto(c, to)
        /\ call[c].at = "prepare" /\ (Calm' => Calm)
        /\ UNCHANGED <<phase, entry, row, caps, lock>>
    BY <1>5 DEF Prepare, PrepareFails, Calm, Undropped, database, memory
  <2>2. QED
    BY <1>2, <2>1
<1>6. CASE Bind(c)
  <2>1. UNCHANGED <<phase, entry, row, lock, caps>> /\ call[c].at = "policy"
    BY <1>6 DEF Bind, memory
  <2>2. CASE DbFails /\ Goto(c, "fail")
    BY <1>1, <1>2, <2>1, <2>2, FaultEndsCalm
  <2>3. CASE Goto(c, "publish") /\ UNCHANGED used
    <3>1. Calm' => Calm
      BY <2>3 DEF Calm, Undropped
    <3>2. QED
      BY <1>2, <2>1, <2>3, <3>1
  <2>4. QED
    BY <1>6, <2>2, <2>3 DEF Bind
<1>12. CASE Publish(c)
  <2>1. /\ UNCHANGED <<phase, entry, row, lock, used>> /\ call[c].at = "publish"
        /\ caps' = call[c].gen /\ Goto(c, "loaded")
    BY <1>12 DEF Publish, database
  <2>2. PICK r \in Call : /\ call' = [call EXCEPT ![c] = r] /\ call'[c] = r
                          /\ r.at = "loaded" /\ r.kind = call[c].kind
    BY <1>1, <2>1, GotoMoves DEF Places
  <2>3. caps' # 0
    BY <1>0, <2>1, AtWork DEF Progress, Building
  <2>4. ASSUME Calm'
        PROVE  /\ entry'.required => /\ phase' # "down" => row'.enabled
                                     /\ phase' = "serving" => caps' # 0
                                     /\ lock' = c /\ c \in Callers => r.kind = "reload"
               /\ "reload" \notin Kinds => (Quiet' => Told') /\ Marked(c)'
    <3>1. Calm
      BY <2>1, <2>4 DEF Calm, Undropped
    <3>2. c \in Callers => c # Booter
      BY CallersAssumption
    <3>3. lock' = c /\ c # NoCaller
      BY <1>0, <2>1, AtWork
    <3>4. "reload" \notin Kinds => Marked(c)'
      BY <1>0, <2>1, <2>2, <2>3, <3>1, AtWork DEF Marked, ActivationPlaces
    <3>5. QED
      BY <1>0, <2>1, <2>2, <2>3, <3>1, <3>2, <3>3, <3>4, AtWork DEF Quiet
  <2>5. QED
    BY <1>1, <2>1, <2>2, <2>4, OneKeepsCalm
<1>7. CASE Settle(c)
  <2>1. UNCHANGED <<entry, caps>> /\ MarkLoaded(TRUE) /\ call[c].at = "loaded"
    BY <1>7 DEF Settle
  <2>2. Calm' => Calm /\ row'.loaded = TRUE /\ row'.enabled = row.enabled
                  /\ caps # 0 /\ ("reload" \notin Kinds => row.enabled)
    <3>1. Calm => caps = call[c].gen /\ call[c].gen # 0
                   /\ ("reload" \notin Kinds => row.enabled)
      BY <1>0, <2>1, AtWork DEF Whole, Progress, Building, Marked, ActivationPlaces
    <3>2. QED
      BY <1>1, <2>1, <3>1, MarkIsMade
  <2>3. CASE call[c].kind = "reload" /\ Goto(c, "previous") /\ UNCHANGED <<phase, lock>>
    <3>1. PICK r \in Call : /\ call' = [call EXCEPT ![c] = r] /\ call'[c] = r
                            /\ r.at = "previous" /\ r.kind = call[c].kind
      BY <1>1, <2>3, GotoMoves DEF Places
    <3>2. "reload" \in Kinds /\ c # Booter
      BY <1>0, <2>3, AtWork
    <3>3. QED
      BY <1>0, <1>1, <2>1, <2>2, <2>3, <3>1, <3>2, AtWork, OneKeepsCalm
  <2>4. CASE Answer(c, "ok")
    <3>1. ASSUME Calm'
          PROVE  /\ entry'.required => row'.enabled /\ caps' # 0
                 /\ "reload" \notin Kinds => Told'
      BY <1>0, <2>1, <2>2, <3>1, AtWork DEF Told
    <3>2. QED
      BY <1>1, <2>4, <3>1, AnswerKeepsCalm
  <2>5. QED
    BY <1>7, <2>3, <2>4 DEF Settle
<1>8. CASE CancelPrevious(c)
  <2>1. /\ UNCHANGED <<entry, row, caps, used, phase>> /\ Answer(c, "ok")
        /\ call[c].at = "previous"
    BY <1>8 DEF CancelPrevious, database
  <2>2. c # Booter /\ call[c].kind = "reload" /\ "reload" \in Kinds
    BY <1>0, <2>1, AtWork DEF ActivationPlaces, Role
  <2>3. ASSUME Calm'
        PROVE  entry'.required => row'.enabled /\ caps' # 0
    BY <1>0, <2>1, <2>2, <2>3, AtWork DEF Calm, Undropped
  <2>4. QED
    BY <1>1, <2>1, <2>2, <2>3, AnswerKeepsCalm
<1>9. CASE Fail(c)
  <2>1. UNCHANGED <<entry, caps, phase>> /\ call[c].at = "fail"
    BY <1>9 DEF Fail
  <2>2. CASE call[c].kind = "reload" /\ Answer(c, "err") /\ UNCHANGED <<row, used>>
    <3>1. c # Booter /\ "reload" \in Kinds
      BY <1>0, <2>2, AtWork
    <3>2. ASSUME Calm'
          PROVE  entry'.required => row'.enabled /\ caps' # 0
      BY <1>0, <2>1, <2>2, <3>1, <3>2, AtWork DEF Calm, Undropped
    <3>3. QED
      BY <1>1, <2>2, <3>1, <3>2, AnswerKeepsCalm
  <2>3. CASE MarkLoaded(FALSE) /\ Goto(c, "giveup") /\ UNCHANGED lock
    <3>1. row'.enabled = row.enabled
      BY <1>1, <2>3, MarkKeeps
    <3>2. Calm' => Calm
      BY <1>1, <2>3, MarkIsMade
    <3>3. QED
      BY <1>2, <2>1, <2>3, <3>1, <3>2
  <2>4. QED
    BY <1>9, <2>2, <2>3 DEF Fail
<1>10. CASE GiveUp(c)
  <2>1. /\ UNCHANGED <<entry, caps>> /\ call[c].at = "giveup" /\ MarkLoaded(FALSE)
        /\ Answer(c, "err") /\ ~(call[c].kind = "boot" /\ entry.required)
    BY <1>10 DEF GiveUp, memory
  <2>2. ASSUME Calm'
        PROVE  /\ ~entry'.required
               /\ "reload" \notin Kinds => Told'
    <3>1. Calm /\ row'.loaded = FALSE /\ row'.enabled = row.enabled
      BY <1>1, <2>1, <2>2, MarkIsMade
    <3>2. ~entry.required
      BY <1>0, <2>1, <3>1, AtWork DEF Role
    <3>3. "reload" \notin Kinds => caps = 0
      BY <1>0, <2>1, <3>1, AtWork DEF Marked
    <3>4. QED
      BY <2>1, <3>1, <3>2, <3>3 DEF Told
  <2>3. QED
    BY <1>1, <2>1, <2>2, AnswerKeepsCalm
<1>11. QED
  BY <1>3, <1>4, <1>5, <1>6, <1>7, <1>8, <1>9, <1>10, <1>12 DEF Activation

\* A deactivation is of a plugin that is not required, and marks what it has removed.
LEMMA DeactivationKeepsCalm ==
  ASSUME AllInv, NEW c \in Procs, Deactivation(c)
  PROVE  CalmInv'
<1>0. Working(c) /\ call[c].at \in DeactivationPlaces
  BY DEF Deactivation, Retire, RemoveCapabilities, StopTasks, Erase, Unload, Working,
         DeactivationPlaces
<1>1. CallOK /\ DataOK /\ call[c] \in Call /\ lock = c /\ c # NoCaller /\ call[c].kind = "disable"
  BY <1>0, AtWork DEF Role
<1>2. c # Booter /\ (Calm => ~entry.required)
  BY <1>0, <1>1, AtWork DEF ActivationPlaces, DeactivationPlaces
<1>3. CASE Retire(c) \/ RemoveCapabilities(c) \/ StopTasks(c) \/ Erase(c)
  <2>1. UNCHANGED <<entry, lock>> /\ (Calm' => Calm)
    BY <1>1, <1>3, FaultEndsCalm
    DEF Retire, RemoveCapabilities, StopTasks, Erase, Calm, Undropped
  <2>2. \E r : call' = [call EXCEPT ![c] = r] /\ r.at \in {"remove", "stop", "erase", "unload"}
    <3>1. [call[c] EXCEPT !.at = "unload", !.error = TRUE].at = "unload"
      BY <1>1 DEF Call
    <3>2. CASE \E to \in {"remove", "stop", "erase", "unload"} : Goto(c, to)
      BY <1>1, <3>2, GotoMoves DEF Places
    <3>3. QED
      BY <1>3, <3>1, <3>2 DEF Retire, RemoveCapabilities, StopTasks, Erase
  <2>3. PICK r : call' = [call EXCEPT ![c] = r] /\ r.at \in {"remove", "stop", "erase", "unload"}
    BY <2>2
  <2>4. call'[c] = r
    BY <1>1, <2>3 DEF CallOK
  <2>5. Marked(c)' /\ ~Quiet'
    BY <1>1, <2>1, <2>3, <2>4 DEF Marked, ActivationPlaces, Quiet
  <2>6. QED
    BY <1>1, <1>2, <2>1, <2>3, <2>5, OneKeepsCalm
<1>4. CASE Unload(c)
  <2>1. /\ UNCHANGED <<entry, caps>> /\ call[c].at = "unload" /\ MarkLoaded(FALSE)
        /\ (Answer(c, "err") \/ Answer(c, "ok"))
    BY <1>4 DEF Unload
  <2>2. ASSUME Calm' PROVE ~entry'.required /\ Told'
    <3>1. Calm /\ row'.loaded = FALSE
      BY <1>1, <2>1, <2>2, MarkIsMade
    <3>2. caps = 0
      BY <1>0, <2>1, AtWork DEF Progress, Building
    <3>3. QED
      BY <1>2, <2>1, <3>1, <3>2 DEF Told
  <2>3. QED
    BY <1>1, <2>1, <2>2, AnswerKeepsCalm
<1>5. QED
  BY <1>3, <1>4 DEF Deactivation

\* What an operation decides by the row when it enters, and writes as the intent.
LEMMA EntryKeepsCalm ==
  ASSUME AllInv, NEW c \in Callers,
         Request(c) \/ EnterToggle(c) \/ EnterReload(c) \/ Intent(c) \/ Drop(c)
  PROVE  CalmInv'
<1> c \in Procs /\ c # Booter /\ c # NoCaller
  BY CallersAreProcs, CallersAssumption
<1>0. CallOK /\ DataOK /\ call[c] \in Call
  BY DEF AllInv, IInv, CallOK
<1>1. CASE Request(c)
  <2>1. PICK k \in Kinds : call' = [call EXCEPT ![c] = [NoCall EXCEPT !.at = "lock", !.kind = k]]
    BY <1>1 DEF Request
  <2>2. [NoCall EXCEPT !.at = "lock", !.kind = k].at = "lock"
    BY DEF NoCall
  <2>3. call'[c].at = "lock" /\ call[c].at = "idle" /\ \A d \in Procs : d # c => call'[d] = call[d]
    BY <1>1, <2>1, <2>2, <1>0 DEF CallOK, Request
  <2>4. UNCHANGED <<phase, entry, row, caps, lock>> /\ (Calm' => Calm) /\ lock # c
    BY <1>0, <1>1, <2>3, UseKeepsCalm DEF Request, database, memory, CallOK
  <2>5. ASSUME Calm', entry'.required PROVE Required'
    BY <2>3, <2>4, <2>5, CallersAreProcs DEF AllInv, CalmInv, Required
  <2>6. ASSUME Calm', "reload" \notin Kinds PROVE (Quiet' => Told') /\ \A d \in Procs : Marked(d)'
    <3>1. (Quiet => Told) /\ \A d \in Procs : Marked(d)
      BY <2>4, <2>6 DEF AllInv, CalmInv
    <3>2. \A d \in Procs : Marked(d)'
      BY <2>3, <2>4, <3>1 DEF Marked, ActivationPlaces, Want
    <3>3. QED
      BY <2>4, <3>1, <3>2 DEF Quiet, Told
  <2>7. QED
    BY <2>5, <2>6 DEF CalmInv
<1>2. CASE EnterToggle(c) \/ EnterReload(c)
  <2>1. /\ UNCHANGED <<phase, entry, row, caps, used>>
        /\ lock = NoCaller /\ call[c].at = "lock" /\ (Calm' => Calm)
    BY <1>2 DEF EnterToggle, EnterReload, database, memory, Calm, Undropped
  <2>2. phase = "serving" /\ call[c].kind \in Kinds
    BY <2>1 DEF AllInv, Roles
  <2>3. Calm => /\ entry.required => row.enabled /\ caps # 0
                /\ "reload" \notin Kinds => Told
    BY <2>1, <2>2 DEF AllInv, CalmInv, Required, Quiet
  <2>4. CASE \E a : Answer(c, a)
    BY <1>0, <2>1, <2>3, <2>4, AnswerKeepsCalm DEF Told
  <2>5. CASE /\ ~entry.required /\ ~AlreadySo(c) /\ lock' = c
             /\ Goto(c, IF row.enabled # Want(c) THEN "intent"
                        ELSE IF Want(c) THEN "begin" ELSE "retire")
    <3>1. PICK place \in Places : /\ place = IF row.enabled # Want(c) THEN "intent"
                                             ELSE IF Want(c) THEN "begin" ELSE "retire"
                                  /\ Goto(c, place)
      BY <2>5 DEF Places
    <3>2. PICK r \in Call : /\ call' = [call EXCEPT ![c] = r] /\ call'[c] = r
                            /\ r.at = place /\ r.kind = call[c].kind
      BY <1>0, <3>1, GotoMoves
    <3>3. /\ place = "intent" /\ Want(c) => ~row.enabled
          /\ place = "begin" => row.enabled /\ ~row.loaded
          /\ place \in {"intent", "begin", "retire"}
      BY <1>0, <2>5, <3>1 DEF DataOK, Want, AlreadySo
    <3>4. Want(c)' = Want(c)
      BY <3>2 DEF Want
    <3>5. Calm /\ "reload" \notin Kinds => Marked(c)'
      BY <2>1, <2>3, <3>2, <3>3, <3>4 DEF Marked, Told, ActivationPlaces
    <3>6. QED
      BY <1>0, <2>1, <2>5, <3>2, <3>5, OneKeepsCalm DEF Quiet
  <2>6. CASE EnterReload(c)
    <3> DEFINE r == [call[c] EXCEPT !.at = "begin", !.prev = handle.tasks]
    <3>1. /\ call' = [call EXCEPT ![c] = r] /\ r.kind = "reload" /\ lock' = c
          /\ "reload" \in Kinds
      BY <1>0, <2>2, <2>6 DEF EnterReload, Call
    <3> HIDE DEF r
    <3>2. QED
      BY <1>0, <2>1, <2>2, <2>3, <3>1, OneKeepsCalm
  <2>7. QED
    BY <1>2, <2>4, <2>5, <2>6 DEF EnterToggle
<1>3. CASE Intent(c)
  <2>1. UNCHANGED <<phase, entry, caps>> /\ call[c].at = "intent" /\ Working(c) /\ lock = c
    BY <1>3, AtWork DEF Intent, memory, Working
  <2>2. CASE DbFails /\ Answer(c, "err")
    BY <1>0, <2>2, FaultEndsCalm DEF CalmInv
  <2>3. CASE /\ row' = [row EXCEPT !.enabled = Want(c)] /\ UNCHANGED <<used, lock>>
             /\ Goto(c, IF Want(c) THEN "begin" ELSE "retire")
    <3>1. PICK place \in Places : place = (IF Want(c) THEN "begin" ELSE "retire") /\ Goto(c, place)
      BY <2>3 DEF Places
    <3>2. PICK r \in Call : /\ call' = [call EXCEPT ![c] = r] /\ call'[c] = r
                            /\ r.at = place /\ r.kind = call[c].kind
      BY <1>0, <3>1, GotoMoves
    <3>3. (place = "begin" /\ Want(c) /\ row'.enabled) \/ place = "retire"
      BY <1>0, <2>3, <3>1 DEF DataOK, Want
    <3>4. ASSUME Calm'
          PROVE  ~entry'.required /\ ("reload" \notin Kinds => Marked(c)')
      <4>1. Calm
        BY <2>3, <3>4 DEF Calm, Undropped
      <4>2. ~entry.required
        BY <2>1, <4>1, AtWork DEF Role
      <4>3. "reload" \notin Kinds => Marked(c)'
        BY <2>1, <3>2, <3>3, <4>1, AtWork DEF Marked, ActivationPlaces
      <4>4. QED
        BY <2>1, <4>2, <4>3
    <3>5. QED
      BY <1>0, <2>1, <2>3, <3>2, <3>4, OneKeepsCalm DEF Quiet
  <2>4. QED
    BY <1>3, <2>2, <2>3 DEF Intent
<1>4. CASE Drop(c)
  BY <1>0, <1>4, DropEndsCalm DEF Drop, CalmInv
<1>5. QED
  BY <1>1, <1>2, <1>3, <1>4

\* A start of a required plugin activates it, and any other tells the row.
LEMMA StartKeepsCalm == AllInv /\ (StartActivating \/ StartSkipping \/ StartUnread) => CalmInv'
<1> SUFFICES ASSUME AllInv, StartActivating \/ StartSkipping \/ StartUnread PROVE CalmInv'
  OBVIOUS
<1>1. /\ phase = "down" /\ UNCHANGED caps /\ DataOK /\ CallOK
  BY DEF StartActivating, StartSkipping, StartUnread, Boot, AllInv, IInv
<1>2. caps = 0 /\ lock = NoCaller /\ \A c \in Procs : call[c] = NoCall
  BY <1>1 DEF AllInv, IInv, DownIsEmpty
<1>3. \A e \in Entry : /\ Registered(e).enabled = (e.required \/ (e.enabled /\ row.enabled))
                       /\ [Registered(e) EXCEPT !.loaded = FALSE].loaded = FALSE
                       /\ e.required => e.enabled
  BY <1>1 DEF DataOK, Registered, Entry
<1>4. CASE StartActivating
  <2> DEFINE booted == [NoCall EXCEPT !.at = "begin", !.kind = "boot"]
  <2>1. PICK e \in Entry : /\ entry' = e /\ Registered(e).enabled /\ row' = Registered(e)
                           /\ phase' = "boot" /\ lock' = Booter
                           /\ call' = [call EXCEPT ![Booter] = booted]
    BY <1>4 DEF StartActivating, Boot
  <2>2. booted.at = "begin"
    BY DEF NoCall
  <2>3. call'[Booter] = booted
    BY <1>1, <2>1, CallersAreProcs DEF CallOK
  <2> HIDE DEF booted
  <2>4. Marked(Booter)'
    BY <1>1, <1>2, <2>1, <2>2, <2>3 DEF Marked, ActivationPlaces
  <2>5. QED
    BY <1>1, <1>2, <2>1, <2>4, CallersAreProcs, CallersAssumption, OneKeepsCalm DEF Quiet
<1>5. CASE StartSkipping \/ StartUnread
  <2>1. UNCHANGED <<lock, call>>
    BY <1>5 DEF StartSkipping, StartUnread
  <2>2. \A c \in Procs : Marked(c)'
    BY <1>2, <2>1, NoCallTyped DEF Marked, ActivationPlaces
  <2>3. Calm' => ~entry'.required /\ row'.loaded = FALSE
    <3>1. CASE StartUnread
      <4>1. ~Calm'
        BY <1>1, <3>1 DEF StartUnread, Calm, Undropped, DataOK
      <4>2. QED
        BY <4>1
    <3>2. CASE StartSkipping
      <4>1. PICK e \in Entry : /\ Boot(e) /\ (~e.enabled \/ ~e.approved \/ ~Registered(e).enabled)
                               /\ \/ row' = [Registered(e) EXCEPT !.loaded = FALSE]
                                  \/ used' = [used EXCEPT !.starts = used["starts"] + 1,
                                                          !.faults = used["faults"] + 1]
        BY <3>2 DEF StartSkipping
      <4>2. ~e.required /\ entry' = e
        BY <1>3, <4>1 DEF Boot
      <4>3. used' = [used EXCEPT !.starts = used["starts"] + 1,
                                 !.faults = used["faults"] + 1] => ~Calm'
        BY <1>1 DEF Calm, Undropped, DataOK
      <4>4. QED
        BY <1>3, <4>1, <4>2, <4>3
    <3>3. QED
      BY <1>5, <3>1, <3>2
  <2>4. QED
    BY <1>1, <1>2, <2>2, <2>3 DEF CalmInv, Told
<1>6. QED
  BY <1>4, <1>5

\* Every step keeps what holds in the calm.
LEMMA NextKeepsCalm == AllInv /\ [Next]_vars => CalmInv'
<1> SUFFICES ASSUME AllInv, [Next]_vars PROVE CalmInv'
  OBVIOUS
<1>1. ASSUME NEW c \in Callers, Request(c) \/ EnterToggle(c) \/ EnterReload(c) \/ Step(c) \/ Drop(c)
      PROVE  CalmInv'
  BY <1>1, CallersAreProcs, EntryKeepsCalm, ActivationKeepsCalm, DeactivationKeepsCalm DEF Step
<1>2. CASE Activation(Booter)
  BY <1>2, CallersAreProcs, ActivationKeepsCalm
<1>3. CASE Refuse \/ Crash
  <2>1. Die
    BY <1>3 DEF Refuse, Crash
  <2>2. phase' = "down" /\ lock' = NoCaller /\ \A c \in Procs : call'[c].at = "idle"
    BY <2>1, NoCallTyped DEF Die
  <2>3. QED
    BY <2>2, CallersAreProcs DEF CalmInv, Required, Quiet, Marked, ActivationPlaces
<1>4. CASE Land
  <2>1. late # {} /\ UNCHANGED used
    BY <1>4 DEF Land
  <2>2. ~Calm'
    BY <2>1 DEF AllInv, WholeInv, Calm, Undropped, Steady
  <2>3. QED
    BY <2>2 DEF CalmInv
<1>5. CASE (\E d \in Dispatches : Match(d) \/ Guard(d) \/ Respond(d)) \/ UNCHANGED vars
  <2>1. UNCHANGED <<phase, entry, row, caps, lock, call>> /\ (Calm' => Calm)
    <3>1. used' = used \/ DbFails
      BY <1>5 DEF Match, Guard, Respond, vars
    <3>2. Calm' => Calm
      BY <3>1, FaultEndsCalm DEF Calm, Undropped, AllInv, IInv
    <3>3. QED
      BY <1>5, <3>2 DEF Match, Guard, Respond, vars, database, memory
  <2>2. QED
    BY <2>1 DEF AllInv, CalmInv, Required, Quiet, Told, Marked, Want
<1>6. QED
  BY <1>1, <1>2, <1>3, <1>4, <1>5, StartKeepsCalm DEF Next

\* The three invariants together hold of every behaviour.
LEMMA AllInvariant == Spec => []AllInv
<1>1. Init => AllInv
  BY InitInv, InitRoles, InitWhole, InitCalm DEF AllInv
<1>2. AllInv /\ [Next]_vars => AllInv'
  BY StepKeepsInv, NextKeepsRoles, NextKeepsWhole, NextKeepsCalm DEF AllInv
<1>3. QED
  BY <1>1, <1>2, PTL DEF Spec

-------------------------------------------------------------------------------
\* No operation that ends, at whatever depth it fails, leaves half a plugin
\* (OneGeneration): activate_locked and deactivate_locked keep the snapshot, the
\* VM map and the handle together as long as nobody drops them.
THEOREM NoHalfPlugin == Spec => []OneGeneration
<1>1. AllInv => OneGeneration
  BY DEF AllInv, WholeInv, Steady, Settled, Even, OneGeneration, Quiet
<1>2. QED
  BY <1>1, AllInvariant, PTL

\* The handle lists the tasks that run, so that a reload cancels the old ones and
\* only those (TasksAccounted).
THEOREM HandleListsTasks == Spec => []TasksAccounted
<1>1. AllInv => TasksAccounted
  BY DEF AllInv, WholeInv, Steady, Settled, Even, TasksAccounted, Quiet
<1>2. QED
  BY <1>1, AllInvariant, PTL

\* What can be matched is covered by the bindings in the database, but for an
\* activation between the two (PolicyCovers): activation writes them before it
\* publishes, deactivation deletes them after it has removed the capabilities.
THEOREM BindingsCover == Spec => []PolicyCovers
<1>1. AllInv => PolicyCovers
  <2> SUFFICES ASSUME AllInv, caps # 0, Undropped
               PROVE  \/ policy = caps
                      \/ \E c \in Procs : call[c].at = "publish" /\ policy = call[c].gen
    BY DEF PolicyCovers
  <2>1. CASE lock = NoCaller
    BY <2>1 DEF AllInv, WholeInv, Steady, Settled
  <2>2. CASE lock \in Procs
    <3>1. Whole(lock) /\ Progress(lock) /\ call[lock] \in Call
          /\ call[lock].at \notin {"idle", "lock"}
      BY <2>2 DEF AllInv, WholeInv, IInv, CallOK
    <3>2. call[lock].at \in Places
      BY <3>1 DEF Call
    <3>3. QED
      BY <2>2, <3>1, <3>2 DEF Whole, Progress, Settled, Places
  <2>3. QED
    BY <2>1, <2>2 DEF AllInv, IInv, CallOK
<1>2. QED
  BY <1>1, AllInvariant, PTL

\* What a step does to a dispatch: nothing, or it ends or matches, or the guard lets
\* it run.
LEMMA DispatchMoves ==
  ASSUME DataOK, [Next]_vars, NEW d \in Dispatches
  PROVE  \/ dispatch'[d] = dispatch[d]
         \/ dispatch'[d] = NoDispatch
         \/ dispatch'[d] = [at |-> "guard", gen |-> caps] /\ UNCHANGED <<call, used, dead>>
         \/ /\ dispatch[d].at = "guard" /\ row.enabled /\ UNCHANGED used
            /\ dispatch'[d].gen = dispatch[d].gen
<1> DEFINE D == [at : {"idle", "guard", "run"}, gen : Gens \cup {0}]
<1>1. dispatch \in [Dispatches -> D]
  BY DEF DataOK
<1>3. CASE \E e \in Dispatches : Match(e) \/ Respond(e)
  <2>1. PICK e \in Dispatches :
          \/ dispatch' = [dispatch EXCEPT ![e] = NoDispatch]
          \/ /\ dispatch' = [dispatch EXCEPT ![e] = [at |-> "guard", gen |-> caps]]
             /\ UNCHANGED <<call, used, dead>>
    BY <1>3 DEF Match, Respond
  <2>2. QED
    BY <1>1, <2>1
<1>4. ASSUME NEW e \in Dispatches, Guard(e)
      PROVE  \/ dispatch'[d] = dispatch[d]
             \/ dispatch'[d] = NoDispatch
             \/ /\ dispatch[d].at = "guard" /\ row.enabled /\ UNCHANGED used
                /\ dispatch'[d].gen = dispatch[d].gen
  <2> DEFINE r == [dispatch[e] EXCEPT !.at = "run"]
  <2>1. dispatch[e] \in D
    BY <1>1
  <2>2. r.gen = dispatch[e].gen
    BY <2>1
  <2> HIDE DEF r
  <2>3. CASE row.enabled /\ dispatch' = [dispatch EXCEPT ![e] = r] /\ UNCHANGED used
    BY <1>1, <1>4, <2>2, <2>3 DEF Guard
  <2>4. CASE dispatch' = [dispatch EXCEPT ![e] = NoDispatch]
    BY <1>1, <2>4
  <2>5. QED
    BY <1>4, <2>3, <2>4 DEF Guard, r
<1>5. CASE Refuse \/ Crash
  <2>1. dispatch' = [x \in Dispatches |-> NoDispatch]
    BY <1>5 DEF Refuse, Crash, Die
  <2>2. QED
    BY <2>1
<1>6. CASE UNCHANGED dispatch
  BY <1>6
<1>7. \/ Refuse \/ Crash
      \/ \E e \in Dispatches : Match(e) \/ Guard(e) \/ Respond(e)
      \/ UNCHANGED dispatch
  <2>1. CASE \E c \in Procs : Activation(c) \/ Deactivation(c)
    BY <2>1 DEF Activation, Begin, BeginUnapproved, BeginWithoutVm, EndBegin, Prepare,
                PrepareFails, Bind, Publish, Settle, CancelPrevious, Fail, GiveUp, Deactivation,
                Retire, RemoveCapabilities, StopTasks, Erase, Unload
  <2>2. CASE \E c \in Callers :
               Request(c) \/ EnterToggle(c) \/ EnterReload(c) \/ Intent(c) \/ Drop(c)
    BY <2>2 DEF Request, EnterToggle, EnterReload, Intent, Drop
  <2>3. CASE StartActivating \/ StartSkipping \/ StartUnread \/ Land
    BY <2>3 DEF StartActivating, StartSkipping, StartUnread, Boot, Land
  <2>4. CASE UNCHANGED vars
    BY <2>4 DEF vars
  <2>5. QED
    BY <2>1, <2>2, <2>3, <2>4, CallersAreProcs DEF Next, Step
<1>8. QED
  BY <1>3, <1>4, <1>5, <1>6, <1>7

\* After an answered disable no request gets to plugin code (NoCallOnceDisabled):
\* the row says disabled for as long, and the guard reads it.
THEOREM DisabledIsNotCalled == Spec => NoCallOnceDisabled
<1>1. AllInv /\ [Next]_vars =>
        [\A d \in Dispatches : off /\ Undropped' /\ dispatch[d].at # "run"
                                 => dispatch'[d].at # "run"]_vars
  <2> SUFFICES ASSUME AllInv, Next, NEW d \in Dispatches,
                      off, Undropped', dispatch[d].at # "run", dispatch'[d].at = "run"
               PROVE  FALSE
    OBVIOUS
  <2>1. row.enabled /\ UNCHANGED used
    BY DispatchMoves DEF AllInv, IInv, NoDispatch
  <2>2. QED
    BY <2>1 DEF AllInv, WholeInv, Steady, Undropped
<1>2. QED
  BY <1>1, AllInvariant, PTL DEF Spec, NoCallOnceDisabled

\* No request is of a generation that has died or may still die.
Matched ==
  \A d \in Dispatches :
    /\ dispatch[d].gen <= used["gens"]
    /\ dispatch[d].gen \notin dead
    /\ \A c \in Procs : call[c].at \in Building => call[c].gen # dispatch[d].gen

\* What a step does to the generations that are not published: an activation keeps
\* its own, a new one is new, and the dead were about to be published.
GenerationStep ==
  /\ used["gens"] <= used'["gens"]
  /\ \A c \in Procs : call'[c].at \in Building =>
       \/ call[c].at \in Building /\ call'[c].gen = call[c].gen
       \/ call'[c].gen > used["gens"]
  /\ \A g \in dead' \ dead : \E c \in Procs : call[c].at \in Building /\ call[c].gen = g

LEMMA GenerationMoves ==
  ASSUME IInv, [Next]_vars
  PROVE  GenerationStep
<1>0. /\ used["gens"] \in Nat /\ DataOK /\ CallOK
      /\ call \in [Procs -> Call]
  BY DEF IInv, DataOK, CallOK
<1>1. ASSUME NEW c \in Procs, NEW r, call' = [call EXCEPT ![c] = r],
             used["gens"] <= used'["gens"],
             r.at \in Building => \/ call[c].at \in Building /\ r.gen = call[c].gen
                                 \/ r.gen > used["gens"],
             \/ UNCHANGED dead
             \/ call[c].at \in Building /\ dead' = dead \cup {call[c].gen}
      PROVE  GenerationStep
  BY <1>0, <1>1 DEF GenerationStep
<1>2. ASSUME NEW c \in Procs, NEW to \in Places, Goto(c, to), used'["gens"] = used["gens"],
             to \notin Building \/ call[c].at \in Building,
             \/ UNCHANGED dead
             \/ call[c].at \in Building /\ dead' = dead \cup {call[c].gen}
      PROVE  GenerationStep
  <2>1. PICK r \in Call : call' = [call EXCEPT ![c] = r] /\ r.at = to /\ r.gen = call[c].gen
    BY <1>0, <1>2, GotoMoves
  <2>2. used["gens"] <= used'["gens"]
    BY <1>0, <1>2
  <2>3. r.at \in Building => call[c].at \in Building /\ r.gen = call[c].gen
    BY <1>2, <2>1
  <2>4. QED
    BY <1>1, <1>2, <2>1, <2>2, <2>3
<1>3. ASSUME NEW c \in Procs, NEW a, Answer(c, a), used'["gens"] = used["gens"],
             \/ UNCHANGED dead
             \/ call[c].at \in Building /\ dead' = dead \cup {call[c].gen}
      PROVE  GenerationStep
  <2>1. call' = [call EXCEPT ![c] = NoCall] /\ NoCall.at \notin Building
    BY <1>3, NoCallTyped DEF Answer, Building
  <2>2. used["gens"] <= used'["gens"]
    BY <1>0, <1>3
  <2>3. QED
    BY <1>1, <1>3, <2>1, <2>2
<1>4. CASE \E c \in Procs : Begin(c)
  <2>1. PICK c \in Procs : Begin(c)
    BY <1>4
  <2>2. used'["gens"] = used["gens"] + 1
    BY <1>0, <2>1, UseTyped DEF Begin
  <2> DEFINE r == [call[c] EXCEPT !.at = "prepare", !.gen = used'["gens"]]
  <2>3. call' = [call EXCEPT ![c] = r] /\ UNCHANGED dead /\ r.gen = used'["gens"]
    BY <1>0, <2>1 DEF Begin, Call
  <2> HIDE DEF r
  <2>4. used["gens"] <= used'["gens"] /\ r.gen > used["gens"]
    BY <1>0, <2>2, <2>3
  <2>5. QED
    BY <1>1, <2>3, <2>4
<1>5. ASSUME NEW c \in Procs, Activation(c), ~Begin(c)
      PROVE  /\ used'["gens"] = used["gens"]
             /\ \/ UNCHANGED dead
                \/ call[c].at \in Building /\ dead' = dead \cup {call[c].gen}
             /\ \/ \E a : Answer(c, a)
                \/ \E to \in Places :
                     Goto(c, to) /\ (to \notin Building \/ call[c].at \in Building)
  <2>1. CASE BeginUnapproved(c) \/ BeginWithoutVm(c)
    BY <2>1 DEF BeginUnapproved, BeginWithoutVm, EndBegin, Places, Building
  <2>2. CASE Prepare(c) \/ PrepareFails(c)
    BY <2>2 DEF Prepare, PrepareFails, Places, Building
  <2>3. CASE Bind(c)
    BY <1>0, <2>3, FaultTyped DEF Bind, Places, Building
  <2>4. CASE Publish(c)
    BY <2>4 DEF Publish, Places, Building
  <2>5. CASE Settle(c)
    BY <1>0, <2>5, MarkTyped DEF Settle, Places, Building
  <2>6. CASE CancelPrevious(c)
    BY <2>6 DEF CancelPrevious
  <2>7. CASE Fail(c) \/ GiveUp(c)
    BY <1>0, <2>7, MarkTyped DEF Fail, GiveUp, Places, Building
  <2>8. QED
    BY <1>5, <2>1, <2>2, <2>3, <2>4, <2>5, <2>6, <2>7 DEF Activation
<1>6. ASSUME NEW c \in Procs, Deactivation(c)
      PROVE  /\ used'["gens"] = used["gens"] /\ UNCHANGED dead
             /\ \/ \E a : Answer(c, a)
                \/ \E r : call' = [call EXCEPT ![c] = r] /\ r.at \notin Building
  <2>1. CASE Retire(c) \/ RemoveCapabilities(c) \/ StopTasks(c)
    <3>1. PICK to \in {"remove", "stop", "erase"} : Goto(c, to)
      BY <2>1 DEF Retire, RemoveCapabilities, StopTasks
    <3>2. \E r \in Call : call' = [call EXCEPT ![c] = r] /\ r.at = to
      BY <1>0, <3>1, GotoMoves DEF Places
    <3>3. QED
      BY <2>1, <3>1, <3>2 DEF Retire, RemoveCapabilities, StopTasks, Building
  <2>2. CASE Erase(c)
    <3>1. used'["gens"] = used["gens"] /\ UNCHANGED dead
      BY <1>0, <2>2, FaultTyped DEF Erase
    <3>2. CASE Goto(c, "unload")
      <4>1. \E r \in Call : call' = [call EXCEPT ![c] = r] /\ r.at = "unload"
        BY <1>0, <3>2, GotoMoves DEF Places
      <4>2. QED
        BY <3>1, <4>1 DEF Building
    <3>3. CASE call' = [call EXCEPT ![c] = [@ EXCEPT !.at = "unload", !.error = TRUE]]
      <4>1. [call[c] EXCEPT !.at = "unload", !.error = TRUE].at = "unload"
        BY <1>0 DEF Call
      <4>2. QED
        BY <3>1, <3>3, <4>1 DEF Building
    <3>4. QED
      BY <2>2, <3>2, <3>3 DEF Erase
  <2>3. CASE Unload(c)
    BY <1>0, <2>3, MarkTyped DEF Unload
  <2>4. QED
    BY <1>6, <2>1, <2>2, <2>3 DEF Deactivation
<1>7. ASSUME NEW c \in Callers, Request(c) \/ EnterToggle(c) \/ EnterReload(c) \/ Intent(c)
      PROVE  /\ used'["gens"] = used["gens"] /\ UNCHANGED dead
             /\ \/ \E a : Answer(c, a)
                \/ \E r : call' = [call EXCEPT ![c] = r] /\ r.at \notin Building
  <2>0. c \in Procs
    BY CallersAreProcs
  <2>1. CASE Request(c)
    <3>1. PICK k \in Kinds : call' = [call EXCEPT ![c] = [NoCall EXCEPT !.at = "lock", !.kind = k]]
      BY <2>1 DEF Request
    <3>2. [NoCall EXCEPT !.at = "lock", !.kind = k].at = "lock"
      BY DEF NoCall
    <3>3. used'["gens"] = used["gens"] /\ UNCHANGED dead
      BY <1>0, <2>1, UseTyped DEF Request
    <3>4. QED
      BY <3>1, <3>2, <3>3 DEF Building
  <2>2. CASE EnterReload(c)
    <3>1. [call[c] EXCEPT !.at = "begin", !.prev = handle.tasks].at = "begin"
      BY <1>0, <2>0 DEF Call
    <3>2. QED
      BY <2>2, <3>1 DEF EnterReload, Building
  <2>3. CASE EnterToggle(c) \/ Intent(c)
    <3>1. used'["gens"] = used["gens"] /\ UNCHANGED dead
      BY <1>0, <2>3, FaultTyped DEF EnterToggle, Intent
    <3>2. (\E a : Answer(c, a)) \/ \E to \in {"intent", "begin", "retire"} : Goto(c, to)
      BY <2>3 DEF EnterToggle, Intent
    <3>3. ASSUME NEW to \in {"intent", "begin", "retire"}, Goto(c, to)
          PROVE  \E r : call' = [call EXCEPT ![c] = r] /\ r.at \notin Building
      <4>1. \E r \in Call : call' = [call EXCEPT ![c] = r] /\ r.at = to
        BY <1>0, <2>0, <3>3, GotoMoves DEF Places
      <4>2. QED
        BY <4>1 DEF Building
    <3>4. QED
      BY <3>1, <3>2, <3>3
  <2>4. QED
    BY <1>7, <2>1, <2>2, <2>3
<1>8. ASSUME NEW c \in Callers, Drop(c)
      PROVE  /\ used'["gens"] = used["gens"] /\ Answer(c, "none")
             /\ \/ UNCHANGED dead
                \/ call[c].at \in Building /\ dead' = dead \cup {call[c].gen}
  BY <1>0, <1>8, UseTyped DEF Drop, Building
<1>9. CASE Refuse \/ Crash
  <2>1. call' = [b \in Procs |-> NoCall] /\ UNCHANGED <<used, dead>>
    BY <1>9 DEF Refuse, Crash, Die
  <2>2. QED
    BY <1>0, <2>1, NoCallTyped DEF Building, GenerationStep
<1>10. CASE StartActivating \/ StartSkipping \/ StartUnread
  <2>1. used'["gens"] = used["gens"] /\ UNCHANGED dead
    BY <1>0, <1>10 DEF StartActivating, StartSkipping, StartUnread, Boot, DataOK
  <2>2. \/ UNCHANGED call
        \/ call' = [call EXCEPT ![Booter] = [NoCall EXCEPT !.at = "begin", !.kind = "boot"]]
    BY <1>10 DEF StartActivating, StartSkipping, StartUnread
  <2>3. [NoCall EXCEPT !.at = "begin", !.kind = "boot"].at \notin Building
    BY DEF NoCall, Building
  <2>4. QED
    <3>1. CASE UNCHANGED call
      BY <1>0, <2>1, <3>1 DEF GenerationStep
    <3>2. used["gens"] <= used'["gens"] /\ Booter \in Procs
      BY <1>0, <2>1, CallersAreProcs
    <3>3. QED
      BY <1>1, <2>1, <2>2, <2>3, <3>1, <3>2
<1>11. CASE Land \/ (\E d \in Dispatches : Match(d) \/ Guard(d) \/ Respond(d)) \/ UNCHANGED vars
  <2>1. UNCHANGED <<call, dead>> /\ used'["gens"] = used["gens"]
    BY <1>0, <1>11, FaultTyped DEF Land, Match, Guard, Respond, vars
  <2>2. QED
    BY <1>0, <2>1 DEF GenerationStep
<1>12. ASSUME NEW c \in Procs, Activation(c) \/ Deactivation(c)
       PROVE  GenerationStep
  BY <1>0, <1>1, <1>2, <1>3, <1>4, <1>5, <1>6, <1>12
<1>13. ASSUME NEW c \in Callers,
              Request(c) \/ EnterToggle(c) \/ EnterReload(c) \/ Intent(c) \/ Drop(c)
       PROVE  GenerationStep
  BY <1>0, <1>1, <1>3, <1>7, <1>8, <1>13, CallersAreProcs
<1>14. QED
  BY <1>9, <1>10, <1>11, <1>12, <1>13, CallersAreProcs DEF Next, Step

\* A generation that failed or was dropped before its publication is never seen
\* afterwards and no request has matched a route of it (DeadNeverSeen):
\* activate_locked publishes only what it has built itself and what is bound, and
\* every VM is new.
THEOREM DeadStayUnseen == Spec => []DeadNeverSeen
<1>1. Init => Matched
  <2> SUFFICES ASSUME Init PROVE Matched
    OBVIOUS
  <2>1. \A d \in Dispatches : dispatch[d].gen = 0
    BY DEF Init, NoDispatch
  <2>2. \A c \in Procs : call[c].at = "idle"
    BY NoCallTyped DEF Init
  <2>3. QED
    BY <2>1, <2>2 DEF Init, Matched, Building
<1>2. AllInv /\ Matched /\ [Next]_vars => Matched'
  <2> SUFFICES ASSUME AllInv, Matched, [Next]_vars, NEW d \in Dispatches
               PROVE  /\ dispatch'[d].gen <= used'["gens"]
                      /\ dispatch'[d].gen \notin dead'
                      /\ \A c \in Procs : call'[c].at \in Building => call'[c].gen # dispatch'[d].gen
    BY DEF Matched
  <2> DEFINE g == dispatch'[d].gen
  <2>1. /\ used["gens"] \in Nat /\ used'["gens"] \in Nat /\ IInv /\ IInv' /\ g \in Nat
        /\ caps \in Nat /\ dispatch[d].gen \in Nat
        /\ \A c \in Procs : call[c].gen \in Nat /\ call'[c].gen \in Nat
    <3>1. IInv /\ IInv'
      BY StepKeepsInv DEF AllInv
    <3>2. \A x \in Gens \cup {0} : x \in Nat
      BY GensAreCounted
    <3>3. dispatch[d].gen \in Gens \cup {0} /\ g \in Gens \cup {0}
      BY <3>1 DEF IInv, DataOK
    <3>4. \A c \in Procs : call[c].gen \in Gens \cup {0} /\ call'[c].gen \in Gens \cup {0}
      BY <3>1 DEF IInv, CallOK, Call
    <3>5. used["gens"] \in Nat /\ used'["gens"] \in Nat /\ caps \in Nat
      BY <3>1, GensTyped DEF IInv, DataOK
    <3>6. QED
      BY <3>1, <3>2, <3>3, <3>4, <3>5
  <2>2. /\ g <= used["gens"] /\ g \notin dead
        /\ \A c \in Procs : call[c].at \in Building => call[c].gen # g
    <3>1. CASE g = dispatch[d].gen
      BY <3>1 DEF Matched
    <3>2. CASE g = 0
      <4>1. 0 \notin dead
        BY <2>1, GensTyped DEF IInv
      <4>2. \A c \in Procs : call[c].at \in Building => call[c].gen # 0
        BY <2>1 DEF IInv, Progress
      <4>3. QED
        BY <2>1, <3>2, <4>1, <4>2
    <3>3. CASE g = caps
      <4>1. caps \notin dead /\ caps <= used["gens"]
        BY <2>1 DEF IInv, DeadUnseen, Counted
      <4>2. \A c \in Procs : call[c].at \in Building => call[c].gen # caps
        BY <2>1 DEF IInv, Progress
      <4>3. QED
        BY <3>3, <4>1, <4>2
    <3>4. QED
      BY <2>1, <3>1, <3>2, <3>3, DispatchMoves DEF IInv, NoDispatch
  <2> HIDE DEF g
  <2>3. g <= used'["gens"] /\ g \notin dead'
    BY <2>1, <2>2, GenerationMoves DEF GenerationStep
  <2>4. ASSUME NEW c \in Procs, call'[c].at \in Building PROVE call'[c].gen # g
    <3>1. CASE call[c].at \in Building /\ call'[c].gen = call[c].gen
      BY <2>2, <3>1
    <3>2. CASE call'[c].gen > used["gens"]
      BY <2>1, <2>2, <3>2
    <3>3. QED
      BY <2>1, <2>4, <3>1, <3>2, GenerationMoves DEF GenerationStep
  <2>5. QED
    BY <2>3, <2>4 DEF g
<1>3. AllInv /\ Matched => DeadNeverSeen
  BY DEF AllInv, IInv, DeadUnseen, Matched, DeadNeverSeen
<1>4. QED
  BY <1>1, <1>2, <1>3, AllInvariant, PTL DEF Spec

\* A host that serves serves its required plugin (RequiredServes): bootstrap stops
\* without it, the toggle refuses it and a failed reload keeps what there was.
THEOREM RequiredIsServed == Spec => []RequiredServes
<1>1. AllInv => RequiredServes
  BY DEF AllInv, CalmInv, Required, RequiredServes
<1>2. QED
  BY <1>1, AllInvariant, PTL

\* Where only toggles are offered, as the host itself does, the row tells whether the
\* plugin is published (LoadedMeansPublished), so a toggle decides rightly by it.
THEOREM RowTellsPublished ==
  ASSUME "reload" \notin Kinds
  PROVE  Spec => []LoadedMeansPublished
<1>1. AllInv => LoadedMeansPublished
  BY DEF AllInv, CalmInv, Told, LoadedMeansPublished
<1>2. QED
  BY <1>1, AllInvariant, PTL
===============================================================================
