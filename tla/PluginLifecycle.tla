--------------------------- MODULE PluginLifecycle ---------------------------
(***************************************************************************)
(* The life of one Lua plugin: bootstrap, enable, disable and reload       *)
(* (lua/loader.rs RuntimeHost, context.rs, cli app.rs) over the governance *)
(* row and the policy bindings in SQLite, together with the requests that  *)
(* are dispatched to the plugin meanwhile.                                 *)
(*                                                                         *)
(* Every operation holds the plugin's lifecycle lock and is a chain of     *)
(* steps that end where the code awaits the database, the commit lock or   *)
(* the plugin's own code.  There it may fail, the process may stop, and    *)
(* the server may drop the operation because its client has gone; a write  *)
(* given to spawn_blocking then lands later, if at all, without the lock.  *)
(* The uncontended awaits in between (the host's own maps) end no step.    *)
(*                                                                         *)
(* Each activation that gets a VM is a new generation, a number, which     *)
(* names its capabilities, policy bindings, VM and one background task.    *)
(***************************************************************************)
EXTENDS Naturals, FiniteSets

CONSTANTS
  Callers,       \* concurrent lifecycle requests
  Booter,        \* the process that bootstraps the host
  NoCaller,      \* the lifecycle lock is free
  Dispatches,    \* concurrent requests to the plugin's routes
  Kinds,         \* the operations callers use, of enable, disable and reload
  MaxGens,       \* bound: generations
  MaxRequests,   \* bound: lifecycle requests
  MaxStarts,     \* bound: starts of the host
  MaxFaults,     \* bound: failed database calls
  MaxDrops       \* bound: dropped operations

ASSUME CallersAssumption == Booter \notin Callers /\ NoCaller \notin Callers \cup {Booter}
ASSUME KindsAssumption == Kinds \subseteq {"enable", "disable", "reload"}
ASSUME BoundsAssumption ==
  /\ {MaxGens, MaxRequests, MaxStarts, MaxFaults, MaxDrops} \subseteq Nat
  /\ MaxRequests + MaxStarts <= MaxGens   \* each makes at most one

VARIABLES
  phase,      \* of the host process
  entry,      \* the plugin's profile entry, read at start
  row,        \* database: the plugin_state row
  policy,     \* database: the generation of the policy bindings, 0 for none
  late,       \* writes of dropped operations, still to land
  caps,       \* the generation in the capability snapshot, 0 for none
  vm,         \* the generation in the VM map, 0 for none
  handle,     \* the handle map: a generation (0 for none) and its tasks
  tasks,      \* the generations whose background task runs
  status,     \* RuntimePluginStatus
  lock,       \* the holder of the lifecycle lock
  call,       \* call[c]: where lifecycle operation c is
  answer,     \* answer[c]: how the last one of c ended
  dispatch,   \* dispatch[d]: where request d is
  used,       \* what has been used of the bounds
  dead,       \* history: generations whose activation ended before publication
  off         \* history: a disable has been answered and no enable has begun

memory == <<caps, vm, handle, tasks, status>>
database == <<row, policy, late>>
vars == <<phase, entry, database, memory, lock, call, answer, dispatch, used, dead, off>>

Procs == Callers \cup {Booter}
Gens == 1..MaxGens
Entry == {e \in [required : BOOLEAN, enabled : BOOLEAN, approved : BOOLEAN] :
            e.required => e.enabled}
States == {"discovered", "resolved", "activating", "active", "failed", "deactivating",
           "inactive"}
Status(s, error) == [state |-> s, error |-> error]
NoHandle == [gen |-> 0, tasks |-> {}]

Places == {"idle", "lock", "intent", "begin", "prepare", "policy", "publish", "loaded", "previous",
           "fail", "giveup", "retire", "remove", "stop", "erase", "unload"}
Call == [at : Places, kind : {"none", "boot", "enable", "disable", "reload"},
         gen : Gens \cup {0}, prev : SUBSET Gens, error : BOOLEAN]
NoCall == [at |-> "idle", kind |-> "none", gen |-> 0, prev |-> {}, error |-> FALSE]
NoDispatch == [at |-> "idle", gen |-> 0]

Goto(c, place) == call' = [call EXCEPT ![c] = [@ EXCEPT !.at = place]]

\* The operation returns to its caller and gives the lock back.
Answer(c, a) ==
  /\ call' = [call EXCEPT ![c] = NoCall]
  /\ answer' = [answer EXCEPT ![c] = a]
  /\ lock' = IF lock = c THEN NoCaller ELSE lock

Use(b, max) == used[b] < max /\ used' = [used EXCEPT ![b] = used[b] + 1]
DbFails == Use("faults", MaxFaults)

\* mark_plugin_loaded: a failed write is logged and otherwise ignored.
MarkLoaded(loaded) ==
  \/ row' = [row EXCEPT !.loaded = loaded] /\ UNCHANGED used
  \/ DbFails /\ UNCHANGED row

-------------------------------------------------------------------------------
Init ==
  /\ phase = "down"
  /\ entry = [required |-> FALSE, enabled |-> TRUE, approved |-> TRUE]
  /\ row = [enabled |-> TRUE, loaded |-> FALSE]   \* also what the first start inserts
  /\ policy = 0
  /\ late = {}
  /\ caps = 0 /\ vm = 0 /\ handle = NoHandle /\ tasks = {}
  /\ status = Status("discovered", FALSE)
  /\ lock = NoCaller
  /\ call = [c \in Procs |-> NoCall]
  /\ answer = [c \in Procs |-> "none"]
  /\ dispatch = [d \in Dispatches |-> NoDispatch]
  /\ used = [gens |-> 0, requests |-> 0, starts |-> 0, faults |-> 0, drops |-> 0]
  /\ dead = {}
  /\ off = FALSE

\* The process ends: what it has in memory is gone.
Die ==
  /\ phase' = "down"
  /\ late' = {}
  /\ caps' = 0 /\ vm' = 0 /\ handle' = NoHandle /\ tasks' = {}
  /\ status' = Status("discovered", FALSE)
  /\ lock' = NoCaller
  /\ call' = [c \in Procs |-> NoCall]
  /\ answer' = [c \in Procs |-> "none"]
  /\ dispatch' = [d \in Dispatches |-> NoDispatch]
  /\ off' = FALSE
  /\ UNCHANGED <<entry, row, policy, used, dead>>

Crash == phase # "down" /\ Die

\* The row after the manifest is registered: the profile overrides the intent
\* of a required and of a disabled entry.
Registered(e) == [row EXCEPT !.enabled = e.required \/ (e.enabled /\ row.enabled)]

\* The start of a host whose profile has entry e.  A required entry that is not
\* approved stops the bootstrap before anything is opened.
Boot(e) ==
  /\ phase = "down"
  /\ used["starts"] < MaxStarts
  /\ e.required => e.approved
  /\ entry' = e
  /\ UNCHANGED <<policy, late, caps, vm, handle, tasks, answer, dispatch, dead, off>>

\* bootstrap goes on to activate the plugin.
StartActivating ==
  \E e \in Entry :
    /\ Boot(e)
    /\ e.enabled /\ e.approved /\ Registered(e).enabled
    /\ row' = Registered(e)
    /\ used' = [used EXCEPT !.starts = used["starts"] + 1]
    /\ phase' = "boot"
    /\ status' = Status("resolved", FALSE)
    /\ lock' = Booter
    /\ call' = [call EXCEPT ![Booter] = [NoCall EXCEPT !.at = "begin", !.kind = "boot"]]

\* bootstrap leaves the plugin out: disabled by the profile, not approved or
\* disabled by its row.  The write of loaded = false may fail unnoticed.
StartSkipping ==
  \E e \in Entry :
    /\ Boot(e)
    /\ ~e.enabled \/ ~e.approved \/ ~Registered(e).enabled
    /\ \/ /\ row' = [Registered(e) EXCEPT !.loaded = FALSE]
          /\ used' = [used EXCEPT !.starts = used["starts"] + 1]
       \/ /\ used["faults"] < MaxFaults
          /\ row' = Registered(e)
          /\ used' = [used EXCEPT !.starts = used["starts"] + 1,
                                  !.faults = used["faults"] + 1]
    /\ phase' = "serving"
    /\ status' = IF e.enabled /\ ~e.approved THEN Status("failed", TRUE)
                                             ELSE Status("inactive", FALSE)
    /\ UNCHANGED <<lock, call>>

\* plugin_runtime_enabled fails: the entry is skipped and the host goes on.
StartUnread ==
  \E e \in Entry :
    /\ Boot(e)
    /\ e.enabled /\ e.approved
    /\ used["faults"] < MaxFaults
    /\ row' = [Registered(e) EXCEPT !.loaded = FALSE]
    /\ used' = [used EXCEPT !.starts = used["starts"] + 1, !.faults = used["faults"] + 1]
    /\ phase' = "serving"
    /\ status' = Status("failed", TRUE)
    /\ UNCHANGED <<lock, call>>

-------------------------------------------------------------------------------
\* set_plugin_enabled or reload is called.
Request(c) ==
  /\ phase = "serving"
  /\ call[c].at = "idle"
  /\ Use("requests", MaxRequests)
  /\ \E k \in Kinds :
       call' = [call EXCEPT ![c] = [NoCall EXCEPT !.at = "lock", !.kind = k]]
  /\ answer' = [answer EXCEPT ![c] = "none"]
  /\ UNCHANGED <<phase, entry, database, memory, lock, dispatch, dead, off>>

Want(c) == call[c].kind = "enable"

\* Nothing to do, as far as the row tells.
AlreadySo(c) == row.enabled = Want(c) /\ row.loaded = Want(c)

\* Take the lifecycle lock, then refuse, find nothing to do, or set to work.
EnterToggle(c) ==
  /\ call[c].at = "lock" /\ call[c].kind # "reload"
  /\ lock = NoCaller
  /\ \/ entry.required /\ Answer(c, "err")
     \/ ~entry.required /\ AlreadySo(c) /\ Answer(c, "ok")
     \/ /\ ~entry.required /\ ~AlreadySo(c)
        /\ lock' = c
        /\ Goto(c, IF row.enabled # Want(c) THEN "intent"
                   ELSE IF Want(c) THEN "begin" ELSE "retire")
        /\ UNCHANGED answer
  /\ off' = (off \/ (~entry.required /\ AlreadySo(c) /\ ~Want(c)))
  /\ UNCHANGED <<phase, entry, database, memory, dispatch, used, dead>>

EnterReload(c) ==
  /\ call[c].at = "lock" /\ call[c].kind = "reload"
  /\ lock = NoCaller
  /\ lock' = c
  /\ call' = [call EXCEPT ![c] = [@ EXCEPT !.at = "begin", !.prev = handle.tasks]]
  /\ UNCHANGED <<phase, entry, database, memory, answer, dispatch, used, dead, off>>

\* set_enabled_intent: the row and its event in one transaction, then a read.
\* Either may fail.
Intent(c) ==
  /\ call[c].at = "intent"
  /\ \/ /\ row' = [row EXCEPT !.enabled = Want(c)]
        /\ Goto(c, IF Want(c) THEN "begin" ELSE "retire")
        /\ UNCHANGED <<lock, answer, used>>
     \/ /\ DbFails
        /\ row' \in {row, [row EXCEPT !.enabled = Want(c)]}
        /\ Answer(c, "err")
  /\ off' = (off /\ ~row'.enabled)
  /\ UNCHANGED <<phase, entry, policy, late, memory, dispatch, dead>>

-------------------------------------------------------------------------------
\* Activation, of a toggle, of a reload and of the bootstrap: a VM is created.
Begin(c) ==
  /\ call[c].at = "begin"
  /\ entry.approved
  /\ Use("gens", MaxGens)
  /\ call' = [call EXCEPT ![c] = [@ EXCEPT !.at = "prepare", !.gen = used'["gens"]]]
  /\ status' = Status("activating", FALSE)
  /\ UNCHANGED <<phase, entry, database, caps, vm, handle, tasks, lock, answer, dispatch,
                 dead, off>>

\* An error before there is a VM returns to whoever asked for the activation.
EndBegin(c) ==
  /\ IF call[c].kind = "reload" THEN Answer(c, "err")
     ELSE Goto(c, "giveup") /\ UNCHANGED <<lock, answer>>
  /\ UNCHANGED <<phase, entry, database, caps, vm, handle, tasks, dispatch, used, dead, off>>

BeginUnapproved(c) ==
  /\ call[c].at = "begin"
  /\ ~entry.approved
  /\ status' = Status("failed", TRUE)
  /\ EndBegin(c)

\* from_source fails, and its error is returned with ? before a status is set.
BeginWithoutVm(c) ==
  /\ call[c].at = "begin"
  /\ entry.approved
  /\ status' = Status("activating", FALSE)
  /\ EndBegin(c)

\* The entry script, init and staging have run and the commit is prepared.
Prepare(c) ==
  /\ call[c].at = "prepare"
  /\ Goto(c, "policy")
  /\ UNCHANGED <<phase, entry, database, memory, lock, answer, dispatch, used, dead, off>>

PrepareFails(c) ==
  /\ call[c].at = "prepare"
  /\ Goto(c, "fail")
  /\ dead' = dead \cup {call[c].gen}
  /\ UNCHANGED <<phase, entry, database, memory, lock, answer, dispatch, used, off>>

\* Mutants of Bind: the bindings of the generation are not written; the
\* generation is published before the outcome of the write is known.
BindNothing(c) ==
  /\ call[c].at = "policy"
  /\ Goto(c, "publish")
  /\ UNCHANGED <<phase, entry, database, memory, lock, answer, dispatch, used, dead, off>>
BindPublished(c) ==
  /\ call[c].at = "policy"
  /\ vm' = call[c].gen
  /\ caps' = call[c].gen
  /\ \/ /\ policy' = call[c].gen
        /\ Goto(c, "publish")
        /\ UNCHANGED <<used, dead>>
     \/ /\ DbFails
        /\ Goto(c, "fail")
        /\ dead' = dead \cup {call[c].gen}
        /\ UNCHANGED policy
  /\ UNCHANGED <<phase, entry, row, late, handle, tasks, status, lock, answer, dispatch, off>>

\* replace_plugin_policy_bindings: one transaction on a blocking thread.  Until
\* the operation resumes, the bindings of the new generation are stored beside
\* the routes of the previous one.
Bind(c) ==
  /\ call[c].at = "policy"
  /\ \/ /\ policy' = call[c].gen
        /\ Goto(c, "publish")
        /\ UNCHANGED <<used, dead>>
     \/ /\ DbFails
        /\ Goto(c, "fail")
        /\ dead' = dead \cup {call[c].gen}
        /\ UNCHANGED policy
  /\ UNCHANGED <<phase, entry, row, late, memory, lock, answer, dispatch, off>>

\* publish_lua_activation: the VM and the snapshot, in memory and without a failure.
Publish(c) ==
  /\ call[c].at = "publish"
  /\ vm' = call[c].gen
  /\ caps' = call[c].gen
  /\ Goto(c, "loaded")
  /\ UNCHANGED <<phase, entry, database, handle, tasks, status, lock, answer, dispatch, used,
                 dead, off>>

\* Mutant of Settle: a reload cancels by owner, so its own tasks too.
SettleCancellingOwner(c) ==
  /\ call[c].at = "loaded"
  /\ MarkLoaded(TRUE)
  /\ tasks' = tasks \cup {call[c].gen}
  /\ handle' = [gen |-> vm, tasks |-> tasks' \ call[c].prev]
  /\ IF call[c].kind = "reload"
     THEN /\ call' = [call EXCEPT ![c] = [@ EXCEPT !.at = "previous", !.prev = tasks']]
          /\ UNCHANGED <<phase, status, lock, answer>>
     ELSE /\ status' = Status("active", FALSE)
          /\ phase' = "serving"
          /\ Answer(c, "ok")
  /\ UNCHANGED <<entry, policy, late, caps, vm, dispatch, dead, off>>

\* The plugin is marked loaded, its tasks are started and its handle is made.
\* A reload still has to cancel the tasks of the previous handle.
Settle(c) ==
  /\ call[c].at = "loaded"
  /\ MarkLoaded(TRUE)
  /\ tasks' = tasks \cup {call[c].gen}
  /\ handle' = [gen |-> vm, tasks |-> tasks' \ call[c].prev]
  /\ IF call[c].kind = "reload"
     THEN Goto(c, "previous") /\ UNCHANGED <<phase, status, lock, answer>>
     ELSE /\ status' = Status("active", FALSE)
          /\ phase' = "serving"
          /\ Answer(c, "ok")
  /\ UNCHANGED <<entry, policy, late, caps, vm, dispatch, dead, off>>

\* cancel_registrations for the tasks of the previous handle.
CancelPrevious(c) ==
  /\ call[c].at = "previous"
  /\ tasks' = tasks \ call[c].prev
  /\ status' = Status("active", FALSE)
  /\ Answer(c, "ok")
  /\ UNCHANGED <<phase, entry, database, caps, vm, handle, dispatch, used, dead, off>>

\* The activation has failed.  A reload keeps what there was.
Fail(c) ==
  /\ call[c].at = "fail"
  /\ IF call[c].kind = "reload"
     THEN /\ status' = Status("active", TRUE)
          /\ Answer(c, "err")
          /\ UNCHANGED <<row, used>>
     ELSE /\ MarkLoaded(FALSE)
          /\ status' = Status("failed", TRUE)
          /\ Goto(c, "giveup")
          /\ UNCHANGED <<lock, answer>>
  /\ UNCHANGED <<phase, entry, policy, late, caps, vm, handle, tasks, dispatch, dead, off>>

\* Mutant of GiveUp: the toggle asks for the lifecycle lock it holds.
GiveUpRelocking(c) ==
  /\ call[c].at = "giveup"
  /\ lock = NoCaller
  /\ MarkLoaded(FALSE)
  /\ Answer(c, "err")
  /\ phase' = "serving"
  /\ UNCHANGED <<entry, policy, late, memory, dispatch, dead, off>>

\* set_plugin_enabled, or bootstrap for an optional entry, marks the plugin as
\* not loaded once more.
GiveUp(c) ==
  /\ call[c].at = "giveup"
  /\ ~(call[c].kind = "boot" /\ entry.required)
  /\ MarkLoaded(FALSE)
  /\ Answer(c, "err")
  /\ phase' = "serving"
  /\ UNCHANGED <<entry, policy, late, memory, dispatch, dead, off>>

\* Mutant of Refuse: a required entry is treated as an optional one.
RefuseNone ==
  /\ call[Booter].at = "giveup" /\ call[Booter].kind = "boot"
  /\ entry.required
  /\ Answer(Booter, "err")
  /\ phase' = "serving"
  /\ UNCHANGED <<entry, database, memory, dispatch, used, dead, off>>

\* A required entry that fails to activate stops the bootstrap.
Refuse ==
  /\ call[Booter].at = "giveup" /\ call[Booter].kind = "boot"
  /\ entry.required
  /\ Die

-------------------------------------------------------------------------------
\* deactivate_locked: what a disable takes down, in the order of the code.
Retire(c) ==
  /\ call[c].at = "retire"
  /\ status' = Status("deactivating", FALSE)
  /\ Goto(c, "remove")
  /\ UNCHANGED <<phase, entry, database, caps, vm, handle, tasks, lock, answer, dispatch,
                 used, dead, off>>

RemoveCapabilities(c) ==
  /\ call[c].at = "remove"
  /\ caps' = 0
  /\ Goto(c, "stop")
  /\ UNCHANGED <<phase, entry, database, vm, handle, tasks, status, lock, answer, dispatch,
                 used, dead, off>>

\* cancel_owner: whatever generation they belong to.
StopTasks(c) ==
  /\ call[c].at = "stop"
  /\ tasks' = {}
  /\ Goto(c, "erase")
  /\ UNCHANGED <<phase, entry, database, caps, vm, handle, status, lock, answer, dispatch,
                 used, dead, off>>

\* The bindings are deleted; a failure is reported, after the VM has been removed.
Erase(c) ==
  /\ call[c].at = "erase"
  /\ \/ /\ policy' = 0
        /\ Goto(c, "unload")
        /\ UNCHANGED used
     \/ /\ DbFails
        /\ call' = [call EXCEPT ![c] = [@ EXCEPT !.at = "unload", !.error = TRUE]]
        /\ UNCHANGED policy
  /\ vm' = 0
  /\ UNCHANGED <<phase, entry, row, late, caps, handle, tasks, status, lock, answer, dispatch,
                 dead, off>>

\* Mutants of Unload: the row keeps saying loaded; the handle is kept.
UnloadUnmarked(c) ==
  /\ call[c].at = "unload"
  /\ handle' = NoHandle
  /\ status' = Status("inactive", call[c].error)
  /\ Answer(c, IF call[c].error THEN "err" ELSE "ok")
  /\ off' = TRUE
  /\ UNCHANGED <<phase, entry, database, caps, vm, tasks, dispatch, used, dead>>
UnloadKeepingHandle(c) ==
  /\ call[c].at = "unload"
  /\ MarkLoaded(FALSE)
  /\ status' = Status("inactive", call[c].error)
  /\ Answer(c, IF call[c].error THEN "err" ELSE "ok")
  /\ off' = TRUE
  /\ UNCHANGED <<phase, entry, policy, late, caps, vm, handle, tasks, dispatch, dead>>

\* The rest of unregister_vm, and the end of the deactivation.
Unload(c) ==
  /\ call[c].at = "unload"
  /\ MarkLoaded(FALSE)
  /\ handle' = NoHandle
  /\ status' = Status("inactive", call[c].error)
  /\ Answer(c, IF call[c].error THEN "err" ELSE "ok")
  /\ off' = TRUE
  /\ UNCHANGED <<phase, entry, policy, late, caps, vm, tasks, dispatch, dead>>

-------------------------------------------------------------------------------
\* The database write that operation c is waiting for.
Write(field, value) == [field |-> field, value |-> value]
Waited(c) ==
  CASE call[c].at = "intent"             -> {Write("enabled", Want(c))}
    [] call[c].at = "policy"             -> {Write("policy", call[c].gen)}
    [] call[c].at = "loaded"             -> {Write("loaded", TRUE)}
    [] call[c].at \in {"fail", "giveup", "unload"} ->
         IF call[c].kind = "reload" THEN {} ELSE {Write("loaded", FALSE)}
    [] call[c].at = "erase"              -> {Write("policy", 0)}
    [] OTHER                             -> {}

\* The operation's future is dropped where it awaits; the lock is given back,
\* and the write it was waiting for is still under way or was never made.
Drop(c) ==
  /\ call[c].at \notin {"idle", "begin", "retire"}
  /\ call[c].at = "fail" => call[c].kind # "reload"
  /\ Use("drops", MaxDrops)
  /\ late' \in {late, late \cup Waited(c)}
  /\ dead' = IF call[c].at \in {"prepare", "policy", "publish"}
             THEN dead \cup {call[c].gen} ELSE dead
  /\ Answer(c, "none")
  /\ UNCHANGED <<phase, entry, row, policy, memory, dispatch, off>>

\* The write of a dropped operation lands.
Land ==
  /\ \E w \in late :
       /\ late' = late \ {w}
       /\ row' = [row EXCEPT !.enabled = IF w.field = "enabled" THEN w.value ELSE @,
                             !.loaded  = IF w.field = "loaded"  THEN w.value ELSE @]
       /\ policy' = IF w.field = "policy" THEN w.value ELSE policy
  /\ UNCHANGED <<phase, entry, memory, lock, call, answer, dispatch, used, dead, off>>

-------------------------------------------------------------------------------
\* A request finds one of the plugin's routes in the snapshot of the moment.
Match(d) ==
  /\ phase = "serving"
  /\ dispatch[d].at = "idle"
  /\ caps # 0
  /\ dispatch' = [dispatch EXCEPT ![d] = [at |-> "guard", gen |-> caps]]
  /\ UNCHANGED <<phase, entry, database, memory, lock, call, answer, used, dead, off>>

\* Mutant of Guard: the row is not read.
GuardNothing(d) ==
  /\ dispatch[d].at = "guard"
  /\ dispatch' = [dispatch EXCEPT ![d] = [@ EXCEPT !.at = "run"]]
  /\ UNCHANGED <<phase, entry, database, memory, lock, call, answer, used, dead, off>>

\* guard_plugin_enabled reads the row; the call then runs in the runtime that its
\* registration holds.  A failed read refuses the request like a disabled row.
Guard(d) ==
  /\ dispatch[d].at = "guard"
  /\ \/ /\ row.enabled
        /\ dispatch' = [dispatch EXCEPT ![d] = [@ EXCEPT !.at = "run"]]
        /\ UNCHANGED used
     \/ /\ ~row.enabled
        /\ dispatch' = [dispatch EXCEPT ![d] = NoDispatch]
        /\ UNCHANGED used
     \/ /\ DbFails
        /\ dispatch' = [dispatch EXCEPT ![d] = NoDispatch]
  /\ UNCHANGED <<phase, entry, database, memory, lock, call, answer, dead, off>>

Respond(d) ==
  /\ dispatch[d].at = "run"
  /\ dispatch' = [dispatch EXCEPT ![d] = NoDispatch]
  /\ UNCHANGED <<phase, entry, database, memory, lock, call, answer, used, dead, off>>

-------------------------------------------------------------------------------
Activation(c) ==
  \/ Begin(c) \/ BeginUnapproved(c) \/ BeginWithoutVm(c) \/ Prepare(c) \/ PrepareFails(c)
  \/ Bind(c) \/ Publish(c) \/ Settle(c) \/ CancelPrevious(c) \/ Fail(c) \/ GiveUp(c)

Deactivation(c) ==
  Retire(c) \/ RemoveCapabilities(c) \/ StopTasks(c) \/ Erase(c) \/ Unload(c)

Step(c) == Intent(c) \/ Activation(c) \/ Deactivation(c)

Next ==
  \/ StartActivating \/ StartSkipping \/ StartUnread \/ Refuse \/ Crash \/ Land
  \/ Activation(Booter)
  \/ \E c \in Callers :
       Request(c) \/ EnterToggle(c) \/ EnterReload(c) \/ Step(c) \/ Drop(c)
  \/ \E d \in Dispatches : Match(d) \/ Guard(d) \/ Respond(d)

Spec == Init /\ [][Next]_vars

\* An operation that can go on does: the database answers, and plugin code ends.
\* tokio's mutex is first-in first-out, so a waiter it keeps becoming free for
\* gets it.
Fairness ==
  /\ \A c \in Callers : WF_vars(Step(c)) /\ SF_vars(EnterToggle(c) \/ EnterReload(c))
  /\ WF_vars(Activation(Booter) \/ Refuse)

FairSpec == Spec /\ Fairness

-------------------------------------------------------------------------------
\* Every variable has its type, and only the holder of the lifecycle lock is
\* past the point of taking it.
TypeOK ==
  /\ phase \in {"down", "boot", "serving"}
  /\ entry \in Entry
  /\ row \in [enabled : BOOLEAN, loaded : BOOLEAN]
  /\ policy \in Gens \cup {0}
  /\ late \subseteq [field : {"enabled", "loaded"}, value : BOOLEAN]
                     \cup [field : {"policy"}, value : Gens \cup {0}]
  /\ caps \in Gens \cup {0}
  /\ vm \in Gens \cup {0}
  /\ handle \in [gen : Gens \cup {0}, tasks : SUBSET Gens]
  /\ tasks \subseteq Gens
  /\ status \in [state : States, error : BOOLEAN]
  /\ lock \in Procs \cup {NoCaller}
  /\ call \in [Procs -> Call]
  /\ \A c \in Procs : lock = c <=> call[c].at \notin {"idle", "lock"}
  /\ answer \in [Procs -> {"none", "ok", "err"}]
  /\ dispatch \in [Dispatches -> [at : {"idle", "guard", "run"}, gen : Gens \cup {0}]]
  /\ used \in [{"gens", "requests", "starts", "faults", "drops"} -> Nat]
  /\ dead \subseteq Gens
  /\ off \in BOOLEAN

\* No lifecycle operation is at work.
Quiet == phase = "serving" /\ lock = NoCaller

\* No operation has been dropped; and no database call has failed either.
Undropped == used.drops = 0
Calm == Undropped /\ used.faults = 0

\* Whenever no operation is at work, the snapshot, the VM map and the handle are
\* all of one generation, or all empty: operations fail part of the way at
\* different depths, and none leaves half a plugin (no drops).
OneGeneration == Quiet /\ Undropped => caps = vm /\ vm = handle.gen

\* Whenever no operation is at work, the handle lists exactly the tasks that run,
\* so that a reload finds what it has to cancel, and the published generation has
\* its own task: no reload kills the tasks it has just started (no drops).
TasksAccounted == Quiet /\ Undropped => tasks = handle.tasks /\ (vm # 0 => vm \in tasks)

\* While routes of a generation can be matched, the stored bindings, which the
\* authorizer is compiled from, are those of that generation; only while an
\* activation is between their commit and its publication they are already those
\* of the generation to come (no drops).
PolicyCovers ==
  caps # 0 /\ Undropped =>
    policy = caps \/ \E c \in Procs : call[c].at = "publish" /\ policy = call[c].gen

\* What the governance table says of the plugin is true whenever no operation is
\* at work (no drops, no failed database call): the next toggle decides by it
\* whether there is anything to do.
LoadedMeansPublished == Quiet /\ Calm => (row.loaded <=> caps # 0)

\* Once a disable has been answered and until an enable begins, no request gets
\* to run plugin code, not even one that had matched its route before (no drops).
NoCallOnceDisabled ==
  [][\A d \in Dispatches : off /\ Undropped' /\ dispatch[d].at # "run" => dispatch'[d].at # "run"]_vars

\* A plugin shown as inactive has nothing left in the host, even when operations
\* are dropped and database calls fail.
InactiveIsEmpty ==
  status.state = "inactive" => caps = 0 /\ vm = 0 /\ handle = NoHandle /\ tasks = {}

\* A generation whose activation failed or was dropped before its publication is
\* never seen: not in the snapshot, the VM map, the handle or among the tasks, and
\* no request has matched a route of it, although its bindings may be stored.
DeadNeverSeen ==
  \A g \in dead :
    /\ g \notin {caps, vm, handle.gen}
    /\ g \notin tasks
    /\ \A d \in Dispatches : dispatch[d].gen # g

\* While the host serves, a required plugin is published: the toggle refuses it,
\* a failed reload keeps it and a failed activation stops the bootstrap (no
\* failed database call).
RequiredServes == phase = "serving" /\ entry.required /\ Calm => caps # 0 /\ row.enabled

\* Every lifecycle request is answered, or has been dropped.
RequestsEnd == \A c \in Callers : (call[c].at # "idle") ~> (call[c].at = "idle")
===============================================================================
