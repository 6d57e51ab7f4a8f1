----------------------------- MODULE TaskRegistry -----------------------------
(***************************************************************************)
(* The background tasks of runtime/task.rs.  A task is registered under    *)
(* its owner before its body may run, and takes itself out of the registry *)
(* when the body returns.  A cancellation lists the tasks it is about,     *)
(* signals them, polls the registry until they have left or a deadline     *)
(* passes, and then aborts them and sweeps their entries.  tokio aborts a  *)
(* task only where it awaits, so a body that is being polled runs on until *)
(* it next yields.                                                         *)
(*                                                                         *)
(* Every critical section of the registry's mutex is free of awaits, hence *)
(* one step.                                                               *)
(***************************************************************************)
EXTENDS Naturals, FiniteSets

CONSTANTS
  Tasks,      \* the tasks that can be spawned
  TaskOwners, \* plugin instance ids
  NoOwner,    \* the owner of a task not spawned yet
  Calls       \* the cancellations that can be made

ASSUME NoOwnerAssumption == NoOwner \notin TaskOwners

VARIABLES
  owner,      \* owner[t]: the owner t was spawned for
  body,       \* body[t]: what the task is doing
  entries,    \* the tasks in the registry
  cancelled,  \* the tasks whose token says cancelled
  aborting,   \* the tasks whose abort handle has been used
  call        \* call[k]: where cancellation k is

taskVars == <<owner, body, entries, cancelled, aborting, call>>

Running == {"parked", "polling", "removing"}
Stopped == {"ended", "panicked", "aborted"}
Stages == {"idle", "list", "signal", "wait", "abort", "sweep", "done", "dropped"}
Ended == {"done", "dropped"}

Call == [stage : Stages, todo : SUBSET TaskOwners, targets : SUBSET Tasks,
         controls : SUBSET Tasks, due : SUBSET Tasks]
NoCall == [stage |-> "idle", todo |-> {}, targets |-> {}, controls |-> {}, due |-> {}]

EntriesOf(o) == {t \in entries : owner[t] = o}
Live(t) == body[t] \in Running

-------------------------------------------------------------------------------
TasksInit ==
  /\ owner = [t \in Tasks |-> NoOwner]
  /\ body = [t \in Tasks |-> "unspawned"]
  /\ entries = {}
  /\ cancelled = {}
  /\ aborting = {}
  /\ call = [k \in Calls |-> NoCall]

\* spawn_owned: the entry is pushed under the lock the task needs to leave.
Spawn(t, o) ==
  /\ body[t] = "unspawned"
  /\ body' = [body EXCEPT ![t] = "parked"]
  /\ owner' = [owner EXCEPT ![t] = o]
  /\ entries' = entries \cup {t}
  /\ UNCHANGED <<cancelled, aborting, call>>

\* The runtime polls the task, unless it is being aborted.
Poll(t) ==
  /\ body[t] = "parked"
  /\ t \notin aborting
  /\ body' = [body EXCEPT ![t] = "polling"]
  /\ UNCHANGED <<owner, entries, cancelled, aborting, call>>

\* The body awaits, returns or panics; it may return without having been told to.
Return(t) ==
  /\ body[t] = "polling"
  /\ \E b \in {"parked", "removing", "panicked"} : body' = [body EXCEPT ![t] = b]
  /\ UNCHANGED <<owner, entries, cancelled, aborting, call>>

\* remove_task, which a task aborted while it awaits the lock does not reach.
RemoveSelf(t) ==
  /\ body[t] = "removing"
  /\ body' = [body EXCEPT ![t] = "ended"]
  /\ entries' = entries \ {t}
  /\ UNCHANGED <<owner, cancelled, aborting, call>>

Aborted(t) ==
  /\ t \in aborting
  /\ body[t] \in {"parked", "removing"}
  /\ body' = [body EXCEPT ![t] = "aborted"]
  /\ UNCHANGED <<owner, entries, cancelled, aborting, call>>

-------------------------------------------------------------------------------
\* cancel_owner, cancel_all, and cancel_registrations for the tasks of a handle.
\* due records, for the properties, what was registered when the call began.
BeginOwner(k, o) ==
  /\ call[k].stage = "idle"
  /\ call' = [call EXCEPT ![k] = [NoCall EXCEPT !.stage = "list", !.todo = {o},
                                                !.due = EntriesOf(o)]]
  /\ UNCHANGED <<owner, body, entries, cancelled, aborting>>

BeginAll(k) ==
  /\ call[k].stage = "idle"
  /\ call' = [call EXCEPT ![k] =
                [NoCall EXCEPT !.stage = IF entries = {} THEN "done" ELSE "list",
                               !.todo = {owner[t] : t \in entries},
                               !.due = entries]]
  /\ UNCHANGED <<owner, body, entries, cancelled, aborting>>

BeginRegistrations(k, o) ==
  /\ call[k].stage = "idle"
  /\ \E S \in SUBSET {t \in Tasks : owner[t] = o} :
       call' = [call EXCEPT ![k] = [NoCall EXCEPT !.stage = "signal", !.targets = S,
                                                  !.due = S \cap entries]]
  /\ UNCHANGED <<owner, body, entries, cancelled, aborting>>

\* registrations_for_owner, for the next owner of the call.
List(k) ==
  /\ call[k].stage = "list"
  /\ \E o \in call[k].todo :
       call' = [call EXCEPT ![k] = [@ EXCEPT !.stage = "signal",
                                             !.todo = call[k].todo \ {o},
                                             !.targets = EntriesOf(o)]]
  /\ UNCHANGED <<owner, body, entries, cancelled, aborting>>

\* Clone the controls of the targets still registered and send the signal.
Signal(k) ==
  /\ call[k].stage = "signal"
  /\ call' = [call EXCEPT ![k] = [@ EXCEPT !.stage = "wait",
                                           !.controls = call[k].targets \cap entries]]
  /\ cancelled' = cancelled \cup (call[k].targets \cap entries)
  /\ UNCHANGED <<owner, body, entries, aborting>>

\* Mutant of Continue: cancel_all stops after its first owner.
ContinueWithNothing(k) ==
  call' = [call EXCEPT ![k] = [NoCall EXCEPT !.stage = "done", !.due = call[k].due]]

\* The call returns, or goes on to its next owner.
Continue(k) ==
  call' = [call EXCEPT ![k] =
             [NoCall EXCEPT !.stage = IF call[k].todo = {} THEN "done" ELSE "list",
                            !.todo = call[k].todo, !.due = call[k].due]]

Observe(k) ==
  /\ call[k].stage = "wait"
  /\ call[k].targets \cap entries = {}
  /\ Continue(k)
  /\ UNCHANGED <<owner, body, entries, cancelled, aborting>>

\* Mutant of Expire: the deadline is set again on every round.
ExpireNever(k) ==
  /\ call[k].stage = "wait"
  /\ call[k].targets \cap entries # {}
  /\ UNCHANGED taskVars

\* A target is still registered and the deadline has passed.
Expire(k) ==
  /\ call[k].stage = "wait"
  /\ call[k].targets \cap entries # {}
  /\ call' = [call EXCEPT ![k] = [@ EXCEPT !.stage = "abort"]]
  /\ UNCHANGED <<owner, body, entries, cancelled, aborting>>

\* Mutant of Abort: the abort handles are not used.
AbortNothing(k) ==
  /\ call[k].stage = "abort"
  /\ call' = [call EXCEPT ![k] = [@ EXCEPT !.stage = "sweep"]]
  /\ UNCHANGED <<owner, body, entries, cancelled, aborting>>

Abort(k) ==
  /\ call[k].stage = "abort"
  /\ call' = [call EXCEPT ![k] = [@ EXCEPT !.stage = "sweep"]]
  /\ aborting' = aborting \cup call[k].controls
  /\ UNCHANGED <<owner, body, entries, cancelled>>

Sweep(k) ==
  /\ call[k].stage = "sweep"
  /\ entries' = entries \ call[k].targets
  /\ Continue(k)
  /\ UNCHANGED <<owner, body, cancelled, aborting>>

\* The caller's future is dropped at one of its awaits.
Drop(k) ==
  /\ call[k].stage \in {"list", "signal", "wait", "sweep"}
  /\ call' = [call EXCEPT ![k] = [NoCall EXCEPT !.stage = "dropped"]]
  /\ UNCHANGED <<owner, body, entries, cancelled, aborting>>

Step(k) ==
  List(k) \/ Signal(k) \/ Observe(k) \/ Expire(k) \/ Abort(k) \/ Sweep(k)

TasksNext ==
  \/ \E t \in Tasks, o \in TaskOwners : Spawn(t, o)
  \/ \E t \in Tasks : Poll(t) \/ Return(t) \/ RemoveSelf(t) \/ Aborted(t)
  \/ \E k \in Calls, o \in TaskOwners : BeginOwner(k, o) \/ BeginRegistrations(k, o)
  \/ \E k \in Calls : BeginAll(k) \/ Step(k) \/ Drop(k)

TasksSpec == TasksInit /\ [][TasksNext]_taskVars

\* A call goes on: its sleeps end and the deadline comes.  The runtime drops an
\* aborted task where it awaits, and a task that asks for the lock gets it.
\* Nothing is assumed of the bodies.
TasksFairness ==
  /\ \A k \in Calls : WF_taskVars(Step(k))
  /\ \A t \in Tasks : WF_taskVars(RemoveSelf(t) \/ Aborted(t))

TasksFairSpec == TasksSpec /\ TasksFairness

-------------------------------------------------------------------------------
\* Every variable has its type, and the registry holds spawned tasks only.
TasksTypeOK ==
  /\ owner \in [Tasks -> TaskOwners \cup {NoOwner}]
  /\ body \in [Tasks -> Running \cup Stopped \cup {"unspawned"}]
  /\ entries \subseteq {t \in Tasks : owner[t] # NoOwner}
  /\ \A t \in Tasks : body[t] = "unspawned" <=> owner[t] = NoOwner
  /\ cancelled \subseteq Tasks
  /\ aborting \subseteq Tasks
  /\ call \in [Calls -> Call]

\* No task outlives its entry, except one that has been aborted and only runs
\* until its next await: whatever calls, drops and panics have happened, a later
\* disable or shutdown still finds every task (cancel_owner works from entries).
NoOrphan == \A t \in Tasks : Live(t) /\ t \notin entries => t \in aborting

\* A task no cancellation has to wait for any more.
Settled(t) == t \notin entries /\ (Live(t) => t \in aborting)

\* When a cancellation returns, no task it was called for is registered, and each
\* has stopped or been aborted, although tasks end, others are spawned and other
\* cancellations of the same tasks run meanwhile (remove_owner_effects and
\* shutdown rely on it).
DueAreSettled ==
  \A k \in Calls : call[k].stage = "done" => \A t \in call[k].due : Settled(t)

\* A cancellation always returns, whatever the tasks do: the deadline bounds a
\* task that ignores its signal, has panicked or never yields.
CallsEnd ==
  \A k \in Calls : (call[k].stage \notin Ended \cup {"idle"}) ~> (call[k].stage \in Ended)

\* Once a cancellation has returned, every task it was called for stops, as long
\* as its body keeps yielding: none is left running detached from the registry.
DueStop ==
  \A k \in Calls, t \in Tasks :
    []<>(body[t] # "polling") =>
      [](call[k].stage = "done" /\ t \in call[k].due => <>~Live(t))
===============================================================================
