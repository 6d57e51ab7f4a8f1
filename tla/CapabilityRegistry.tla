-------------------------- MODULE CapabilityRegistry --------------------------
(***************************************************************************)
(* The registry of runtime/registry.rs: one immutable snapshot of every    *)
(* owner's capabilities, replaced as a whole by callers that serialise on  *)
(* a commit lock.  An activation stages its contributions, prepares them   *)
(* (acquire the lock, validate against the current snapshot, build the     *)
(* next one), and publishes or abandons the result; the lock stays held in *)
(* between, across the caller's database write.  Owner removal and event   *)
(* (un)subscription take the same lock.                                    *)
(*                                                                         *)
(* A key stands for any exclusive capability: a transport surface, an HTTP *)
(* method and path, an admin page, a CLI command, a menu id, a template or *)
(* a static root.  The code validates and replaces each kind by the same   *)
(* rule.  Event subscriptions have ids of their own and never conflict.    *)
(***************************************************************************)
EXTENDS Naturals, Sequences

CONSTANTS
  Owners,          \* plugin instance ids
  Callers,         \* tasks that use the registry concurrently
  Keys,            \* exclusive capability keys
  ReservedKeys,    \* the keys kept for the host
  BuiltinOwners,   \* the owners activated from a builtin factory
  NoCaller,        \* the commit lock is free
  MaxSpecs,        \* bound: keys staged by one request
  MaxRequests      \* bound: requests made in one behaviour

ASSUME OwnersAssumption  == BuiltinOwners \subseteq Owners
ASSUME KeysAssumption    == ReservedKeys \subseteq Keys
ASSUME CallersAssumption == NoCaller \notin Callers
ASSUME BoundsAssumption  == MaxSpecs \in Nat /\ MaxRequests \in Nat

VARIABLES
  current,      \* the published snapshot
  lock,         \* the holder of commit_lock
  pc,           \* pc[c]: where caller c is
  op,           \* op[c]: the request c is carrying out
  next,         \* next[c]: the snapshot c has built and not yet published
  nextId,       \* the global counter behind RegistrationId::next
  nextSub,      \* the global counter behind subscription ids
  requests      \* how many requests have been made

vars == <<current, lock, pc, op, next, nextId, nextSub, requests>>

-------------------------------------------------------------------------------
Sources == {"builtin", "lua", "rust"}

Registration == [id : Nat, owner : Owners, source : Sources, key : Keys]
Subscription == [owner : Owners, sub : Nat]
Snapshot == [caps : SUBSET Registration, subs : SUBSET Subscription]
EmptySnapshot == [caps |-> {}, subs |-> {}]

\* A staged activation names its keys in registration order, duplicates
\* included; validation is what rejects them.
StagedKinds  == {"replace", "merge"}
Staged == [kind : StagedKinds, owner : Owners, source : Sources,
           specs : Seq(Keys), subs : SUBSET Nat]
Removal ==
  [kind : {"removeOwner", "unsubscribeOwner"}, owner : Owners]
    \cup [kind : {"unsubscribe"}, sub : Nat]
Request == Staged \cup Removal
NoRequest == [kind |-> "none"]

KeysOf(r) == {r.specs[i] : i \in DOMAIN r.specs}
IsStaged(r) == r.kind \in StagedKinds

-------------------------------------------------------------------------------
\* The validate_* functions: a key staged twice, a key another owner has in the
\* snapshot, or a host key staged by anything but a builtin.
Conflict(s, r) ==
  \/ \E i, j \in DOMAIN r.specs : i # j /\ r.specs[i] = r.specs[j]
  \/ \E c \in s.caps : c.key \in KeysOf(r) /\ c.owner # r.owner
  \/ r.source # "builtin" /\ KeysOf(r) \cap ReservedKeys # {}

\* Mutant of Retained: the handlers of the current snapshot are not carried over.
RetainedWithoutHandlers(s, r) ==
  [caps |-> {c \in s.caps : c.owner = r.owner =>
                              r.kind = "merge" /\ c.key \notin KeysOf(r)},
   subs |-> {}]

\* What survives of the current snapshot when r is committed.
Retained(s, r) ==
  [caps |-> {c \in s.caps : c.owner = r.owner =>
                              r.kind = "merge" /\ c.key \notin KeysOf(r)},
   subs |-> {e \in s.subs : e.owner = r.owner =>
                              r.kind = "merge" /\ e.sub \notin r.subs}]

NewRegistrations(r, base) ==
  {[id |-> base + i, owner |-> r.owner, source |-> r.source, key |-> r.specs[i]]
     : i \in DOMAIN r.specs}

NewSubscriptions(r) == {[owner |-> r.owner, sub |-> n] : n \in r.subs}

\* build_committed_snapshot, once validation has passed.
Committed(s, r, base) ==
  [caps |-> Retained(s, r).caps \cup NewRegistrations(r, base),
   subs |-> Retained(s, r).subs \cup NewSubscriptions(r)]

\* remove_owner, remove_event_subscription, remove_event_subscriptions_by_owner.
Removed(s, r) ==
  [caps |-> IF r.kind = "removeOwner" THEN {c \in s.caps : c.owner # r.owner}
            ELSE s.caps,
   subs |-> IF r.kind = "unsubscribe" THEN {e \in s.subs : e.sub # r.sub}
            ELSE {e \in s.subs : e.owner # r.owner}]

Built(s, r, base) == IF IsStaged(r) THEN Committed(s, r, base) ELSE Removed(s, r)

-------------------------------------------------------------------------------
Init ==
  /\ current = EmptySnapshot
  /\ lock = NoCaller
  /\ pc = [c \in Callers |-> "idle"]
  /\ op = [c \in Callers |-> NoRequest]
  /\ next = [c \in Callers |-> EmptySnapshot]
  /\ nextId = 0
  /\ nextSub = 0
  /\ requests = 0

Submit(c, r) ==
  /\ pc[c] = "idle"
  /\ requests < MaxRequests
  /\ requests' = requests + 1
  /\ op' = [op EXCEPT ![c] = r]
  /\ pc' = [pc EXCEPT ![c] = "waiting"]
  /\ UNCHANGED <<current, lock, next, nextId>>

\* A builtin or Lua activation: replaces everything its owner has registered.
\* Each event subscription it stages draws its id from the global counter.
StageActivation(c) ==
  \E o \in Owners, n \in 0..MaxSpecs, k \in 0..1 : \E specs \in [1..n -> Keys] :
    /\ Submit(c, [kind |-> "replace", owner |-> o,
                  source |-> IF o \in BuiltinOwners THEN "builtin" ELSE "lua",
                  specs |-> specs, subs |-> nextSub..(nextSub + k - 1)])
    /\ nextSub' = nextSub + k

\* commit: merges into what the owner has, as EventBus::on_owned does with one
\* subscription and host code may do with any staged set.
StageMerge(c) ==
  \E o \in Owners, n \in 0..MaxSpecs, k \in 0..1 : \E specs \in [1..n -> Keys] :
    /\ Submit(c, [kind |-> "merge", owner |-> o, source |-> "rust",
                  specs |-> specs, subs |-> nextSub..(nextSub + k - 1)])
    /\ nextSub' = nextSub + k

RequestRemoval(c) ==
  /\ \/ \E o \in Owners, kind \in {"removeOwner", "unsubscribeOwner"} :
          Submit(c, [kind |-> kind, owner |-> o])
     \/ \E n \in 0..(nextSub - 1) : Submit(c, [kind |-> "unsubscribe", sub |-> n])
  /\ UNCHANGED nextSub

\* Mutant of Acquire: prepare does not take the commit lock.
AcquireWithoutLock(c) ==
  /\ pc[c] = "waiting"
  /\ pc' = [pc EXCEPT ![c] = "locked"]
  /\ UNCHANGED <<current, lock, op, next, nextId, nextSub, requests>>

Acquire(c) ==
  /\ pc[c] = "waiting"
  /\ lock = NoCaller
  /\ lock' = c
  /\ pc' = [pc EXCEPT ![c] = "locked"]
  /\ UNCHANGED <<current, op, next, nextId, nextSub, requests>>

\* Read the current snapshot and derive the next one from it.
Build(c) ==
  /\ pc[c] = "locked"
  /\ IsStaged(op[c]) => ~Conflict(current, op[c])
  /\ next' = [next EXCEPT ![c] = Built(current, op[c], nextId)]
  /\ nextId' = IF IsStaged(op[c]) THEN nextId + Len(op[c].specs) ELSE nextId
  /\ pc' = [pc EXCEPT ![c] = "pending"]
  /\ UNCHANGED <<current, lock, op, nextSub, requests>>

\* Mutant of Release: the guard outlives its caller.
ReleaseKeepingLock(c) ==
  /\ pc' = [pc EXCEPT ![c] = "idle"]
  /\ op' = [op EXCEPT ![c] = NoRequest]
  /\ next' = [next EXCEPT ![c] = EmptySnapshot]
  /\ UNCHANGED <<lock, nextId, nextSub, requests>>

\* The caller is done: its guard, if it held one, is dropped.
Release(c) ==
  /\ lock' = IF lock = c THEN NoCaller ELSE lock
  /\ pc' = [pc EXCEPT ![c] = "idle"]
  /\ op' = [op EXCEPT ![c] = NoRequest]
  /\ next' = [next EXCEPT ![c] = EmptySnapshot]
  /\ UNCHANGED <<nextId, nextSub, requests>>

\* prepare returns a RegistrationConflict, dropping the guard and the staged set.
Reject(c) ==
  /\ pc[c] = "locked"
  /\ IsStaged(op[c]) /\ Conflict(current, op[c])
  /\ Release(c)
  /\ UNCHANGED current

Publish(c) ==
  /\ pc[c] = "pending"
  /\ current' = next[c]
  /\ Release(c)

\* The caller's future is dropped while it waits for the lock, or the pending
\* commit is dropped because the caller failed between prepare and publish.
\* A removal does not await once it holds the lock.
Abandon(c) ==
  /\ pc[c] = "waiting" \/ (pc[c] = "pending" /\ IsStaged(op[c]))
  /\ Release(c)
  /\ UNCHANGED current

Next ==
  \E c \in Callers :
    \/ StageActivation(c) \/ StageMerge(c) \/ RequestRemoval(c)
    \/ Acquire(c) \/ Build(c) \/ Reject(c) \/ Publish(c) \/ Abandon(c)

Spec == Init /\ [][Next]_vars

\* A caller that can go on does, and one that holds a pending commit publishes
\* it or drops it when its database write returns; tokio's mutex is first-in
\* first-out, so a waiter the lock keeps becoming free for gets it.
Fairness ==
  \A c \in Callers :
    /\ SF_vars(Acquire(c))
    /\ WF_vars(Build(c) \/ Reject(c))
    /\ WF_vars(pc[c] = "pending" /\ (Publish(c) \/ Abandon(c)))

FairSpec == Spec /\ Fairness

-------------------------------------------------------------------------------
\* Every variable has its type, and a caller has a request exactly while it is
\* carrying one out.
TypeOK ==
  /\ current \in Snapshot
  /\ lock \in Callers \cup {NoCaller}
  /\ pc \in [Callers -> {"idle", "waiting", "locked", "pending"}]
  /\ op \in [Callers -> Request \cup {NoRequest}]
  /\ \A c \in Callers : op[c] \in Request <=> pc[c] # "idle"
  /\ next \in [Callers -> Snapshot]
  /\ nextId \in Nat
  /\ nextSub \in Nat
  /\ requests \in 0..MaxRequests

\* The commit lock is held by the one caller that has passed Acquire.
LockHeld ==
  \A c \in Callers : lock = c <=> pc[c] \in {"locked", "pending"}

\* What a caller has built and not yet published still follows from the snapshot
\* that is current, and still conflicts with nothing in it, however long the
\* caller's database write takes (loader.rs holds the PendingCapabilityCommit
\* across replace_plugin_policy_bindings).
PendingIsCurrent ==
  \A c \in Callers : pc[c] = "pending" =>
    /\ IsStaged(op[c]) => ~Conflict(current, op[c])
    /\ \E base \in 0..nextId : next[c] = Built(current, op[c], base)

\* No key is registered twice in the published snapshot, neither by two owners
\* nor twice by one: match_http, the CLI lookup and the asset roots each rely on
\* finding at most one registration (registry.rs validate_*).
OneRegistrationPerKey ==
  \A r, s \in current.caps : r.key = s.key => r = s

\* A host key is only ever served by code compiled into the host, through any
\* sequence of activations, merges and removals (HOST_RESERVED_*).
HostKeysAreBuiltin ==
  \A r \in current.caps : r.key \in ReservedKeys => r.source = "builtin"

\* The registry implements the store: every publication is one whole operation
\* applied to the latest contents, so no concurrent commit or removal is lost,
\* half applied or undone.
StoreOf(s) == [claims |-> {[owner |-> r.owner, key |-> r.key] : r \in s.caps},
               subs   |-> s.subs]
Store == INSTANCE CapabilityStore WITH
  SubscriptionIds <- 0..MaxRequests, store <- StoreOf(current)
ImplementsStore == Store!Spec

\* Every request ends, committed, refused or abandoned: no path keeps the
\* commit lock.
EveryRequestEnds ==
  \A c \in Callers : (pc[c] # "idle") ~> (pc[c] = "idle")
===============================================================================
