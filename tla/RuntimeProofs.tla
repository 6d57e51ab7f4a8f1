---------------------------- MODULE RuntimeProofs -----------------------------
(***************************************************************************)
(* Proofs about the two registries of the runtime, CapabilityRegistry and  *)
(* TaskRegistry, for any owners, callers, keys and bounds of the one, and  *)
(* any tasks, owners and cancellations of the other.  The registries share *)
(* no state.                                                               *)
(***************************************************************************)
EXTENDS CapabilityRegistry, TaskRegistry, TLAPS

-------------------------------------------------------------------------------
(* The capability registry.                                                  *)

\* The inductive invariant: the lock's holder is the only caller past Acquire,
\* so the snapshot a caller has built was built from the one it will replace.
IInv ==
  /\ TypeOK
  /\ LockHeld
  /\ PendingIsCurrent
  /\ OneRegistrationPerKey
  /\ HostKeysAreBuiltin

-------------------------------------------------------------------------------
\* Building a snapshot from a well-typed one yields a well-typed one.
LEMMA BuiltType ==
  ASSUME NEW s \in Snapshot, NEW r \in Request, NEW base \in Nat
  PROVE  Built(s, r, base) \in Snapshot
<1>1. CASE r \in Staged
  <2>1. IsStaged(r)
    BY <1>1 DEF Staged, IsStaged
  <2>2. NewRegistrations(r, base) \subseteq Registration
    BY <1>1 DEF NewRegistrations, Registration, Staged
  <2>3. NewSubscriptions(r) \subseteq Subscription
    BY <1>1 DEF NewSubscriptions, Subscription, Staged
  <2>4. Retained(s, r).caps \subseteq Registration /\ Retained(s, r).subs \subseteq Subscription
    BY DEF Retained, Snapshot
  <2>5. QED
    BY <2>1, <2>2, <2>3, <2>4 DEF Built, Committed, Snapshot
<1>2. CASE r \in Removal
  <2>1. ~IsStaged(r)
    BY <1>2 DEF Removal, IsStaged, StagedKinds
  <2>2. Removed(s, r).caps \subseteq Registration /\ Removed(s, r).subs \subseteq Subscription
    BY DEF Removed, Snapshot
  <2>3. QED
    BY <2>1, <2>2 DEF Built, Removed, Snapshot
<1>3. QED
  BY <1>1, <1>2 DEF Request

\* A commit that conflicts with nothing keeps every key registered once: a key of
\* the staged set is staged once, and what survives under it belongs to nobody.
LEMMA BuiltUnique ==
  ASSUME NEW s \in Snapshot, NEW r \in Request, NEW base \in Nat,
         \A x, y \in s.caps : x.key = y.key => x = y,
         IsStaged(r) => ~Conflict(s, r)
  PROVE  \A x, y \in Built(s, r, base).caps : x.key = y.key => x = y
<1>1. CASE r \in Staged
  <2>1. IsStaged(r)
    BY <1>1 DEF Staged, IsStaged
  <2>2. \A x, y \in NewRegistrations(r, base) : x.key = y.key => x = y
    BY <1>1, <2>1 DEF NewRegistrations, Conflict, Staged
  <2>3. \A x \in NewRegistrations(r, base) : x.key \in KeysOf(r)
    BY <1>1 DEF NewRegistrations, KeysOf
  <2>4. \A x \in Retained(s, r).caps : x.key \notin KeysOf(r)
    BY <2>1 DEF Retained, Conflict
  <2>5. Retained(s, r).caps \subseteq s.caps
    BY DEF Retained
  <2>6. Built(s, r, base).caps = Retained(s, r).caps \cup NewRegistrations(r, base)
    BY <2>1 DEF Built, Committed
  <2>7. QED
    BY <2>2, <2>3, <2>4, <2>5, <2>6
<1>2. CASE r \in Removal
  <2>1. Built(s, r, base).caps \subseteq s.caps
    BY <1>2 DEF Removal, IsStaged, StagedKinds, Built, Removed
  <2>2. QED
    BY <2>1
<1>3. QED
  BY <1>1, <1>2 DEF Request

\* A commit that conflicts with nothing registers host keys from builtins only.
LEMMA BuiltReserved ==
  ASSUME NEW s \in Snapshot, NEW r \in Request, NEW base \in Nat,
         \A x \in s.caps : x.key \in ReservedKeys => x.source = "builtin",
         IsStaged(r) => ~Conflict(s, r)
  PROVE  \A x \in Built(s, r, base).caps : x.key \in ReservedKeys => x.source = "builtin"
<1>1. CASE r \in Staged
  <2>1. IsStaged(r)
    BY <1>1 DEF Staged, IsStaged
  <2>2. \A x \in NewRegistrations(r, base) : x.key \in KeysOf(r) /\ x.source = r.source
    BY <1>1 DEF NewRegistrations, KeysOf
  <2>3. Retained(s, r).caps \subseteq s.caps
    BY DEF Retained
  <2>4. r.source # "builtin" => KeysOf(r) \cap ReservedKeys = {}
    BY <2>1 DEF Conflict
  <2>5. QED
    BY <2>1, <2>2, <2>3, <2>4 DEF Built, Committed
<1>2. CASE r \in Removal
  <2>1. Built(s, r, base).caps \subseteq s.caps
    BY <1>2 DEF Removal, IsStaged, StagedKinds, Built, Removed
  <2>2. QED
    BY <2>1
<1>3. QED
  BY <1>1, <1>2 DEF Request

-------------------------------------------------------------------------------
LEMMA SubmitType ==
  ASSUME TypeOK, NEW c \in Callers, NEW r \in Request, Submit(c, r), nextSub' \in Nat
  PROVE  TypeOK'
<1>1. NoRequest \notin Request
  BY DEF NoRequest, Request, Staged, Removal, StagedKinds
<1>2. requests' \in 0..MaxRequests
  BY BoundsAssumption DEF TypeOK, Submit
<1>3. QED
  BY <1>1, <1>2 DEF TypeOK, Submit

LEMMA ReleaseType ==
  ASSUME TypeOK, NEW c \in Callers, Release(c), current' \in Snapshot
  PROVE  TypeOK'
<1>1. NoRequest \notin Request
  BY DEF NoRequest, Request, Staged, Removal, StagedKinds
<1>2. EmptySnapshot \in Snapshot
  BY DEF EmptySnapshot, Snapshot
<1>3. QED
  BY <1>1, <1>2 DEF TypeOK, Release

\* Every step keeps the type invariant.
LEMMA TypeStep == TypeOK /\ [Next]_vars => TypeOK'
<1> SUFFICES ASSUME TypeOK, [Next]_vars PROVE TypeOK'
  OBVIOUS
<1>1. ASSUME NEW c \in Callers, StageActivation(c) PROVE TypeOK'
  <2>1. PICK o \in Owners, n \in 0..MaxSpecs, k \in 0..1 : \E specs \in [1..n -> Keys] :
          /\ Submit(c, [kind |-> "replace", owner |-> o,
                        source |-> IF o \in BuiltinOwners THEN "builtin" ELSE "lua",
                        specs |-> specs, subs |-> nextSub..(nextSub + k - 1)])
          /\ nextSub' = nextSub + k
    BY <1>1 DEF StageActivation
  <2>2. PICK specs \in [1..n -> Keys] :
          /\ Submit(c, [kind |-> "replace", owner |-> o,
                        source |-> IF o \in BuiltinOwners THEN "builtin" ELSE "lua",
                        specs |-> specs, subs |-> nextSub..(nextSub + k - 1)])
          /\ nextSub' = nextSub + k
    BY <2>1
  <2>3. n \in Nat /\ specs \in Seq(Keys)
    BY BoundsAssumption
  <2>4. nextSub..(nextSub + k - 1) \in SUBSET Nat /\ nextSub' \in Nat
    BY <2>2 DEF TypeOK
  <2>5. [kind |-> "replace", owner |-> o,
         source |-> IF o \in BuiltinOwners THEN "builtin" ELSE "lua",
         specs |-> specs, subs |-> nextSub..(nextSub + k - 1)] \in Request
    BY <2>3, <2>4 DEF Request, Staged, StagedKinds, Sources
  <2>6. QED
    BY <2>2, <2>4, <2>5, SubmitType
<1>2. ASSUME NEW c \in Callers, StageMerge(c) PROVE TypeOK'
  <2>1. PICK o \in Owners, n \in 0..MaxSpecs, k \in 0..1 : \E specs \in [1..n -> Keys] :
          /\ Submit(c, [kind |-> "merge", owner |-> o, source |-> "rust",
                        specs |-> specs, subs |-> nextSub..(nextSub + k - 1)])
          /\ nextSub' = nextSub + k
    BY <1>2 DEF StageMerge
  <2>2. PICK specs \in [1..n -> Keys] :
          /\ Submit(c, [kind |-> "merge", owner |-> o, source |-> "rust",
                        specs |-> specs, subs |-> nextSub..(nextSub + k - 1)])
          /\ nextSub' = nextSub + k
    BY <2>1
  <2>3. n \in Nat /\ specs \in Seq(Keys)
    BY BoundsAssumption
  <2>4. nextSub..(nextSub + k - 1) \in SUBSET Nat /\ nextSub' \in Nat
    BY <2>2 DEF TypeOK
  <2>5. [kind |-> "merge", owner |-> o, source |-> "rust",
         specs |-> specs, subs |-> nextSub..(nextSub + k - 1)] \in Request
    BY <2>3, <2>4 DEF Request, Staged, StagedKinds, Sources
  <2>6. QED
    BY <2>2, <2>4, <2>5, SubmitType
<1>3. ASSUME NEW c \in Callers, RequestRemoval(c) PROVE TypeOK'
  <2>1. CASE \E o \in Owners, kind \in {"removeOwner", "unsubscribeOwner"} :
               Submit(c, [kind |-> kind, owner |-> o])
    <3>1. PICK o \in Owners, kind \in {"removeOwner", "unsubscribeOwner"} :
            Submit(c, [kind |-> kind, owner |-> o])
      BY <2>1
    <3>2. [kind |-> kind, owner |-> o] \in Request
      BY DEF Request, Removal
    <3>3. QED
      BY <1>3, <3>1, <3>2, SubmitType DEF RequestRemoval, TypeOK
  <2>2. CASE \E n \in 0..(nextSub - 1) : Submit(c, [kind |-> "unsubscribe", sub |-> n])
    <3>1. PICK n \in 0..(nextSub - 1) : Submit(c, [kind |-> "unsubscribe", sub |-> n])
      BY <2>2
    <3>2. [kind |-> "unsubscribe", sub |-> n] \in Request
      BY DEF Request, Removal, TypeOK
    <3>3. QED
      BY <1>3, <3>1, <3>2, SubmitType DEF RequestRemoval, TypeOK
  <2>3. QED
    BY <1>3, <2>1, <2>2 DEF RequestRemoval
<1>4. ASSUME NEW c \in Callers, Acquire(c) PROVE TypeOK'
  BY <1>4 DEF Acquire, TypeOK
<1>5. ASSUME NEW c \in Callers, Build(c) PROVE TypeOK'
  <2>1. op[c] \in Request
    BY <1>5 DEF Build, TypeOK
  <2>2. Built(current, op[c], nextId) \in Snapshot
    BY <2>1, BuiltType DEF TypeOK
  <2>3. nextId' \in Nat
    <3>1. CASE op[c] \in Staged
      <4>1. Len(op[c].specs) \in Nat
        BY <3>1 DEF Staged
      <4>2. QED
        BY <1>5, <4>1 DEF Build, TypeOK
    <3>2. CASE op[c] \in Removal
      BY <1>5, <3>2 DEF Build, TypeOK, Removal, IsStaged, StagedKinds
    <3>3. QED
      BY <2>1, <3>1, <3>2 DEF Request
  <2>4. QED
    BY <1>5, <2>2, <2>3 DEF Build, TypeOK
<1>6. ASSUME NEW c \in Callers, Reject(c) PROVE TypeOK'
  BY <1>6, ReleaseType DEF Reject, TypeOK
<1>7. ASSUME NEW c \in Callers, Publish(c) PROVE TypeOK'
  BY <1>7, ReleaseType DEF Publish, TypeOK
<1>8. ASSUME NEW c \in Callers, Abandon(c) PROVE TypeOK'
  BY <1>8, ReleaseType DEF Abandon, TypeOK
<1>9. CASE UNCHANGED vars
  BY <1>9 DEF vars, TypeOK
<1>10. QED
  BY <1>1, <1>2, <1>3, <1>4, <1>5, <1>6, <1>7, <1>8, <1>9 DEF Next

\* The registry's state is well typed (TypeOK), whatever the constants.
THEOREM TypeCorrect == Spec => []TypeOK
<1>1. Init => TypeOK
  BY CallersAssumption, BoundsAssumption
     DEF Init, TypeOK, EmptySnapshot, Snapshot, NoRequest, Request, Staged, Removal, StagedKinds
<1>2. QED
  BY <1>1, TypeStep, PTL DEF Spec

-------------------------------------------------------------------------------
\* Every step keeps the lock and the program counters in agreement.
LEMMA LockStep == TypeOK /\ LockHeld /\ [Next]_vars => LockHeld'
<1> SUFFICES ASSUME TypeOK, LockHeld, [Next]_vars PROVE LockHeld'
  OBVIOUS
<1>1. ASSUME NEW c \in Callers, NEW r, Submit(c, r) PROVE LockHeld'
  BY <1>1 DEF Submit, LockHeld, TypeOK
<1>2. ASSUME NEW c \in Callers, Acquire(c) PROVE LockHeld'
  BY <1>2, CallersAssumption DEF Acquire, LockHeld, TypeOK
<1>3. ASSUME NEW c \in Callers, Build(c) PROVE LockHeld'
  BY <1>3 DEF Build, LockHeld, TypeOK
<1>4. ASSUME NEW c \in Callers, Release(c) PROVE LockHeld'
  BY <1>4, CallersAssumption DEF Release, LockHeld, TypeOK
<1>5. CASE UNCHANGED vars
  BY <1>5 DEF vars, LockHeld
<1>6. QED
  BY <1>1, <1>2, <1>3, <1>4, <1>5
     DEF Next, StageActivation, StageMerge, RequestRemoval, Reject, Publish, Abandon

\* A step that leaves the snapshot alone and builds nothing keeps what others
\* have built up to date.
LEMMA PendingStep == IInv /\ [Next]_vars => PendingIsCurrent'
<1> SUFFICES ASSUME IInv, [Next]_vars, NEW d \in Callers, pc'[d] = "pending"
             PROVE  /\ IsStaged(op'[d]) => ~Conflict(current', op'[d])
                    /\ \E base \in 0..nextId' : next'[d] = Built(current', op'[d], base)
  BY DEF PendingIsCurrent
<1>1. ASSUME pc[d] = "pending", current' = current, op'[d] = op[d], next'[d] = next[d],
             nextId' = nextId
      PROVE  /\ IsStaged(op'[d]) => ~Conflict(current', op'[d])
             /\ \E base \in 0..nextId' : next'[d] = Built(current', op'[d], base)
  BY <1>1 DEF IInv, PendingIsCurrent
<1>2. ASSUME NEW c \in Callers, NEW r, Submit(c, r) PROVE pc[d] = "pending" /\ c # d
  BY <1>2 DEF Submit, IInv, TypeOK
<1>3. ASSUME NEW c \in Callers, Acquire(c) PROVE pc[d] = "pending" /\ c # d
  BY <1>3 DEF Acquire, IInv, TypeOK
<1>4. ASSUME NEW c \in Callers, Build(c), c # d PROVE FALSE
  BY <1>4 DEF Build, IInv, TypeOK, LockHeld
<1>5. CASE Build(d)
  <2>1. nextId \in 0..nextId'
    <3>1. op[d] \in Staged => Len(op[d].specs) \in Nat
      BY DEF Staged
    <3>2. op[d] \in Request
      BY <1>5 DEF Build, IInv, TypeOK
    <3>3. QED
      BY <1>5, <3>1, <3>2 DEF Build, IInv, TypeOK, Request, Removal, IsStaged, StagedKinds
  <2>2. QED
    BY <1>5, <2>1 DEF Build, IInv, TypeOK
<1>6. ASSUME NEW c \in Callers, Release(c) PROVE pc[d] = "pending" /\ c # d
  BY <1>6 DEF Release, IInv, TypeOK
<1>7. ASSUME NEW c \in Callers, Publish(c) PROVE FALSE
  BY <1>7, <1>6 DEF Publish, IInv, LockHeld, TypeOK
<1>8. ASSUME NEW c \in Callers, NEW r, Submit(c, r)
      PROVE  current' = current /\ op'[d] = op[d] /\ next'[d] = next[d] /\ nextId' = nextId
  BY <1>8, <1>2 DEF Submit, IInv, TypeOK
<1>9. ASSUME NEW c \in Callers, Acquire(c)
      PROVE  current' = current /\ op'[d] = op[d] /\ next'[d] = next[d] /\ nextId' = nextId
  BY <1>9 DEF Acquire
<1>10. ASSUME NEW c \in Callers, Release(c), current' = current
      PROVE  op'[d] = op[d] /\ next'[d] = next[d] /\ nextId' = nextId
  BY <1>10, <1>6 DEF Release, IInv, TypeOK
<1>11. CASE UNCHANGED vars
  BY <1>11, <1>1 DEF vars
<1>12. QED
  BY <1>1, <1>2, <1>3, <1>4, <1>5, <1>6, <1>7, <1>8, <1>9, <1>10, <1>11
     DEF Next, StageActivation, StageMerge, RequestRemoval, Reject, Abandon

\* Every step keeps keys registered once and host keys builtin: only Publish
\* changes the snapshot, and what it installs was built from the current one.
LEMMA SnapshotStep ==
  IInv /\ [Next]_vars => OneRegistrationPerKey' /\ HostKeysAreBuiltin'
<1> SUFFICES ASSUME IInv, [Next]_vars PROVE OneRegistrationPerKey' /\ HostKeysAreBuiltin'
  OBVIOUS
<1>1. CASE current' = current
  BY <1>1 DEF IInv, OneRegistrationPerKey, HostKeysAreBuiltin
<1>2. ASSUME NEW c \in Callers, Publish(c) PROVE OneRegistrationPerKey' /\ HostKeysAreBuiltin'
  <2>1. op[c] \in Request /\ current \in Snapshot
    BY <1>2 DEF Publish, IInv, TypeOK
  <2>2. IsStaged(op[c]) => ~Conflict(current, op[c])
    BY <1>2 DEF Publish, IInv, PendingIsCurrent
  <2>3. PICK base \in 0..nextId : current' = Built(current, op[c], base)
    BY <1>2 DEF Publish, IInv, PendingIsCurrent
  <2>4. base \in Nat
    BY DEF IInv, TypeOK
  <2>5. OneRegistrationPerKey'
    BY <2>1, <2>2, <2>3, <2>4, BuiltUnique DEF IInv, OneRegistrationPerKey
  <2>6. HostKeysAreBuiltin'
    BY <2>1, <2>2, <2>3, <2>4, BuiltReserved DEF IInv, HostKeysAreBuiltin
  <2>7. QED
    BY <2>5, <2>6
<1>3. QED
  BY <1>1, <1>2
     DEF Next, StageActivation, StageMerge, RequestRemoval, Submit, Acquire, Build, Reject,
         Abandon, vars

LEMMA Inductive == Spec => []IInv
<1>1. Init => IInv
  <2>1. Init => TypeOK
    BY CallersAssumption, BoundsAssumption
       DEF Init, TypeOK, EmptySnapshot, Snapshot, NoRequest, Request, Staged, Removal, StagedKinds
  <2>2. Init => LockHeld
    BY CallersAssumption DEF Init, LockHeld
  <2>3. Init => PendingIsCurrent /\ OneRegistrationPerKey /\ HostKeysAreBuiltin
    BY DEF Init, PendingIsCurrent, OneRegistrationPerKey, HostKeysAreBuiltin, EmptySnapshot
  <2>4. QED
    BY <2>1, <2>2, <2>3 DEF IInv
<1>2. IInv /\ [Next]_vars => IInv'
  BY TypeStep, LockStep, PendingStep, SnapshotStep DEF IInv
<1>3. QED
  BY <1>1, <1>2, PTL DEF Spec

\* No key is ever registered twice in the published snapshot.
THEOREM KeysUnique == Spec => []OneRegistrationPerKey
  BY Inductive, PTL DEF IInv

\* Host keys are only ever registered by builtins.
THEOREM HostKeys == Spec => []HostKeysAreBuiltin
  BY Inductive, PTL DEF IInv

\* A pending commit never goes stale.
THEOREM PendingNeverStale == Spec => []PendingIsCurrent
  BY Inductive, PTL DEF IInv

-------------------------------------------------------------------------------
\* Every subscription id in use has been drawn, one per request at most.
SubscriptionsDrawn ==
  /\ nextSub <= requests
  /\ \A c \in Callers :
       /\ op[c] \in Staged => op[c].subs \subseteq 0..(nextSub - 1)
       /\ op[c].kind = "unsubscribe" => op[c].sub \in 0..(nextSub - 1)

LEMMA RangeGrows ==
  ASSUME NEW a \in Nat, NEW b \in Nat, a <= b
  PROVE  0..(a - 1) \subseteq 0..(b - 1)
  OBVIOUS

LEMMA SubmitDraws ==
  ASSUME TypeOK, SubscriptionsDrawn, NEW c \in Callers, NEW r, Submit(c, r),
         nextSub' \in {nextSub, nextSub + 1},
         r \in Staged => r.subs \subseteq 0..(nextSub' - 1),
         r.kind = "unsubscribe" => r.sub \in 0..(nextSub' - 1)
  PROVE  SubscriptionsDrawn'
<1>1. nextSub \in Nat /\ nextSub' \in Nat /\ nextSub <= nextSub'
  BY DEF TypeOK
<1>2. nextSub' <= requests'
  <2>1. requests \in Nat /\ requests' = requests + 1 /\ nextSub <= requests
    BY BoundsAssumption DEF Submit, TypeOK, SubscriptionsDrawn
  <2>2. QED
    BY <1>1, <2>1
<1>3. 0..(nextSub - 1) \subseteq 0..(nextSub' - 1)
  BY <1>1, RangeGrows
<1>4. op'[c] = r /\ \A d \in Callers : d # c => op'[d] = op[d]
  BY DEF Submit, TypeOK
<1>5. ASSUME NEW d \in Callers
      PROVE  /\ op'[d] \in Staged => op'[d].subs \subseteq 0..(nextSub' - 1)
             /\ op'[d].kind = "unsubscribe" => op'[d].sub \in 0..(nextSub' - 1)
  <2>1. CASE d = c
    BY <1>4, <2>1
  <2>2. CASE d # c
    BY <1>3, <1>4, <2>2 DEF SubscriptionsDrawn
  <2>3. QED
    BY <2>1, <2>2
<1>6. QED
  BY <1>2, <1>5 DEF SubscriptionsDrawn

LEMMA SubscriptionsDrawnStep ==
  TypeOK /\ SubscriptionsDrawn /\ [Next]_vars => SubscriptionsDrawn'
<1> SUFFICES ASSUME TypeOK, SubscriptionsDrawn, [Next]_vars PROVE SubscriptionsDrawn'
  OBVIOUS
<1>1. ASSUME NEW c \in Callers, StageActivation(c) PROVE SubscriptionsDrawn'
  <2>1. PICK o \in Owners, n \in 0..MaxSpecs, k \in 0..1 : \E specs \in [1..n -> Keys] :
          /\ Submit(c, [kind |-> "replace", owner |-> o,
                        source |-> IF o \in BuiltinOwners THEN "builtin" ELSE "lua",
                        specs |-> specs, subs |-> nextSub..(nextSub + k - 1)])
          /\ nextSub' = nextSub + k
    BY <1>1 DEF StageActivation
  <2>2. nextSub' \in {nextSub, nextSub + 1}
        /\ nextSub..(nextSub + k - 1) \subseteq 0..(nextSub' - 1)
    BY <2>1 DEF TypeOK
  <2>3. QED
    BY <2>1, <2>2, SubmitDraws
<1>2. ASSUME NEW c \in Callers, StageMerge(c) PROVE SubscriptionsDrawn'
  <2>1. PICK o \in Owners, n \in 0..MaxSpecs, k \in 0..1 : \E specs \in [1..n -> Keys] :
          /\ Submit(c, [kind |-> "merge", owner |-> o, source |-> "rust",
                        specs |-> specs, subs |-> nextSub..(nextSub + k - 1)])
          /\ nextSub' = nextSub + k
    BY <1>2 DEF StageMerge
  <2>2. nextSub' \in {nextSub, nextSub + 1}
        /\ nextSub..(nextSub + k - 1) \subseteq 0..(nextSub' - 1)
    BY <2>1 DEF TypeOK
  <2>3. QED
    BY <2>1, <2>2, SubmitDraws
<1>3. ASSUME NEW c \in Callers, RequestRemoval(c) PROVE SubscriptionsDrawn'
  <2>1. ASSUME NEW o \in Owners, NEW kind \in {"removeOwner", "unsubscribeOwner"},
               Submit(c, [kind |-> kind, owner |-> o])
        PROVE  SubscriptionsDrawn'
    <3>1. [kind |-> kind, owner |-> o] \notin Staged
      BY DEF Staged, StagedKinds
    <3>2. QED
      BY <1>3, <2>1, <3>1, SubmitDraws DEF RequestRemoval
  <2>2. ASSUME NEW n \in 0..(nextSub - 1), Submit(c, [kind |-> "unsubscribe", sub |-> n])
        PROVE  SubscriptionsDrawn'
    <3>1. [kind |-> "unsubscribe", sub |-> n] \notin Staged
      BY DEF Staged, StagedKinds
    <3>2. n \in 0..(nextSub' - 1)
      BY <1>3, <2>2 DEF RequestRemoval
    <3>3. QED
      BY <1>3, <2>2, <3>1, <3>2, SubmitDraws DEF RequestRemoval
  <2>3. QED
    BY <1>3, <2>1, <2>2 DEF RequestRemoval
<1>4. ASSUME NEW c \in Callers, Release(c) PROVE SubscriptionsDrawn'
  <2>1. NoRequest \notin Staged /\ NoRequest.kind # "unsubscribe"
    BY DEF NoRequest, Staged, StagedKinds
  <2>2. QED
    BY <1>4, <2>1 DEF Release, TypeOK, SubscriptionsDrawn
<1>5. ASSUME op' = op, nextSub' = nextSub, requests' = requests PROVE SubscriptionsDrawn'
  BY <1>5 DEF SubscriptionsDrawn
<1>6. QED
  BY <1>1, <1>2, <1>3, <1>4, <1>5 DEF Next, Acquire, Build, Reject, Publish, Abandon, vars

LEMMA SubscriptionsDrawnAlways == Spec => []SubscriptionsDrawn
<1>1. Init => SubscriptionsDrawn
  BY DEF Init, SubscriptionsDrawn, NoRequest, Staged, StagedKinds
<1>2. QED
  BY <1>1, SubscriptionsDrawnStep, TypeCorrect, PTL DEF Spec

\* What a commit makes of a snapshot is what the store makes of its abstraction.
LEMMA CommittedRefines ==
  ASSUME NEW s \in Snapshot, NEW r \in Staged, NEW base \in Nat
  PROVE  StoreOf(Committed(s, r, base)) =
           [claims |-> (IF r.kind = "merge" THEN StoreOf(s).claims
                        ELSE {c \in StoreOf(s).claims : c.owner # r.owner})
                         \cup {[owner |-> r.owner, key |-> k] : k \in KeysOf(r)},
            subs   |-> (IF r.kind = "merge" THEN StoreOf(s).subs
                        ELSE {e \in StoreOf(s).subs : e.owner # r.owner})
                         \cup {[owner |-> r.owner, sub |-> n] : n \in r.subs}]
<1> DEFINE kept == Retained(s, r)
           pairs(caps) == {[owner |-> x.owner, key |-> x.key] : x \in caps}
           added == {[owner |-> r.owner, key |-> k] : k \in KeysOf(r)}
           old == IF r.kind = "merge" THEN pairs(s.caps)
                  ELSE {c \in pairs(s.caps) : c.owner # r.owner}
<1>1. pairs(NewRegistrations(r, base)) = added
  <2>1. ASSUME NEW x \in NewRegistrations(r, base)
        PROVE  [owner |-> x.owner, key |-> x.key] \in added
    <3>1. PICK i \in DOMAIN r.specs :
            x = [id |-> base + i, owner |-> r.owner, source |-> r.source, key |-> r.specs[i]]
      BY <2>1 DEF NewRegistrations
    <3>2. QED
      BY <3>1 DEF KeysOf
  <2>2. ASSUME NEW k \in KeysOf(r)
        PROVE  \E x \in NewRegistrations(r, base) : x.owner = r.owner /\ x.key = k
    <3>1. PICK i \in DOMAIN r.specs : k = r.specs[i]
      BY <2>2 DEF KeysOf
    <3>2. [id |-> base + i, owner |-> r.owner, source |-> r.source, key |-> r.specs[i]]
            \in NewRegistrations(r, base)
      BY DEF NewRegistrations
    <3>3. QED
      BY <3>1, <3>2
  <2>3. QED
    BY <2>1, <2>2
<1>2. pairs(kept.caps) \cup added = old \cup added
  <2>1. pairs(kept.caps) \subseteq old
    BY DEF Retained
  <2>2. old \subseteq pairs(kept.caps) \cup added
    BY DEF Retained, Snapshot, Registration
  <2>3. QED
    BY <2>1, <2>2
<1>3. pairs(kept.caps \cup NewRegistrations(r, base)) = old \cup added
  <2>1. pairs(kept.caps \cup NewRegistrations(r, base))
          = pairs(kept.caps) \cup pairs(NewRegistrations(r, base))
    OBVIOUS
  <2>2. QED
    BY <1>1, <1>2, <2>1
<1>4. kept.subs \cup NewSubscriptions(r) =
        (IF r.kind = "merge" THEN s.subs ELSE {e \in s.subs : e.owner # r.owner})
          \cup {[owner |-> r.owner, sub |-> n] : n \in r.subs}
  BY DEF Retained, NewSubscriptions, Snapshot, Subscription
<1>5. QED
  BY <1>3, <1>4 DEF StoreOf, Committed

LEMMA RemovedRefines ==
  ASSUME NEW s \in Snapshot, NEW r \in Removal
  PROVE  StoreOf(Removed(s, r)) =
           [claims |-> IF r.kind = "removeOwner"
                       THEN {c \in StoreOf(s).claims : c.owner # r.owner}
                       ELSE StoreOf(s).claims,
            subs   |-> IF r.kind = "unsubscribe"
                       THEN {e \in StoreOf(s).subs : e.sub # r.sub}
                       ELSE {e \in StoreOf(s).subs : e.owner # r.owner}]
<1> DEFINE pairs(caps) == {[owner |-> x.owner, key |-> x.key] : x \in caps}
<1>1. pairs({c \in s.caps : c.owner # r.owner}) = {c \in pairs(s.caps) : c.owner # r.owner}
  OBVIOUS
<1>2. CASE r.kind = "removeOwner"
  BY <1>1, <1>2 DEF StoreOf, Removed
<1>3. CASE r.kind # "removeOwner"
  BY <1>3 DEF StoreOf, Removed
<1>4. QED
  BY <1>2, <1>3

\* A publication is one operation of the store.
LEMMA PublishRefines ==
  ASSUME IInv, SubscriptionsDrawn, NEW c \in Callers, Publish(c)
  PROVE  Store!Next
<1>1. op[c] \in Request /\ current \in Snapshot /\ requests <= MaxRequests
  BY BoundsAssumption DEF Publish, IInv, TypeOK
<1>2. PICK base \in Nat : current' = Built(current, op[c], base)
  BY DEF Publish, IInv, PendingIsCurrent, TypeOK
<1>3. CASE op[c] \in Staged
  <2>1. IsStaged(op[c])
    BY <1>3 DEF Staged, IsStaged
  <2>2. ~Conflict(current, op[c])
    BY <2>1 DEF Publish, IInv, PendingIsCurrent
  <2>3. op[c].owner \in Owners /\ KeysOf(op[c]) \in SUBSET Keys
    BY <1>3 DEF Staged, KeysOf
  <2>4. op[c].subs \in SUBSET (0..MaxRequests)
    BY <1>1, <1>3, BoundsAssumption DEF SubscriptionsDrawn, IInv, TypeOK
  <2>5. Store!Available(op[c].owner, KeysOf(op[c]))
    BY <2>2 DEF Store!Available, Conflict, StoreOf
  <2>6. StoreOf(current') = StoreOf(Committed(current, op[c], base))
    BY <1>2, <2>1 DEF Built
  <2>7. CASE op[c].kind = "replace"
    <3>1. Store!Replace(op[c].owner, KeysOf(op[c]), op[c].subs)
      BY <1>1, <1>3, <2>5, <2>6, <2>7, CommittedRefines
         DEF Store!Replace, Store!Claim, Store!Subscription
    <3>2. QED
      BY <2>3, <2>4, <3>1 DEF Store!Next
  <2>8. CASE op[c].kind = "merge"
    <3>1. Store!Merge(op[c].owner, KeysOf(op[c]), op[c].subs)
      BY <1>1, <1>3, <2>5, <2>6, <2>8, CommittedRefines
         DEF Store!Merge, Store!Claim, Store!Subscription
    <3>2. QED
      BY <2>3, <2>4, <3>1 DEF Store!Next
  <2>9. QED
    BY <1>3, <2>7, <2>8 DEF Staged, StagedKinds
<1>4. CASE op[c] \in Removal
  <2>1. StoreOf(current') = StoreOf(Removed(current, op[c]))
    BY <1>2, <1>4 DEF Built, IsStaged, StagedKinds, Removal
  <2>2. CASE op[c].kind = "removeOwner"
    <3>1. op[c].owner \in Owners
      BY <1>4, <2>2 DEF Removal
    <3>2. Store!RemoveOwner(op[c].owner)
      BY <1>1, <1>4, <2>1, <2>2, RemovedRefines DEF Store!RemoveOwner
    <3>3. QED
      BY <3>1, <3>2 DEF Store!Next
  <2>3. CASE op[c].kind = "unsubscribeOwner"
    <3>1. op[c].owner \in Owners
      BY <1>4, <2>3 DEF Removal
    <3>2. Store!UnsubscribeOwner(op[c].owner)
      BY <1>1, <1>4, <2>1, <2>3, RemovedRefines DEF Store!UnsubscribeOwner, StoreOf
    <3>3. QED
      BY <3>1, <3>2 DEF Store!Next
  <2>4. CASE op[c].kind = "unsubscribe"
    <3>1. op[c].sub \in 0..MaxRequests
      BY <1>1, <2>4, BoundsAssumption DEF SubscriptionsDrawn, IInv, TypeOK
    <3>2. Store!Unsubscribe(op[c].sub)
      BY <1>1, <1>4, <2>1, <2>4, RemovedRefines DEF Store!Unsubscribe, StoreOf
    <3>3. QED
      BY <3>1, <3>2 DEF Store!Next
  <2>5. QED
    BY <1>4, <2>2, <2>3, <2>4 DEF Removal
<1>5. QED
  BY <1>1, <1>3, <1>4 DEF Request

\* The registry implements the atomic store: every publication is one of its
\* operations on the latest contents and every other step changes nothing.
THEOREM RegistryImplementsStore == Spec => ImplementsStore
<1>1. Init => Store!Init
  <2>1. StoreOf(EmptySnapshot).claims = {} /\ StoreOf(EmptySnapshot).subs = {}
    BY DEF StoreOf, EmptySnapshot
  <2>2. StoreOf(EmptySnapshot) = [claims |-> {}, subs |-> {}]
    BY <2>1 DEF StoreOf
  <2>3. QED
    BY <2>2 DEF Init, Store!Init
<1>2. IInv /\ SubscriptionsDrawn /\ [Next]_vars => [Store!Next]_(StoreOf(current))
  <2> SUFFICES ASSUME IInv, SubscriptionsDrawn, [Next]_vars
               PROVE  Store!Next \/ UNCHANGED StoreOf(current)
    OBVIOUS
  <2>1. ASSUME NEW c \in Callers, Publish(c) PROVE Store!Next
    BY <2>1, PublishRefines
  <2>2. current' = current => UNCHANGED StoreOf(current)
    BY DEF StoreOf
  <2>3. QED
    BY <2>1, <2>2
       DEF Next, StageActivation, StageMerge, RequestRemoval, Submit, Acquire, Build, Reject,
           Abandon, vars
<1>3. QED
  BY <1>1, <1>2, Inductive, SubscriptionsDrawnAlways, PTL DEF Spec, ImplementsStore, Store!Spec

-------------------------------------------------------------------------------
(* The task registry.                                                        *)

\* A task of k's due set is settled, or is still registered and k will get to it:
\* its owner is still to be listed or it is one of the current targets.
Reached(k, t) ==
  \/ Settled(t)
  \/ t \in entries /\ owner[t] \in call[k].todo
  \/ t \in entries /\ t \in call[k].targets
       /\ call[k].stage \in {"signal", "wait", "abort", "sweep"}

\* What cancellation k knows at each of its stages.
CallInv(k) ==
  /\ call[k].targets \subseteq {t \in Tasks : owner[t] # NoOwner}
  /\ call[k].due \subseteq {t \in Tasks : owner[t] # NoOwner}
  /\ call[k].stage \in {"wait", "abort", "sweep"} =>
       call[k].targets \cap entries \subseteq call[k].controls
  /\ call[k].stage = "sweep" => call[k].controls \subseteq aborting
  /\ call[k].stage = "done" => call[k].todo = {}
  /\ call[k].stage \notin {"idle", "dropped"} =>
       \A t \in call[k].due : Reached(k, t)

\* The inductive invariant.  NoOrphan alone does not survive a sweep: one must
\* know that every entry it removes has a control, and that it was aborted.
TasksInv ==
  /\ TasksTypeOK
  /\ NoOrphan
  /\ \A k \in Calls : CallInv(k)

-------------------------------------------------------------------------------
LEMMA TasksInitInv == TasksInit => TasksInv
<1> SUFFICES ASSUME TasksInit PROVE TasksInv
  OBVIOUS
<1>1. TasksTypeOK
  BY NoOwnerAssumption DEF TasksInit, TasksTypeOK, NoCall, Call, Stages, Running, Stopped
<1>2. NoOrphan
  BY DEF TasksInit, NoOrphan, Live, Running
<1>3. \A k \in Calls : CallInv(k)
  BY DEF TasksInit, CallInv, NoCall
<1>4. QED
  BY <1>1, <1>2, <1>3 DEF TasksInv

\* Every step keeps the type invariant.
LEMMA TasksTypeStep == TasksTypeOK /\ [TasksNext]_taskVars => TasksTypeOK'
<1> SUFFICES ASSUME TasksTypeOK, [TasksNext]_taskVars PROVE TasksTypeOK'
  OBVIOUS
<1>1. ASSUME NEW t \in Tasks, NEW o \in TaskOwners, Spawn(t, o) PROVE TasksTypeOK'
  BY <1>1, NoOwnerAssumption DEF TasksTypeOK, Spawn, Running, Stopped
<1>2. ASSUME NEW t \in Tasks, Poll(t) \/ Return(t) \/ RemoveSelf(t) \/ Aborted(t) PROVE TasksTypeOK'
  BY <1>2 DEF TasksTypeOK, Poll, Return, RemoveSelf, Aborted, Running, Stopped
<1>3. ASSUME NEW k \in Calls, NEW r \in Call, call' = [call EXCEPT ![k] = r],
             cancelled' \subseteq Tasks, aborting' \subseteq Tasks, entries' \subseteq entries,
             UNCHANGED <<owner, body>>
      PROVE  TasksTypeOK'
  BY <1>3 DEF TasksTypeOK
<1>4. ASSUME NEW k \in Calls, NEW o \in TaskOwners, BeginOwner(k, o) PROVE TasksTypeOK'
  BY <1>4 DEF TasksTypeOK, BeginOwner, Call, NoCall, Stages, EntriesOf
<1>5. ASSUME NEW k \in Calls, NEW o \in TaskOwners, BeginRegistrations(k, o) PROVE TasksTypeOK'
  <2>1. PICK S \in SUBSET {t \in Tasks : owner[t] = o} :
          call' = [call EXCEPT ![k] = [NoCall EXCEPT !.stage = "signal", !.targets = S,
                                                     !.due = S \cap entries]]
    BY <1>5 DEF BeginRegistrations
  <2>2. [NoCall EXCEPT !.stage = "signal", !.targets = S, !.due = S \cap entries] \in Call
    BY DEF Call, NoCall, Stages
  <2>3. QED
    BY <1>3, <1>5, <2>1, <2>2 DEF BeginRegistrations, TasksTypeOK
<1>6. ASSUME NEW k \in Calls, BeginAll(k) PROVE TasksTypeOK'
  <2>1. {owner[t] : t \in entries} \subseteq TaskOwners /\ entries \subseteq Tasks
    BY DEF TasksTypeOK
  <2>2. [NoCall EXCEPT !.stage = IF entries = {} THEN "done" ELSE "list",
                       !.todo = {owner[t] : t \in entries}, !.due = entries] \in Call
    BY <2>1 DEF Call, NoCall, Stages
  <2>3. QED
    BY <1>3, <1>6, <2>2 DEF BeginAll, TasksTypeOK
<1>7. ASSUME NEW k \in Calls, List(k) PROVE TasksTypeOK'
  <2>1. PICK o \in call[k].todo :
          call' = [call EXCEPT ![k] = [call[k] EXCEPT !.stage = "signal",
                     !.todo = call[k].todo \ {o}, !.targets = EntriesOf(o)]]
    BY <1>7 DEF List
  <2>2. call[k] \in Call /\ EntriesOf(o) \subseteq Tasks
    BY DEF TasksTypeOK, EntriesOf
  <2>3. [call[k] EXCEPT !.stage = "signal", !.todo = call[k].todo \ {o},
                        !.targets = EntriesOf(o)] \in Call
    BY <2>2 DEF Call, Stages
  <2>4. QED
    BY <1>3, <1>7, <2>1, <2>3 DEF List, TasksTypeOK
<1>8. ASSUME NEW k \in Calls, Signal(k) PROVE TasksTypeOK'
  <2>1. call[k] \in Call /\ call[k].targets \cap entries \subseteq Tasks
    BY DEF TasksTypeOK
  <2>2. [call[k] EXCEPT !.stage = "wait", !.controls = call[k].targets \cap entries] \in Call
    BY <2>1 DEF Call, Stages
  <2>3. cancelled' \subseteq Tasks /\ aborting' \subseteq Tasks /\ entries' \subseteq entries
    BY <1>8, <2>1 DEF Signal, TasksTypeOK
  <2>4. call' = [call EXCEPT ![k] = [call[k] EXCEPT !.stage = "wait",
                                       !.controls = call[k].targets \cap entries]]
    BY <1>8 DEF Signal
  <2>5. QED
    BY <1>3, <1>8, <2>2, <2>3, <2>4 DEF Signal
<1>9. ASSUME NEW k \in Calls, Observe(k) \/ Sweep(k) PROVE TasksTypeOK'
  <2>1. call[k] \in Call
    BY DEF TasksTypeOK
  <2>2. [NoCall EXCEPT !.stage = IF call[k].todo = {} THEN "done" ELSE "list",
                       !.todo = call[k].todo, !.due = call[k].due] \in Call
    BY <2>1 DEF Call, NoCall, Stages
  <2>3. QED
    BY <1>3, <1>9, <2>2 DEF Observe, Sweep, Continue, TasksTypeOK
<1>10. ASSUME NEW k \in Calls, Expire(k) \/ Abort(k) PROVE TasksTypeOK'
  <2>1. call[k] \in Call
    BY DEF TasksTypeOK
  <2>2. [call[k] EXCEPT !.stage = "abort"] \in Call /\ [call[k] EXCEPT !.stage = "sweep"] \in Call
    BY <2>1 DEF Call, Stages
  <2>3. call[k].controls \subseteq Tasks
    BY <2>1 DEF Call
  <2>4. QED
    BY <1>3, <1>10, <2>2, <2>3 DEF Expire, Abort, TasksTypeOK
<1>11. ASSUME NEW k \in Calls, Drop(k) PROVE TasksTypeOK'
  <2>1. [NoCall EXCEPT !.stage = "dropped"] \in Call
    BY DEF Call, NoCall, Stages
  <2>2. QED
    BY <1>3, <1>11, <2>1 DEF Drop, TasksTypeOK
<1>12. CASE UNCHANGED taskVars
  BY <1>12 DEF TasksTypeOK, taskVars
<1>13. QED
  BY <1>1, <1>2, <1>4, <1>5, <1>6, <1>7, <1>8, <1>9, <1>10, <1>11, <1>12 DEF TasksNext, Step

\* The task registry's state is well typed (TasksTypeOK), whatever the constants.
THEOREM TasksTyped == TasksSpec => []TasksTypeOK
<1>1. TasksInit => TasksTypeOK
  BY TasksInitInv DEF TasksInv
<1>2. QED
  BY <1>1, TasksTypeStep, PTL DEF TasksSpec

-------------------------------------------------------------------------------
\* What a step may do to the registry for the call invariants to survive it in
\* every call it does not itself move.
Benign ==
  /\ \A t \in Tasks : owner[t] # NoOwner => owner'[t] = owner[t]
  /\ aborting \subseteq aborting'
  /\ \A t \in Tasks : owner[t] # NoOwner /\ t \notin entries => t \notin entries'
  /\ \A t \in Tasks : owner[t] # NoOwner /\ Settled(t) => Settled(t)'
  /\ \A t \in entries : t \in entries' \/ Settled(t)'

LEMMA BenignCall ==
  ASSUME TasksTypeOK, Benign, NEW k \in Calls, CallInv(k), call'[k] = call[k]
  PROVE  CallInv(k)'
<1>1. \A t \in call[k].due : Reached(k, t) => Reached(k, t)'
  BY DEF Benign, Reached, CallInv
<1>2. QED
  BY <1>1 DEF Benign, CallInv

\* Every step is benign.
LEMMA BenignStep == TasksInv /\ [TasksNext]_taskVars => Benign
<1> SUFFICES ASSUME TasksInv, [TasksNext]_taskVars PROVE Benign
  OBVIOUS
<1>1. ASSUME NEW t \in Tasks, NEW o \in TaskOwners, Spawn(t, o) PROVE Benign
  <2>1. owner[t] = NoOwner /\ t \notin entries
    BY <1>1 DEF Spawn, TasksInv, TasksTypeOK
  <2>2. \A u \in Tasks : u # t => owner'[u] = owner[u] /\ body'[u] = body[u]
    BY <1>1 DEF Spawn, TasksInv, TasksTypeOK
  <2>3. entries' = entries \cup {t} /\ aborting' = aborting
    BY <1>1 DEF Spawn
  <2>4. ASSUME NEW u \in Tasks, u # t, Settled(u) PROVE Settled(u)'
    BY <2>2, <2>3, <2>4 DEF Settled, Live
  <2>5. QED
    BY <2>1, <2>2, <2>3, <2>4 DEF Benign
<1>2. ASSUME NEW t \in Tasks, Poll(t) PROVE Benign
  BY <1>2 DEF Benign, Poll, TasksInv, TasksTypeOK, Settled, Live, Running
<1>3. ASSUME NEW t \in Tasks, Return(t) PROVE Benign
  BY <1>3 DEF Benign, Return, TasksInv, TasksTypeOK, Settled, Live, Running
<1>4. ASSUME NEW t \in Tasks, RemoveSelf(t) PROVE Benign
  BY <1>4 DEF Benign, RemoveSelf, TasksInv, TasksTypeOK, Settled, Live, Running
<1>5. ASSUME NEW t \in Tasks, Aborted(t) PROVE Benign
  BY <1>5 DEF Benign, Aborted, TasksInv, TasksTypeOK, Settled, Live, Running
<1>6. ASSUME UNCHANGED <<owner, body, entries>>, aborting \subseteq aborting' PROVE Benign
  BY <1>6 DEF Benign, Settled, Live, TasksInv, TasksTypeOK
<1>7. ASSUME NEW k \in Calls, Sweep(k) PROVE Benign
  <2>1. \A t \in entries : t \in entries' \/ t \in aborting
    BY <1>7 DEF Sweep, TasksInv, CallInv
  <2>2. QED
    BY <1>7, <2>1 DEF Benign, Sweep, TasksInv, TasksTypeOK, Settled, Live
<1>8. QED
  BY <1>1, <1>2, <1>3, <1>4, <1>5, <1>6, <1>7
     DEF TasksNext, Step, BeginOwner, BeginRegistrations, BeginAll, List, Signal, Observe, Expire,
         Abort, Drop, taskVars

\* Every step keeps each live task registered or aborted.
LEMMA OrphanStep == TasksInv /\ [TasksNext]_taskVars => NoOrphan'
<1> SUFFICES ASSUME TasksInv, [TasksNext]_taskVars, NEW t \in Tasks, Live(t)', t \notin entries'
             PROVE  t \in aborting'
  BY DEF NoOrphan
<1>1. Benign
  BY BenignStep
<1>2. CASE t \in entries
  BY <1>1, <1>2 DEF Benign, Settled
<1>3. CASE t \notin entries /\ owner[t] # NoOwner
  <2>1. Settled(t)
    BY <1>3 DEF Settled, TasksInv, NoOrphan
  <2>2. Settled(t)'
    BY <1>1, <1>3, <2>1 DEF Benign
  <2>3. QED
    BY <2>2 DEF Settled
<1>4. CASE owner[t] = NoOwner
  <2>1. body[t] = "unspawned"
    BY <1>4 DEF TasksInv, TasksTypeOK
  <2>2. ASSUME NEW u \in Tasks, NEW o \in TaskOwners, Spawn(u, o) PROVE FALSE
    BY <2>1, <2>2 DEF Spawn, Live, Running, TasksInv, TasksTypeOK
  <2>3. ASSUME NEW u \in Tasks, Poll(u) \/ Return(u) \/ RemoveSelf(u) \/ Aborted(u)
        PROVE  FALSE
    BY <2>1, <2>3 DEF Poll, Return, RemoveSelf, Aborted, Live, Running, TasksInv, TasksTypeOK
  <2>4. ASSUME UNCHANGED body PROVE FALSE
    BY <2>1, <2>4 DEF Live, Running
  <2>5. QED
    BY <2>2, <2>3, <2>4
       DEF TasksNext, Step, BeginOwner, BeginRegistrations, BeginAll, List, Signal, Observe,
           Expire, Abort, Sweep, Drop, taskVars
<1>5. QED
  BY <1>2, <1>3, <1>4

\* A step of call k keeps what is known of k.
LEMMA OwnStep ==
  ASSUME TasksInv, Benign, NEW k \in Calls, BeginAll(k) \/ Step(k) \/ Drop(k)
         \/ \E o \in TaskOwners : BeginOwner(k, o) \/ BeginRegistrations(k, o)
  PROVE  CallInv(k)'
<1>0. entries \subseteq {t \in Tasks : owner[t] # NoOwner} /\ call[k] \in Call /\ CallInv(k)
  BY DEF TasksInv, TasksTypeOK
<1>1. ASSUME NEW o \in TaskOwners, BeginOwner(k, o) PROVE CallInv(k)'
  BY <1>0, <1>1 DEF BeginOwner, CallInv, TasksInv, TasksTypeOK, NoCall, EntriesOf, Reached
<1>2. ASSUME NEW o \in TaskOwners, BeginRegistrations(k, o) PROVE CallInv(k)'
  <2>1. PICK S \in SUBSET {t \in Tasks : owner[t] = o} :
          call' = [call EXCEPT ![k] = [NoCall EXCEPT !.stage = "signal", !.targets = S,
                                                     !.due = S \cap entries]]
    BY <1>2 DEF BeginRegistrations
  <2>2. /\ call'[k].stage = "signal" /\ call'[k].targets = S
        /\ call'[k].due = S \cap entries
    BY <2>1 DEF TasksInv, TasksTypeOK, NoCall
  <2>3. UNCHANGED <<owner, entries>> /\ S \subseteq {t \in Tasks : owner[t] # NoOwner}
    BY <1>2, NoOwnerAssumption DEF BeginRegistrations
  <2>4. QED
    BY <2>2, <2>3 DEF CallInv, Reached
<1>3. CASE BeginAll(k)
  BY <1>0, <1>3 DEF BeginAll, CallInv, TasksInv, TasksTypeOK, NoCall, Reached
<1>4. CASE List(k)
  <2>1. PICK o \in call[k].todo :
          call' = [call EXCEPT ![k] = [call[k] EXCEPT !.stage = "signal",
                     !.todo = call[k].todo \ {o}, !.targets = EntriesOf(o)]]
    BY <1>4 DEF List
  <2>2. call'[k] = [call[k] EXCEPT !.stage = "signal", !.todo = call[k].todo \ {o},
                                   !.targets = EntriesOf(o)]
    BY <2>1 DEF TasksInv, TasksTypeOK
  <2>3. /\ call'[k].stage = "signal" /\ call'[k].todo = call[k].todo \ {o}
        /\ call'[k].targets = EntriesOf(o) /\ call'[k].due = call[k].due
    BY <1>0, <2>2 DEF Call
  <2>4. UNCHANGED <<owner, body, entries, aborting>>
    BY <1>4 DEF List
  <2>5. ASSUME NEW t \in call[k].due, Reached(k, t) PROVE Reached(k, t)'
    BY <1>4, <2>3, <2>4, <2>5, <1>0 DEF Reached, List, EntriesOf, Settled, Live
  <2>6. QED
    BY <1>0, <1>4, <2>3, <2>4, <2>5 DEF CallInv, List, EntriesOf
<1>5. CASE Signal(k)
  <2>1. call'[k] = [call[k] EXCEPT !.stage = "wait",
                                   !.controls = call[k].targets \cap entries]
    BY <1>5 DEF Signal, TasksInv, TasksTypeOK
  <2>2. /\ call'[k].stage = "wait" /\ call'[k].todo = call[k].todo
        /\ call'[k].targets = call[k].targets /\ call'[k].due = call[k].due
        /\ call'[k].controls = call[k].targets \cap entries
    BY <1>0, <2>1 DEF Call
  <2>3. UNCHANGED <<owner, body, entries, aborting>>
    BY <1>5 DEF Signal
  <2>4. ASSUME NEW t \in call[k].due, Reached(k, t) PROVE Reached(k, t)'
    BY <1>5, <2>2, <2>3, <2>4 DEF Reached, Signal, Settled, Live
  <2>5. QED
    BY <1>0, <1>5, <2>2, <2>3, <2>4 DEF CallInv, Signal
<1>6. CASE Observe(k) \/ Sweep(k)
  <2>1. call'[k] = [NoCall EXCEPT !.stage = IF call[k].todo = {} THEN "done" ELSE "list",
                                  !.todo = call[k].todo, !.due = call[k].due]
    BY <1>6 DEF Observe, Sweep, Continue, TasksInv, TasksTypeOK
  <2>2. /\ call'[k].stage = IF call[k].todo = {} THEN "done" ELSE "list"
        /\ call'[k].todo = call[k].todo /\ call'[k].due = call[k].due
        /\ call'[k].targets = {} /\ call'[k].controls = {}
    BY <2>1 DEF NoCall
  <2>3. \A t \in call[k].targets : t \notin entries'
    BY <1>6 DEF Observe, Sweep
  <2>4. UNCHANGED <<owner, body, aborting>>
    BY <1>6 DEF Observe, Sweep
  <2>5. ASSUME NEW t \in call[k].due, Reached(k, t) PROVE Reached(k, t)'
    BY <1>0, <2>2, <2>3, <2>4, <2>5 DEF Reached, Benign, CallInv
  <2>6. QED
    BY <1>0, <1>6, <2>2, <2>4, <2>5 DEF CallInv, Observe, Sweep
<1>7. CASE Expire(k)
  <2>1. call'[k] = [call[k] EXCEPT !.stage = "abort"]
    BY <1>7 DEF Expire, TasksInv, TasksTypeOK
  <2>2. /\ call'[k].stage = "abort" /\ call'[k].todo = call[k].todo
        /\ call'[k].targets = call[k].targets /\ call'[k].due = call[k].due
        /\ call'[k].controls = call[k].controls
    BY <1>0, <2>1 DEF Call
  <2>3. UNCHANGED <<owner, body, entries, aborting>>
    BY <1>7 DEF Expire
  <2>4. ASSUME NEW t \in call[k].due, Reached(k, t) PROVE Reached(k, t)'
    BY <1>7, <2>2, <2>3, <2>4 DEF Reached, Expire, Settled, Live
  <2>5. QED
    BY <1>0, <1>7, <2>2, <2>3, <2>4 DEF CallInv, Expire
<1>8. CASE Abort(k)
  <2>1. call'[k] = [call[k] EXCEPT !.stage = "sweep"]
    BY <1>8 DEF Abort, TasksInv, TasksTypeOK
  <2>2. /\ call'[k].stage = "sweep" /\ call'[k].todo = call[k].todo
        /\ call'[k].targets = call[k].targets /\ call'[k].due = call[k].due
        /\ call'[k].controls = call[k].controls
    BY <1>0, <2>1 DEF Call
  <2>3. UNCHANGED <<owner, body, entries>> /\ call[k].controls \subseteq aborting'
    BY <1>8 DEF Abort
  <2>4. ASSUME NEW t \in call[k].due, Reached(k, t) PROVE Reached(k, t)'
    BY <1>0, <1>8, <2>2, <2>3, <2>4 DEF Reached, Abort, Benign, CallInv
  <2>5. QED
    BY <1>0, <1>8, <2>2, <2>3, <2>4 DEF CallInv, Abort
<1>9. CASE Drop(k)
  <2>1. call'[k] = [NoCall EXCEPT !.stage = "dropped"]
    BY <1>9 DEF Drop, TasksInv, TasksTypeOK
  <2>2. QED
    BY <2>1 DEF CallInv, NoCall
<1>10. QED
  BY <1>1, <1>2, <1>3, <1>4, <1>5, <1>6, <1>7, <1>8, <1>9 DEF Step

\* Every step keeps what is known of every call.
LEMMA CallStep == TasksInv /\ [TasksNext]_taskVars => \A k \in Calls : CallInv(k)'
<1> SUFFICES ASSUME TasksInv, [TasksNext]_taskVars, NEW k \in Calls PROVE CallInv(k)'
  OBVIOUS
<1>1. Benign
  BY BenignStep
<1>2. CASE call'[k] = call[k]
  BY <1>1, <1>2, BenignCall DEF TasksInv
<1>3. CASE BeginAll(k) \/ Step(k) \/ Drop(k)
           \/ \E o \in TaskOwners : BeginOwner(k, o) \/ BeginRegistrations(k, o)
  BY <1>1, <1>3, OwnStep
<1>4. ASSUME NEW j \in Calls, j # k, NEW r, call' = [call EXCEPT ![j] = r]
      PROVE  call'[k] = call[k]
  BY <1>4 DEF TasksInv, TasksTypeOK
<1>5. ASSUME NEW j \in Calls, j # k, BeginAll(j) \/ Step(j) \/ Drop(j)
             \/ \E o \in TaskOwners : BeginOwner(j, o) \/ BeginRegistrations(j, o)
      PROVE  call'[k] = call[k]
  BY <1>4, <1>5 DEF BeginAll, Step, Drop, BeginOwner, BeginRegistrations, List, Signal,
                    Observe, Expire, Abort, Sweep, Continue
<1>6. CASE UNCHANGED call
  BY <1>2, <1>6
<1>7. QED
  BY <1>2, <1>3, <1>5, <1>6 DEF TasksNext, Spawn, Poll, Return, RemoveSelf, Aborted, taskVars

LEMMA TasksInductive == TasksSpec => []TasksInv
<1>1. TasksInv /\ [TasksNext]_taskVars => TasksInv'
  BY TasksTypeStep, OrphanStep, CallStep DEF TasksInv
<1>2. QED
  BY TasksInitInv, <1>1, PTL DEF TasksSpec

\* No task outlives its entry unless it has been aborted (NoOrphan).
THEOREM NoTaskOrphaned == TasksSpec => []NoOrphan
  BY TasksInductive, PTL DEF TasksInv

\* A cancellation that has returned has settled every task it was called for
\* (DueAreSettled).
THEOREM CancellationSettles == TasksSpec => []DueAreSettled
<1>1. TasksInv => DueAreSettled
  BY DEF TasksInv, CallInv, DueAreSettled, Reached
<1>2. QED
  BY <1>1, TasksInductive, PTL
===============================================================================
