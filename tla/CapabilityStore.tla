--------------------------- MODULE CapabilityStore ---------------------------
(***************************************************************************)
(* What the capability registry promises its callers, with no lock and no  *)
(* intermediate step: a store of claims (an owner holds an exclusive key,  *)
(* such as a route, a page, a command or an asset root) and of event       *)
(* subscriptions, which every operation changes in one step that starts    *)
(* from the latest contents.                                               *)
(***************************************************************************)
CONSTANTS Owners, Keys, SubscriptionIds

VARIABLE store   \* [claims: set of [owner, key], subs: set of [owner, sub]]

Claim(o, k) == [owner |-> o, key |-> k]
Subscription(o, s) == [owner |-> o, sub |-> s]

\* No owner other than o holds one of the keys.
Available(o, keys) == \A c \in store.claims : c.key \in keys => c.owner = o

Init == store = [claims |-> {}, subs |-> {}]

\* The owner's whole contribution becomes exactly keys and subs.
Replace(o, keys, subs) ==
  /\ Available(o, keys)
  /\ store' = [claims |-> {c \in store.claims : c.owner # o}
                            \cup {Claim(o, k) : k \in keys},
               subs   |-> {s \in store.subs : s.owner # o}
                            \cup {Subscription(o, s) : s \in subs}]

\* The owner's contribution grows by keys and subs.
Merge(o, keys, subs) ==
  /\ Available(o, keys)
  /\ store' = [claims |-> store.claims \cup {Claim(o, k) : k \in keys},
               subs   |-> store.subs \cup {Subscription(o, s) : s \in subs}]

RemoveOwner(o) ==
  store' = [claims |-> {c \in store.claims : c.owner # o},
            subs   |-> {s \in store.subs : s.owner # o}]

Unsubscribe(id) ==
  store' = [claims |-> store.claims, subs |-> {s \in store.subs : s.sub # id}]

UnsubscribeOwner(o) ==
  store' = [claims |-> store.claims, subs |-> {s \in store.subs : s.owner # o}]

Next ==
  \/ \E o \in Owners, keys \in SUBSET Keys, subs \in SUBSET SubscriptionIds :
        Replace(o, keys, subs) \/ Merge(o, keys, subs)
  \/ \E o \in Owners : RemoveOwner(o) \/ UnsubscribeOwner(o)
  \/ \E id \in SubscriptionIds : Unsubscribe(id)

Spec == Init /\ [][Next]_store
===============================================================================
