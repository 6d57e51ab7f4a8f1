---------------------------- MODULE HostStartProofs ----------------------------
(***************************************************************************)
(* Proofs about HostStart, for any profiles, overlays, plugins, migrations *)
(* and bounds.                                                             *)
(*                                                                         *)
(* The first half is about the resolution of a profile: its folds are      *)
(* turned into step by step runs, and what a run builds is compared with   *)
(* the declared composition.  The second half is about the start and what  *)
(* an administrator does afterwards.                                       *)
(***************************************************************************)
EXTENDS HostStart, SequenceTheorems, FunctionTheorems, FiniteSetTheorems, TLAPS

(***************************************************************************)
(* Induction over the natural numbers and over sequences, stated with sets *)
(* in the place of predicates.                                             *)
(***************************************************************************)
\* A set of numbers that is not empty has a least one.
LEMMA LeastNatural ==
  ASSUME NEW T \in SUBSET Nat, T # {}
  PROVE  \E x \in T : \A y \in T : ~(y < x)
<1> DEFINE R == OpToRel(<, Nat)
<1>1. IsWellFoundedOn(R, Nat)
  BY NatLessThanWellFounded, Zenon
<1>2. \A x, y \in Nat : <<x, y>> \in R <=> x < y
  BY DEF OpToRel
<1> HIDE DEF R
<1>3. \E x \in T : \A y \in T : <<y, x>> \notin R
  BY <1>1, WFMin
<1> QED
  BY <1>2, <1>3

\* A set of numbers that has 0 and with p also p + 1, up to n, has all up to n.
LEMMA SetInduction ==
  ASSUME NEW T, 0 \in T, \A n \in Nat : n \in T => n + 1 \in T
  PROVE  Nat \subseteq T
<1> SUFFICES ASSUME Nat \ T # {} PROVE FALSE
  OBVIOUS
<1>1. PICK x \in Nat \ T : \A y \in Nat \ T : ~(y < x)
  BY LeastNatural
<1> QED
  BY <1>1

\* The greatest of a bounded set of numbers.
LEMMA MaxOf ==
  ASSUME NEW n \in Nat, NEW S \in SUBSET (1 .. n), S # {}
  PROVE  Max(S) \in S /\ \A y \in S : y <= Max(S)
<1> DEFINE T == {n - y : y \in S}
<1>0. \A y \in S : n - y \in Nat
  OBVIOUS
<1>1. T \in SUBSET Nat /\ T # {}
  BY <1>0
<1>2. PICK t \in T : \A y \in T : ~(y < t)
  BY <1>1, LeastNatural
<1>3. PICK x \in S : t = n - x
  OBVIOUS
<1>4. \A y \in S : x >= y
  BY <1>2, <1>3
<1> QED
  BY <1>4 DEF Max

\* The greatest of 1 .. m is m.
LEMMA MaxOfPrefix ==
  ASSUME NEW n \in Nat, n # 0
  PROVE  Max(1 .. n) = n /\ (1 .. n) \ {n} = 1 .. (n - 1)
<1>1. (1 .. n) \in SUBSET (1 .. n) /\ n \in 1 .. n
  OBVIOUS
<1>2. Max(1 .. n) \in 1 .. n /\ \A y \in 1 .. n : y <= Max(1 .. n)
  BY <1>1, MaxOf, Zenon
<1> QED
  BY <1>1, <1>2

\* f folds G over the sets of numbers up to m, from b and the least number on.
Fits(f, m, b, G) ==
  \A s \in SUBSET (1 .. m) : f[s] = IF s = {} THEN b ELSE G[<<Max(s), f[s \ {Max(s)}]>>]

Foldable(m, A, b, G) == \E f \in [SUBSET (1 .. m) -> A] : Fits(f, m, b, G)

\* The function behind a fold of the community modules exists: it is built up
\* from the sets over 1 .. 0, 1 .. 1 and so on.
LEMMA FoldExists ==
  ASSUME NEW n \in Nat, NEW A, NEW b \in A, NEW G \in [(1 .. n) \X A -> A]
  PROVE  Foldable(n, A, b, G)
<1> DEFINE T == {m \in Nat : m <= n => Foldable(m, A, b, G)}
<1>1. 0 \in T
  <2>1. SUBSET (1 .. 0) = {{}}
    OBVIOUS
  <2>2. [s \in SUBSET (1 .. 0) |-> b] \in [SUBSET (1 .. 0) -> A]
    OBVIOUS
  <2>3. Fits([s \in SUBSET (1 .. 0) |-> b], 0, b, G)
    BY <2>1 DEF Fits
  <2> QED
    BY <2>2, <2>3 DEF Foldable
<1>2. ASSUME NEW m \in Nat, m \in T PROVE m + 1 \in T
  <2>0. SUFFICES ASSUME m + 1 <= n
                 PROVE  Foldable(m + 1, A, b, G)
    OBVIOUS
  <2>1. PICK f \in [SUBSET (1 .. m) -> A] : Fits(f, m, b, G)
    <3>1. m <= n
      BY <2>0
    <3> QED
      BY <1>2, <3>1 DEF Foldable
  <2> DEFINE k == m + 1
             g == [s \in SUBSET (1 .. k) |-> IF k \in s THEN G[<<k, f[s \ {k}]>>] ELSE f[s]]
  <2>2. \A s \in SUBSET (1 .. k) : s \ {k} \in SUBSET (1 .. m) /\ (k \notin s => s \in SUBSET (1 .. m))
    OBVIOUS
  <2>3. k \in 1 .. n
    BY <2>0
  <2> HIDE DEF k
  <2>4. g \in [SUBSET (1 .. k) -> A]
    BY <2>2, <2>3
  <2>5. ASSUME NEW s \in SUBSET (1 .. k)
        PROVE  g[s] = IF s = {} THEN b ELSE G[<<Max(s), g[s \ {Max(s)}]>>]
    <3>1. CASE k \in s
      <4>1. Max(s) = k
        <5>1. k \in Nat
          BY <2>3
        <5>2. Max(s) \in s /\ k <= Max(s)
          BY <5>1, <3>1, MaxOf
        <5>3. Max(s) \in 1 .. k
          BY <5>2
        <5> QED
          BY <5>1, <5>2, <5>3
      <4>2. s \ {k} \in SUBSET (1 .. k) /\ k \notin s \ {k}
        OBVIOUS
      <4>3. g[s] = G[<<k, f[s \ {k}]>>] /\ g[s \ {k}] = f[s \ {k}]
        BY <3>1, <4>2
      <4> QED
        BY <3>1, <4>1, <4>3
    <3>2. CASE k \notin s
      <4>1. s \in SUBSET (1 .. m) /\ g[s] = f[s]
        BY <3>2, <2>2
      <4>2. CASE s = {}
        BY <4>1, <4>2, <2>1 DEF Fits
      <4>3. CASE s # {}
        <5>1. Max(s) \in s
          BY <4>1, <4>3, MaxOf
        <5>2. s \ {Max(s)} \in SUBSET (1 .. k) /\ k \notin s \ {Max(s)}
          BY <3>2
        <5>3. g[s \ {Max(s)}] = f[s \ {Max(s)}]
          BY <5>2
        <5> QED
          BY <4>1, <4>3, <5>3, <2>1 DEF Fits
      <4> QED
        BY <4>2, <4>3
    <3> QED
      BY <3>1, <3>2
  <2> HIDE DEF g
  <2> QED
    BY <2>4, <2>5 DEF k, Fits, Foldable
<1>3. Nat \subseteq T
  BY <1>1, <1>2, SetInduction
<1>4. n \in T
  BY <1>3
<1> QED
  BY <1>4

\* What such a function gives on 1 .. 0, 1 .. 1 and so on is the fold, step by step.
FoldsBy(F, n, A, b, G) ==
  /\ n \in Nat /\ b \in A /\ G \in [(1 .. n) \X A -> A]
  /\ F[{}] = b
  /\ \A s \in SUBSET (1 .. n) : s # {} /\ F[s \ {Max(s)}] \in A =>
       F[s] = G[<<Max(s), F[s \ {Max(s)}]>>]
Walks(g, F, n, A, b, G) ==
  g \in [0 .. n -> A] /\ g[0] = b /\ g[n] = F[1 .. n] /\ \A p \in 1 .. n : g[p] = G[<<p, g[p - 1]>>]

\* A function that is built by the greatest element is reached in n steps.
LEMMA FoldSteps ==
  ASSUME NEW n, NEW A, NEW b, NEW G, NEW F, FoldsBy(F, n, A, b, G)
  PROVE  \E g : Walks(g, F, n, A, b, G)
<1>0. n \in Nat /\ b \in A /\ G \in [(1 .. n) \X A -> A]
  BY DEF FoldsBy
<1> DEFINE T == {m \in Nat : m <= n => F[1 .. m] \in A}
           g == [m \in 0 .. n |-> F[1 .. m]]
<1>1. ASSUME NEW m \in 1 .. n, F[1 .. (m - 1)] \in A
      PROVE  F[1 .. m] = G[<<m, F[1 .. (m - 1)]>>]
  <2>1. Max(1 .. m) = m /\ (1 .. m) \ {m} = 1 .. (m - 1)
    BY <1>0, MaxOfPrefix
  <2>2. (1 .. m) \in SUBSET (1 .. n) /\ (1 .. m) # {}
    BY <1>0
  <2> QED
    BY <1>0, <1>1, <2>1, <2>2 DEF FoldsBy
<1>2. 0 \in T
  BY <1>0, 1 .. 0 = {} DEF FoldsBy
<1>3. ASSUME NEW m \in Nat, m \in T PROVE m + 1 \in T
  <2>1. ASSUME m + 1 <= n PROVE F[1 .. (m + 1)] \in A
    <3>1. F[1 .. m] \in A /\ m + 1 \in 1 .. n /\ (m + 1) - 1 = m
      BY <1>0, <1>3, <2>1
    <3>2. F[1 .. (m + 1)] = G[<<m + 1, F[1 .. m]>>]
      BY <1>0, <1>1, <3>1
    <3> QED
      BY <1>0, <3>1, <3>2
  <2> QED
    BY <2>1
<1>4. Nat \subseteq T
  BY <1>2, <1>3, SetInduction
<1>5. \A m \in 0 .. n : F[1 .. m] \in A
  BY <1>0, <1>4
<1>6. g \in [0 .. n -> A] /\ g[0] = b /\ g[n] = F[1 .. n]
  BY <1>0, <1>5, 1 .. 0 = {} DEF FoldsBy
<1>7. \A p \in 1 .. n : g[p] = G[<<p, g[p - 1]>>]
  BY <1>0, <1>1, <1>5
<1> QED
  BY <1>6, <1>7 DEF Walks

Results(I) == [ok : BOOLEAN, entries : Seq(I)]

\* g has the result after each step of a fold.
AddEntrySteps(g, I, r, seq) ==
  /\ g \in [0 .. Len(seq) -> Results(I)]
  /\ g[0] = r /\ g[Len(seq)] = FoldLeft(AddEntry, r, seq)
  /\ \A p \in 1 .. Len(seq) : g[p] = AddEntry(g[p - 1], seq[p])

\* resolve_with_overlays adds the entries of a bundle one after another.
LEMMA AddEntryRun ==
  ASSUME NEW I, NEW r \in Results(I), NEW seq \in Seq(I)
  PROVE  \E g : AddEntrySteps(g, I, r, seq)
<1> DEFINE n == Len(seq)
           A == Results(I)
           Good(f) == f = [s \in SUBSET (1 .. n) |->
             IF s = {} THEN r ELSE AddEntry(f[s \ {Max(s)}], seq[Max(s)])]
           F == CHOOSE f : Good(f)
           G == [x \in (1 .. n) \X A |-> AddEntry(x[2], seq[x[1]])]
<1>1. n \in Nat /\ DOMAIN seq = 1 .. n /\ \A k \in 1 .. n : seq[k] \in I
  OBVIOUS
<1>2. ASSUME NEW x \in A, NEW e \in I PROVE AddEntry(x, e) \in A
  <2>1. Append(x.entries, e) \in Seq(I)
    BY DEF Results
  <2>2. [x EXCEPT !.entries = Append(@, e)] \in A /\ Refused \in A
    BY <2>1, EmptySeq DEF Results, Refused
  <2> QED
    BY <2>2 DEF AddEntry
<1>3. G \in [(1 .. n) \X A -> A]
  BY <1>1, <1>2
<1>4. FoldLeft(AddEntry, r, seq) = F[1 .. n]
  BY <1>1 DEF FoldLeft, MapThenFoldSet
<1>5. \E f : Good(f)
  <2>1. PICK f \in [SUBSET (1 .. n) -> A] : Fits(f, n, r, G)
    BY <1>1, <1>3, FoldExists DEF Foldable
  <2>2. ASSUME NEW s \in SUBSET (1 .. n)
        PROVE  f[s] = IF s = {} THEN r ELSE AddEntry(f[s \ {Max(s)}], seq[Max(s)])
    <3>1. CASE s = {}
      BY <2>1, <3>1 DEF Fits
    <3>2. CASE s # {}
      <4>1. Max(s) \in 1 .. n
        BY <1>1, <3>2, MaxOf
      <4>2. f[s \ {Max(s)}] \in A
        OBVIOUS
      <4>3. f[s] = G[<<Max(s), f[s \ {Max(s)}]>>]
        BY <2>1, <3>2 DEF Fits
      <4> QED
        BY <3>2, <4>1, <4>2, <4>3
    <3> QED
      BY <3>1, <3>2
  <2> QED
    BY <2>1, <2>2
<1>6. Good(F)
  BY <1>5
<1>7. \A s \in SUBSET (1 .. n) :
        F[s] = IF s = {} THEN r ELSE AddEntry(F[s \ {Max(s)}], seq[Max(s)])
  BY <1>6
<1> HIDE DEF F, Good
<1>8. F[{}] = r
  BY <1>7
<1>9. FoldsBy(F, n, A, r, G)
  <2>1. ASSUME NEW s \in SUBSET (1 .. n), s # {}, F[s \ {Max(s)}] \in A
        PROVE  F[s] = G[<<Max(s), F[s \ {Max(s)}]>>]
    <3>1. Max(s) \in 1 .. n
      BY <1>1, <2>1, MaxOf
    <3> QED
      BY <1>7, <2>1, <3>1
  <2> QED
    BY <1>1, <1>3, <1>8, <2>1 DEF FoldsBy
<1>10. PICK g : Walks(g, F, n, A, r, G)
  BY <1>9, FoldSteps, Zenon
<1>11. ASSUME NEW p \in 1 .. n PROVE g[p] = AddEntry(g[p - 1], seq[p])
  <2>1. p - 1 \in 0 .. n
    BY <1>1
  <2>2. g[p - 1] \in A /\ g[p] = G[<<p, g[p - 1]>>]
    <3> HIDE DEF n, A, G
    <3> QED
      BY <2>1, <1>10 DEF Walks
  <2> QED
    BY <1>1, <2>2
<1> QED
  BY <1>4, <1>10, <1>11 DEF Walks, AddEntrySteps

ApplyOverlaySteps(g, I, r, seq) ==
  /\ g \in [0 .. Len(seq) -> Results(I)]
  /\ g[0] = r /\ g[Len(seq)] = FoldLeft(ApplyOverlay, r, seq)
  /\ \A p \in 1 .. Len(seq) : g[p] = ApplyOverlay(g[p - 1], seq[p])

\* apply_overlay is called for one overlay after another.
LEMMA ApplyOverlayRun ==
  ASSUME NEW I, NEW r \in Results(I), NEW seq \in Seq(I)
  PROVE  \E g : ApplyOverlaySteps(g, I, r, seq)
<1> DEFINE n == Len(seq)
           A == Results(I)
           Good(f) == f = [s \in SUBSET (1 .. n) |->
             IF s = {} THEN r ELSE ApplyOverlay(f[s \ {Max(s)}], seq[Max(s)])]
           F == CHOOSE f : Good(f)
           G == [x \in (1 .. n) \X A |-> ApplyOverlay(x[2], seq[x[1]])]
<1>1. n \in Nat /\ DOMAIN seq = 1 .. n /\ \A k \in 1 .. n : seq[k] \in I
  OBVIOUS
<1>2. ASSUME NEW x \in A, NEW e \in I PROVE ApplyOverlay(x, e) \in A
  <2>1. x.entries \in Seq(I)
    BY DEF Results
  <2>2. ASSUME e.id \in Ids(x.entries)
        PROVE  [x.entries EXCEPT ![PlaceOf(x.entries, e.id)] = e] \in Seq(I)
    <3>1. PlaceOf(x.entries, e.id) \in 1 .. Len(x.entries)
      BY <2>1, <2>2, LenProperties DEF Ids, PlaceOf
    <3> QED
      BY <2>1, <3>1, ExceptSeq
  <2>3. e.id \in Ids(x.entries) => [x EXCEPT !.entries[PlaceOf(x.entries, e.id)] = e] \in A
    BY <2>2 DEF Results
  <2>4. Refused \in A
    BY EmptySeq DEF Results, Refused
  <2> QED
    BY <2>3, <2>4 DEF ApplyOverlay
<1>3. G \in [(1 .. n) \X A -> A]
  BY <1>1, <1>2
<1>4. FoldLeft(ApplyOverlay, r, seq) = F[1 .. n]
  BY <1>1 DEF FoldLeft, MapThenFoldSet
<1>5. \E f : Good(f)
  <2>1. PICK f \in [SUBSET (1 .. n) -> A] : Fits(f, n, r, G)
    BY <1>1, <1>3, FoldExists DEF Foldable
  <2>2. ASSUME NEW s \in SUBSET (1 .. n)
        PROVE  f[s] = IF s = {} THEN r ELSE ApplyOverlay(f[s \ {Max(s)}], seq[Max(s)])
    <3>1. CASE s = {}
      BY <2>1, <3>1 DEF Fits
    <3>2. CASE s # {}
      <4>1. Max(s) \in 1 .. n
        BY <1>1, <3>2, MaxOf
      <4>2. f[s \ {Max(s)}] \in A
        OBVIOUS
      <4>3. f[s] = G[<<Max(s), f[s \ {Max(s)}]>>]
        BY <2>1, <3>2 DEF Fits
      <4> QED
        BY <3>2, <4>1, <4>2, <4>3
    <3> QED
      BY <3>1, <3>2
  <2> QED
    BY <2>1, <2>2
<1>6. Good(F)
  BY <1>5
<1>7. \A s \in SUBSET (1 .. n) :
        F[s] = IF s = {} THEN r ELSE ApplyOverlay(F[s \ {Max(s)}], seq[Max(s)])
  BY <1>6
<1> HIDE DEF F, Good
<1>8. F[{}] = r
  BY <1>7
<1>9. FoldsBy(F, n, A, r, G)
  <2>1. ASSUME NEW s \in SUBSET (1 .. n), s # {}, F[s \ {Max(s)}] \in A
        PROVE  F[s] = G[<<Max(s), F[s \ {Max(s)}]>>]
    <3>1. Max(s) \in 1 .. n
      BY <1>1, <2>1, MaxOf
    <3> QED
      BY <1>7, <2>1, <3>1
  <2> QED
    BY <1>1, <1>3, <1>8, <2>1 DEF FoldsBy
<1>10. PICK g : Walks(g, F, n, A, r, G)
  BY <1>9, FoldSteps, Zenon
<1>11. ASSUME NEW p \in 1 .. n PROVE g[p] = ApplyOverlay(g[p - 1], seq[p])
  <2>1. p - 1 \in 0 .. n
    BY <1>1
  <2>2. g[p - 1] \in A /\ g[p] = G[<<p, g[p - 1]>>]
    <3> HIDE DEF n, A, G
    <3> QED
      BY <2>1, <1>10 DEF Walks
  <2> QED
    BY <1>1, <2>2
<1> QED
  BY <1>4, <1>10, <1>11 DEF Walks, ApplyOverlaySteps

AddBundleSteps(g, I, r, seq) ==
  /\ g \in [0 .. Len(seq) -> Results(I)]
  /\ g[0] = r /\ g[Len(seq)] = FoldLeft(AddBundle, r, seq)
  /\ \A p \in 1 .. Len(seq) : g[p] = AddBundle(g[p - 1], seq[p])

\* resolve_with_overlays takes one bundle after another.
LEMMA AddBundleRun ==
  ASSUME NEW I, NEW D, NEW r \in Results(I), NEW seq \in Seq(D),
         \A b \in D \cap DOMAIN Bundle : Bundle[b] \in Seq(I)
  PROVE  \E g : AddBundleSteps(g, I, r, seq)
<1> DEFINE n == Len(seq)
           A == Results(I)
           Good(f) == f = [s \in SUBSET (1 .. n) |->
             IF s = {} THEN r ELSE AddBundle(f[s \ {Max(s)}], seq[Max(s)])]
           F == CHOOSE f : Good(f)
           G == [x \in (1 .. n) \X A |-> AddBundle(x[2], seq[x[1]])]
<1>1. n \in Nat /\ DOMAIN seq = 1 .. n /\ \A k \in 1 .. n : seq[k] \in D
  OBVIOUS
<1>2. ASSUME NEW x \in A, NEW e \in D PROVE AddBundle(x, e) \in A
  <2>1. ASSUME e \in DOMAIN Bundle PROVE FoldLeft(AddEntry, x, Bundle[e]) \in A
    <3>1. Bundle[e] \in Seq(I)
      BY <2>1
    <3>2. PICK g : AddEntrySteps(g, I, x, Bundle[e])
      BY <3>1, AddEntryRun
    <3>3. Len(Bundle[e]) \in 0 .. Len(Bundle[e])
      BY <3>1, LenProperties
    <3> QED
      BY <3>2, <3>3 DEF AddEntrySteps
  <2>2. Refused \in A
    BY EmptySeq DEF Results, Refused
  <2> QED
    BY <2>1, <2>2 DEF AddBundle
<1>3. G \in [(1 .. n) \X A -> A]
  BY <1>1, <1>2
<1>4. FoldLeft(AddBundle, r, seq) = F[1 .. n]
  BY <1>1 DEF FoldLeft, MapThenFoldSet
<1>5. \E f : Good(f)
  <2>1. PICK f \in [SUBSET (1 .. n) -> A] : Fits(f, n, r, G)
    BY <1>1, <1>3, FoldExists DEF Foldable
  <2>2. ASSUME NEW s \in SUBSET (1 .. n)
        PROVE  f[s] = IF s = {} THEN r ELSE AddBundle(f[s \ {Max(s)}], seq[Max(s)])
    <3>1. CASE s = {}
      BY <2>1, <3>1 DEF Fits
    <3>2. CASE s # {}
      <4>1. Max(s) \in 1 .. n
        BY <1>1, <3>2, MaxOf
      <4>2. f[s \ {Max(s)}] \in A
        OBVIOUS
      <4>3. f[s] = G[<<Max(s), f[s \ {Max(s)}]>>]
        BY <2>1, <3>2 DEF Fits
      <4> QED
        BY <3>2, <4>1, <4>2, <4>3
    <3> QED
      BY <3>1, <3>2
  <2> QED
    BY <2>1, <2>2
<1>6. Good(F)
  BY <1>5
<1>7. \A s \in SUBSET (1 .. n) :
        F[s] = IF s = {} THEN r ELSE AddBundle(F[s \ {Max(s)}], seq[Max(s)])
  BY <1>6
<1> HIDE DEF F, Good
<1>8. F[{}] = r
  BY <1>7
<1>9. FoldsBy(F, n, A, r, G)
  <2>1. ASSUME NEW s \in SUBSET (1 .. n), s # {}, F[s \ {Max(s)}] \in A
        PROVE  F[s] = G[<<Max(s), F[s \ {Max(s)}]>>]
    <3>1. Max(s) \in 1 .. n
      BY <1>1, <2>1, MaxOf
    <3> QED
      BY <1>7, <2>1, <3>1
  <2> QED
    BY <1>1, <1>3, <1>8, <2>1 DEF FoldsBy
<1>10. PICK g : Walks(g, F, n, A, r, G)
  BY <1>9, FoldSteps, Zenon
<1>11. ASSUME NEW p \in 1 .. n PROVE g[p] = AddBundle(g[p - 1], seq[p])
  <2>1. p - 1 \in 0 .. n
    BY <1>1
  <2>2. g[p - 1] \in A /\ g[p] = G[<<p, g[p - 1]>>]
    <3> HIDE DEF n, A, G
    <3> QED
      BY <2>1, <1>10 DEF Walks
  <2> QED
    BY <1>1, <2>2
<1> QED
  BY <1>4, <1>10, <1>11 DEF Walks, AddBundleSteps

ApplyOverlaysSteps(g, I, r, seq) ==
  /\ g \in [0 .. Len(seq) -> Results(I)]
  /\ g[0] = r /\ g[Len(seq)] = FoldLeft(ApplyOverlays, r, seq)
  /\ \A p \in 1 .. Len(seq) : g[p] = ApplyOverlays(g[p - 1], seq[p])

\* The overlays of the command line are applied one file after another.
LEMMA ApplyOverlaysRun ==
  ASSUME NEW I, NEW r \in Results(I), NEW seq \in Seq(Seq(I))
  PROVE  \E g : ApplyOverlaysSteps(g, I, r, seq)
<1> DEFINE n == Len(seq)
           A == Results(I)
           Good(f) == f = [s \in SUBSET (1 .. n) |->
             IF s = {} THEN r ELSE ApplyOverlays(f[s \ {Max(s)}], seq[Max(s)])]
           F == CHOOSE f : Good(f)
           G == [x \in (1 .. n) \X A |-> ApplyOverlays(x[2], seq[x[1]])]
<1>1. n \in Nat /\ DOMAIN seq = 1 .. n /\ \A k \in 1 .. n : seq[k] \in Seq(I)
  OBVIOUS
<1>2. ASSUME NEW x \in A, NEW e \in Seq(I) PROVE ApplyOverlays(x, e) \in A
  <2>1. FoldLeft(ApplyOverlay, x, e) \in A
    <3>1. PICK g : ApplyOverlaySteps(g, I, x, e)
      BY ApplyOverlayRun
    <3>2. Len(e) \in 0 .. Len(e)
      BY LenProperties
    <3> QED
      BY <3>1, <3>2 DEF ApplyOverlaySteps
  <2>2. Refused \in A
    BY EmptySeq DEF Results, Refused
  <2> QED
    BY <2>1, <2>2 DEF ApplyOverlays
<1>3. G \in [(1 .. n) \X A -> A]
  BY <1>1, <1>2
<1>4. FoldLeft(ApplyOverlays, r, seq) = F[1 .. n]
  BY <1>1 DEF FoldLeft, MapThenFoldSet
<1>5. \E f : Good(f)
  <2>1. PICK f \in [SUBSET (1 .. n) -> A] : Fits(f, n, r, G)
    BY <1>1, <1>3, FoldExists DEF Foldable
  <2>2. ASSUME NEW s \in SUBSET (1 .. n)
        PROVE  f[s] = IF s = {} THEN r ELSE ApplyOverlays(f[s \ {Max(s)}], seq[Max(s)])
    <3>1. CASE s = {}
      BY <2>1, <3>1 DEF Fits
    <3>2. CASE s # {}
      <4>1. Max(s) \in 1 .. n
        BY <1>1, <3>2, MaxOf
      <4>2. f[s \ {Max(s)}] \in A
        OBVIOUS
      <4>3. f[s] = G[<<Max(s), f[s \ {Max(s)}]>>]
        BY <2>1, <3>2 DEF Fits
      <4> QED
        BY <3>2, <4>1, <4>2, <4>3
    <3> QED
      BY <3>1, <3>2
  <2> QED
    BY <2>1, <2>2
<1>6. Good(F)
  BY <1>5
<1>7. \A s \in SUBSET (1 .. n) :
        F[s] = IF s = {} THEN r ELSE ApplyOverlays(F[s \ {Max(s)}], seq[Max(s)])
  BY <1>6
<1> HIDE DEF F, Good
<1>8. F[{}] = r
  BY <1>7
<1>9. FoldsBy(F, n, A, r, G)
  <2>1. ASSUME NEW s \in SUBSET (1 .. n), s # {}, F[s \ {Max(s)}] \in A
        PROVE  F[s] = G[<<Max(s), F[s \ {Max(s)}]>>]
    <3>1. Max(s) \in 1 .. n
      BY <1>1, <2>1, MaxOf
    <3> QED
      BY <1>7, <2>1, <3>1
  <2> QED
    BY <1>1, <1>3, <1>8, <2>1 DEF FoldsBy
<1>10. PICK g : Walks(g, F, n, A, r, G)
  BY <1>9, FoldSteps, Zenon
<1>11. ASSUME NEW p \in 1 .. n PROVE g[p] = ApplyOverlays(g[p - 1], seq[p])
  <2>1. p - 1 \in 0 .. n
    BY <1>1
  <2>2. g[p - 1] \in A /\ g[p] = G[<<p, g[p - 1]>>]
    <3> HIDE DEF n, A, G
    <3> QED
      BY <2>1, <1>10 DEF Walks
  <2> QED
    BY <1>1, <2>2
<1> QED
  BY <1>4, <1>10, <1>11 DEF Walks, ApplyOverlaysSteps

(***************************************************************************)
(* Sequences of sequences, and ids that stand once.                        *)
(***************************************************************************)
\* The entries of several bundles or overlays, put one behind the other.
LEMMA FlattenRun ==
  ASSUME NEW I, NEW ss \in Seq(Seq(I))
  PROVE  \E g \in [0 .. Len(ss) -> Seq(I)] :
           /\ g[0] = <<>> /\ g[Len(ss)] = FlattenSeq(ss)
           /\ \A p \in 1 .. Len(ss) : g[p] = g[p - 1] \o ss[p]
<1> DEFINE n == Len(ss)
           A == Seq(I)
           G == [x \in (1 .. n) \X A |-> x[2] \o ss[x[1]]]
           Good(f) == f = [i \in 1 .. n |-> IF i = 1 THEN ss[i] ELSE f[i - 1] \o ss[i]]
           F == CHOOSE f : Good(f)
<1>1. n \in Nat /\ DOMAIN ss = 1 .. n /\ \A k \in 1 .. n : ss[k] \in A
  BY LenProperties
<1>2. G \in [(1 .. n) \X A -> A]
  BY <1>1, ConcatProperties
<1>3. <<>> \in A
  BY EmptySeq
<1>4. PICK h \in [SUBSET (1 .. n) -> A] : Fits(h, n, <<>>, G)
  BY <1>1, <1>2, <1>3, FoldExists DEF Foldable
<1>5. FoldsBy(h, n, A, <<>>, G)
  BY <1>1, <1>2, <1>3, <1>4 DEF FoldsBy, Fits
<1>6. PICK g : Walks(g, h, n, A, <<>>, G)
  BY <1>5, FoldSteps, Zenon
<1>7. g \in [0 .. n -> A] /\ g[0] = <<>>
  BY <1>6 DEF Walks
<1>8. ASSUME NEW p \in 1 .. n PROVE g[p] = g[p - 1] \o ss[p]
  <2>1. p - 1 \in 0 .. n
    BY <1>1
  <2>2. g[p - 1] \in A /\ g[p] = G[<<p, g[p - 1]>>]
    <3> HIDE DEF n, A, G
    <3> QED
      BY <2>1, <1>6 DEF Walks
  <2> QED
    BY <1>1, <2>2
<1>9. g[n] = FlattenSeq(ss)
  <2>1. CASE n = 0
    BY <1>7, <2>1, EmptySeq DEF FlattenSeq
  <2>2. CASE n # 0
    <3>1. FlattenSeq(ss) = F[n]
      BY <2>2 DEF FlattenSeq
    <3>2. g[1] = ss[1]
      <4>1. 1 \in 1 .. n /\ 1 - 1 = 0
        BY <1>1, <2>2
      <4>2. g[1] = g[0] \o ss[1]
        <5> HIDE DEF n, A
        <5>1. g[1] = g[1 - 1] \o ss[1]
          BY <1>8, <4>1
        <5> QED
          BY <4>1, <5>1
      <4> QED
        BY <1>1, <1>7, <4>1, <4>2, ConcatEmptySeq
    <3>3. Good([i \in 1 .. n |-> g[i]])
      <4> HIDE DEF n, A
      <4>1. \A i \in 1 .. n : i # 1 => i - 1 \in 1 .. n
        BY <1>1
      <4>2. \A i \in 1 .. n :
              g[i] = IF i = 1 THEN ss[i] ELSE [j \in 1 .. n |-> g[j]][i - 1] \o ss[i]
        BY <1>8, <3>2, <4>1
      <4> QED
        BY <4>2
    <3>4. Good(F)
      BY <3>3
    <3>5. \A i \in 1 .. n : F[i] = IF i = 1 THEN ss[i] ELSE F[i - 1] \o ss[i]
      BY <3>4
    <3> HIDE DEF F, Good
    <3> DEFINE T == {m \in Nat : m \in 1 .. n => F[m] = g[m]}
    <3>6. 0 \in T
      OBVIOUS
    <3>7. ASSUME NEW m \in Nat, m \in T PROVE m + 1 \in T
      <4> SUFFICES ASSUME m + 1 \in 1 .. n PROVE F[m + 1] = g[m + 1]
        OBVIOUS
      <4>1. CASE m = 0
        BY <3>2, <3>5, <4>1
      <4>2. CASE m # 0
        <5>1. m \in 1 .. n /\ (m + 1) - 1 = m /\ m + 1 # 1
          BY <1>1, <4>2
        <5>2. F[m] = g[m]
          BY <3>7, <5>1
        <5>3. F[m + 1] = F[m] \o ss[m + 1]
          BY <3>5, <5>1
        <5>4. g[m + 1] = g[m] \o ss[m + 1]
          BY <1>8, <5>1
        <5> QED
          BY <5>2, <5>3, <5>4
      <4> QED
        BY <4>1, <4>2
    <3>8. Nat \subseteq T
      BY <3>6, <3>7, SetInduction
    <3> QED
      BY <1>1, <2>2, <3>1, <3>8
  <2> QED
    BY <2>1, <2>2
<1> QED
  BY <1>7, <1>8, <1>9

\* They hold what their parts hold.
LEMMA FlattenRange ==
  ASSUME NEW I, NEW ss \in Seq(Seq(I))
  PROVE  /\ FlattenSeq(ss) \in Seq(I)
         /\ Range(FlattenSeq(ss)) = UNION {Range(ss[k]) : k \in DOMAIN ss}
<1> DEFINE n == Len(ss)
<1>1. PICK g \in [0 .. n -> Seq(I)] :
        /\ g[0] = <<>> /\ g[n] = FlattenSeq(ss)
        /\ \A p \in 1 .. n : g[p] = g[p - 1] \o ss[p]
  BY FlattenRun
<1>2. n \in Nat /\ DOMAIN ss = 1 .. n /\ \A k \in 1 .. n : ss[k] \in Seq(I)
  BY LenProperties
<1> HIDE DEF n
<1> DEFINE T == {m \in Nat : m <= n => Range(g[m]) = UNION {Range(ss[k]) : k \in 1 .. m}}
<1>3. 0 \in T
  BY <1>1 DEF Range
<1>4. ASSUME NEW m \in Nat, m \in T PROVE m + 1 \in T
  <2> SUFFICES ASSUME m + 1 <= n
               PROVE  Range(g[m + 1]) = UNION {Range(ss[k]) : k \in 1 .. (m + 1)}
    OBVIOUS
  <2>1. g[m] \in Seq(I) /\ ss[m + 1] \in Seq(I) /\ g[m + 1] = g[m] \o ss[m + 1]
    <3>1. m \in 0 .. n /\ m + 1 \in 1 .. n /\ (m + 1) - 1 = m
      BY <1>2
    <3> QED
      BY <1>1, <1>2, <3>1
  <2>2. Range(g[m + 1]) = Range(g[m]) \cup Range(ss[m + 1])
    <3>1. ASSUME NEW s \in Seq(I), NEW t \in Seq(I)
          PROVE  Range(s \o t) = Range(s) \cup Range(t)
      <4>1. Range(s \o t) \subseteq Range(s) \cup Range(t)
        BY DEF Range
      <4>2. ASSUME NEW i \in DOMAIN s PROVE s[i] \in Range(s \o t)
        <5>1. i \in DOMAIN (s \o t) /\ (s \o t)[i] = s[i]
          BY ConcatProperties, LenProperties
        <5> QED
          BY <5>1 DEF Range
      <4>3. ASSUME NEW i \in DOMAIN t PROVE t[i] \in Range(s \o t)
        <5>1. Len(s) + i \in DOMAIN (s \o t) /\ (s \o t)[Len(s) + i] = t[i]
          BY ConcatProperties, LenProperties
        <5> QED
          BY <5>1 DEF Range
      <4> QED
        BY <4>1, <4>2, <4>3 DEF Range
    <3> QED
      BY <2>1, <3>1
  <2>3. 1 .. (m + 1) = (1 .. m) \cup {m + 1}
    OBVIOUS
  <2>4. Range(g[m]) = UNION {Range(ss[k]) : k \in 1 .. m}
    BY <1>2, <1>4
  <2> QED
    BY <2>2, <2>3, <2>4
<1>5. n \in T
  BY <1>2, <1>3, <1>4, SetInduction
<1>6. Range(g[n]) = UNION {Range(ss[k]) : k \in 1 .. n}
  BY <1>2, <1>5
<1>7. g[n] \in Seq(I)
  BY <1>1, <1>2
<1> QED
  BY <1>1, <1>2, <1>6, <1>7

Proper(s) == \A i, j \in DOMAIN s : s[i].id = s[j].id => i = j

\* No id stands twice: counted as the model does, and compared pair by pair.
LEMMA DistinctIsProper ==
  ASSUME NEW I, NEW s \in Seq(I)
  PROVE  Distinct(s) <=> Proper(s)
<1> DEFINE n == Len(s)
           f == [i \in 1 .. n |-> s[i].id]
<1>1. n \in Nat /\ DOMAIN s = 1 .. n
  BY LenProperties
<1>2. f \in Surjection(1 .. n, Ids(s))
  BY <1>1 DEF Surjection, Ids
<1>3. IsFiniteSet(1 .. n) /\ Cardinality(1 .. n) = n
  BY <1>1, FS_Interval
<1>4. Cardinality(Ids(s)) = n <=> f \in Injection(1 .. n, Ids(s))
  BY <1>2, <1>3, FS_Surjection
<1>5. f \in Injection(1 .. n, Ids(s)) <=> Proper(s)
  BY <1>1, <1>2 DEF Injection, IsInjective, Surjection, Proper
<1> QED
  BY <1>4, <1>5 DEF Distinct

\* Ids stay apart when an entry with a new one is added.
LEMMA ProperAppend ==
  ASSUME NEW I, NEW s \in Seq(I), NEW e \in I
  PROVE  /\ Proper(Append(s, e)) <=> Proper(s) /\ e.id \notin Ids(s)
         /\ Ids(Append(s, e)) = Ids(s) \cup {e.id}
<1> DEFINE n == Len(s)
<1>1. n \in Nat /\ DOMAIN s = 1 .. n /\ DOMAIN Append(s, e) = 1 .. (n + 1)
  OBVIOUS
<1>2. Append(s, e)[n + 1] = e /\ \A i \in 1 .. n : Append(s, e)[i] = s[i]
  OBVIOUS
<1> DEFINE t == Append(s, e)
<1>3. DOMAIN t = 1 .. (n + 1) /\ t[n + 1] = e /\ \A i \in 1 .. n : t[i] = s[i]
  BY <1>1, <1>2
<1> HIDE DEF t, n
<1>4. Proper(t) => Proper(s) /\ e.id \notin Ids(s)
  BY <1>1, <1>3 DEF Proper, Ids
<1>5. Proper(s) /\ e.id \notin Ids(s) => Proper(t)
  BY <1>1, <1>3 DEF Proper, Ids
<1>6. Ids(t) = Ids(s) \cup {e.id}
  BY <1>1, <1>3 DEF Ids
<1> QED
  BY <1>4, <1>5, <1>6 DEF t

\* The ids of a part are apart when those of the whole are.
LEMMA ProperPrefix ==
  ASSUME NEW I, NEW s \in Seq(I), NEW t \in Seq(I), Proper(s \o t)
  PROVE  Proper(s)
<1>1. \A i \in DOMAIN s : i \in DOMAIN (s \o t) /\ (s \o t)[i] = s[i]
  BY ConcatProperties, LenProperties
<1> QED
  BY <1>1 DEF Proper

(***************************************************************************)
(* The bundles.                                                            *)
(***************************************************************************)
AllSound(s) == \A k \in DOMAIN s : Sound(s[k])

Upto(s, m) == SubSeq(s, 1, m)

\* A sequence grows from nothing to itself entry by entry.
LEMMA PrefixFacts ==
  ASSUME NEW I, NEW s \in Seq(I)
  PROVE  /\ Upto(s, 0) = <<>> /\ Upto(s, Len(s)) = s
         /\ \A m \in 0 .. Len(s) : Upto(s, m) \in Seq(I)
         /\ \A m \in Nat : m + 1 <= Len(s) =>
              m + 1 \in 1 .. Len(s) /\ Upto(s, m + 1) = Append(Upto(s, m), s[m + 1])
BY DEF Upto

\* Soundness entry by entry.
LEMMA SoundAppend ==
  ASSUME NEW I, NEW s \in Seq(I), NEW e \in I
  PROVE  AllSound(Append(s, e)) <=> AllSound(s) /\ Sound(e)
<1> DEFINE n == Len(s)
           t == Append(s, e)
<1>1. DOMAIN s = 1 .. n /\ n \in Nat
  OBVIOUS
<1>2. DOMAIN t = 1 .. (n + 1) /\ t[n + 1] = e /\ \A i \in 1 .. n : t[i] = s[i]
  OBVIOUS
<1> HIDE DEF t, n
<1>3. AllSound(t) <=> AllSound(s) /\ Sound(e)
  BY <1>1, <1>2 DEF AllSound
<1> QED
  BY <1>3 DEF t

\* Two parts are sound when the whole is.
LEMMA SoundConcat ==
  ASSUME NEW I, NEW s \in Seq(I), NEW t \in Seq(I)
  PROVE  AllSound(s \o t) <=> AllSound(s) /\ AllSound(t)
<1> DEFINE u == s \o t
<1>1. DOMAIN s = 1 .. Len(s) /\ DOMAIN t = 1 .. Len(t) /\ Len(s) \in Nat /\ Len(t) \in Nat
      /\ DOMAIN u = 1 .. (Len(s) + Len(t))
  BY LenProperties, ConcatProperties
<1>2. \A i \in 1 .. (Len(s) + Len(t)) : u[i] = IF i <= Len(s) THEN s[i] ELSE t[i - Len(s)]
  BY ConcatProperties
<1> HIDE DEF u
<1>3. ASSUME AllSound(s), AllSound(t), NEW i \in DOMAIN u PROVE Sound(u[i])
  <2>1. CASE i <= Len(s)
    BY <1>1, <1>2, <1>3, <2>1 DEF AllSound
  <2>2. CASE ~(i <= Len(s))
    <3>1. i - Len(s) \in DOMAIN t /\ u[i] = t[i - Len(s)]
      BY <1>1, <1>2, <2>2
    <3> QED
      BY <1>3, <3>1 DEF AllSound
  <2> QED
    BY <2>1, <2>2
<1>4. ASSUME AllSound(u), NEW i \in DOMAIN s PROVE Sound(s[i])
  <2>1. i \in DOMAIN u /\ u[i] = s[i]
    BY <1>1, <1>2
  <2> QED
    BY <1>4, <2>1 DEF AllSound
<1>5. ASSUME AllSound(u), NEW i \in DOMAIN t PROVE Sound(t[i])
  <2>1. Len(s) + i \in DOMAIN u /\ u[Len(s) + i] = t[i]
    BY <1>1, <1>2
  <2> QED
    BY <1>5, <2>1 DEF AllSound
<1> QED
  BY <1>3, <1>4, <1>5 DEF AllSound, u

\* The pushes of one bundle: they are refused when an entry is unsound or an
\* id is taken, and otherwise add the bundle's entries behind the others.
Added(r, s, R) ==
  /\ R.ok <=> AllSound(s) /\ Proper(r.entries \o s)
  /\ R.ok => R.entries = r.entries \o s

\* One more entry of a bundle is added, or the profile refused.
LEMMA AddOne ==
  ASSUME NEW I, NEW r \in Results(I), NEW t \in Seq(I), NEW R \in Results(I), NEW e \in I,
         Added(r, t, R)
  PROVE  Added(r, Append(t, e), AddEntry(R, e))
<1> DEFINE s == r.entries \o t
<1>1. r.entries \in Seq(I)
  BY DEF Results
<1>2. s \in Seq(I)
  BY <1>1, ConcatProperties
<1>3. r.entries \o Append(t, e) = Append(s, e)
  <2>1. PICK b \in Seq(I) : b = r.entries
    BY <1>1
  <2>2. b \o Append(t, e) = Append(b \o t, e)
    OBVIOUS
  <2> QED
    BY <2>1, <2>2
<1>4. AllSound(Append(t, e)) <=> AllSound(t) /\ Sound(e)
  BY SoundAppend
<1>5. Proper(Append(s, e)) <=> Proper(s) /\ e.id \notin Ids(s)
  BY <1>2, ProperAppend
<1>6. /\ R.ok <=> AllSound(t) /\ Proper(s)
      /\ R.ok => R.entries = s
  BY DEF Added
<1> HIDE DEF s
<1>7. CASE R.ok /\ Sound(e) /\ e.id \notin Ids(s)
  <2>1. AddEntry(R, e) = [R EXCEPT !.entries = Append(s, e)]
    BY <1>6, <1>7 DEF AddEntry
  <2>2. AddEntry(R, e).ok /\ AddEntry(R, e).entries = Append(s, e)
    BY <1>7, <2>1 DEF Results
  <2> QED
    BY <1>3, <1>4, <1>5, <1>6, <1>7, <2>2 DEF Added
<1>8. CASE ~(R.ok /\ Sound(e) /\ e.id \notin Ids(s))
  <2>1. AddEntry(R, e) = Refused
    BY <1>6, <1>8 DEF AddEntry
  <2>2. ~AddEntry(R, e).ok
    BY <2>1 DEF Refused
  <2> QED
    BY <1>3, <1>4, <1>5, <1>6, <1>8, <2>2 DEF Added
<1> QED
  BY <1>7, <1>8

\* So are all entries of a bundle.
LEMMA AddAll ==
  ASSUME NEW I, NEW r \in Results(I), NEW seq \in Seq(I), r.ok, Proper(r.entries)
  PROVE  /\ FoldLeft(AddEntry, r, seq) \in Results(I)
         /\ Added(r, seq, FoldLeft(AddEntry, r, seq))
<1> DEFINE n == Len(seq)
<1>1. PICK g : AddEntrySteps(g, I, r, seq)
  BY AddEntryRun
<1>2. /\ g \in [0 .. n -> Results(I)]
      /\ g[0] = r /\ g[n] = FoldLeft(AddEntry, r, seq)
      /\ \A p \in 1 .. n : g[p] = AddEntry(g[p - 1], seq[p])
  BY <1>1 DEF AddEntrySteps
<1>3. n \in Nat /\ \A k \in 1 .. n : seq[k] \in I
  OBVIOUS
<1>4. Upto(seq, 0) = <<>> /\ Upto(seq, n) = seq /\ (\A m \in 0 .. n : Upto(seq, m) \in Seq(I))
      /\ \A m \in Nat : m + 1 <= n =>
           m + 1 \in 1 .. n /\ Upto(seq, m + 1) = Append(Upto(seq, m), seq[m + 1])
  BY PrefixFacts
<1> HIDE DEF n
<1> DEFINE T == {m \in Nat : m <= n => Added(r, Upto(seq, m), g[m])}
<1>5. 0 \in T
  <2>1. r.entries \o <<>> = r.entries /\ AllSound(<<>>)
    BY ConcatEmptySeq DEF AllSound, Results
  <2> QED
    BY <1>2, <1>4, <2>1 DEF Added
<1>6. ASSUME NEW m \in Nat, m \in T PROVE m + 1 \in T
  <2>0. SUFFICES ASSUME m + 1 <= n PROVE Added(r, Upto(seq, m + 1), g[m + 1])
    OBVIOUS
  <2>1. m \in 0 .. n /\ m + 1 \in 1 .. n /\ (m + 1) - 1 = m /\ m <= n
    BY <1>3, <2>0
  <2>2. Added(r, Upto(seq, m), g[m])
    BY <1>6, <2>1
  <2>3. g[m + 1] = AddEntry(g[m], seq[m + 1]) /\ g[m] \in Results(I)
    BY <1>2, <2>1
  <2>4. seq[m + 1] \in I /\ Upto(seq, m) \in Seq(I)
        /\ Upto(seq, m + 1) = Append(Upto(seq, m), seq[m + 1])
    BY <1>3, <1>4, <2>0, <2>1
  <2> QED
    BY <2>2, <2>3, <2>4, AddOne
<1>7. n \in T
  BY <1>3, <1>5, <1>6, SetInduction
<1> QED
  BY <1>2, <1>3, <1>4, <1>7

\* The bundles of a profile together.
LEMMA Bundled ==
  ASSUME NEW I, NEW D, NEW bs \in Seq(D), \A b \in D \cap DOMAIN Bundle : Bundle[b] \in Seq(I)
  PROVE  LET R == FoldLeft(AddBundle, Begun, bs)
             B == FlattenSeq([k \in DOMAIN bs |-> Bundle[bs[k]]])
         IN  /\ R \in Results(I)
             /\ R.ok <=> /\ \A k \in DOMAIN bs : bs[k] \in DOMAIN Bundle
                         /\ AllSound(B) /\ Proper(B)
             /\ R.ok => R.entries = B /\ B \in Seq(I)
<1> DEFINE n == Len(bs)
           ss == [k \in DOMAIN bs |-> Bundle[bs[k]]]
<1>1. Begun \in Results(I)
  BY EmptySeq DEF Begun, Results
<1>0. PICK g : AddBundleSteps(g, I, Begun, bs)
  BY <1>1, AddBundleRun
<1>2. /\ g \in [0 .. n -> Results(I)]
      /\ g[0] = Begun /\ g[n] = FoldLeft(AddBundle, Begun, bs)
      /\ \A p \in 1 .. n : g[p] = AddBundle(g[p - 1], bs[p])
  BY <1>0 DEF AddBundleSteps
<1>3. n \in Nat /\ DOMAIN bs = 1 .. n /\ \A k \in 1 .. n : bs[k] \in D
  OBVIOUS
<1> HIDE DEF n
<1>4. g[n] \in Results(I)
  BY <1>2, <1>3
<1>5. g[n].ok => \A k \in 1 .. n : bs[k] \in DOMAIN Bundle
  <2> DEFINE T == {m \in Nat : m <= n /\ g[m].ok => \A k \in 1 .. m : bs[k] \in DOMAIN Bundle}
  <2>1. 0 \in T
    OBVIOUS
  <2>2. ASSUME NEW m \in Nat, m \in T PROVE m + 1 \in T
    <3> SUFFICES ASSUME m + 1 <= n, g[m + 1].ok
                 PROVE  \A k \in 1 .. (m + 1) : bs[k] \in DOMAIN Bundle
      OBVIOUS
    <3>1. m + 1 \in 1 .. n /\ (m + 1) - 1 = m /\ m <= n
      BY <1>3
    <3>2. g[m + 1] = AddBundle(g[m], bs[m + 1])
      BY <1>2, <3>1
    <3>3. g[m].ok /\ bs[m + 1] \in DOMAIN Bundle
      BY <3>2 DEF AddBundle, Refused
    <3> QED
      BY <2>2, <3>1, <3>3
  <2>3. n \in T
    BY <1>3, <2>1, <2>2, SetInduction
  <2> QED
    BY <1>3, <2>3
<1>6. CASE \A k \in 1 .. n : bs[k] \in DOMAIN Bundle
  <2>1. ss \in Seq(Seq(I)) /\ Len(ss) = n
    BY <1>3, <1>6
  <2>2. PICK c \in [0 .. n -> Seq(I)] :
          /\ c[0] = <<>> /\ c[n] = FlattenSeq(ss)
          /\ \A p \in 1 .. n : c[p] = c[p - 1] \o ss[p]
    <3> HIDE DEF ss
    <3> QED
      BY <2>1, FlattenRun
  <2> DEFINE T == {m \in Nat : m <= n =>
               /\ g[m].ok <=> AllSound(c[m]) /\ Proper(c[m])
               /\ g[m].ok => g[m].entries = c[m]}
  <2>3. 0 \in T
    BY <1>2, <2>2 DEF AllSound, Proper, Begun
  <2>4. ASSUME NEW m \in Nat, m \in T PROVE m + 1 \in T
    <3> SUFFICES ASSUME m + 1 <= n
                 PROVE  /\ g[m + 1].ok <=> AllSound(c[m + 1]) /\ Proper(c[m + 1])
                        /\ g[m + 1].ok => g[m + 1].entries = c[m + 1]
      OBVIOUS
    <3>1. m \in 0 .. n /\ m + 1 \in 1 .. n /\ (m + 1) - 1 = m /\ m <= n
      BY <1>3
    <3> DEFINE s == ss[m + 1]
    <3>2. s \in Seq(I) /\ s = Bundle[bs[m + 1]] /\ bs[m + 1] \in DOMAIN Bundle
      BY <1>3, <1>6, <3>1
    <3>3. c[m] \in Seq(I) /\ c[m + 1] = c[m] \o s
      BY <2>2, <3>1
    <3>4. g[m] \in Results(I) /\ g[m + 1] = AddBundle(g[m], bs[m + 1])
      BY <1>2, <3>1
    <3>5. /\ g[m].ok <=> AllSound(c[m]) /\ Proper(c[m])
          /\ g[m].ok => g[m].entries = c[m]
      BY <2>4, <3>1
    <3>6. AllSound(c[m + 1]) <=> AllSound(c[m]) /\ AllSound(s)
      BY <3>2, <3>3, SoundConcat
    <3>7. Proper(c[m + 1]) => Proper(c[m])
      BY <3>2, <3>3, ProperPrefix
    <3> HIDE DEF s
    <3>8. CASE g[m].ok
      <4>1. g[m + 1] = FoldLeft(AddEntry, g[m], s)
        BY <3>2, <3>4, <3>8 DEF AddBundle
      <4>2. Proper(g[m].entries) /\ g[m].entries = c[m]
        BY <3>5, <3>8
      <4>3. Added(g[m], s, g[m + 1])
        BY <3>2, <3>4, <3>8, <4>1, <4>2, AddAll
      <4> QED
        BY <3>3, <3>5, <3>6, <3>8, <4>2, <4>3 DEF Added
    <3>9. CASE ~g[m].ok
      BY <3>4, <3>5, <3>6, <3>7, <3>9 DEF AddBundle, Refused
    <3> QED
      BY <3>8, <3>9
  <2>5. n \in T
    BY <1>3, <2>3, <2>4, SetInduction
  <2>6. /\ g[n].ok <=> AllSound(c[n]) /\ Proper(c[n])
        /\ g[n].ok => g[n].entries = c[n]
    BY <1>3, <2>5
  <2>7. c[n] \in Seq(I)
    BY <1>3, <2>2
  <2> QED
    BY <1>2, <1>3, <1>4, <1>6, <2>2, <2>6, <2>7
<1>7. CASE ~ \A k \in 1 .. n : bs[k] \in DOMAIN Bundle
  BY <1>2, <1>3, <1>4, <1>5, <1>7
<1> QED
  BY <1>6, <1>7

(***************************************************************************)
(* The overlays.                                                           *)
(***************************************************************************)
Naming(E, id) == {k \in DOMAIN E : E[k].id = id}
Latest(E, id) == CHOOSE k \in Naming(E, id) : \A j \in Naming(E, id) : j <= k
Overlaid(B, E) ==
  [i \in DOMAIN B |-> IF Naming(E, B[i].id) = {} THEN B[i] ELSE E[Latest(E, B[i].id)]]

\* The last entry that names an id does name it.
LEMMA LatestNames ==
  ASSUME NEW I, NEW E \in Seq(I), NEW id, Naming(E, id) # {}
  PROVE  Latest(E, id) \in Naming(E, id) /\ \A j \in Naming(E, id) : j <= Latest(E, id)
<1>1. Len(E) \in Nat /\ Naming(E, id) \in SUBSET (1 .. Len(E))
  BY DEF Naming
<1>2. \E k \in Naming(E, id) : \A j \in Naming(E, id) : j <= k
  BY <1>1, MaxOf
<1> QED
  BY <1>2 DEF Latest

\* An overlaid profile has entries of the documents, the ids of its base, in its order.
LEMMA OverlaidType ==
  ASSUME NEW I, NEW B \in Seq(I), NEW E \in Seq(I)
  PROVE  /\ Overlaid(B, E) \in Seq(I) /\ DOMAIN Overlaid(B, E) = DOMAIN B
         /\ \A i \in DOMAIN B : Overlaid(B, E)[i].id = B[i].id
         /\ Ids(Overlaid(B, E)) = Ids(B)
         /\ Proper(B) => Proper(Overlaid(B, E))
<1> DEFINE C == Overlaid(B, E)
<1>1. Len(B) \in Nat /\ DOMAIN B = 1 .. Len(B) /\ \A i \in DOMAIN B : B[i] \in I
  OBVIOUS
<1>2. DOMAIN C = DOMAIN B
  BY DEF Overlaid
<1>3. ASSUME NEW i \in DOMAIN B PROVE C[i] \in I /\ C[i].id = B[i].id
  <2>1. CASE Naming(E, B[i].id) = {}
    BY <1>1, <2>1 DEF Overlaid
  <2>2. CASE Naming(E, B[i].id) # {}
    <3>1. Latest(E, B[i].id) \in Naming(E, B[i].id)
      BY <2>2, LatestNames
    <3>2. Latest(E, B[i].id) \in DOMAIN E /\ E[Latest(E, B[i].id)].id = B[i].id
      BY <3>1 DEF Naming
    <3>3. \A k \in DOMAIN E : E[k] \in I
      OBVIOUS
    <3> QED
      BY <2>2, <3>2, <3>3 DEF Overlaid
  <2> QED
    BY <2>1, <2>2
<1>4. C = [i \in 1 .. Len(B) |-> C[i]]
  BY <1>1 DEF Overlaid
<1>5. C \in Seq(I)
  <2> HIDE DEF C
  <2> QED
    BY <1>1, <1>2, <1>3, <1>4
<1> HIDE DEF C
<1>6. Ids(C) = Ids(B) /\ (Proper(B) => Proper(C))
  BY <1>2, <1>3 DEF Ids, Proper
<1> QED
  BY <1>2, <1>3, <1>5, <1>6 DEF C

\* F names what E names, and e behind it.
NamesLast(E, e, F) ==
  /\ Naming(F, e.id) # {} /\ F[Latest(F, e.id)] = e
  /\ \A id : e.id # id => /\ Naming(F, id) = Naming(E, id)
                         /\ \A k \in Naming(E, id) : F[k] = E[k]

\* The entry that is added last is the last to name its id.
LEMMA NamingAppend ==
  ASSUME NEW I, NEW E \in Seq(I), NEW e \in I
  PROVE  NamesLast(E, e, Append(E, e))
<1> DEFINE n == Len(E)
           F == Append(E, e)
<1>1. n \in Nat /\ DOMAIN E = 1 .. n /\ F \in Seq(I)
  OBVIOUS
<1>2. DOMAIN F = 1 .. (n + 1) /\ F[n + 1] = e /\ \A i \in 1 .. n : F[i] = E[i]
  OBVIOUS
<1> HIDE DEF n, F
<1>3. ASSUME NEW id, e.id # id
      PROVE  Naming(F, id) = Naming(E, id) /\ \A k \in Naming(E, id) : F[k] = E[k]
  BY <1>1, <1>2, <1>3 DEF Naming
<1>4. Naming(F, e.id) # {} /\ F[Latest(F, e.id)] = e
  <2>1. n + 1 \in Naming(F, e.id)
    BY <1>1, <1>2 DEF Naming
  <2>2. PICK id : id = e.id
    OBVIOUS
  <2>3. Latest(F, id) \in Naming(F, id) /\ n + 1 <= Latest(F, id)
    BY <1>1, <2>1, <2>2, LatestNames
  <2>4. Latest(F, id) = n + 1
    BY <1>1, <1>2, <2>3 DEF Naming
  <2> QED
    BY <1>2, <2>1, <2>2, <2>4
<1> QED
  BY <1>3, <1>4 DEF F, NamesLast

\* One more overlay replaces the entry of its id, in its place.
LEMMA OverlaidAppend ==
  ASSUME NEW I, NEW B \in Seq(I), NEW E \in Seq(I), NEW e \in I, Proper(B), e.id \in Ids(B)
  PROVE  LET C == Overlaid(B, E)
         IN  Overlaid(B, Append(E, e)) = [C EXCEPT ![PlaceOf(C, e.id)] = e]
<1> DEFINE C == Overlaid(B, E)
           F == Append(E, e)
           D == Overlaid(B, F)
           p == PlaceOf(C, e.id)
<1>1. /\ C \in Seq(I) /\ DOMAIN C = DOMAIN B /\ DOMAIN D = DOMAIN B
      /\ \A i \in DOMAIN B : C[i].id = B[i].id
  BY OverlaidType DEF Overlaid
<1>2. /\ p \in DOMAIN B /\ B[p].id = e.id
      /\ \A i \in DOMAIN B : B[i].id = e.id => i = p
  <2>1. \E i \in DOMAIN C : C[i].id = e.id
    BY <1>1 DEF Ids
  <2>2. p \in DOMAIN C /\ C[p].id = e.id
    BY <2>1 DEF PlaceOf
  <2> QED
    BY <1>1, <2>2 DEF Proper
<1>3. NamesLast(E, e, F)
  BY NamingAppend
<1> HIDE DEF F
<1>4. ASSUME NEW i \in DOMAIN B PROVE D[i] = IF i = p THEN e ELSE C[i]
  <2>1. CASE i = p
    <3>1. Naming(F, e.id) # {} /\ F[Latest(F, e.id)] = e
      BY <1>3 DEF NamesLast
    <3>2. B[i].id = e.id
      BY <1>2, <2>1
    <3> QED
      BY <2>1, <3>1, <3>2 DEF Overlaid
  <2>2. CASE i # p
    <3>1. e.id # B[i].id
      BY <1>2, <2>2
    <3>2. Naming(F, B[i].id) = Naming(E, B[i].id) /\ \A k \in Naming(E, B[i].id) : F[k] = E[k]
      BY <1>3, <3>1 DEF NamesLast
    <3>3. Latest(F, B[i].id) = Latest(E, B[i].id)
      BY <3>2 DEF Latest
    <3>4. Naming(E, B[i].id) # {} => Latest(E, B[i].id) \in Naming(E, B[i].id)
      BY LatestNames
    <3> QED
      BY <2>2, <3>2, <3>3, <3>4 DEF Overlaid
  <2> QED
    BY <2>1, <2>2
<1>5. D = [i \in DOMAIN B |-> D[i]] /\ C = [i \in DOMAIN B |-> C[i]]
  BY DEF Overlaid
<1> HIDE DEF C, D, p
<1>6. D = [C EXCEPT ![p] = e]
  BY <1>1, <1>2, <1>4, <1>5
<1> QED
  BY <1>6 DEF C, D, p, F

\* No overlay changes nothing.
LEMMA OverlaidByNothing ==
  ASSUME NEW I, NEW B \in Seq(I)
  PROVE  Overlaid(B, <<>>) = B
<1>1. \A id : Naming(<<>>, id) = {}
  BY DEF Naming
<1>2. B = [i \in DOMAIN B |-> B[i]]
  OBVIOUS
<1> QED
  BY <1>1, <1>2 DEF Overlaid

\* R is the result of putting the edits E over the entries B.
AllNamed(B, E) == \A k \in DOMAIN E : E[k].id \in Ids(B)
Edited(B, E, R) ==
  /\ R.ok <=> AllSound(E) /\ AllNamed(B, E)
  /\ R.ok => R.entries = Overlaid(B, E)

\* One more overlay is applied, or the profile refused.
LEMMA EditOne ==
  ASSUME NEW I, NEW B \in Seq(I), Proper(B), NEW E \in Seq(I), NEW e \in I,
         NEW R \in Results(I), Edited(B, E, R)
  PROVE  Edited(B, Append(E, e), ApplyOverlay(R, e))
<1> DEFINE C == Overlaid(B, E)
<1>1. AllSound(Append(E, e)) <=> AllSound(E) /\ Sound(e)
  BY SoundAppend
<1>2. AllNamed(B, Append(E, e)) <=> AllNamed(B, E) /\ e.id \in Ids(B)
  <2> DEFINE n == Len(E)
             F == Append(E, e)
  <2>1. n \in Nat /\ DOMAIN E = 1 .. n
    OBVIOUS
  <2>2. DOMAIN F = 1 .. (n + 1) /\ F[n + 1] = e /\ \A i \in 1 .. n : F[i] = E[i]
    OBVIOUS
  <2> HIDE DEF n, F
  <2>3. AllNamed(B, F) <=> AllNamed(B, E) /\ e.id \in Ids(B)
    BY <2>1, <2>2 DEF AllNamed
  <2> QED
    BY <2>3 DEF F
<1>3. /\ R.ok <=> AllSound(E) /\ AllNamed(B, E)
      /\ R.ok => R.entries = C
  BY DEF Edited
<1>4. Ids(C) = Ids(B)
  BY OverlaidType
<1>5. CASE R.ok /\ Sound(e) /\ e.id \in Ids(B)
  <2>1. ApplyOverlay(R, e) = [R EXCEPT !.entries[PlaceOf(R.entries, e.id)] = e]
    BY <1>3, <1>4, <1>5 DEF ApplyOverlay
  <2>2. ApplyOverlay(R, e).ok
        /\ ApplyOverlay(R, e).entries = [C EXCEPT ![PlaceOf(C, e.id)] = e]
    BY <1>3, <1>5, <2>1 DEF Results
  <2>3. ApplyOverlay(R, e).entries = Overlaid(B, Append(E, e))
    BY <1>5, <2>2, OverlaidAppend
  <2> QED
    BY <1>1, <1>2, <1>3, <1>5, <2>2, <2>3 DEF Edited
<1>6. CASE ~(R.ok /\ Sound(e) /\ e.id \in Ids(B))
  <2>1. ApplyOverlay(R, e) = Refused
    BY <1>3, <1>4, <1>6 DEF ApplyOverlay
  <2>2. ~ApplyOverlay(R, e).ok
    BY <2>1 DEF Refused
  <2> QED
    BY <1>1, <1>2, <1>3, <1>6, <2>2 DEF Edited
<1> QED
  BY <1>5, <1>6

(***************************************************************************)
(* Files of overlays.                                                      *)
(***************************************************************************)
\* So are all overlays of one file.
LEMMA EditAll ==
  ASSUME NEW I, NEW B \in Seq(I), Proper(B), NEW E \in Seq(I),
         NEW R \in Results(I), Edited(B, E, R), NEW s \in Seq(I)
  PROVE  /\ FoldLeft(ApplyOverlay, R, s) \in Results(I)
         /\ Edited(B, E \o s, FoldLeft(ApplyOverlay, R, s))
<1> DEFINE n == Len(s)
<1>1. PICK g : ApplyOverlaySteps(g, I, R, s)
  BY ApplyOverlayRun
<1>2. /\ g \in [0 .. n -> Results(I)]
      /\ g[0] = R /\ g[n] = FoldLeft(ApplyOverlay, R, s)
      /\ \A p \in 1 .. n : g[p] = ApplyOverlay(g[p - 1], s[p])
  BY <1>1 DEF ApplyOverlaySteps
<1>3. n \in Nat /\ \A k \in 1 .. n : s[k] \in I
  OBVIOUS
<1>4. Upto(s, 0) = <<>> /\ Upto(s, n) = s /\ (\A m \in 0 .. n : Upto(s, m) \in Seq(I))
      /\ \A m \in Nat : m + 1 <= n =>
           m + 1 \in 1 .. n /\ Upto(s, m + 1) = Append(Upto(s, m), s[m + 1])
  BY PrefixFacts
<1> HIDE DEF n
<1> DEFINE T == {m \in Nat : m <= n => Edited(B, E \o Upto(s, m), g[m])}
<1>5. 0 \in T
  BY <1>2, <1>4, ConcatEmptySeq
<1>6. ASSUME NEW m \in Nat, m \in T PROVE m + 1 \in T
  <2>0. SUFFICES ASSUME m + 1 <= n PROVE Edited(B, E \o Upto(s, m + 1), g[m + 1])
    OBVIOUS
  <2>1. m \in 0 .. n /\ m + 1 \in 1 .. n /\ (m + 1) - 1 = m /\ m <= n
    BY <1>3, <2>0
  <2>2. Edited(B, E \o Upto(s, m), g[m])
    BY <1>6, <2>1
  <2>3. g[m + 1] = ApplyOverlay(g[m], s[m + 1]) /\ g[m] \in Results(I)
    BY <1>2, <2>1
  <2>4. PICK u \in Seq(I) : u = Upto(s, m)
    BY <1>4, <2>1
  <2>5. s[m + 1] \in I /\ Upto(s, m + 1) = Append(u, s[m + 1])
    BY <1>3, <1>4, <2>0, <2>1, <2>4
  <2>6. E \o u \in Seq(I) /\ E \o Append(u, s[m + 1]) = Append(E \o u, s[m + 1])
    BY <2>5
  <2>7. Edited(B, Append(E \o u, s[m + 1]), g[m + 1])
    BY <2>2, <2>3, <2>4, <2>5, <2>6, EditOne
  <2> QED
    BY <2>5, <2>6, <2>7
<1>7. n \in T
  BY <1>3, <1>5, <1>6, SetInduction
<1> QED
  BY <1>2, <1>3, <1>4, <1>7

\* As Edited, with whether every document so far names each id once.
Layered(B, E, once, R) ==
  /\ R.ok <=> once /\ AllSound(E) /\ AllNamed(B, E)
  /\ R.ok => R.entries = Overlaid(B, E)

\* All overlays of two files name an entry when those of each do.
LEMMA NamedConcat ==
  ASSUME NEW I, NEW B, NEW s \in Seq(I), NEW t \in Seq(I), AllNamed(B, s \o t)
  PROVE  AllNamed(B, s)
<1>1. \A i \in DOMAIN s : i \in DOMAIN (s \o t) /\ (s \o t)[i] = s[i]
  BY ConcatProperties, LenProperties
<1> QED
  BY <1>1 DEF AllNamed

\* One file more of overlays, which must not name an id twice.
LEMMA OverlayOne ==
  ASSUME NEW I, NEW B \in Seq(I), Proper(B), NEW E \in Seq(I), NEW once \in BOOLEAN,
         NEW R \in Results(I), Layered(B, E, once, R), NEW s \in Seq(I)
  PROVE  /\ ApplyOverlays(R, s) \in Results(I)
         /\ Layered(B, E \o s, once /\ Distinct(s), ApplyOverlays(R, s))
<1>1. CASE R.ok /\ Distinct(s)
  <2>1. Edited(B, E, R) /\ once
    BY <1>1 DEF Layered, Edited
  <2>2. ApplyOverlays(R, s) = FoldLeft(ApplyOverlay, R, s)
    BY <1>1 DEF ApplyOverlays
  <2>3. ApplyOverlays(R, s) \in Results(I) /\ Edited(B, E \o s, ApplyOverlays(R, s))
    BY <2>1, <2>2, EditAll
  <2> QED
    BY <1>1, <2>1, <2>3 DEF Layered, Edited
<1>2. CASE ~(R.ok /\ Distinct(s))
  <2>1. ApplyOverlays(R, s) = Refused
    BY <1>2 DEF ApplyOverlays
  <2>2. ApplyOverlays(R, s) \in Results(I) /\ ~ApplyOverlays(R, s).ok
    BY <2>1, EmptySeq DEF Refused, Results
  <2>3. AllSound(E \o s) => AllSound(E)
    BY SoundConcat
  <2>4. AllNamed(B, E \o s) => AllNamed(B, E)
    BY NamedConcat
  <2> QED
    BY <1>2, <2>2, <2>3, <2>4 DEF Layered
<1> QED
  BY <1>1, <1>2

\* The files may be put together in either order.
Rejoined(E, u, v, I) == E \o u \in Seq(I) /\ E \o (u \o v) = (E \o u) \o v
LEMMA Rejoin ==
  ASSUME NEW I, NEW E \in Seq(I), NEW u \in Seq(I), NEW v \in Seq(I)
  PROVE  Rejoined(E, u, v, I)
<1>1. E \o u \in Seq(I)
  BY ConcatProperties
<1>2. (E \o u) \o v = E \o (u \o v)
  BY ConcatAssociative
<1> QED
  BY <1>1, <1>2 DEF Rejoined

\* All files of overlays.
LEMMA OverlayAll ==
  ASSUME NEW I, NEW B \in Seq(I), Proper(B), NEW E \in Seq(I), NEW once \in BOOLEAN,
         NEW R \in Results(I), Layered(B, E, once, R), NEW docs \in Seq(Seq(I))
  PROVE  Layered(B, E \o FlattenSeq(docs), once /\ \A k \in DOMAIN docs : Distinct(docs[k]),
                 FoldLeft(ApplyOverlays, R, docs))
<1> DEFINE n == Len(docs)
<1>1. PICK g : ApplyOverlaysSteps(g, I, R, docs)
  BY ApplyOverlaysRun
<1>2. /\ g \in [0 .. n -> Results(I)]
      /\ g[0] = R /\ g[n] = FoldLeft(ApplyOverlays, R, docs)
      /\ \A p \in 1 .. n : g[p] = ApplyOverlays(g[p - 1], docs[p])
  BY <1>1 DEF ApplyOverlaysSteps
<1>3. n \in Nat /\ DOMAIN docs = 1 .. n /\ \A k \in 1 .. n : docs[k] \in Seq(I)
  BY LenProperties
<1>4. PICK c \in [0 .. n -> Seq(I)] :
        /\ c[0] = <<>> /\ c[n] = FlattenSeq(docs)
        /\ \A p \in 1 .. n : c[p] = c[p - 1] \o docs[p]
  BY FlattenRun
<1> HIDE DEF n
<1> DEFINE T == {m \in Nat : m <= n =>
             Layered(B, E \o c[m], once /\ \A k \in 1 .. m : Distinct(docs[k]), g[m])}
<1>5. 0 \in T
  <2>1. E \o c[0] = E /\ (once /\ \A k \in 1 .. 0 : Distinct(docs[k])) = once
    BY <1>4, ConcatEmptySeq
  <2> QED
    BY <1>2, <2>1
<1>6. ASSUME NEW m \in Nat, m \in T PROVE m + 1 \in T
  <2> DEFINE so == once /\ \A k \in 1 .. m : Distinct(docs[k])
  <2>0. SUFFICES ASSUME m + 1 <= n
                 PROVE  Layered(B, E \o c[m + 1],
                          once /\ \A k \in 1 .. (m + 1) : Distinct(docs[k]), g[m + 1])
    OBVIOUS
  <2>1. m \in 0 .. n /\ m + 1 \in 1 .. n /\ (m + 1) - 1 = m /\ m <= n
    BY <1>3, <2>0
  <2>2. Layered(B, E \o c[m], so, g[m])
    BY <1>6, <2>1
  <2>3. g[m + 1] = ApplyOverlays(g[m], docs[m + 1]) /\ g[m] \in Results(I)
    BY <1>2, <2>1
  <2>4. PICK u \in Seq(I), v \in Seq(I) : u = c[m] /\ v = docs[m + 1] /\ c[m + 1] = u \o v
    <3>1. c[m] \in Seq(I) /\ docs[m + 1] \in Seq(I) /\ c[m + 1] = c[m] \o docs[m + 1]
      BY <1>3, <1>4, <2>1
    <3> QED
      BY <3>1
  <2>5. E \o u \in Seq(I) /\ E \o (u \o v) = (E \o u) \o v
    BY Rejoin DEF Rejoined
  <2>6. so \in BOOLEAN
    OBVIOUS
  <2>7. (once /\ \A k \in 1 .. (m + 1) : Distinct(docs[k])) = (so /\ Distinct(v))
    BY <2>1, <2>4
  <2> HIDE DEF so
  <2>8. Layered(B, E \o u, so, g[m]) /\ g[m + 1] = ApplyOverlays(g[m], v)
    BY <2>2, <2>3, <2>4
  <2>9. Layered(B, (E \o u) \o v, so /\ Distinct(v), ApplyOverlays(g[m], v))
    BY <2>3, <2>5, <2>6, <2>8, OverlayOne
  <2> QED
    BY <2>4, <2>5, <2>7, <2>8, <2>9
<1>7. n \in T
  BY <1>3, <1>5, <1>6, SetInduction
<1>8. Layered(B, E \o c[n], once /\ \A k \in 1 .. n : Distinct(docs[k]), g[n])
  BY <1>3, <1>7
<1> QED
  BY <1>2, <1>3, <1>4, <1>8

\* What is refused stays refused.
LEMMA RefusedStays ==
  ASSUME NEW I, NEW R \in Results(I), ~R.ok, NEW docs \in Seq(Seq(I))
  PROVE  ~FoldLeft(ApplyOverlays, R, docs).ok
<1> DEFINE n == Len(docs)
<1>1. PICK g : ApplyOverlaysSteps(g, I, R, docs)
  BY ApplyOverlaysRun
<1>2. /\ g \in [0 .. n -> Results(I)]
      /\ g[0] = R /\ g[n] = FoldLeft(ApplyOverlays, R, docs)
      /\ \A p \in 1 .. n : g[p] = ApplyOverlays(g[p - 1], docs[p])
  BY <1>1 DEF ApplyOverlaysSteps
<1>3. n \in Nat
  BY LenProperties
<1> HIDE DEF n
<1> DEFINE T == {m \in Nat : m <= n => ~g[m].ok}
<1>4. 0 \in T
  BY <1>2
<1>5. ASSUME NEW m \in Nat, m \in T PROVE m + 1 \in T
  <2>0. SUFFICES ASSUME m + 1 <= n PROVE ~g[m + 1].ok
    OBVIOUS
  <2>1. m + 1 \in 1 .. n /\ (m + 1) - 1 = m /\ m <= n
    BY <1>3, <2>0
  <2>2. g[m + 1] = ApplyOverlays(g[m], docs[m + 1]) /\ ~g[m].ok
    BY <1>2, <1>5, <2>1
  <2> QED
    BY <2>2 DEF ApplyOverlays, Refused
<1>6. n \in T
  BY <1>3, <1>4, <1>5, SetInduction
<1> QED
  BY <1>2, <1>3, <1>6

(***************************************************************************)
(* The documents.                                                          *)
(***************************************************************************)
\* Every entry that the documents of d can name.
EntriesOf(d) ==
  (UNION {Range(Bundle[b]) : b \in DOMAIN Bundle}) \cup Range(d.overlays)
  \cup (UNION {Range(d.cli[k]) : k \in DOMAIN d.cli})

\* The entries of a document are entries.
LEMMA DocumentType ==
  ASSUME NEW d \in Documents
  PROVE  /\ \A b \in DOMAIN Bundle : Bundle[b] \in Seq(EntriesOf(d))
         /\ d.bundles \in Seq(Range(d.bundles)) /\ d.overlays \in Seq(EntriesOf(d))
         /\ d.cli \in Seq(Seq(EntriesOf(d)))
<1> DEFINE I == EntriesOf(d)
<1>1. \A s : Range(s) \subseteq I /\ s \in Seq(Range(s)) => s \in Seq(I)
  BY SeqMonotonic
<1>2. ASSUME NEW b \in DOMAIN Bundle PROVE Bundle[b] \in Seq(I)
  <2>1. Range(Bundle[b]) \subseteq I
    BY DEF EntriesOf
  <2> QED
    BY <1>1, <2>1, BundleAssumption
<1>3. d.overlays \in Seq(I)
  <2>1. Range(d.overlays) \subseteq I
    BY DEF EntriesOf
  <2> QED
    BY <1>1, <2>1, DocumentAssumption
<1>4. ASSUME NEW k \in DOMAIN d.cli PROVE d.cli[k] \in Seq(I)
  <2>1. Range(d.cli[k]) \subseteq I
    BY DEF EntriesOf
  <2> QED
    BY <1>1, <2>1, DocumentAssumption
<1>5. Range(d.cli) \subseteq Seq(I)
  BY <1>4 DEF Range
<1>6. d.cli \in Seq(Seq(I))
  BY <1>5, SeqMonotonic, DocumentAssumption
<1> QED
  BY <1>2, <1>3, <1>6, DocumentAssumption

\* The declared composition is the base, overlaid.
LEMMA ComposedIsOverlaid ==
  ASSUME NEW d
  PROVE  Composed(d) = Overlaid(Base(d), Edits(d))
BY DEF Composed, Overlaid, Naming, Latest

\* Soundness of a sequence and of its entries.
LEMMA SoundIsInRange ==
  ASSUME NEW s
  PROVE  AllSound(s) <=> \A e \in Range(s) : Sound(e)
BY DEF AllSound, Range

\* The overlays name entries of the base.
LEMMA NamedIsSubset ==
  ASSUME NEW B, NEW E
  PROVE  AllNamed(B, E) <=> Ids(E) \subseteq Ids(B)
<1>1. Ids(E) = {E[k].id : k \in DOMAIN E}
  BY DEF Ids
<1> QED
  BY <1>1 DEF AllNamed

\* The resolver accepts exactly the acceptable documents, with the composed profile.
LEMMA ResolutionIsDeclared ==
  ASSUME NEW d \in Documents
  PROVE  /\ Resolve(d).ok <=> Acceptable(d)
         /\ Resolve(d).ok => /\ Resolve(d).entries = Composed(d)
                             /\ Composed(d) \in Seq(EntriesOf(d))
                             /\ Proper(Composed(d)) /\ AllSound(Composed(d))
<1> DEFINE I == EntriesOf(d)
           bundled == FoldLeft(AddBundle, Begun, d.bundles)
           own == ApplyOverlays(bundled, d.overlays)
           all == FoldLeft(ApplyOverlays, own, d.cli)
           B == Base(d)
           E == Edits(d)
           Readable == \A k \in DOMAIN d.bundles : d.bundles[k] \in DOMAIN Bundle
           once == Distinct(d.overlays) /\ \A k \in DOMAIN d.cli : Distinct(d.cli[k])
<1>1. /\ \A b \in DOMAIN Bundle : Bundle[b] \in Seq(I)
      /\ d.bundles \in Seq(Range(d.bundles)) /\ d.overlays \in Seq(I) /\ d.cli \in Seq(Seq(I))
  BY DocumentType
<1>2. FlattenSeq(d.cli) \in Seq(I)
  BY <1>1, FlattenRange
<1>3. E \in Seq(I)
  BY <1>1, <1>2, ConcatProperties DEF Edits
<1>4. /\ bundled \in Results(I)
      /\ bundled.ok <=> Readable /\ AllSound(B) /\ Proper(B)
      /\ bundled.ok => bundled.entries = B /\ B \in Seq(I)
  BY <1>1, Bundled DEF Base
<1>5. Acceptable(d) <=>
        /\ d.found /\ Readable /\ AllSound(B) /\ AllSound(E) /\ Distinct(B) /\ once
        /\ AllNamed(B, E) /\ MountsOnce(Overlaid(B, E))
  BY SoundIsInRange, NamedIsSubset, ComposedIsOverlaid DEF Acceptable
<1>6. Resolve(d) = IF d.found /\ all.ok /\ MountsOnce(all.entries) THEN all ELSE Refused
  BY DEF Resolve
<1> HIDE DEF I, bundled, own, all, B, E, Readable, once
<1>7. CASE bundled.ok
  <2>1. B \in Seq(I) /\ Proper(B) /\ (Distinct(B) <=> Proper(B)) /\ <<>> \in Seq(I)
    BY <1>4, <1>7, DistinctIsProper, EmptySeq
  <2>2. Layered(B, <<>>, TRUE, bundled)
    <3>1. Overlaid(B, <<>>) = B /\ AllSound(<<>>) /\ AllNamed(B, <<>>)
      BY <2>1, OverlaidByNothing DEF AllSound, AllNamed
    <3> QED
      BY <1>4, <1>7, <3>1 DEF Layered
  <2>3. /\ own \in Results(I)
        /\ Layered(B, d.overlays, Distinct(d.overlays), own)
    <3>1. <<>> \o d.overlays = d.overlays /\ (TRUE /\ Distinct(d.overlays)) = Distinct(d.overlays)
      BY <1>1, ConcatEmptySeq DEF Distinct
    <3>2. /\ own \in Results(I)
          /\ Layered(B, <<>> \o d.overlays, TRUE /\ Distinct(d.overlays), own)
      BY <1>1, <1>4, <2>1, <2>2, OverlayOne DEF own
    <3> QED
      BY <3>1, <3>2
  <2>4. Layered(B, E, once, all)
    <3>1. Distinct(d.overlays) \in BOOLEAN
      BY DEF Distinct
    <3> QED
      BY <1>1, <2>1, <2>3, <3>1, OverlayAll DEF all, E, once, Edits
  <2>5. /\ Overlaid(B, E) \in Seq(I) /\ Proper(Overlaid(B, E))
        /\ AllSound(B) /\ AllSound(E) => AllSound(Overlaid(B, E))
    <3>1. Overlaid(B, E) \in Seq(I) /\ Proper(Overlaid(B, E))
      BY <1>3, <2>1, OverlaidType
    <3>2. ASSUME AllSound(B), AllSound(E), NEW i \in DOMAIN B PROVE Sound(Overlaid(B, E)[i])
      <4>1. CASE Naming(E, B[i].id) = {}
        BY <3>2, <4>1 DEF Overlaid, AllSound
      <4>2. CASE Naming(E, B[i].id) # {}
        <5>1. Latest(E, B[i].id) \in DOMAIN E
          BY <1>3, <4>2, LatestNames DEF Naming
        <5> QED
          BY <3>2, <4>2, <5>1 DEF Overlaid, AllSound
      <4> QED
        BY <4>1, <4>2
    <3>3. DOMAIN Overlaid(B, E) = DOMAIN B
      BY DEF Overlaid
    <3> QED
      BY <3>1, <3>2, <3>3 DEF AllSound
  <2>6. CASE d.found /\ all.ok /\ MountsOnce(all.entries)
    <3>1. Resolve(d) = all /\ all.entries = Overlaid(B, E) /\ once /\ AllSound(E) /\ AllNamed(B, E)
      BY <1>6, <2>4, <2>6 DEF Layered
    <3>2. Acceptable(d)
      BY <1>4, <1>5, <1>7, <2>1, <2>6, <3>1
    <3>3. Composed(d) = Overlaid(B, E)
      BY ComposedIsOverlaid DEF B, E
    <3> QED
      BY <1>4, <1>7, <2>5, <2>6, <3>1, <3>2, <3>3 DEF I
  <2>7. CASE ~(d.found /\ all.ok /\ MountsOnce(all.entries))
    <3>1. ~Resolve(d).ok
      BY <1>6, <2>7 DEF Refused
    <3>2. ~Acceptable(d)
      BY <1>5, <2>4, <2>7 DEF Layered
    <3> QED
      BY <3>1, <3>2
  <2> QED
    BY <2>6, <2>7
<1>8. CASE ~bundled.ok
  <2>1. own = Refused
    BY <1>8 DEF own, ApplyOverlays
  <2>2. Refused \in Results(I) /\ ~Refused.ok
    BY EmptySeq DEF Refused, Results
  <2>3. ~all.ok
    BY <1>1, <2>1, <2>2, RefusedStays DEF all
  <2>4. ~Resolve(d).ok
    BY <1>6, <2>3 DEF Refused
  <2>5. ~(Readable /\ AllSound(B) /\ Proper(B))
    BY <1>4, <1>8
  <2>6. Acceptable(d) => Proper(B)
    <3>1. ASSUME Acceptable(d) PROVE B \in Seq(I)
      <4>1. Readable
        BY <1>5, <3>1
      <4>2. [k \in DOMAIN d.bundles |-> Bundle[d.bundles[k]]] \in Seq(Seq(I))
        <5>1. PICK n \in Nat : DOMAIN d.bundles = 1 .. n
          BY <1>1
        <5>2. \A k \in DOMAIN d.bundles : Bundle[d.bundles[k]] \in Seq(I)
          BY <1>1, <4>1 DEF Readable
        <5> QED
          BY <5>1, <5>2
      <4> QED
        BY <4>2, FlattenRange DEF B, Base
    <3> QED
      BY <1>5, <3>1, DistinctIsProper
  <2> QED
    BY <1>5, <2>4, <2>5, <2>6
<1> QED
  BY <1>7, <1>8

(***************************************************************************)
(* The start.                                                              *)
(***************************************************************************)
MountedStages == {"mounted", "collected", "migrating", "builtins", "plugins", "policy", "serving"}
Running == {"builtins", "plugins", "policy", "serving"}

\* What a start has read of its documents.
DocumentsInv ==
  /\ documents \in Documents \cup {NoDocuments}
  /\ stage \in {"resolved", "refused"} => documents \in Documents
  /\ stage = "resolved" => Resolve(documents).ok /\ entries = Resolve(documents).entries
  /\ stage = "refused" => ~Resolve(documents).ok

\* The entries have distinct ids, and the next one is one of them.
EntriesInv ==
  /\ stage \in Stages
  /\ entries \in Seq(Range(entries)) /\ Proper(entries) /\ AllSound(entries)
  /\ stage \in {"off", "refused"} => entries = <<>>
  /\ stage \in MountedStages => Mountable
  /\ stage \in {"builtins", "plugins"} => at \in DOMAIN entries
  /\ stage \notin {"builtins", "plugins"} => at = 1

ProfileInv == DocumentsInv /\ EntriesInv

\* The entries are numbered from 1.
LEMMA EntriesLength ==
  ASSUME NEW s, s \in Seq(Range(s))
  PROVE  /\ Len(s) \in Nat /\ DOMAIN s = 1 .. Len(s)
         /\ (s # <<>> <=> 1 \in DOMAIN s)
         /\ \A i \in DOMAIN s : i < Len(s) => i + 1 \in DOMAIN s
<1>1. Len(s) \in Nat /\ DOMAIN s = 1 .. Len(s) /\ (s # <<>> <=> Len(s) # 0)
  BY EmptySeq
<1> QED
  BY <1>1

\* A host that is off has no entries.
LEMMA EmptyIsProper == <<>> \in Seq(Range(<<>>)) /\ Proper(<<>>) /\ AllSound(<<>>)
BY EmptySeq DEF Proper, AllSound

\* A process that ends leaves nothing of the profile.
LEMMA GoneKeepsProfile ==
  ASSUME Gone
  PROVE  ProfileInv'
<1>1. entries' = <<>> /\ stage' = "off" /\ at' = 1 /\ documents' = NoDocuments
  BY DEF Gone
<1>2. entries' \in Seq(Range(entries')) /\ Proper(entries') /\ AllSound(entries')
  BY <1>1, EmptyIsProper
<1> QED
  BY <1>1, <1>2 DEF ProfileInv, DocumentsInv, EntriesInv, Stages, MountedStages

\* The same entries in a later stage.
LEMMA SameEntries ==
  ASSUME ProfileInv, entries' = entries, stage' \in Stages \ {"off", "resolved", "refused"},
         documents' = documents \/ documents' = NoDocuments,
         stage' \in MountedStages => Mountable,
         stage' \in {"builtins", "plugins"} => at' \in DOMAIN entries,
         stage' \notin {"builtins", "plugins"} => at' = 1
  PROVE  ProfileInv'
<1>1. Mountable' <=> Mountable
  BY DEF Mountable, LuaEntries, Entry, NameOf
<1>2. DocumentsInv'
  BY DEF ProfileInv, DocumentsInv
<1> QED
  BY <1>1, <1>2 DEF ProfileInv, EntriesInv

\* The next entry is one of the profile.
LEMMA AdvanceKeepsProfile ==
  ASSUME ProfileInv, stage \in {"builtins", "plugins"}, Advance,
         entries' = entries, documents' = documents
  PROVE  /\ ProfileInv' /\ stage' \in {"builtins", "plugins", "policy"}
         /\ \A i \in DOMAIN entries :
              i < at \/ i = at \/ at < i
<1>1. Len(entries) \in Nat /\ DOMAIN entries = 1 .. Len(entries) /\ at \in DOMAIN entries
      /\ Mountable
  BY EntriesLength DEF ProfileInv, EntriesInv, MountedStages
<1>2. stage' \in {"builtins", "plugins", "policy"} /\ (stage' # "policy" => at' \in DOMAIN entries)
      /\ (stage' = "policy" => at' = 1)
  BY <1>1 DEF Advance
<1>3. ProfileInv'
  BY <1>1, <1>2, SameEntries DEF Stages
<1> QED
  BY <1>1, <1>2, <1>3

\* No host runs at first.
LEMMA ProfileInit == ASSUME Init PROVE ProfileInv
BY EmptyIsProper DEF Init, ProfileInv, DocumentsInv, EntriesInv, Stages, MountedStages

\* What is read is resolved, and the entries then have distinct ids.
LEMMA ReadKeepsProfile ==
  ASSUME ProfileInv, Read
  PROVE  ProfileInv'
<1>1. PICK d \in Documents : /\ documents' = d /\ entries' = Resolve(d).entries
                             /\ stage' = IF Resolve(d).ok THEN "resolved" ELSE "refused"
  BY DEF Read
<1>2. at' = 1
  BY DEF Read, ProfileInv, EntriesInv
<1>3. CASE Resolve(d).ok
  <2>1. /\ entries' = Composed(d) /\ Composed(d) \in Seq(EntriesOf(d))
        /\ Proper(Composed(d)) /\ AllSound(Composed(d))
    BY <1>1, <1>3, ResolutionIsDeclared
  <2>2. Composed(d) \in Seq(Range(Composed(d)))
    <3>1. \A s \in Seq(EntriesOf(d)) : s \in Seq(Range(s))
      BY DEF Range
    <3> QED
      BY <2>1, <3>1
  <2> QED
    BY <1>1, <1>2, <1>3, <2>1, <2>2 DEF ProfileInv, DocumentsInv, EntriesInv, Stages, MountedStages
<1>4. CASE ~Resolve(d).ok
  <2>1. Resolve(d).entries = <<>>
    <3>1. Resolve(d) = Refused
      BY <1>4 DEF Resolve
    <3> QED
      BY <3>1 DEF Refused
  <2>2. entries' = <<>> /\ stage' = "refused"
    BY <1>1, <1>4, <2>1
  <2>3. entries' \in Seq(Range(entries')) /\ Proper(entries') /\ AllSound(entries')
    BY <2>2, EmptyIsProper
  <2> QED
    BY <1>1, <1>2, <1>4, <2>2, <2>3 DEF ProfileInv, DocumentsInv, EntriesInv, Stages, MountedStages
<1> QED
  BY <1>3, <1>4

\* Every step keeps the profile.
LEMMA ProfileStep ==
  ASSUME ProfileInv, [Next]_vars
  PROVE  ProfileInv'
<1>1. CASE Read
  BY <1>1, ReadKeepsProfile
<1>2. CASE Refuse \/ Stop
  BY <1>2, GoneKeepsProfile DEF Refuse, Stop, Failed
<1>3. CASE Mount
  <2>1. CASE Mountable
    <3>1. /\ stage' = "mounted" /\ documents' = NoDocuments /\ entries' = entries
          /\ stage = "resolved" /\ at' = at
      BY <1>3, <2>1 DEF Mount
    <3> QED
      BY <2>1, <3>1, SameEntries DEF Stages, ProfileInv, EntriesInv
  <2>2. CASE ~Mountable
    BY <1>3, <2>2, GoneKeepsProfile DEF Mount, Failed
  <2> QED
    BY <2>1, <2>2
<1>4. CASE Collect
  <2>1. CASE stage' = "collected"
    <3>1. documents' = documents /\ entries' = entries /\ stage = "mounted" /\ at' = at
      BY <1>4, <2>1 DEF Collect, Failed, Gone
    <3> QED
      BY <2>1, <3>1, SameEntries DEF Stages, MountedStages, ProfileInv, EntriesInv
  <2>2. CASE Gone
    BY <2>2, GoneKeepsProfile
  <2> QED
    BY <1>4, <2>1, <2>2 DEF Collect, Failed
<1>5. CASE Open
  <2>1. CASE Repeats
    BY <1>5, <2>1, GoneKeepsProfile DEF Open
  <2>2. CASE ~Repeats
    <3>1. /\ stage' = "migrating" /\ documents' = documents /\ entries' = entries
          /\ stage = "collected" /\ at' = at
      BY <1>5, <2>2 DEF Open, memory
    <3> QED
      BY <3>1, SameEntries DEF Stages, MountedStages, ProfileInv, EntriesInv
  <2> QED
    BY <2>1, <2>2
<1>6. CASE Apply
  <2>1. CASE Gone
    BY <2>1, GoneKeepsProfile
  <2>2. CASE UNCHANGED <<stage, documents, entries, at>>
    <3>1. stage = "migrating"
      BY <1>6 DEF Apply
    <3> QED
      BY <2>2, <3>1, SameEntries DEF Stages, MountedStages, ProfileInv, EntriesInv
  <2> QED
    BY <1>6, <2>1, <2>2 DEF Apply, Failed
<1>7. CASE Migrated
  <2>1. /\ stage = "migrating" /\ stage' = IF entries = <<>> THEN "policy" ELSE "builtins"
        /\ documents' = documents /\ entries' = entries /\ at' = at
    BY <1>7 DEF Migrated
  <2>2. at = 1 /\ Mountable /\ (entries # <<>> => 1 \in DOMAIN entries)
    BY <2>1, EntriesLength DEF ProfileInv, EntriesInv, MountedStages
  <2> QED
    BY <2>1, <2>2, SameEntries DEF Stages
<1>8. CASE ActivateBuiltin
  <2>1. CASE Gone
    BY <2>1, GoneKeepsProfile
  <2>2. CASE Advance /\ UNCHANGED <<entries, documents>>
    BY <1>8, <2>2, AdvanceKeepsProfile DEF ActivateBuiltin
  <2> QED
    BY <1>8, <2>1, <2>2 DEF ActivateBuiltin
<1>9. CASE SkipEntry \/ LeaveDisabled \/ LeaveUnapproved \/ LeaveUngoverned \/ LeaveSwitchedOff
           \/ ActivatePlugin
  <2>1. stage = "plugins" /\ Advance /\ UNCHANGED <<entries, documents>>
    BY <1>9 DEF SkipEntry, LeaveDisabled, LeaveUnapproved, LeaveUngoverned, LeaveSwitchedOff,
                ActivatePlugin, Leave, Turn
  <2> QED
    BY <2>1, AdvanceKeepsProfile
<1>10. CASE FailPlugin \/ FailWithoutVm
  <2>1. CASE Gone
    BY <2>1, GoneKeepsProfile
  <2>2. CASE Advance /\ UNCHANGED <<entries, documents>>
    BY <1>10, <2>2, AdvanceKeepsProfile DEF FailPlugin, FailWithoutVm, Turn
  <2> QED
    BY <1>10, <2>1, <2>2 DEF FailPlugin, FailWithoutVm, Leave
<1>11. CASE CompilePolicy
  <2>1. CASE Permitted
    <3>1. stage = "policy" /\ stage' = "serving" /\ UNCHANGED <<documents, entries, at>>
      BY <1>11, <2>1 DEF CompilePolicy
    <3> QED
      BY <3>1, SameEntries DEF Stages, MountedStages, ProfileInv, EntriesInv
  <2>2. CASE ~Permitted
    BY <1>11, <2>2, GoneKeepsProfile DEF CompilePolicy, Failed
  <2> QED
    BY <2>1, <2>2
<1>12. CASE \E n \in Names : SwitchOff(n) \/ SwitchOnPlugin(n) \/ SwitchOnUnapproved(n)
                             \/ SwitchOnWithoutVm(n) \/ SwitchOnBuiltin(n)
  <2>1. stage = "serving" /\ UNCHANGED <<stage, documents, entries, at>>
    BY <1>12 DEF SwitchOff, SwitchOnPlugin, SwitchOnUnapproved, SwitchOnWithoutVm,
                 SwitchOnBuiltin, MaySwitch, Switched
  <2> QED
    BY <2>1, SameEntries DEF Stages, MountedStages, ProfileInv, EntriesInv
<1>13. CASE UNCHANGED vars
  <2>1. UNCHANGED <<stage, documents, entries, at>>
    BY <1>13 DEF vars, memory
  <2>2. Mountable' <=> Mountable
    BY <2>1 DEF Mountable, LuaEntries, Entry, NameOf
  <2> QED
    BY <2>1, <2>2 DEF ProfileInv, DocumentsInv, EntriesInv
<1> QED
  BY <1>1, <1>2, <1>3, <1>4, <1>5, <1>6, <1>7, <1>8, <1>9, <1>10, <1>11, <1>12, <1>13 DEF Next

\* What is resolved and mounted is one profile with distinct ids, and the entry at its
\* turn is one of it.
THEOREM ProfileInvariant == Spec => []ProfileInv
BY ProfileInit, ProfileStep, PTL DEF Spec

\* A profile is resolved as it is declared: the entries of the bundles in their order,
\* each replaced in its place by the last overlay that names it, refused exactly when a
\* document breaks a rule (RuntimeProfileResolver::resolve_with_overlays).
THEOREM ResolutionIsAsDeclared == Spec => []ResolvesAsDeclared
<1>1. ProfileInv => ResolvesAsDeclared
  <2> SUFFICES ASSUME ProfileInv PROVE ResolvesAsDeclared
    OBVIOUS
  <2>1. ASSUME stage = "resolved" PROVE Acceptable(documents) /\ entries = Composed(documents)
    BY <2>1, ResolutionIsDeclared DEF ProfileInv, DocumentsInv
  <2>2. ASSUME stage = "refused" PROVE ~Acceptable(documents)
    BY <2>2, ResolutionIsDeclared DEF ProfileInv, DocumentsInv
  <2> QED
    BY <2>1, <2>2 DEF ResolvesAsDeclared
<1> QED
  BY <1>1, ProfileInvariant, PTL

(***************************************************************************)
(* What the database and the host hold.                                    *)
(***************************************************************************)
\* What is kept of names: typed, and only of what the profiles can name.
KeptInv ==
  /\ opened \in BOOLEAN /\ (applied # {} => opened) /\ toggles \in Nat
  /\ row \in [DOMAIN row -> Row] /\ info \in [DOMAIN info -> Row]
  /\ DOMAIN row \cup DOMAIN info \cup required \cup DOMAIN status \cup ran \subseteq Names
  /\ published \subseteq Ids(entries)
  /\ stage \notin Running => published = {} /\ ran = {} /\ DOMAIN info = {}
  /\ stage \in {"migrating"} \cup Running => opened

\* A row is put under its name, and the others stay.
LEMMA PutFacts ==
  ASSUME NEW f, NEW n, NEW r
  PROVE  /\ DOMAIN Put(f, n, r) = DOMAIN f \cup {n} /\ Put(f, n, r)[n] = r
         /\ \A k \in DOMAIN f : k # n => Put(f, n, r)[k] = f[k]
BY DEF Put

\* Rows stay rows.
LEMMA PutRow ==
  ASSUME NEW f, f \in [DOMAIN f -> Row], NEW n, NEW r \in Row
  PROVE  Put(f, n, r) \in [DOMAIN Put(f, n, r) -> Row]
BY DEF Put

\* The names and ids of the profile.
LEMMA EntryName ==
  ASSUME ProfileInv, NEW i \in DOMAIN entries
  PROVE  /\ NameOf(Entry(i)) \in Names /\ Entry(i).id \in Ids(entries)
         /\ Entry(i) \in Range(entries)
<1>1. Sound(Entry(i))
  BY DEF ProfileInv, EntriesInv, AllSound, Entry
<1> QED
  BY <1>1 DEF Sound, NameOf, Names, IsBuiltin, Ids, Entry, Range

\* What is registered is a row.
LEMMA RegisteredType ==
  ASSUME KeptInv, NEW e
  PROVE  Registered(e) \in Row
<1>1. ASSUME NEW n, Known(row, n) PROVE row[n] \in Row
  BY <1>1 DEF KeptInv, Known
<1>2. ASSUME NEW n, Known(info, n) PROVE info[n] \in Row
  BY <1>2 DEF KeptInv, Known
<1>3. Upsert(e) \in Row
  BY <1>1 DEF Upsert, Row, Known
<1>4. [enabled |-> IsBuiltin(e) => e.enabled, loaded |-> FALSE] \in Row
  BY DEF Row
<1> QED
  BY <1>2, <1>3, <1>4 DEF Registered

\* What an entry leaves behind when it is handled: info and row of its name.
LEMMA MarkFacts ==
  ASSUME KeptInv, NEW e, NEW loaded \in BOOLEAN, Mark(e, loaded)
  PROVE  LET r == [Registered(e) EXCEPT !.loaded = loaded]
         IN  /\ r \in Row /\ r.enabled = Registered(e).enabled /\ r.loaded = loaded
             /\ info' \in [DOMAIN info' -> Row] /\ row' \in [DOMAIN row' -> Row]
             /\ DOMAIN info' = DOMAIN info \cup {NameOf(e)} /\ info'[NameOf(e)] = r
             /\ \A n \in DOMAIN info : n # NameOf(e) => info'[n] = info[n]
             /\ DOMAIN row' \subseteq DOMAIN row \cup {NameOf(e)} /\ DOMAIN row \subseteq DOMAIN row'
             /\ Governed => NameOf(e) \in DOMAIN row' /\ row'[NameOf(e)] = r
             /\ \A n \in DOMAIN row : n # NameOf(e) => row'[n] = row[n]
             /\ ~Governed => row' = row
<1> DEFINE r == [Registered(e) EXCEPT !.loaded = loaded]
<1>1. r \in Row /\ r.enabled = Registered(e).enabled /\ r.loaded = loaded
  BY RegisteredType DEF Row
<1>2. info' = Put(info, NameOf(e), r) /\ row' = IF Governed THEN Put(row, NameOf(e), r) ELSE row
  BY DEF Mark
<1>3. info \in [DOMAIN info -> Row] /\ row \in [DOMAIN row -> Row]
  BY DEF KeptInv
<1> HIDE DEF r
<1>4. /\ info' \in [DOMAIN info' -> Row]
      /\ DOMAIN info' = DOMAIN info \cup {NameOf(e)} /\ info'[NameOf(e)] = r
      /\ \A n \in DOMAIN info : n # NameOf(e) => info'[n] = info[n]
  <2>1. Put(info, NameOf(e), r) \in [DOMAIN Put(info, NameOf(e), r) -> Row]
    BY <1>1, <1>3, PutRow
  <2>2. /\ DOMAIN Put(info, NameOf(e), r) = DOMAIN info \cup {NameOf(e)}
        /\ Put(info, NameOf(e), r)[NameOf(e)] = r
        /\ \A n \in DOMAIN info : n # NameOf(e) => Put(info, NameOf(e), r)[n] = info[n]
    BY DEF Put
  <2> QED
    BY <1>2, <2>1, <2>2
<1>5. CASE Governed
  <2>1. Put(row, NameOf(e), r) \in [DOMAIN Put(row, NameOf(e), r) -> Row]
    BY <1>1, <1>3, PutRow
  <2>2. /\ row' \in [DOMAIN row' -> Row]
        /\ DOMAIN row' = DOMAIN row \cup {NameOf(e)} /\ row'[NameOf(e)] = r
        /\ \A n \in DOMAIN row : n # NameOf(e) => row'[n] = row[n]
    BY <1>2, <1>5, <2>1, PutFacts
  <2> QED
    BY <1>1, <1>4, <1>5, <2>2 DEF r
<1>6. CASE ~Governed
  BY <1>1, <1>2, <1>3, <1>4, <1>6 DEF r
<1> QED
  BY <1>5, <1>6

\* Nothing is kept at first.
LEMMA KeptInit == ASSUME Init PROVE KeptInv
<1>1. DOMAIN Nothing = {} /\ Nothing \in [DOMAIN Nothing -> Row]
  BY DEF Nothing
<1> QED
  BY <1>1 DEF Init, KeptInv, Running, MountedStages

\* A process that ends keeps the database.
LEMMA GoneKeepsKept ==
  ASSUME KeptInv, Gone, opened' \in BOOLEAN, applied' = applied, opened => opened', toggles' = toggles,
         row' \in [DOMAIN row' -> Row], DOMAIN row' \subseteq Names
  PROVE  KeptInv'
<1>1. DOMAIN Nothing = {} /\ Nothing \in [DOMAIN Nothing -> Row]
  BY DEF Nothing
<1> QED
  BY <1>1 DEF Gone, KeptInv, Running, MountedStages

\* An entry is handled: its names and id are those of the profile.
LEMMA HandledKeepsKept ==
  ASSUME ProfileInv, KeptInv, stage \in {"builtins", "plugins"}, NEW e, e = Entry(at),
         NEW loaded \in BOOLEAN, Mark(e, loaded), SetRequired(e), Advance,
         DOMAIN status' \subseteq DOMAIN status \cup {NameOf(e)}, ran' \subseteq ran \cup {NameOf(e)},
         published' \subseteq published \cup {e.id},
         UNCHANGED <<documents, entries, applied, opened, toggles>>
  PROVE  KeptInv'
<1>1. at \in DOMAIN entries
  BY DEF ProfileInv, EntriesInv
<1>2. NameOf(e) \in Names /\ e.id \in Ids(entries)
  BY <1>1, EntryName
<1>3. stage' \in {"builtins", "plugins", "policy"}
  BY AdvanceKeepsProfile
<1>4. /\ info' \in [DOMAIN info' -> Row] /\ row' \in [DOMAIN row' -> Row]
      /\ DOMAIN info' = DOMAIN info \cup {NameOf(e)}
      /\ DOMAIN row' \subseteq DOMAIN row \cup {NameOf(e)}
  BY MarkFacts
<1>5. required' \subseteq required \cup {NameOf(e)}
  BY DEF SetRequired
<1>6. published' \subseteq Ids(entries')
  BY <1>2 DEF KeptInv
<1> QED
  BY <1>2, <1>3, <1>4, <1>5, <1>6 DEF KeptInv, Running, MountedStages

\* Every step keeps the types of what is kept.
LEMMA KeptStep ==
  ASSUME ProfileInv, KeptInv, [Next]_vars
  PROVE  KeptInv'
<1>0. row \in [DOMAIN row -> Row] /\ DOMAIN row \subseteq Names /\ opened \in BOOLEAN
  BY DEF KeptInv
<1>1. CASE Read
  <2>1. ProfileInv' /\ stage = "off" /\ published = {} /\ stage' \in {"resolved", "refused"}
    BY <1>1, ProfileStep DEF Read, KeptInv, Running
  <2> QED
    BY <1>1, <2>1 DEF Read, KeptInv, Running, MountedStages
<1>2. CASE Refuse \/ Stop
  BY <1>0, <1>2, GoneKeepsKept DEF Refuse, Stop, Failed
<1>3. CASE Mount
  <2>1. CASE Mountable
    <3>1. /\ stage' = "mounted" /\ stage = "resolved"
          /\ DOMAIN status' = {NameOf(Entry(i)) : i \in LuaEntries}
          /\ UNCHANGED <<entries, at, todo, info, required, published, ran,
                         opened, applied, row, starts, toggles>>
      BY <1>3, <2>1 DEF Mount
    <3>2. DOMAIN status' \subseteq Names
      BY <3>1, EntryName DEF LuaEntries
    <3> QED
      BY <3>1, <3>2 DEF KeptInv, Running, MountedStages
  <2>2. CASE ~Mountable
    BY <1>0, <1>3, <2>2, GoneKeepsKept DEF Mount, Failed
  <2> QED
    BY <2>1, <2>2
<1>4. CASE Collect
  <2>1. CASE Failed
    BY <1>0, <2>1, GoneKeepsKept DEF Failed
  <2>2. CASE ~Failed
    <3>1. /\ stage = "mounted" /\ stage' = "collected"
          /\ UNCHANGED <<entries, info, required, status, published, ran, opened, applied, row, toggles>>
      BY <1>4, <2>2 DEF Collect
    <3> QED
      BY <3>1 DEF KeptInv, Running, MountedStages
  <2> QED
    BY <2>1, <2>2
<1>5. CASE Open
  <2>1. CASE Repeats
    BY <1>0, <1>5, <2>1, GoneKeepsKept DEF Open
  <2>2. CASE ~Repeats
    <3>1. /\ stage = "collected" /\ stage' = "migrating" /\ opened' = TRUE
          /\ UNCHANGED <<entries, info, required, status, published, ran, applied, row, toggles>>
      BY <1>5, <2>2 DEF Open, memory
    <3> QED
      BY <3>1 DEF KeptInv, Running, MountedStages
  <2> QED
    BY <2>1, <2>2
<1>6. CASE Apply
  <2>1. CASE Failed
    BY <1>0, <2>1, GoneKeepsKept DEF Failed
  <2>2. CASE ~Failed
    <3>1. /\ stage = "migrating" /\ stage' = stage /\ opened' = opened
          /\ UNCHANGED <<entries, info, required, status, published, ran, row, toggles>>
      BY <1>6, <2>2 DEF Apply
    <3> QED
      BY <3>1 DEF KeptInv, Running, MountedStages
  <2> QED
    BY <2>1, <2>2
<1>7. CASE Migrated
  <2>1. /\ stage = "migrating" /\ stage' \in {"policy", "builtins"} /\ DOMAIN status' = DOMAIN status
        /\ UNCHANGED <<entries, info, required, published, ran, opened, applied, row, toggles>>
    BY <1>7 DEF Migrated
  <2> QED
    BY <2>1 DEF KeptInv, Running, MountedStages
<1>8. CASE ActivateBuiltin
  <2> DEFINE e == Entry(at)
  <2>1. stage = "builtins"
    BY <1>8 DEF ActivateBuiltin
  <2>2. CASE ~(e.enabled /\ IsBuiltin(e))
    <3>1. /\ Advance
          /\ UNCHANGED <<info, required, row, published, status, ran,
                         documents, entries, opened, applied, toggles>>
      BY <1>8, <2>2 DEF ActivateBuiltin
    <3>2. stage' \in {"builtins", "plugins", "policy"}
      BY <2>1, <3>1, AdvanceKeepsProfile
    <3> QED
      BY <2>1, <3>1, <3>2 DEF KeptInv, Running, MountedStages
  <2>3. CASE e.enabled /\ IsBuiltin(e) /\ Taken(e)
    <3>1. RegisteredOnly(e) /\ Gone /\ UNCHANGED <<opened, applied, toggles>>
      BY <1>8, <2>3 DEF ActivateBuiltin
    <3>2. NameOf(e) \in Names
      BY <2>1, EntryName DEF ProfileInv, EntriesInv
    <3>3. Registered(e) \in Row
      BY RegisteredType
    <3>4. row' \in [DOMAIN row' -> Row] /\ DOMAIN row' \subseteq Names
      <4>1. Put(row, NameOf(e), Registered(e)) \in [DOMAIN Put(row, NameOf(e), Registered(e)) -> Row]
        BY <1>0, <3>3, PutRow
      <4>2. DOMAIN Put(row, NameOf(e), Registered(e)) = DOMAIN row \cup {NameOf(e)}
        BY PutFacts
      <4>3. CASE Governed
        BY <1>0, <3>1, <3>2, <4>1, <4>2, <4>3 DEF RegisteredOnly
      <4>4. CASE ~Governed
        BY <1>0, <3>1, <4>4 DEF RegisteredOnly
      <4> QED
        BY <4>3, <4>4
    <3> QED
      BY <1>0, <3>1, <3>4, GoneKeepsKept
  <2>4. CASE e.enabled /\ IsBuiltin(e) /\ ~Taken(e)
    <3>1. /\ SetRequired(e) /\ Mark(e, e.source # "policy") /\ Advance
          /\ published' = published \cup {e.id}
          /\ UNCHANGED <<status, ran, documents, entries, opened, applied, toggles>>
      BY <1>8, <2>4 DEF ActivateBuiltin
    <3>2. (e.source # "policy") \in BOOLEAN
      OBVIOUS
    <3> HIDE DEF e
    <3> QED
      BY <2>1, <3>1, <3>2, HandledKeepsKept DEF e
  <2> QED
    BY <2>2, <2>3, <2>4
<1>9. CASE SkipEntry
  <2>1. /\ stage = "plugins" /\ Advance
        /\ UNCHANGED <<info, required, row, published, status, ran, documents, entries,
                       opened, applied, toggles>>
    BY <1>9 DEF SkipEntry
  <2>2. stage' \in {"builtins", "plugins", "policy"}
    BY <2>1, AdvanceKeepsProfile
  <2> QED
    BY <2>1, <2>2 DEF KeptInv, Running, MountedStages
<1>10. ASSUME stage = "plugins", NEW s, Leave(Entry(at), s), ran' \subseteq ran \cup {NameOf(Entry(at))}
       PROVE  KeptInv'
  <2> DEFINE e == Entry(at)
  <2>1. /\ SetRequired(e) /\ Mark(e, FALSE) /\ Advance /\ published' = published
        /\ status' = Put(status, NameOf(e), s)
        /\ UNCHANGED <<documents, entries, opened, applied, toggles>>
    BY <1>10 DEF Leave
  <2>2. DOMAIN status' = DOMAIN status \cup {NameOf(e)}
    BY <2>1, PutFacts
  <2> HIDE DEF e
  <2> QED
    BY <1>10, <2>1, <2>2, HandledKeepsKept DEF e
<1>11. CASE LeaveDisabled \/ LeaveUnapproved \/ LeaveUngoverned \/ LeaveSwitchedOff
  <2>1. PICK s : Leave(Entry(at), s) /\ stage = "plugins" /\ ran' = ran
    BY <1>11 DEF LeaveDisabled, LeaveUnapproved, LeaveUngoverned, LeaveSwitchedOff, Turn
  <2> QED
    BY <1>10, <2>1
<1>12. CASE ActivatePlugin
  <2> DEFINE e == Entry(at)
  <2>1. /\ stage = "plugins"
        /\ SetRequired(e) /\ Mark(e, TRUE) /\ Advance
        /\ status' = Put(status, NameOf(e), "active")
        /\ published' = published \cup {e.id}
        /\ ran' = ran \cup {NameOf(e)}
        /\ UNCHANGED <<documents, entries, opened, applied, toggles>>
    BY <1>12 DEF ActivatePlugin, Turn
  <2>2. DOMAIN status' = DOMAIN status \cup {NameOf(e)}
    BY <2>1, PutFacts
  <2> HIDE DEF e
  <2> QED
    BY <2>1, <2>2, HandledKeepsKept DEF e
<1>13. CASE FailPlugin \/ FailWithoutVm
  <2> DEFINE e == Entry(at)
  <2>1. stage = "plugins" /\ Governed
    BY <1>13 DEF FailPlugin, FailWithoutVm, Turn, Activable
  <2>2. CASE e.required
    <3>1. PICK r \in {[Registered(e) EXCEPT !.loaded = FALSE], Registered(e)} :
            /\ row' = Put(row, NameOf(e), r) /\ Gone /\ UNCHANGED <<opened, applied, toggles>>
      BY <1>13, <2>1, <2>2 DEF FailPlugin, FailWithoutVm, RegisteredOnly
    <3>2. NameOf(e) \in Names
      BY <2>1, EntryName DEF ProfileInv, EntriesInv
    <3>3. r \in Row
      BY RegisteredType DEF Row
    <3>4. row' \in [DOMAIN row' -> Row] /\ DOMAIN row' \subseteq Names
      <4>1. Put(row, NameOf(e), r) \in [DOMAIN Put(row, NameOf(e), r) -> Row]
        BY <1>0, <3>3, PutRow
      <4>2. DOMAIN Put(row, NameOf(e), r) = DOMAIN row \cup {NameOf(e)}
        BY PutFacts
      <4> QED
        BY <1>0, <3>1, <3>2, <4>1, <4>2
    <3> QED
      BY <1>0, <3>1, <3>4, GoneKeepsKept
  <2>3. CASE ~e.required
    <3>1. PICK s : Leave(e, s) /\ (ran' = ran \/ ran' = ran \cup {NameOf(e)})
      BY <1>13, <2>3 DEF FailPlugin, FailWithoutVm
    <3> QED
      BY <1>10, <2>1, <3>1
  <2> QED
    BY <2>2, <2>3
<1>14. CASE CompilePolicy
  <2>1. CASE Permitted
    <3>1. /\ stage = "policy" /\ stage' = "serving"
          /\ info' = [n \in DOMAIN info |->
               IF n = "policy" THEN [info[n] EXCEPT !.loaded = TRUE] ELSE info[n]]
          /\ row' = [n \in DOMAIN row |->
               IF n = "policy" /\ Known(info, n) /\ Governed
               THEN [row[n] EXCEPT !.loaded = TRUE] ELSE row[n]]
          /\ UNCHANGED <<entries, required, status, published, ran, opened, applied, toggles>>
      BY <1>14, <2>1 DEF CompilePolicy
    <3>2. \A r \in Row : [r EXCEPT !.loaded = TRUE] \in Row
      BY DEF Row
    <3>3. /\ info' \in [DOMAIN info' -> Row] /\ row' \in [DOMAIN row' -> Row]
          /\ DOMAIN info' = DOMAIN info /\ DOMAIN row' = DOMAIN row
      BY <3>1, <3>2 DEF KeptInv
    <3> QED
      BY <3>1, <3>3 DEF KeptInv, Running, MountedStages
  <2>2. CASE ~Permitted
    BY <1>0, <1>14, <2>2, GoneKeepsKept DEF CompilePolicy, Failed
  <2> QED
    BY <2>1, <2>2
<1>15. ASSUME NEW n \in Names, NEW e \in BOOLEAN, NEW l \in BOOLEAN, NEW s,
              MaySwitch(n, e), Switched(n, e, l, s),
              published' \subseteq Ids(entries), ran' \subseteq ran \cup {n}
       PROVE  KeptInv'
  <2> DEFINE r == [enabled |-> e, loaded |-> l]
  <2>1. /\ info' = Put(info, n, r) /\ row' = IF Governed THEN Put(row, n, r) ELSE row
        /\ status' = Put(status, n, s) /\ toggles' = toggles + 1 /\ stage = "serving"
        /\ UNCHANGED <<stage, entries, required, opened, applied>>
    BY <1>15 DEF Switched, MaySwitch
  <2>2. r \in Row
    BY DEF Row
  <2> HIDE DEF r
  <2>3. /\ info' \in [DOMAIN info' -> Row] /\ DOMAIN info' = DOMAIN info \cup {n}
        /\ DOMAIN status' = DOMAIN status \cup {n}
    <3>1. Put(info, n, r) \in [DOMAIN Put(info, n, r) -> Row]
      BY <2>2, PutRow DEF KeptInv
    <3> QED
      BY <2>1, <3>1, PutFacts
  <2>4. row' \in [DOMAIN row' -> Row] /\ DOMAIN row' \subseteq DOMAIN row \cup {n}
    <3>1. Put(row, n, r) \in [DOMAIN Put(row, n, r) -> Row]
      BY <1>0, <2>2, PutRow
    <3> QED
      BY <1>0, <2>1, <3>1, PutFacts
  <2> QED
    BY <1>15, <2>1, <2>3, <2>4 DEF KeptInv, Running, MountedStages
<1>16. ASSUME NEW n \in Names,
              SwitchOff(n) \/ SwitchOnPlugin(n) \/ SwitchOnUnapproved(n)
              \/ SwitchOnWithoutVm(n) \/ SwitchOnBuiltin(n)
       PROVE  KeptInv'
  <2>1. published \subseteq Ids(entries)
    BY DEF KeptInv
  <2>2. CASE SwitchOff(n)
    BY <1>15, <2>1, <2>2 DEF SwitchOff
  <2>3. CASE SwitchOnPlugin(n)
    <3>1. PICK i \in Called(n) :
            /\ \/ Switched(n, TRUE, TRUE, "active") /\ published' = published \cup {Entry(i).id}
               \/ Switched(n, TRUE, FALSE, "failed") /\ UNCHANGED published
            /\ ran' = ran \cup {n}
      BY <2>3 DEF SwitchOnPlugin
    <3>2. Entry(i).id \in Ids(entries)
      BY EntryName DEF Called, LuaEntries
    <3>3. MaySwitch(n, TRUE) /\ published' \subseteq Ids(entries) /\ ran' \subseteq ran \cup {n}
      BY <2>1, <2>3, <3>1, <3>2 DEF SwitchOnPlugin
    <3> QED
      BY <1>15, <3>1, <3>3
  <2>4. CASE SwitchOnUnapproved(n) \/ SwitchOnWithoutVm(n)
    BY <1>15, <2>1, <2>4 DEF SwitchOnUnapproved, SwitchOnWithoutVm
  <2>5. CASE SwitchOnBuiltin(n)
    BY <1>15, <2>1, <2>5 DEF SwitchOnBuiltin
  <2> QED
    BY <1>16, <2>2, <2>3, <2>4, <2>5
<1>17. CASE UNCHANGED vars
  BY <1>17 DEF vars, memory, KeptInv
<1> QED
  BY <1>1, <1>2, <1>3, <1>4, <1>5, <1>6, <1>7, <1>8, <1>9, <1>11, <1>12, <1>13, <1>14, <1>16, <1>17
     DEF Next

\* The two invariants together.
LEMMA TypeInvariant == Spec => [](ProfileInv /\ KeptInv)
<1>1. Init => ProfileInv /\ KeptInv
  BY ProfileInit, KeptInit
<1>2. ProfileInv /\ KeptInv /\ [Next]_vars => (ProfileInv /\ KeptInv)'
  BY ProfileStep, KeptStep
<1> QED
  BY <1>1, <1>2, PTL DEF Spec

\* Every variable keeps its type, and an off host remembers nothing.
THEOREM TypeCorrect == Spec => []TypeOK
<1>1. ProfileInv /\ KeptInv => TypeOK
  <2> SUFFICES ASSUME ProfileInv, KeptInv PROVE TypeOK
    OBVIOUS
  <2>1. Len(entries) \in Nat /\ DOMAIN entries = 1 .. Len(entries)
    BY EntriesLength DEF ProfileInv, EntriesInv
  <2>2. at \in 1 .. Len(entries) + 1
    BY <2>1 DEF ProfileInv, EntriesInv
  <2> QED
    BY <2>2 DEF TypeOK, ProfileInv, DocumentsInv, EntriesInv, KeptInv, Running
<1> QED
  BY <1>1, TypeInvariant, PTL

(***************************************************************************)
(* The migrations and what has run.                                        *)
(***************************************************************************)
\* A step either leaves the mounted entries and what follows from them alone,
\* or is one of the steps before the migrations, or ends the process.
LEMMA StepKinds ==
  ASSUME ProfileInv, KeptInv, [Next]_vars, stage \in Running
  PROVE  \/ Gone
         \/ /\ stage' \in Running /\ UNCHANGED <<entries, todo, applied>>
            /\ stage = "serving" => stage' = "serving"
<1>1. stage \notin {"off", "refused", "resolved", "mounted", "collected", "migrating"}
  BY DEF Running
<1>2. CASE Read \/ Refuse \/ Mount \/ Collect \/ Open \/ Apply \/ Migrated
  BY <1>1, <1>2 DEF Read, Refuse, Mount, Collect, Open, Apply, Migrated
<1>3. CASE Stop
  BY <1>3 DEF Stop, Failed
<1>4. CASE ActivateBuiltin
  <2>1. stage = "builtins"
    BY <1>4 DEF ActivateBuiltin
  <2>2. CASE Advance /\ UNCHANGED <<documents, entries, todo, applied>>
    BY <2>1, <2>2, AdvanceKeepsProfile DEF Running
  <2> QED
    BY <1>4, <2>2 DEF ActivateBuiltin
<1>5. CASE SkipEntry \/ LeaveDisabled \/ LeaveUnapproved \/ LeaveUngoverned \/ LeaveSwitchedOff
           \/ ActivatePlugin
  <2>1. stage = "plugins" /\ Advance /\ UNCHANGED <<entries, documents, todo, applied>>
    BY <1>5 DEF SkipEntry, LeaveDisabled, LeaveUnapproved, LeaveUngoverned, LeaveSwitchedOff,
                ActivatePlugin, Leave, Turn
  <2> QED
    BY <2>1, AdvanceKeepsProfile DEF Running
<1>6. CASE FailPlugin \/ FailWithoutVm
  <2>1. stage = "plugins"
    BY <1>6 DEF FailPlugin, FailWithoutVm, Turn
  <2>2. CASE Advance /\ UNCHANGED <<entries, documents, todo, applied>>
    BY <2>1, <2>2, AdvanceKeepsProfile DEF Running
  <2> QED
    BY <1>6, <2>2 DEF FailPlugin, FailWithoutVm, Leave
<1>7. CASE CompilePolicy
  BY <1>7 DEF CompilePolicy, Failed, Running
<1>8. CASE \E n \in Names : SwitchOff(n) \/ SwitchOnPlugin(n) \/ SwitchOnUnapproved(n)
                            \/ SwitchOnWithoutVm(n) \/ SwitchOnBuiltin(n)
  BY <1>8 DEF SwitchOff, SwitchOnPlugin, SwitchOnUnapproved, SwitchOnWithoutVm,
              SwitchOnBuiltin, MaySwitch, Switched,
              Running
<1>9. CASE UNCHANGED vars
  BY <1>9 DEF vars, memory
<1> QED
  BY <1>2, <1>3, <1>4, <1>5, <1>6, <1>7, <1>8, <1>9 DEF Next

\* The migrations of the selected entries are on their way to the database, and
\* in it once anything of the profile runs.
MigratedInv ==
  /\ stage = "collected" => todo = Catalog
  /\ stage = "migrating" => Catalog \subseteq applied \cup todo /\ ~Repeats
  /\ stage \in Running => Catalog \subseteq applied /\ ~Repeats

\* The catalog is a function of the entries.
LEMMA CatalogOfEntries ==
  ASSUME entries' = entries
  PROVE  Catalog' = Catalog /\ (Repeats' <=> Repeats)
BY DEF Catalog, Repeats, SelectedOnes, Selects, Entry, MigrationsOf, IsBuiltin

\* Every step keeps the migrations on their way or in the database.
LEMMA MigratedStep ==
  ASSUME ProfileInv, KeptInv, MigratedInv, [Next]_vars
  PROVE  MigratedInv'
<1>1. CASE stage \in Running
  <2>1. CASE Gone
    BY <2>1 DEF Gone, MigratedInv, Running
  <2>2. CASE stage' \in Running /\ UNCHANGED <<entries, todo, applied>>
    BY <1>1, <2>2, CatalogOfEntries DEF MigratedInv, Running
  <2> QED
    BY <1>1, <2>1, <2>2, StepKinds
<1>2. CASE stage \notin Running
  <2>1. CASE Read \/ Refuse \/ Mount \/ Stop
    <3>1. stage' \in {"off", "resolved", "refused", "mounted"}
      BY <2>1 DEF Read, Refuse, Mount, Stop, Failed, Gone
    <3> QED
      BY <3>1 DEF MigratedInv, Running
  <2>2. CASE Collect
    <3>1. CASE Gone
      BY <3>1 DEF Gone, MigratedInv, Running
    <3>2. CASE stage' = "collected" /\ todo' = Catalog /\ entries' = entries
      BY <3>2, CatalogOfEntries DEF MigratedInv, Running
    <3> QED
      BY <2>2, <3>1, <3>2 DEF Collect, Failed
  <2>3. CASE Open
    <3>1. CASE Repeats
      BY <2>3, <3>1 DEF Open, Gone, MigratedInv, Running
    <3>2. CASE ~Repeats
      <4>1. stage = "collected" /\ stage' = "migrating" /\ UNCHANGED <<entries, todo, applied>>
        BY <2>3, <3>2 DEF Open, memory
      <4> QED
        BY <3>2, <4>1, CatalogOfEntries DEF MigratedInv, Running
    <3> QED
      BY <3>1, <3>2
  <2>4. CASE Apply
    <3>1. CASE Gone
      BY <3>1 DEF Gone, MigratedInv, Running
    <3>2. CASE ~Gone
      <4>1. PICK m : /\ applied' = applied \cup {m} /\ todo' = todo \ {m}
                     /\ stage = "migrating" /\ stage' = stage /\ entries' = entries
        BY <2>4, <3>2 DEF Apply, Failed
      <4> QED
        BY <4>1, CatalogOfEntries DEF MigratedInv, Running
    <3> QED
      BY <3>1, <3>2
  <2>5. CASE Migrated
    <3>1. /\ stage = "migrating" /\ todo = {} /\ stage' \in {"policy", "builtins"}
          /\ UNCHANGED <<entries, applied>>
      BY <2>5 DEF Migrated
    <3> QED
      BY <3>1, CatalogOfEntries DEF MigratedInv, Running
  <2>6. CASE UNCHANGED vars
    <3>1. UNCHANGED <<stage, entries, todo, applied>>
      BY <2>6 DEF vars, memory
    <3> QED
      BY <3>1, CatalogOfEntries DEF MigratedInv, Running
  <2>7. ~(ActivateBuiltin \/ SkipEntry \/ LeaveDisabled \/ LeaveUnapproved \/ LeaveUngoverned
          \/ LeaveSwitchedOff \/ ActivatePlugin \/ FailPlugin \/ FailWithoutVm \/ CompilePolicy
          \/ \E n \in Names : SwitchOff(n) \/ SwitchOnPlugin(n) \/ SwitchOnUnapproved(n)
                              \/ SwitchOnWithoutVm(n) \/ SwitchOnBuiltin(n))
    BY <1>2 DEF ActivateBuiltin, SkipEntry, LeaveDisabled, LeaveUnapproved, LeaveUngoverned,
                LeaveSwitchedOff, ActivatePlugin, FailPlugin, FailWithoutVm, CompilePolicy, Turn, MaySwitch,
                SwitchOff, SwitchOnPlugin, SwitchOnUnapproved, SwitchOnWithoutVm,
                SwitchOnBuiltin, Running
  <2> QED
    BY <2>1, <2>2, <2>3, <2>4, <2>5, <2>6, <2>7 DEF Next
<1> QED
  BY <1>1, <1>2

\* One name, one plugin of the profile.
LEMMA OneOfAName ==
  ASSUME ProfileInv, stage \in MountedStages, NEW i \in LuaEntries, NEW j \in LuaEntries,
         NameOf(Entry(i)) = NameOf(Entry(j))
  PROVE  i = j
BY DEF ProfileInv, EntriesInv, Mountable

\* What has run was approved.
RanInv == \A i \in LuaEntries : NameOf(Entry(i)) \in ran => Entry(i).approved

\* The plugins are a function of the entries.
LEMMA LuaEntriesOf ==
  ASSUME entries' = entries
  PROVE  /\ LuaEntries' = LuaEntries /\ \A i : Entry(i)' = Entry(i)
         /\ \A i : NameOf(Entry(i))' = NameOf(Entry(i))
BY DEF LuaEntries, Entry, NameOf

\* A plugin that runs was approved.
LEMMA RunningOneKeepsRan ==
  ASSUME ProfileInv, RanInv, stage \in MountedStages, entries' = entries, NEW j \in LuaEntries,
         Entry(j).approved, ran' \subseteq ran \cup {NameOf(Entry(j))}
  PROVE  RanInv'
<1>1. ASSUME NEW i \in LuaEntries, NameOf(Entry(i)) \in ran' PROVE Entry(i).approved
  <2>1. CASE NameOf(Entry(i)) \in ran
    BY <2>1 DEF RanInv
  <2>2. CASE NameOf(Entry(i)) = NameOf(Entry(j))
    BY <2>2, OneOfAName
  <2> QED
    BY <1>1, <2>1, <2>2
<1>2. LuaEntries' = LuaEntries /\ \A i : Entry(i)' = Entry(i) /\ NameOf(Entry(i))' = NameOf(Entry(i))
  BY LuaEntriesOf
<1> QED
  BY <1>1, <1>2 DEF RanInv

\* Every step keeps what has run approved.
LEMMA RanStep ==
  ASSUME ProfileInv, KeptInv, RanInv, [Next]_vars
  PROVE  RanInv'
<1>1. CASE ran' = {}
  BY <1>1 DEF RanInv
<1>2. CASE ran' \subseteq ran /\ entries' = entries
  BY <1>2, LuaEntriesOf DEF RanInv
<1>3. CASE Read \/ Refuse \/ Mount \/ Collect \/ Open \/ Apply \/ Migrated \/ Stop
  <2>1. stage \notin Running => ran = {}
    BY DEF KeptInv
  <2>2. ran' = {}
    <3>1. CASE Stop
      BY <3>1 DEF Stop, Failed, Gone
    <3>2. CASE Read \/ Refuse \/ Mount \/ Collect \/ Open \/ Apply \/ Migrated
      BY <2>1, <3>2 DEF Read, Refuse, Mount, Collect, Open, Apply, Migrated, Failed, Gone, Running,
                        memory
    <3> QED
      BY <1>3, <3>1, <3>2
  <2> QED
    BY <1>1, <2>2
<1>4. CASE ActivateBuiltin \/ SkipEntry \/ LeaveDisabled \/ LeaveUnapproved \/ LeaveUngoverned
           \/ LeaveSwitchedOff
  <2>1. ran' = {} \/ (ran' = ran /\ entries' = entries)
    BY <1>4 DEF ActivateBuiltin, SkipEntry, LeaveDisabled, LeaveUnapproved, LeaveUngoverned,
                LeaveSwitchedOff, Leave, Gone
  <2> QED
    BY <1>1, <1>2, <2>1
<1>5. CASE CompilePolicy
  BY <1>1, <1>2, <1>5 DEF CompilePolicy, Failed, Gone
<1>6. CASE ActivatePlugin \/ FailPlugin \/ FailWithoutVm
  <2>1. stage = "plugins" /\ ~IsBuiltin(Entry(at)) /\ Selects(Entry(at))
    BY <1>6 DEF ActivatePlugin, FailPlugin, FailWithoutVm, Turn
  <2>2. at \in LuaEntries /\ Entry(at).approved /\ stage \in MountedStages
    BY <2>1 DEF ProfileInv, EntriesInv, LuaEntries, Selects, MountedStages
  <2>3. ran' = {} \/ ((ran' = ran \/ ran' = ran \cup {NameOf(Entry(at))}) /\ entries' = entries)
    BY <1>6 DEF ActivatePlugin, FailPlugin, FailWithoutVm, Gone, Leave
  <2> QED
    BY <1>1, <1>2, <2>2, <2>3, RunningOneKeepsRan
<1>7. ASSUME NEW n \in Names,
             SwitchOff(n) \/ SwitchOnPlugin(n) \/ SwitchOnUnapproved(n)
             \/ SwitchOnWithoutVm(n) \/ SwitchOnBuiltin(n)
      PROVE  RanInv'
  <2>1. CASE SwitchOff(n) \/ SwitchOnUnapproved(n) \/ SwitchOnWithoutVm(n) \/ SwitchOnBuiltin(n)
    BY <1>2, <2>1 DEF SwitchOff, SwitchOnUnapproved, SwitchOnWithoutVm,
                      SwitchOnBuiltin, Switched
  <2>2. CASE SwitchOnPlugin(n)
    <3>1. PICK i \in Called(n) : Entry(i).approved /\ ran' = ran \cup {n} /\ entries' = entries
      BY <2>2 DEF SwitchOnPlugin, Switched
    <3>2. i \in LuaEntries /\ NameOf(Entry(i)) = n /\ stage \in MountedStages
      BY <2>2, <3>1 DEF Called, SwitchOnPlugin, MaySwitch, MountedStages
    <3> QED
      BY <3>1, <3>2, RunningOneKeepsRan
  <2> QED
    BY <1>7, <2>1, <2>2
<1>8. CASE UNCHANGED vars
  BY <1>2, <1>8 DEF vars, memory
<1> QED
  BY <1>3, <1>4, <1>5, <1>6, <1>7, <1>8 DEF Next

\* No code of a plugin the profile enables runs before the plugin's migrations are in
\* the database (bootstrap_with_options, set_plugin_enabled).
THEOREM RunsWhatIsMigrated == Spec => []MigratedBeforeRun
<1>1. Init => MigratedInv /\ RanInv
  BY DEF Init, MigratedInv, RanInv, Running
<1>2. ProfileInv /\ KeptInv /\ MigratedInv /\ RanInv /\ [Next]_vars => (MigratedInv /\ RanInv)'
  BY MigratedStep, RanStep
<1>3. ProfileInv /\ KeptInv /\ MigratedInv /\ RanInv => MigratedBeforeRun
  <2> SUFFICES ASSUME ProfileInv, KeptInv, MigratedInv, RanInv,
                      NEW e \in Range(entries), ~IsBuiltin(e), e.enabled, NameOf(e) \in ran
               PROVE  Script[e.source] \subseteq applied
    BY DEF MigratedBeforeRun
  <2>1. PICK i \in DOMAIN entries : e = Entry(i)
    BY DEF Range, Entry
  <2>2. i \in LuaEntries /\ e.approved
    BY <2>1 DEF LuaEntries, RanInv
  <2>3. i \in SelectedOnes /\ MigrationsOf(e) = Script[e.source]
    BY <2>1, <2>2 DEF SelectedOnes, Selects, MigrationsOf
  <2>4. Script[e.source] \subseteq Catalog
    BY <2>1, <2>3 DEF Catalog
  <2>5. stage \in Running
    BY DEF KeptInv
  <2> QED
    BY <2>4, <2>5 DEF MigratedInv
<1> QED
  BY <1>1, <1>2, <1>3, TypeInvariant, PTL DEF Spec

(***************************************************************************)
(* Who switches what.                                                      *)
(***************************************************************************)
\* The name n keeps its row, and its intent but for the reasons there are.
Keeps(n) ==
  /\ n \in DOMAIN row'
  /\ row'[n].enabled # row[n].enabled => toggles' # toggles \/ Overridden(n)

\* Registering an entry changes a choice only by overriding it.
LEMMA RegisteredIntent ==
  ASSUME ProfileInv, KeptInv, at \in DOMAIN entries, NameOf(Entry(at)) \in DOMAIN row, Governed,
         Registered(Entry(at)).enabled # row[NameOf(Entry(at))].enabled
  PROVE  Overridden(NameOf(Entry(at)))
<1> DEFINE e == Entry(at)
           n == NameOf(e)
<1>1. row[n] \in Row /\ row[n].enabled \in BOOLEAN
  BY DEF KeptInv, Row
<1>2. Registered(e).enabled = (e.required \/ (e.enabled /\ row[n].enabled))
  BY <1>1 DEF Registered, Upsert, Known
<1>3. e.required \/ ~e.enabled
  BY <1>1, <1>2
<1> QED
  BY <1>3, EntryName DEF Overridden

\* Putting a row changes no other.
LEMMA PuttingKeeps ==
  ASSUME NEW n \in DOMAIN row, NEW k, NEW r, row' = Put(row, k, r),
         n = k /\ r.enabled # row[n].enabled => toggles' # toggles \/ Overridden(n)
  PROVE  Keeps(n)
<1>1. n \in DOMAIN row' /\ (n = k => row'[n] = r) /\ (n # k => row'[n] = row[n])
  BY DEF Put
<1> QED
  BY <1>1 DEF Keeps

\* Only an administrator, or a profile that requires or disables the entry, changes
\* whether it is switched on (upsert_profile_plugin, set_enabled_intent).
THEOREM IntentIsKept == Spec => IntentKept
<1>1. ASSUME ProfileInv, KeptInv, [Next]_vars, NEW n \in DOMAIN row
      PROVE  Keeps(n)
  <2>1. CASE row' = row
    BY <2>1 DEF Keeps
  <2>2. ASSUME stage \in {"builtins", "plugins"}, NEW r, r.enabled = Registered(Entry(at)).enabled,
               row' = IF Governed THEN Put(row, NameOf(Entry(at)), r) ELSE row
        PROVE  Keeps(n)
    <3>1. CASE Governed
      <4>1. at \in DOMAIN entries
        BY <1>1, <2>2 DEF ProfileInv, EntriesInv
      <4> QED
        BY <1>1, <2>2, <3>1, <4>1, PuttingKeeps, RegisteredIntent
    <3> QED
      BY <2>1, <2>2, <3>1
  <2>3. ASSUME stage \in {"builtins", "plugins"}, NEW l \in BOOLEAN, Mark(Entry(at), l)
        PROVE  Keeps(n)
    <3> DEFINE r == [Registered(Entry(at)) EXCEPT !.loaded = l]
    <3>1. r.enabled = Registered(Entry(at)).enabled
      BY <1>1, RegisteredType DEF Row
    <3>2. row' = IF Governed THEN Put(row, NameOf(Entry(at)), r) ELSE row
      BY <2>3 DEF Mark
    <3> HIDE DEF r
    <3> QED
      BY <2>2, <2>3, <3>1, <3>2
  <2>4. CASE Read \/ Refuse \/ Mount \/ Collect \/ Open \/ Apply \/ Migrated \/ Stop \/ SkipEntry
    <3>1. row' = row
      BY <2>4 DEF Read, Refuse, Mount, Collect, Open, Apply, Migrated, Stop, Failed, SkipEntry
    <3> QED
      BY <2>1, <3>1
  <2>5. CASE ActivateBuiltin
    <3>1. stage = "builtins"
      BY <2>5 DEF ActivateBuiltin
    <3>2. CASE row' = row
      BY <2>1, <3>2
    <3>3. CASE RegisteredOnly(Entry(at))
      BY <2>2, <3>1, <3>3 DEF RegisteredOnly
    <3>4. CASE Mark(Entry(at), Entry(at).source # "policy")
      BY <2>3, <3>1, <3>4
    <3> QED
      BY <2>5, <3>2, <3>3, <3>4 DEF ActivateBuiltin
  <2>6. CASE LeaveDisabled \/ LeaveUnapproved \/ LeaveUngoverned \/ LeaveSwitchedOff \/ ActivatePlugin
    <3>1. stage = "plugins" /\ \E l \in BOOLEAN : Mark(Entry(at), l)
      BY <2>6 DEF LeaveDisabled, LeaveUnapproved, LeaveUngoverned, LeaveSwitchedOff, ActivatePlugin,
                  Leave, Turn
    <3> QED
      BY <2>3, <3>1
  <2>7. CASE FailPlugin \/ FailWithoutVm
    <3>1. stage = "plugins" /\ Governed
      BY <2>7 DEF FailPlugin, FailWithoutVm, Turn, Activable
    <3>2. CASE Entry(at).required
      <4>1. PICK r \in {[Registered(Entry(at)) EXCEPT !.loaded = FALSE], Registered(Entry(at))} :
              row' = Put(row, NameOf(Entry(at)), r)
        BY <2>7, <3>1, <3>2 DEF FailPlugin, FailWithoutVm, RegisteredOnly
      <4>2. r.enabled = Registered(Entry(at)).enabled
        BY <1>1, RegisteredType DEF Row
      <4> QED
        BY <2>2, <3>1, <4>1, <4>2
    <3>3. CASE ~Entry(at).required
      <4>1. Mark(Entry(at), FALSE)
        BY <2>7, <3>3 DEF FailPlugin, FailWithoutVm, Leave
      <4> QED
        BY <2>3, <3>1, <4>1
    <3> QED
      BY <3>2, <3>3
  <2>8. CASE CompilePolicy
    <3>1. CASE Permitted
      <4>1. row' = [k \in DOMAIN row |->
               IF k = "policy" /\ Known(info, k) /\ Governed
               THEN [row[k] EXCEPT !.loaded = TRUE] ELSE row[k]]
        BY <2>8, <3>1 DEF CompilePolicy
      <4>2. row[n] \in Row
        BY <1>1 DEF KeptInv
      <4>3. row'[n].enabled = row[n].enabled /\ n \in DOMAIN row'
        BY <4>1, <4>2 DEF Row
      <4> QED
        BY <4>3 DEF Keeps
    <3>2. CASE ~Permitted
      BY <2>1, <2>8, <3>2 DEF CompilePolicy, Failed
    <3> QED
      BY <3>1, <3>2
  <2>9. ASSUME NEW k \in Names,
               SwitchOff(k) \/ SwitchOnPlugin(k) \/ SwitchOnUnapproved(k)
               \/ SwitchOnWithoutVm(k) \/ SwitchOnBuiltin(k)
        PROVE  Keeps(n)
    <3>1. PICK r : /\ row' = IF Governed THEN Put(row, k, r) ELSE row
                   /\ toggles' = toggles + 1
      BY <2>9 DEF SwitchOff, SwitchOnPlugin, SwitchOnUnapproved, SwitchOnWithoutVm,
                  SwitchOnBuiltin, Switched
    <3>2. toggles' # toggles
      BY <1>1, <3>1 DEF KeptInv
    <3> QED
      BY <1>1, <2>1, <3>1, <3>2, PuttingKeeps
  <2>10. CASE UNCHANGED vars
    BY <2>1, <2>10 DEF vars
  <2> QED
    BY <1>1, <2>4, <2>5, <2>6, <2>7, <2>8, <2>9, <2>10 DEF Next
<1>2. ProfileInv /\ KeptInv /\ [Next]_vars =>
        \A n \in DOMAIN row : /\ n \in DOMAIN row'
                              /\ row'[n].enabled # row[n].enabled => toggles' # toggles \/ Overridden(n)
  BY <1>1 DEF Keeps
<1> QED
  BY <1>2, TypeInvariant, PTL DEF Spec, IntentKept

(***************************************************************************)
(* What a start has made of the entries it has come to.                    *)
(***************************************************************************)
Done(i) ==
  \/ stage = "builtins" /\ IsBuiltin(Entry(i)) /\ i < at
  \/ stage = "plugins" /\ (IsBuiltin(Entry(i)) \/ i < at)
  \/ stage \in {"policy", "serving"}

\* Nothing is published of an entry before its turn, and every builtin after it.
PublishedInv == stage \in Running =>
  \A i \in DOMAIN entries :
    /\ ~Done(i) => Entry(i).id \notin published
    /\ Done(i) /\ IsBuiltin(Entry(i)) /\ Entry(i).enabled => Entry(i).id \in published

\* Of a plugin whose turn has come, everything that speaks of it agrees, but for
\* what refresh_policy says of one that is called "policy".
Agrees(i) ==
  LET e == Entry(i)
      n == NameOf(e)
  IN  /\ n \in DOMAIN status /\ status[n] \in {"active", "inactive", "failed", "activating"}
      /\ (status[n] = "active") <=> (e.id \in published)
      /\ n \in DOMAIN info /\ (info[n].loaded <=> (e.id \in published))
      /\ info[n].loaded => info[n].enabled
      /\ Governed => n \in DOMAIN row /\ row[n] = info[n]
Plain(i) == NameOf(Entry(i)) # "policy"
TruthInv == stage \in Running => \A i \in LuaEntries : Done(i) /\ Plain(i) => Agrees(i)

\* A required entry whose turn has come is up; of the policy only a host that
\* serves says so.
Up(i) ==
  LET e == Entry(i)
      n == NameOf(e)
  IN  /\ e.id \in published /\ n \in required /\ n \in DOMAIN info /\ info[n].enabled
      /\ info[n].loaded \/ (n = "policy" /\ stage # "serving")
RequiredInv == stage \in Running =>
  \A i \in DOMAIN entries :
    Done(i) /\ Entry(i).enabled /\ Entry(i).required /\ HasItsName(Entry(i)) /\ Governed => Up(i)

\* The turn of the next entry comes, and of no other.
LEMMA DoneNext ==
  ASSUME ProfileInv, stage \in {"builtins", "plugins"}, Advance,
         entries' = entries, documents' = documents
  PROVE  \A i \in DOMAIN entries :
           Done(i)' <=> Done(i) \/ (i = at /\ (stage = "plugins" \/ IsBuiltin(Entry(at))))
<1>1. Len(entries) \in Nat /\ DOMAIN entries = 1 .. Len(entries) /\ at \in DOMAIN entries
  BY EntriesLength DEF ProfileInv, EntriesInv
<1>2. \A i : IsBuiltin(Entry(i))' <=> IsBuiltin(Entry(i))
  BY DEF Entry, IsBuiltin
<1>3. CASE at < Len(entries)
  <2>1. at' = at + 1 /\ stage' = stage
    BY <1>3 DEF Advance
  <2> QED
    BY <1>1, <1>2, <2>1 DEF Done
<1>4. CASE ~(at < Len(entries))
  <2>1. at' = 1 /\ stage' = IF stage = "builtins" THEN "plugins" ELSE "policy"
    BY <1>4 DEF Advance
  <2>2. \A i \in DOMAIN entries : i < at \/ i = at
    BY <1>1, <1>4
  <2> QED
    BY <1>1, <1>2, <2>1, <2>2 DEF Done
<1> QED
  BY <1>3, <1>4

\* The entry at its turn is not done, unless it is a builtin in the second pass.
LEMMA TurnIsNotDone ==
  ASSUME ProfileInv, stage \in {"builtins", "plugins"}, stage = "plugins" => ~IsBuiltin(Entry(at))
  PROVE  at \in DOMAIN entries /\ ~Done(at)
<1>1. Len(entries) \in Nat /\ DOMAIN entries = 1 .. Len(entries) /\ at \in DOMAIN entries
  BY EntriesLength DEF ProfileInv, EntriesInv
<1> QED
  BY <1>1 DEF Done

\* Two entries are one if they have one id.
LEMMA OneOfAnId ==
  ASSUME ProfileInv, NEW i \in DOMAIN entries, NEW j \in DOMAIN entries, Entry(i).id = Entry(j).id
  PROVE  i = j
BY DEF ProfileInv, EntriesInv, Proper, Entry

\* A builtin is not activated twice: the second of two that publish finds the
\* keys taken, and those that do not publish bring migrations.
LEMMA BuiltinOnce ==
  ASSUME ProfileInv, KeptInv, MigratedInv, PublishedInv, stage = "builtins",
         Entry(at).enabled, IsBuiltin(Entry(at)), ~Taken(Entry(at)),
         NEW i \in DOMAIN entries, Done(i), Entry(i).enabled
  PROVE  IsBuiltin(Entry(i)) /\ NameOf(Entry(i)) # NameOf(Entry(at))
<1>1. IsBuiltin(Entry(i)) /\ i # at
  BY TurnIsNotDone DEF Done
<1>2. Entry(i).id \in published /\ at \in DOMAIN entries
  BY <1>1, TurnIsNotDone DEF PublishedInv, Running
<1>3. ASSUME Entry(i).source = Entry(at).source PROVE FALSE
  <2>1. Entry(at).source \in Silent
    BY <1>2, <1>3 DEF Taken
  <2>2. MigrationsOf(Entry(i)) # {}
    BY <1>1, <1>3, <2>1 DEF Silent, MigrationsOf, Shipped, IsBuiltin
  <2>3. i \in SelectedOnes /\ at \in SelectedOnes
    BY <1>1, <1>2 DEF SelectedOnes, Selects
  <2>4. Repeats
    BY <1>1, <1>3, <2>2, <2>3 DEF Repeats
  <2> QED
    BY <2>4 DEF MigratedInv, Running
<1> QED
  BY <1>1, <1>3 DEF NameOf

\* Every step publishes each entry at its turn, and the builtins once and for all.
LEMMA PublishedStep ==
  ASSUME ProfileInv, KeptInv, PublishedInv, [Next]_vars
  PROVE  PublishedInv'
<1>0. ASSUME entries' = entries
      PROVE  \A i : /\ Entry(i)' = Entry(i) /\ (IsBuiltin(Entry(i))' <=> IsBuiltin(Entry(i)))
                    /\ Entry(i).id' = Entry(i).id /\ Entry(i).enabled' = Entry(i).enabled
  BY <1>0 DEF Entry, IsBuiltin
<1>1. CASE stage' \notin Running
  BY <1>1 DEF PublishedInv
<1>2. CASE Gone
  BY <1>2 DEF Gone, PublishedInv, Running
<1>3. CASE Migrated
  <2>1. /\ published' = {} /\ entries' = entries /\ at' = 1
        /\ stage' = IF entries = <<>> THEN "policy" ELSE "builtins"
    BY <1>3 DEF Migrated, KeptInv, ProfileInv, EntriesInv, Running
  <2>2. Len(entries) \in Nat /\ DOMAIN entries = 1 .. Len(entries)
        /\ (entries # <<>> <=> 1 \in DOMAIN entries)
    BY EntriesLength DEF ProfileInv, EntriesInv
  <2>3. \A i \in DOMAIN entries : ~Done(i)'
    BY <2>1, <2>2 DEF Done
  <2> QED
    BY <2>1, <2>3 DEF PublishedInv
<1>4. ASSUME stage \in {"builtins", "plugins"}, Advance, UNCHANGED <<entries, documents>>,
             stage = "builtins" /\ Entry(at).enabled /\ IsBuiltin(Entry(at)) =>
               Entry(at).id \in published',
             published \subseteq published', published' \subseteq published \cup {Entry(at).id},
             stage = "builtins" /\ ~IsBuiltin(Entry(at)) => published' = published
      PROVE  PublishedInv'
  <2>1. at \in DOMAIN entries /\ stage \in Running
    BY <1>4 DEF ProfileInv, EntriesInv, Running
  <2>2. ASSUME NEW i \in DOMAIN entries, ~Done(i)' PROVE Entry(i).id \notin published'
    <3>1. ~Done(i) /\ ~(i = at /\ (stage = "plugins" \/ IsBuiltin(Entry(at))))
      BY <1>4, <2>2, DoneNext
    <3>2. Entry(i).id \notin published
      BY <2>1, <3>1 DEF PublishedInv
    <3>3. CASE i = at
      BY <1>4, <3>1, <3>2, <3>3
    <3>4. CASE i # at
      BY <1>4, <2>1, <3>2, <3>4, OneOfAnId
    <3> QED
      BY <3>3, <3>4
  <2>3. ASSUME NEW i \in DOMAIN entries, Done(i)', IsBuiltin(Entry(i)), Entry(i).enabled
        PROVE  Entry(i).id \in published'
    <3>1. Done(i) \/ (i = at /\ (stage = "plugins" \/ IsBuiltin(Entry(at))))
      BY <1>4, <2>3, DoneNext
    <3>2. CASE Done(i)
      BY <1>4, <2>1, <2>3, <3>2 DEF PublishedInv
    <3>3. CASE ~Done(i)
      <4>1. i = at /\ stage = "builtins"
        BY <1>4, <2>3, <3>1, <3>3 DEF Done
      <4> QED
        BY <1>4, <2>3, <4>1
    <3> QED
      BY <3>2, <3>3
  <2> QED
    BY <1>0, <1>4, <2>2, <2>3 DEF PublishedInv
<1>5. CASE ActivateBuiltin
  <2>1. stage = "builtins"
    BY <1>5 DEF ActivateBuiltin
  <2>2. CASE ~(Entry(at).enabled /\ IsBuiltin(Entry(at)))
    <3>1. Advance /\ published' = published /\ UNCHANGED <<entries, documents>>
      BY <1>5, <2>2 DEF ActivateBuiltin
    <3> QED
      BY <1>4, <2>1, <2>2, <3>1
  <2>3. CASE Entry(at).enabled /\ IsBuiltin(Entry(at)) /\ ~Taken(Entry(at))
    <3>1. Advance /\ published' = published \cup {Entry(at).id} /\ UNCHANGED <<entries, documents>>
      BY <1>5, <2>3 DEF ActivateBuiltin
    <3> QED
      BY <1>4, <2>1, <2>3, <3>1
  <2>4. CASE Entry(at).enabled /\ IsBuiltin(Entry(at)) /\ Taken(Entry(at))
    BY <1>2, <1>5, <2>4 DEF ActivateBuiltin
  <2> QED
    BY <2>2, <2>3, <2>4
<1>6. CASE SkipEntry \/ LeaveDisabled \/ LeaveUnapproved \/ LeaveUngoverned \/ LeaveSwitchedOff
  <2>1. stage = "plugins" /\ Advance /\ published' = published /\ UNCHANGED <<entries, documents>>
    BY <1>6 DEF SkipEntry, LeaveDisabled, LeaveUnapproved, LeaveUngoverned, LeaveSwitchedOff, Leave,
                Turn
  <2> QED
    BY <1>4, <2>1
<1>7. CASE ActivatePlugin
  <2>1. /\ stage = "plugins" /\ Advance /\ published' = published \cup {Entry(at).id}
        /\ ~IsBuiltin(Entry(at)) /\ UNCHANGED <<entries, documents>>
    BY <1>7 DEF ActivatePlugin, Turn
  <2> QED
    BY <1>4, <2>1
<1>8. CASE FailPlugin \/ FailWithoutVm
  <2>1. stage = "plugins"
    BY <1>8 DEF FailPlugin, FailWithoutVm, Turn
  <2>2. CASE ~Gone
    <3>1. Advance /\ published' = published /\ UNCHANGED <<entries, documents>>
      BY <1>8, <2>2 DEF FailPlugin, FailWithoutVm, Leave
    <3> QED
      BY <1>4, <2>1, <3>1
  <2> QED
    BY <1>2, <2>2
<1>9. CASE CompilePolicy
  <2>1. CASE Permitted
    <3>1. stage = "policy" /\ stage' = "serving" /\ UNCHANGED <<published, entries>>
      BY <1>9, <2>1 DEF CompilePolicy
    <3>2. \A i : Done(i) /\ Done(i)'
      BY <3>1 DEF Done
    <3> QED
      BY <1>0, <3>1, <3>2 DEF PublishedInv, Running
  <2> QED
    BY <1>2, <1>9, <2>1 DEF CompilePolicy, Failed
<1>10. ASSUME NEW n \in Names,
              SwitchOff(n) \/ SwitchOnPlugin(n) \/ SwitchOnUnapproved(n)
              \/ SwitchOnWithoutVm(n) \/ SwitchOnBuiltin(n)
       PROVE  PublishedInv'
  <2>1. stage = "serving" /\ stage' = "serving" /\ UNCHANGED <<entries>>
    BY <1>10 DEF SwitchOff, SwitchOnPlugin, SwitchOnUnapproved, SwitchOnWithoutVm,
                 SwitchOnBuiltin, MaySwitch, Switched
  <2>2. \A i : Done(i) /\ Done(i)'
    BY <2>1 DEF Done
  <2>3. ASSUME NEW i \in DOMAIN entries, IsBuiltin(Entry(i)), Entry(i).id \in published
        PROVE  Entry(i).id \in published'
    <3>1. \A j \in Called(n) : Entry(j).id # Entry(i).id
      BY <2>3, OneOfAnId DEF Called, LuaEntries
    <3> QED
      BY <1>10, <2>3, <3>1 DEF SwitchOff, SwitchOnPlugin, SwitchOnUnapproved, SwitchOnWithoutVm,
                               SwitchOnBuiltin
  <2> QED
    BY <1>0, <2>1, <2>2, <2>3 DEF PublishedInv, Running
<1>11. CASE Read \/ Refuse \/ Mount \/ Collect \/ Open \/ Apply \/ Stop
  <2>1. stage' \notin Running
    BY <1>11 DEF Read, Refuse, Mount, Collect, Open, Apply, Stop, Failed, Gone, Running
  <2> QED
    BY <1>1, <2>1
<1>12. CASE UNCHANGED vars
  <2>1. UNCHANGED <<stage, entries, at, published>>
    BY <1>12 DEF vars, memory
  <2>2. \A i : Done(i)' <=> Done(i)
    BY <1>0, <2>1 DEF Done
  <2> QED
    BY <1>0, <2>1, <2>2 DEF PublishedInv
<1> QED
  BY <1>3, <1>5, <1>6, <1>7, <1>8, <1>9, <1>10, <1>11, <1>12 DEF Next

(***************************************************************************)
(* What is said of a plugin.                                               *)
(***************************************************************************)
\* What Agrees and Up say of an entry whose name and id the step leaves alone.
LEMMA AgreesKept ==
  ASSUME NEW i, Agrees(i), entries' = entries, applied' = applied,
         NameOf(Entry(i)) \in DOMAIN status' /\ NameOf(Entry(i)) \in DOMAIN info',
         status'[NameOf(Entry(i))] = status[NameOf(Entry(i))],
         info'[NameOf(Entry(i))] = info[NameOf(Entry(i))],
         NameOf(Entry(i)) \in DOMAIN row =>
           /\ NameOf(Entry(i)) \in DOMAIN row'
           /\ row'[NameOf(Entry(i))] = row[NameOf(Entry(i))],
         Entry(i).id \in published' <=> Entry(i).id \in published
  PROVE  Agrees(i)'
<1>1. NameOf(Entry(i))' = NameOf(Entry(i)) /\ Entry(i).id' = Entry(i).id /\ (Governed' <=> Governed)
  BY DEF Entry, NameOf, IsBuiltin, Governed
<1> QED
  BY <1>1 DEF Agrees

\* What is up stays so while nothing of it changes.
LEMMA UpKept ==
  ASSUME NEW i, Up(i), entries' = entries, stage' = "serving" => stage = "serving",
         NameOf(Entry(i)) \in DOMAIN info', NameOf(Entry(i)) \in required',
         info'[NameOf(Entry(i))] = info[NameOf(Entry(i))],
         Entry(i).id \in published => Entry(i).id \in published'
  PROVE  Up(i)'
<1>1. NameOf(Entry(i))' = NameOf(Entry(i)) /\ Entry(i).id' = Entry(i).id
  BY DEF Entry, NameOf, IsBuiltin
<1> QED
  BY <1>1 DEF Up

\* A plugin has the name of its manifest.
LEMMA LuaName ==
  ASSUME ProfileInv, NEW i \in LuaEntries
  PROVE  \E l \in Lua : NameOf(Entry(i)) = Name[l]
<1>1. Sound(Entry(i)) /\ ~IsBuiltin(Entry(i))
  BY DEF ProfileInv, EntriesInv, AllSound, Entry, LuaEntries
<1> QED
  BY <1>1 DEF Sound, NameOf, IsBuiltin

\* What a step does to the names it does not handle.
OthersStay(n) ==
  /\ \A k \in DOMAIN info : k # n => k \in DOMAIN info' /\ info'[k] = info[k]
  /\ \A k \in DOMAIN row : k # n => k \in DOMAIN row' /\ row'[k] = row[k]
  /\ \A k \in DOMAIN status : k # n => k \in DOMAIN status' /\ status'[k] = status[k]

\* Handling an entry leaves the other names alone.
LEMMA MarkedOthers ==
  ASSUME KeptInv, NEW e, NEW l \in BOOLEAN, Mark(e, l),
         (status' = status \/ \E s : status' = Put(status, NameOf(e), s))
  PROVE  OthersStay(NameOf(e))
<1> DEFINE n == NameOf(e)
<1>1. /\ \A k \in DOMAIN info : k # n => k \in DOMAIN info' /\ info'[k] = info[k]
      /\ \A k \in DOMAIN row : k # n => k \in DOMAIN row' /\ row'[k] = row[k]
  BY MarkFacts
<1>2. \A k \in DOMAIN status : k # n => k \in DOMAIN status' /\ status'[k] = status[k]
  BY DEF Put
<1> QED
  BY <1>1, <1>2 DEF OthersStay

\* The plugin at its turn is left in the state s, or activated.
LEMMA HandledAgrees ==
  ASSUME ProfileInv, KeptInv, PublishedInv, TruthInv, stage = "plugins", ~IsBuiltin(Entry(at)),
         Advance, UNCHANGED <<documents, entries, applied>>,
         NEW l \in BOOLEAN, Mark(Entry(at), l), NEW s \in {"active", "inactive", "failed", "activating"},
         (s = "active") <=> l, l => Registered(Entry(at)).enabled,
         status' = Put(status, NameOf(Entry(at)), s),
         published' = IF l THEN published \cup {Entry(at).id} ELSE published
  PROVE  TruthInv'
<1>1. PICK k \in LuaEntries : k = at
  BY TurnIsNotDone DEF LuaEntries
<1> DEFINE e == Entry(k)
           n == NameOf(e)
           r == [Registered(e) EXCEPT !.loaded = l]
<1>2. ~Done(k) /\ k \in DOMAIN entries /\ e.id \notin published
  BY <1>1, TurnIsNotDone DEF LuaEntries, PublishedInv, Running
<1>3. LuaEntries' = LuaEntries /\ \A i : Entry(i)' = Entry(i) /\ NameOf(Entry(i))' = NameOf(Entry(i))
                               /\ Entry(i).id' = Entry(i).id
  BY LuaEntriesOf DEF Entry
<1>4. OthersStay(n)
  BY <1>1, MarkedOthers
<1>5. /\ r.enabled = Registered(e).enabled /\ r.loaded = l
      /\ n \in DOMAIN info' /\ info'[n] = r
      /\ Governed => n \in DOMAIN row' /\ row'[n] = r
  BY <1>1, MarkFacts
<1>6. n \in DOMAIN status' /\ status'[n] = s
  BY <1>1 DEF Put
<1>7. Agrees(k)'
  <2>1. Governed' <=> Governed
    BY DEF Governed
  <2>2. (e.id \in published') <=> l
    BY <1>1, <1>2
  <2>3. n' = n /\ (e.id)' = e.id
    BY <1>3
  <2>4. r.loaded => r.enabled
    BY <1>1, <1>5
  <2> HIDE DEF r
  <2>5. /\ n \in DOMAIN status' /\ status'[n] \in {"active", "inactive", "failed", "activating"}
        /\ (status'[n] = "active") <=> (e.id \in published')
        /\ n \in DOMAIN info' /\ (info'[n].loaded <=> (e.id \in published'))
        /\ info'[n].loaded => info'[n].enabled
        /\ Governed' => n \in DOMAIN row' /\ row'[n] = info'[n]
    BY <1>5, <1>6, <2>1, <2>2, <2>4
  <2> QED
    BY <2>3, <2>5 DEF Agrees
<1>8. ASSUME NEW i \in LuaEntries, Done(i)', Plain(i)', i # k PROVE Agrees(i)'
  <2>1. i \in DOMAIN entries /\ Done(i) /\ Agrees(i)
    BY <1>1, <1>3, <1>8, DoneNext DEF LuaEntries, TruthInv, Plain, Running
  <2>2. NameOf(Entry(i)) # n /\ Entry(i).id # e.id
    BY <1>2, <1>8, <2>1, OneOfAName, OneOfAnId DEF MountedStages
  <2>3. Entry(i).id \in published' <=> Entry(i).id \in published
    BY <1>1, <2>2
  <2> HIDE DEF n, e
  <2> QED
    BY <1>4, <2>1, <2>2, <2>3, AgreesKept DEF OthersStay, Agrees
<1> QED
  BY <1>3, <1>7, <1>8 DEF TruthInv

\* The plugin n is switched by an administrator.
LEMMA SwitchedAgrees ==
  ASSUME ProfileInv, KeptInv, TruthInv, stage = "serving", NEW n \in Names,
         NEW e \in BOOLEAN, NEW l \in BOOLEAN, NEW s, Switched(n, e, l, s), l => e,
         Called(n) # {} => /\ s \in {"active", "inactive", "failed", "activating"}
                           /\ (s = "active") <=> l,
         n # "policy" => \A i \in Called(n) : Entry(i).id \in published' <=> l,
         \A i \in LuaEntries \ Called(n) : Entry(i).id \in published' <=> Entry(i).id \in published
  PROVE  TruthInv'
<1> DEFINE r == [enabled |-> e, loaded |-> l]
<1>1. /\ info' = Put(info, n, r) /\ row' = IF Governed THEN Put(row, n, r) ELSE row
      /\ status' = Put(status, n, s)
      /\ UNCHANGED <<stage, entries, applied>>
  BY DEF Switched
<1> HIDE DEF r
<1>2. OthersStay(n)
  BY <1>1 DEF OthersStay, Put
<1>3. n \in DOMAIN info' /\ info'[n] = r /\ n \in DOMAIN status' /\ status'[n] = s
      /\ (Governed => n \in DOMAIN row' /\ row'[n] = r)
  BY <1>1 DEF Put
<1>4. LuaEntries' = LuaEntries /\ \A i : Entry(i)' = Entry(i) /\ NameOf(Entry(i))' = NameOf(Entry(i))
                               /\ Entry(i).id' = Entry(i).id
  BY <1>1, LuaEntriesOf DEF Entry
<1>5. Governed' <=> Governed
  BY <1>1 DEF Governed
<1>6. ASSUME NEW i \in LuaEntries, Plain(i) PROVE Agrees(i)'
  <2>1. CASE i \in Called(n)
    <3>1. NameOf(Entry(i)) = n /\ (Entry(i).id \in published' <=> l)
          /\ s \in {"active", "inactive", "failed", "activating"} /\ ((s = "active") <=> l)
      BY <1>6, <2>1 DEF Called, Plain
    <3>2. NameOf(Entry(i))' = n /\ Entry(i).id' = Entry(i).id
      BY <1>4, <3>1
    <3>3. r.enabled = e /\ r.loaded = l
      BY DEF r
    <3> QED
      BY <1>3, <1>5, <3>1, <3>2, <3>3 DEF Agrees
  <2>2. CASE i \notin Called(n)
    <3>1. NameOf(Entry(i)) # n
      BY <2>2 DEF Called
    <3>2. Agrees(i)
      BY <1>6 DEF TruthInv, Done, Running
    <3> QED
      BY <1>1, <1>2, <2>2, <3>1, <3>2, AgreesKept DEF OthersStay, Agrees
  <2> QED
    BY <2>1, <2>2
<1> QED
  BY <1>4, <1>6 DEF TruthInv, Plain

\* Every step keeps what is said of the plugins true.
LEMMA TruthStep ==
  ASSUME ProfileInv, KeptInv, PublishedInv, TruthInv, [Next]_vars
  PROVE  TruthInv'
<1>0. ASSUME entries' = entries
      PROVE  LuaEntries' = LuaEntries /\ LuaEntries \subseteq DOMAIN entries
  BY <1>0, LuaEntriesOf DEF LuaEntries
<1>1. CASE stage' \notin Running
  BY <1>1 DEF TruthInv
<1>2. CASE Gone
  BY <1>1, <1>2 DEF Gone, Running
<1>3. CASE Migrated
  <2>1. /\ entries' = entries /\ at' = 1
        /\ stage' = IF entries = <<>> THEN "policy" ELSE "builtins"
    BY <1>3 DEF Migrated, ProfileInv, EntriesInv
  <2>2. Len(entries) \in Nat /\ DOMAIN entries = 1 .. Len(entries)
        /\ (entries # <<>> <=> 1 \in DOMAIN entries)
    BY EntriesLength DEF ProfileInv, EntriesInv
  <2>3. \A i \in DOMAIN entries : ~Done(i)'
    BY <2>1, <2>2 DEF Done
  <2> QED
    BY <1>0, <2>1, <2>3 DEF TruthInv
\* No plugin has had its turn, or none that had is touched.
<1>4. ASSUME stage \in {"builtins", "plugins"}, Advance,
             UNCHANGED <<entries, documents, applied>>, IsBuiltin(Entry(at)) \/ stage = "builtins",
             stage = "plugins" => UNCHANGED <<info, row, status, published>>
      PROVE  TruthInv'
  <2>0. \A i : Plain(i)' <=> Plain(i)
    BY <1>4 DEF Plain, Entry, NameOf, IsBuiltin
  <2>1. ASSUME NEW i \in LuaEntries, Done(i)', Plain(i) PROVE Agrees(i)'
    <3>1. i \in DOMAIN entries /\ ~IsBuiltin(Entry(i))
      BY DEF LuaEntries
    <3>2. Done(i)
      BY <1>4, <2>1, <3>1, DoneNext
    <3>3. stage = "plugins"
      BY <1>4, <3>1, <3>2 DEF Done
    <3>4. Agrees(i)
      BY <2>1, <3>2, <3>3 DEF TruthInv, Running
    <3> QED
      BY <1>4, <3>3, <3>4, AgreesKept DEF Agrees
  <2> QED
    BY <1>0, <1>4, <2>0, <2>1 DEF TruthInv
<1>5. CASE ActivateBuiltin
  <2>1. Gone \/ (Advance /\ UNCHANGED <<entries, documents, applied>>)
    BY <1>5 DEF ActivateBuiltin
  <2> QED
    BY <1>2, <1>4, <1>5, <2>1 DEF ActivateBuiltin
<1>6. CASE SkipEntry
  BY <1>4, <1>6 DEF SkipEntry
<1>7. ASSUME stage = "plugins", ~IsBuiltin(Entry(at)), NEW s \in {"inactive", "failed", "activating"},
             Leave(Entry(at), s)
      PROVE  TruthInv'
  <2>1. /\ Mark(Entry(at), FALSE) /\ Advance /\ status' = Put(status, NameOf(Entry(at)), s)
        /\ UNCHANGED <<published, documents, entries, applied>>
    BY <1>7 DEF Leave
  <2> QED
    BY <1>7, <2>1, HandledAgrees
<1>8. CASE LeaveDisabled \/ LeaveUnapproved \/ LeaveUngoverned \/ LeaveSwitchedOff
  <2>1. PICK s \in {"inactive", "failed"} : Leave(Entry(at), s) /\ stage = "plugins"
                                            /\ ~IsBuiltin(Entry(at))
    BY <1>8 DEF LeaveDisabled, LeaveUnapproved, LeaveUngoverned, LeaveSwitchedOff, Turn
  <2> QED
    BY <1>7, <2>1
<1>9. CASE ActivatePlugin
  <2>1. /\ stage = "plugins" /\ ~IsBuiltin(Entry(at)) /\ Activable(Entry(at))
        /\ Mark(Entry(at), TRUE) /\ Advance /\ status' = Put(status, NameOf(Entry(at)), "active")
        /\ published' = published \cup {Entry(at).id}
        /\ UNCHANGED <<documents, entries, applied>>
    BY <1>9 DEF ActivatePlugin, Turn
  <2>2. Registered(Entry(at)).enabled
    BY <2>1 DEF Activable, Registered, Upsert
  <2> QED
    BY <2>1, <2>2, HandledAgrees
<1>10. CASE FailPlugin \/ FailWithoutVm
  <2>1. stage = "plugins" /\ ~IsBuiltin(Entry(at)) /\ 
        /\ (Gone \/ \E s \in {"failed", "activating"} : Leave(Entry(at), s))
    BY <1>10 DEF FailPlugin, FailWithoutVm, Turn
  <2> QED
    BY <1>2, <1>7, <2>1
<1>11. CASE CompilePolicy
  <2>1. CASE Permitted
    <3>1. /\ stage = "policy" /\ stage' = "serving"
          /\ info' = [n \in DOMAIN info |->
               IF n = "policy" THEN [info[n] EXCEPT !.loaded = TRUE] ELSE info[n]]
          /\ row' = [n \in DOMAIN row |->
               IF n = "policy" /\ Known(info, n) /\ Governed
               THEN [row[n] EXCEPT !.loaded = TRUE] ELSE row[n]]
          /\ UNCHANGED <<entries, applied, status, published>>
      BY <1>11, <2>1 DEF CompilePolicy
    <3>2. OthersStay("policy")
      BY <3>1 DEF OthersStay
    <3>3. ASSUME NEW i \in LuaEntries, Plain(i) PROVE Agrees(i)'
      <4>1. Agrees(i)
        BY <3>1, <3>3 DEF TruthInv, Done, Running
      <4>2. NameOf(Entry(i)) # "policy"
        BY <3>3 DEF Plain
      <4> QED
        BY <3>1, <3>2, <4>1, <4>2, AgreesKept DEF OthersStay, Agrees
    <3>4. \A i : Plain(i)' <=> Plain(i)
      BY <3>1 DEF Plain, Entry, NameOf, IsBuiltin
    <3> QED
      BY <1>0, <3>1, <3>3, <3>4 DEF TruthInv
  <2> QED
    BY <1>2, <1>11, <2>1 DEF CompilePolicy, Failed
<1>12. ASSUME NEW n \in Names,
              SwitchOff(n) \/ SwitchOnPlugin(n) \/ SwitchOnUnapproved(n)
              \/ SwitchOnWithoutVm(n) \/ SwitchOnBuiltin(n)
       PROVE  TruthInv'
  <2>1. stage = "serving"
    BY <1>12 DEF SwitchOff, SwitchOnPlugin, SwitchOnUnapproved, SwitchOnWithoutVm,
                 SwitchOnBuiltin, MaySwitch
  <2>2. ASSUME NEW i \in LuaEntries \ Called(n), NEW j \in Called(n) PROVE Entry(i).id # Entry(j).id
    BY OneOfAnId DEF Called, LuaEntries
  <2>3. CASE SwitchOff(n)
    <3>1. Switched(n, FALSE, FALSE, "inactive")
          /\ published' = published \ {Entry(i).id : i \in Called(n)}
      BY <2>3 DEF SwitchOff
    <3> QED
      BY <2>1, <2>2, <3>1, SwitchedAgrees
  <2>4. ASSUME NEW j \in Called(n), MaySwitch(n, TRUE)
        PROVE  Called(n) = {j} /\ (n # "policy" => Entry(j).id \notin published)
    <3>1. j \in LuaEntries /\ NameOf(Entry(j)) = n
      BY DEF Called
    <3>2. Called(n) = {j}
      BY <2>1, <3>1, OneOfAName DEF Called, MountedStages
    <3>3. n # "policy" => Agrees(j)
      BY <2>1, <3>1 DEF TruthInv, Plain, Done, Running
    <3>4. n \in DOMAIN info /\ info[n] \in Row /\ info[n] # [enabled |-> TRUE, loaded |-> TRUE]
      BY <2>4 DEF MaySwitch, KeptInv
    <3>5. n # "policy" => ~info[n].loaded
      BY <3>1, <3>3, <3>4 DEF Agrees, Row
    <3> QED
      BY <3>1, <3>2, <3>3, <3>5 DEF Agrees
  <2>5. CASE SwitchOnPlugin(n)
    <3>1. PICK j \in Called(n) :
            \/ Switched(n, TRUE, TRUE, "active") /\ published' = published \cup {Entry(j).id}
            \/ Switched(n, TRUE, FALSE, "failed") /\ UNCHANGED published
      BY <2>5 DEF SwitchOnPlugin
    <3>2. Called(n) = {j} /\ (n # "policy" => Entry(j).id \notin published)
      BY <2>4, <2>5 DEF SwitchOnPlugin
    <3>3. CASE Switched(n, TRUE, TRUE, "active") /\ published' = published \cup {Entry(j).id}
      BY <2>1, <2>2, <3>2, <3>3, SwitchedAgrees
    <3>4. CASE Switched(n, TRUE, FALSE, "failed") /\ UNCHANGED published
      BY <2>1, <3>2, <3>4, SwitchedAgrees
    <3> QED
      BY <3>1, <3>3, <3>4
  <2>6. CASE SwitchOnUnapproved(n) \/ SwitchOnWithoutVm(n)
    <3>1. PICK s \in {"failed", "activating"} :
            Switched(n, TRUE, FALSE, s) /\ UNCHANGED published /\ MaySwitch(n, TRUE)
      BY <2>6 DEF SwitchOnUnapproved, SwitchOnWithoutVm
    <3>2. n # "policy" => \A i \in Called(n) : Entry(i).id \notin published
      BY <2>4, <3>1
    <3> QED
      BY <2>1, <3>1, <3>2, SwitchedAgrees
  <2>7. CASE SwitchOnBuiltin(n)
    <3>1. Switched(n, TRUE, FALSE, "activating") /\ UNCHANGED published /\ Called(n) = {}
      BY <2>7 DEF SwitchOnBuiltin
    <3> QED
      BY <2>1, <3>1, SwitchedAgrees
  <2> QED
    BY <1>12, <2>3, <2>5, <2>6, <2>7
<1>13. CASE Read \/ Refuse \/ Mount \/ Collect \/ Open \/ Apply \/ Stop
  <2>1. stage' \notin Running
    BY <1>13 DEF Read, Refuse, Mount, Collect, Open, Apply, Stop, Failed, Gone, Running
  <2> QED
    BY <1>1, <2>1
<1>14. CASE UNCHANGED vars
  <2>1. UNCHANGED <<stage, entries, at, published, info, row, status, applied>>
    BY <1>14 DEF vars, memory
  <2>2. \A i : Done(i)' <=> Done(i)
    BY <2>1 DEF Done, Entry, IsBuiltin
  <2>3. \A i \in LuaEntries : Agrees(i) => Agrees(i)'
    BY <2>1, AgreesKept DEF Agrees
  <2>4. \A i : Plain(i)' <=> Plain(i)
    BY <2>1 DEF Plain, Entry, NameOf, IsBuiltin
  <2> QED
    BY <1>0, <2>1, <2>2, <2>3, <2>4 DEF TruthInv
<1> QED
  BY <1>3, <1>5, <1>6, <1>8, <1>9, <1>10, <1>11, <1>12, <1>13, <1>14 DEF Next

(***************************************************************************)
(* What a profile requires.                                                *)
(***************************************************************************)
\* The entry at its turn is registered with the database and marked.
LEMMA HandledUp ==
  ASSUME ProfileInv, KeptInv, RequiredInv, stage \in {"builtins", "plugins"},
         Advance, UNCHANGED <<documents, entries, applied>>, published \subseteq published',
         NEW l \in BOOLEAN, Mark(Entry(at), l), SetRequired(Entry(at)),
         \A i \in DOMAIN entries : Done(i) /\ i # at /\ Entry(i).enabled /\ HasItsName(Entry(i)) =>
           NameOf(Entry(i)) # NameOf(Entry(at)),
         stage = "plugins" => ~IsBuiltin(Entry(at)),
         Entry(at).enabled /\ Entry(at).required /\ Governed =>
           (l \/ NameOf(Entry(at)) = "policy") /\ Entry(at).id \in published'
  PROVE  RequiredInv'
<1>1. PICK k \in DOMAIN entries : k = at
  BY DEF ProfileInv, EntriesInv
<1> DEFINE e == Entry(k)
           n == NameOf(e)
           r == [Registered(e) EXCEPT !.loaded = l]
<1>2. \A i : /\ Entry(i)' = Entry(i) /\ NameOf(Entry(i))' = NameOf(Entry(i))
             /\ Entry(i).id' = Entry(i).id /\ (Entry(i).enabled)' = Entry(i).enabled
             /\ (Entry(i).required)' = Entry(i).required
             /\ HasItsName(Entry(i))' <=> HasItsName(Entry(i))
  BY DEF Entry, NameOf, IsBuiltin, HasItsName
<1>3. stage' \in {"builtins", "plugins", "policy"}
  BY DEF Advance
<1>4. /\ r.enabled = Registered(e).enabled /\ r.loaded = l
      /\ n \in DOMAIN info' /\ info'[n] = r
      /\ \A m \in DOMAIN info : m # n => m \in DOMAIN info' /\ info'[m] = info[m]
  BY <1>1, MarkFacts
<1>5. /\ e.required => n \in required'
      /\ \A m \in required : m # n => m \in required'
  BY <1>1 DEF SetRequired
<1>6. ASSUME e.enabled, e.required, Governed PROVE Up(k)'
  <2>1. Registered(e).enabled
    BY <1>6 DEF Registered, Upsert
  <2>2. e.id \in published' /\ (l \/ n = "policy")
    BY <1>1, <1>6
  <2> HIDE DEF r
  <2>3. /\ e.id \in published' /\ n \in required' /\ n \in DOMAIN info' /\ info'[n].enabled
        /\ info'[n].loaded \/ (n = "policy" /\ stage' # "serving")
    BY <1>3, <1>4, <1>5, <1>6, <2>1, <2>2
  <2> QED
    BY <1>2, <2>3 DEF Up
<1>7. ASSUME NEW i \in DOMAIN entries, Done(i), i # k, Entry(i).enabled, Entry(i).required,
             HasItsName(Entry(i)), Governed
      PROVE  Up(i)'
  <2>1. Up(i)
    BY <1>7 DEF RequiredInv, Running
  <2>2. NameOf(Entry(i)) # n
    BY <1>1, <1>7
  <2> HIDE DEF n, e
  <2> QED
    BY <1>3, <1>4, <1>5, <2>1, <2>2, UpKept DEF Up
<1>8. ASSUME NEW i \in DOMAIN entries, Done(i)' PROVE Done(i) \/ i = k
  BY <1>1, <1>8, DoneNext
<1>9. Governed' <=> Governed
  BY DEF Governed
<1> HIDE DEF e, n, r
<1> QED
  BY <1>2, <1>6, <1>7, <1>8, <1>9 DEF RequiredInv, e

\* Every step keeps what is required up.
LEMMA RequiredStep ==
  ASSUME ProfileInv, KeptInv, MigratedInv, PublishedInv, RequiredInv, [Next]_vars
  PROVE  RequiredInv'
<1>0. ASSUME entries' = entries, applied' = applied
      PROVE  /\ (Governed' <=> Governed)
             /\ \A i : /\ (Entry(i).enabled)' = Entry(i).enabled
                       /\ (Entry(i).required)' = Entry(i).required
                       /\ HasItsName(Entry(i))' <=> HasItsName(Entry(i))
  BY <1>0 DEF Entry, Governed, HasItsName, NameOf, IsBuiltin
<1>1. CASE stage' \notin Running
  BY <1>1 DEF RequiredInv
<1>2. CASE Gone
  BY <1>1, <1>2 DEF Gone, Running
<1>3. CASE Migrated
  <2>1. /\ entries' = entries /\ at' = 1
        /\ stage' = IF entries = <<>> THEN "policy" ELSE "builtins"
    BY <1>3 DEF Migrated, ProfileInv, EntriesInv
  <2>2. Len(entries) \in Nat /\ DOMAIN entries = 1 .. Len(entries)
        /\ (entries # <<>> <=> 1 \in DOMAIN entries)
    BY EntriesLength DEF ProfileInv, EntriesInv
  <2>3. \A i \in DOMAIN entries : ~Done(i)'
    BY <2>1, <2>2 DEF Done
  <2> QED
    BY <2>1, <2>3 DEF RequiredInv
\* An entry is passed over.
<1>4. ASSUME stage \in {"builtins", "plugins"}, Advance,
             UNCHANGED <<entries, documents, applied, info, required, published>>,
             stage = "builtins" => ~(IsBuiltin(Entry(at)) /\ Entry(at).enabled),
             stage = "plugins" => IsBuiltin(Entry(at))
      PROVE  RequiredInv'
  <2>1. ASSUME NEW i \in DOMAIN entries, Done(i)', Entry(i).enabled, Entry(i).required,
               HasItsName(Entry(i)), Governed
        PROVE  Up(i)'
    <3>1. Done(i)
      BY <1>4, <2>1, DoneNext DEF Done
    <3>2. Up(i) /\ stage' # "serving"
      BY <1>4, <2>1, <3>1 DEF RequiredInv, Running, Advance
    <3> QED
      BY <1>4, <3>2, UpKept DEF Up
  <2> QED
    BY <1>0, <1>4, <2>1 DEF RequiredInv
<1>5. CASE ActivateBuiltin
  <2>1. stage = "builtins"
    BY <1>5 DEF ActivateBuiltin
  <2>2. CASE ~(Entry(at).enabled /\ IsBuiltin(Entry(at)))
    <3>1. Advance /\ UNCHANGED <<entries, documents, applied, info, required, published>>
      BY <1>5, <2>2 DEF ActivateBuiltin
    <3> QED
      BY <1>4, <2>1, <2>2, <3>1
  <2>3. CASE Entry(at).enabled /\ IsBuiltin(Entry(at)) /\ ~Taken(Entry(at))
    <3>1. /\ Advance /\ SetRequired(Entry(at)) /\ Mark(Entry(at), Entry(at).source # "policy")
          /\ published' = published \cup {Entry(at).id} /\ UNCHANGED <<documents, entries, applied>>
      BY <1>5, <2>3 DEF ActivateBuiltin
    <3>2. \A i \in DOMAIN entries : Done(i) /\ Entry(i).enabled =>
            NameOf(Entry(i)) # NameOf(Entry(at))
      BY <2>1, <2>3, BuiltinOnce
    <3>3. Entry(at).source # "policy" \/ NameOf(Entry(at)) = "policy"
      BY <2>3 DEF NameOf
    <3> QED
      BY <2>1, <3>1, <3>2, <3>3, HandledUp
  <2>4. CASE Entry(at).enabled /\ IsBuiltin(Entry(at)) /\ Taken(Entry(at))
    BY <1>2, <1>5, <2>4 DEF ActivateBuiltin
  <2> QED
    BY <2>2, <2>3, <2>4
<1>6. CASE SkipEntry
  BY <1>4, <1>6 DEF SkipEntry
\* A plugin is left or activated.
<1>7. ASSUME stage = "plugins", ~IsBuiltin(Entry(at)), NEW l \in BOOLEAN,
             SetRequired(Entry(at)), Mark(Entry(at), l), Advance,
             UNCHANGED <<documents, entries, applied>>,
             published' = IF l THEN published \cup {Entry(at).id} ELSE published,
             Entry(at).enabled /\ Entry(at).required /\ Governed => l
      PROVE  RequiredInv'
  <2>1. at \in LuaEntries
    BY <1>7, TurnIsNotDone DEF LuaEntries
  <2>2. ASSUME NEW i \in DOMAIN entries, i # at, HasItsName(Entry(i))
        PROVE  NameOf(Entry(i)) # NameOf(Entry(at))
    <3>1. CASE i \in LuaEntries
      BY <1>7, <2>1, <2>2, <3>1, OneOfAName DEF MountedStages
    <3>2. CASE i \notin LuaEntries
      <4>1. IsBuiltin(Entry(i)) /\ Entry(at) \in Range(entries)
        BY <2>1, <3>2 DEF LuaEntries, Entry, Range
      <4> QED
        BY <1>7, <2>2, <4>1 DEF HasItsName
    <3> QED
      BY <3>1, <3>2
  <2> QED
    BY <1>7, <2>2, HandledUp
<1>8. CASE LeaveDisabled \/ LeaveUnapproved \/ LeaveUngoverned \/ LeaveSwitchedOff
  <2>1. /\ stage = "plugins" /\ ~IsBuiltin(Entry(at))
        /\ ~Entry(at).enabled \/ ~Entry(at).approved \/ ~Governed \/ ~Entry(at).required
    BY <1>8 DEF LeaveDisabled, LeaveUnapproved, LeaveUngoverned, LeaveSwitchedOff, Turn
  <2>2. PICK s : Leave(Entry(at), s)
    BY <1>8 DEF LeaveDisabled, LeaveUnapproved, LeaveUngoverned, LeaveSwitchedOff
  <2>3. /\ SetRequired(Entry(at)) /\ Mark(Entry(at), FALSE) /\ Advance
        /\ UNCHANGED <<published, documents, entries, applied>>
    BY <2>2 DEF Leave
  <2>4. at \in LuaEntries
    BY <2>1, TurnIsNotDone DEF LuaEntries
  <2>5. Entry(at).enabled /\ Entry(at).required => Entry(at).approved
    BY <2>1, <2>4 DEF ProfileInv, EntriesInv, MountedStages, Mountable
  <2> QED
    BY <1>7, <2>1, <2>3, <2>5
<1>9. CASE ActivatePlugin
  <2>1. /\ stage = "plugins" /\ ~IsBuiltin(Entry(at))
        /\ SetRequired(Entry(at)) /\ Mark(Entry(at), TRUE) /\ Advance
        /\ published' = published \cup {Entry(at).id}
        /\ UNCHANGED <<documents, entries, applied>>
    BY <1>9 DEF ActivatePlugin, Turn
  <2> QED
    BY <1>7, <2>1
<1>10. CASE FailPlugin \/ FailWithoutVm
  <2>1. stage = "plugins" /\ ~IsBuiltin(Entry(at))
        /\ (Gone \/ (~Entry(at).required /\ \E s : Leave(Entry(at), s)))
    BY <1>10 DEF FailPlugin, FailWithoutVm, Turn
  <2>2. CASE ~Gone
    <3>1. /\ SetRequired(Entry(at)) /\ Mark(Entry(at), FALSE) /\ Advance
          /\ UNCHANGED <<published, documents, entries, applied>>
      BY <2>1, <2>2 DEF Leave
    <3> QED
      BY <1>7, <2>1, <2>2, <3>1
  <2> QED
    BY <1>2, <2>2
<1>11. CASE CompilePolicy
  <2>1. CASE Permitted
    <3>1. /\ stage = "policy" /\ stage' = "serving"
          /\ info' = [n \in DOMAIN info |->
               IF n = "policy" THEN [info[n] EXCEPT !.loaded = TRUE] ELSE info[n]]
          /\ UNCHANGED <<entries, applied, required, published>>
      BY <1>11, <2>1 DEF CompilePolicy
    <3>2. ASSUME NEW i \in DOMAIN entries, Entry(i).enabled, Entry(i).required,
                 HasItsName(Entry(i)), Governed
          PROVE  Up(i)'
      <4>1. Up(i)
        BY <3>1, <3>2 DEF RequiredInv, Done, Running
      <4>2. \A n \in DOMAIN info : info[n] \in Row
        BY DEF KeptInv
      <4>3. NameOf(Entry(i))' = NameOf(Entry(i)) /\ (Entry(i).id)' = Entry(i).id
        BY <3>1 DEF Entry, NameOf, IsBuiltin
      <4>4. \A n \in DOMAIN info :
              /\ n \in DOMAIN info' /\ info'[n].enabled = info[n].enabled
              /\ info[n].loaded \/ n = "policy" => info'[n].loaded
        BY <3>1, <4>2 DEF Row
      <4> QED
        BY <3>1, <4>1, <4>3, <4>4 DEF Up
    <3> QED
      BY <1>0, <3>1, <3>2 DEF RequiredInv
  <2> QED
    BY <1>2, <1>11, <2>1 DEF CompilePolicy, Failed
<1>12. ASSUME NEW n \in Names,
              SwitchOff(n) \/ SwitchOnPlugin(n) \/ SwitchOnUnapproved(n)
              \/ SwitchOnWithoutVm(n) \/ SwitchOnBuiltin(n)
       PROVE  RequiredInv'
  <2>1. stage = "serving" /\ n \notin required
    BY <1>12 DEF SwitchOff, SwitchOnPlugin, SwitchOnUnapproved, SwitchOnWithoutVm,
                 SwitchOnBuiltin, MaySwitch
  <2>2. PICK r : info' = Put(info, n, r) /\ UNCHANGED <<stage, entries, required, applied>>
    BY <1>12 DEF SwitchOff, SwitchOnPlugin, SwitchOnUnapproved, SwitchOnWithoutVm,
                 SwitchOnBuiltin, Switched
  <2>3. ASSUME NEW i \in DOMAIN entries, Entry(i).enabled, Entry(i).required,
               HasItsName(Entry(i)), Governed
        PROVE  Up(i)'
    <3>1. Up(i)
      BY <2>1, <2>3 DEF RequiredInv, Done, Running
    <3>2. NameOf(Entry(i)) # n
      BY <2>1, <3>1 DEF Up
    <3>3. Entry(i).id \in published'
      <4>1. \A j \in Called(n) : Entry(j).id # Entry(i).id
        BY <2>3, <3>2, OneOfAnId DEF Called, LuaEntries
      <4> QED
        BY <1>12, <3>1, <4>1 DEF SwitchOff, SwitchOnPlugin, SwitchOnUnapproved, SwitchOnWithoutVm,
                                 SwitchOnBuiltin, Up
    <3>4. NameOf(Entry(i)) \in DOMAIN info' /\ info'[NameOf(Entry(i))] = info[NameOf(Entry(i))]
      BY <2>2, <3>1, <3>2 DEF Up, Put
    <3> QED
      BY <2>2, <3>1, <3>3, <3>4, UpKept DEF Up
  <2> QED
    BY <1>0, <2>2, <2>3 DEF RequiredInv
<1>13. CASE Read \/ Refuse \/ Mount \/ Collect \/ Open \/ Apply \/ Stop
  <2>1. stage' \notin Running
    BY <1>13 DEF Read, Refuse, Mount, Collect, Open, Apply, Stop, Failed, Gone, Running
  <2> QED
    BY <1>1, <2>1
<1>14. CASE UNCHANGED vars
  <2>1. UNCHANGED <<stage, entries, at, published, info, required, applied>>
    BY <1>14 DEF vars, memory
  <2>2. \A i : Done(i)' <=> Done(i)
    BY <2>1 DEF Done, Entry, IsBuiltin
  <2>3. \A i : Up(i) => Up(i)'
    BY <2>1, UpKept DEF Up
  <2> QED
    BY <1>0, <2>1, <2>2, <2>3 DEF RequiredInv
<1> QED
  BY <1>3, <1>5, <1>6, <1>8, <1>9, <1>10, <1>11, <1>12, <1>13, <1>14 DEF Next

\* Nothing runs at first.
LEMMA RunningInit == ASSUME Init PROVE MigratedInv /\ PublishedInv /\ TruthInv /\ RequiredInv
BY DEF Init, MigratedInv, PublishedInv, TruthInv, RequiredInv, Running

\* The migrations and the publications of a start.
LEMMA PublishedInvariant == Spec => [](MigratedInv /\ PublishedInv)
<1>1. Init => MigratedInv /\ PublishedInv
  BY RunningInit
<1>2. ProfileInv /\ KeptInv /\ MigratedInv /\ PublishedInv /\ [Next]_vars =>
        (MigratedInv /\ PublishedInv)'
  BY MigratedStep, PublishedStep
<1> QED
  BY <1>1, <1>2, TypeInvariant, PTL DEF Spec

\* While a host serves, what is published of a plugin, what its row and the
\* plugin list say and the state of the runtime host agree (bootstrap_with_options,
\* set_plugin_enabled).
THEOREM StatusIsTrue == Spec => []StatusTellsTruth
<1>1. Init => TruthInv
  BY RunningInit
<1>2. ProfileInv /\ KeptInv /\ MigratedInv /\ PublishedInv /\ TruthInv /\ [Next]_vars => TruthInv'
  BY TruthStep
<1>3. ProfileInv /\ KeptInv /\ TruthInv => StatusTellsTruth
  <2> SUFFICES ASSUME ProfileInv, KeptInv, TruthInv, stage = "serving",
                      NEW e \in Range(entries), ~IsBuiltin(e), NameOf(e) # "policy"
               PROVE  /\ status[NameOf(e)] \in {"active", "inactive", "failed", "activating"}
                      /\ (status[NameOf(e)] = "active") = (e.id \in published)
                      /\ info[NameOf(e)].loaded = (e.id \in published)
                      /\ Governed => row[NameOf(e)] = info[NameOf(e)]
    BY DEF StatusTellsTruth
  <2>1. PICK i \in LuaEntries : e = Entry(i)
    BY DEF LuaEntries, Entry, Range
  <2>2. Agrees(i)
    BY <2>1 DEF TruthInv, Plain, Done, Running
  <2>3. info[NameOf(e)].loaded \in BOOLEAN
    BY <2>1, <2>2 DEF Agrees, KeptInv, Row
  <2> QED
    BY <2>1, <2>2, <2>3 DEF Agrees
<1> QED
  BY <1>1, <1>2, <1>3, TypeInvariant, PublishedInvariant, PTL DEF Spec

\* A host whose database has the governance tables serves every entry its
\* profile requires and that has its name to itself (bootstrap_with_options).
THEOREM RequiredAreServed == Spec => []ServesWhatItRequires
<1>1. Init => RequiredInv
  BY RunningInit
<1>2. ProfileInv /\ KeptInv /\ MigratedInv /\ PublishedInv /\ RequiredInv /\ [Next]_vars =>
        RequiredInv'
  BY RequiredStep
<1>3. KeptInv /\ RequiredInv => ServesWhatItRequires
  <2> SUFFICES ASSUME KeptInv, RequiredInv, stage = "serving", Governed,
                      NEW e \in Range(entries), e.enabled, e.required, HasItsName(e)
               PROVE  /\ e.id \in published /\ NameOf(e) \in required
                      /\ info[NameOf(e)] = [enabled |-> TRUE, loaded |-> TRUE]
    BY DEF ServesWhatItRequires
  <2>1. PICK i \in DOMAIN entries : e = Entry(i)
    BY DEF Entry, Range
  <2>2. Up(i)
    BY <2>1 DEF RequiredInv, Done, Running
  <2>3. info[NameOf(e)] \in Row
    BY <2>1, <2>2 DEF Up, KeptInv
  <2> QED
    BY <2>1, <2>2, <2>3 DEF Up, Row
<1> QED
  BY <1>1, <1>2, <1>3, TypeInvariant, PublishedInvariant, PTL DEF Spec
================================================================================
