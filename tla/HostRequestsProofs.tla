-------------------------- MODULE HostRequestsProofs --------------------------
(***************************************************************************)
(* Proofs about HostRequests, for any scripts of the plugin, requests,     *)
(* keys, roles, lifetimes of tokens and bounds.                            *)
(***************************************************************************)
EXTENDS HostRequests, SequenceTheorems, WellFoundedInduction, TLAPS

-------------------------------------------------------------------------------
(* Patterns and paths.                                                       *)

\* A set of numbers that is not empty has a least one.
LEMMA LeastNumber ==
  ASSUME NEW T \in SUBSET Nat, T # {}
  PROVE  \E x \in T : \A y \in T : x <= y
<1> DEFINE R == OpToRel(<, Nat)
<1>1. IsWellFoundedOn(R, Nat)
  BY NatLessThanWellFounded, Zenon
<1>2. \A x, y \in Nat : <<x, y>> \in R <=> x < y
  BY DEF OpToRel
<1> HIDE DEF R
<1>3. PICK x \in T : \A y \in T : <<y, x>> \notin R
  BY <1>1, WFMin
<1>4. \A y \in T : ~(y < x)
  BY <1>2, <1>3
<1> QED
  BY <1>4

\* A set of numbers up to n that is not empty has a greatest one.
LEMMA GreatestNumber ==
  ASSUME NEW n \in Nat, NEW T \in SUBSET (1 .. n), T # {}
  PROVE  \E x \in T : \A y \in T : y <= x
<1> DEFINE U == {n - y : y \in T}
<1>0. \A y \in T : n - y \in Nat
  OBVIOUS
<1>1. U \in SUBSET Nat /\ U # {}
  BY <1>0
<1>2. PICK t \in U : \A y \in U : t <= y
  BY <1>1, LeastNumber
<1>3. PICK x \in T : t = n - x
  OBVIOUS
<1>4. ASSUME NEW y \in T PROVE n - x <= n - y
  BY <1>2, <1>3
<1> QED
  BY <1>4

\* What is left of a path without the slashes at its ends: nothing, or what
\* stands between its first and its last segment that is not empty.
LEMMA TrimmedShape ==
  ASSUME NEW S, NEW s \in Seq(S)
  PROVE  \/ (\A i \in 1 .. Len(s) : s[i] = Gap) /\ Trimmed(s) = <<>>
         \/ \E a, b \in 1 .. Len(s) :
              /\ a <= b /\ s[a] # Gap /\ s[b] # Gap
              /\ \A i \in 1 .. Len(s) : s[i] # Gap => a <= i /\ i <= b
              /\ Trimmed(s) = SubSeq(s, a, b)
<1> DEFINE kept == {i \in 1 .. Len(s) : s[i] # Gap}
           a == CHOOSE i \in kept : \A j \in kept : i <= j
           b == CHOOSE i \in kept : \A j \in kept : j <= i
<1>0. Len(s) \in Nat /\ kept \in SUBSET (1 .. Len(s)) /\ kept \in SUBSET Nat
  OBVIOUS
<1>1. CASE kept = {}
  BY <1>1 DEF Trimmed
<1>2. CASE kept # {}
  <2>1. a \in kept /\ \A j \in kept : a <= j
    <3>1. \E i \in kept : \A j \in kept : i <= j
      BY <1>0, <1>2, LeastNumber
    <3> QED
      BY <3>1
  <2>2. b \in kept /\ \A j \in kept : j <= b
    <3>1. \E i \in kept : \A j \in kept : j <= i
      BY <1>0, <1>2, GreatestNumber
    <3> QED
      BY <3>1
  <2>3. Trimmed(s) = SubSeq(s, a, b)
    BY <1>2 DEF Trimmed
  <2> HIDE DEF a, b
  <2> QED
    BY <2>1, <2>2, <2>3
<1> QED
  BY <1>1, <1>2

\* A path without empty segments at its ends is left as it is.
LEMMA TrimmedWhole ==
  ASSUME NEW S, NEW s \in Seq(S), s # <<>>, s[1] # Gap, s[Len(s)] # Gap
  PROVE  Trimmed(s) = s
<1>1. Len(s) \in Nat /\ Len(s) # 0 /\ 1 \in 1 .. Len(s) /\ Len(s) \in 1 .. Len(s)
  OBVIOUS
<1>2. PICK a, b \in 1 .. Len(s) :
        /\ \A i \in 1 .. Len(s) : s[i] # Gap => a <= i /\ i <= b
        /\ Trimmed(s) = SubSeq(s, a, b)
  BY <1>1, TrimmedShape
<1>3. a = 1 /\ b = Len(s)
  BY <1>1, <1>2
<1>4. SubSeq(s, 1, Len(s)) = s
  OBVIOUS
<1> QED
  BY <1>2, <1>3, <1>4

\* Two patterns that fit one path overlap.
LEMMA BothMatch ==
  ASSUME NEW p, NEW q, NEW u, Len(p) \in Nat, Len(q) \in Nat, Len(u) \in Nat,
         Matches(p, u), Matches(q, u)
  PROVE  Overlap(p, q)
<1>1. PICK n \in 0 .. Len(u) : FitsUpTo(p, u, n)
  BY DEF Matches
<1>2. PICK m \in 0 .. Len(u) : FitsUpTo(q, u, m)
  BY DEF Matches
<1>3. ASSUME NEW i \in 1 .. n, i <= m PROVE Compatible(p[i], q[i])
  <2>1. Fits(p[i], u[i]) /\ Fits(q[i], u[i])
    BY <1>1, <1>2, <1>3 DEF FitsUpTo
  <2> QED
    BY <2>1, RoutingAssumption DEF Fits, Compatible, IsLiteral
<1>4. CASE n <= m
  <2>1. n \in 0 .. Least(Len(p), Len(q)) /\ \A i \in 1 .. n : Compatible(p[i], q[i])
    BY <1>1, <1>2, <1>3, <1>4 DEF FitsUpTo, Least
  <2>2. \/ n = Len(p) /\ n = Len(q)
        \/ n < Len(p) /\ p[n + 1] \in Stars
        \/ n < Len(q) /\ q[n + 1] \in Stars
    BY <1>1, <1>2, <1>4 DEF FitsUpTo
  <2> QED
    BY <2>1, <2>2 DEF Overlap
<1>5. CASE m < n
  <2>1. m \in 0 .. Least(Len(p), Len(q)) /\ \A i \in 1 .. m : Compatible(p[i], q[i])
    BY <1>1, <1>2, <1>3, <1>5 DEF FitsUpTo, Least
  <2>2. m < Len(q) /\ q[m + 1] \in Stars
    BY <1>1, <1>2, <1>5 DEF FitsUpTo
  <2> QED
    BY <2>1, <2>2 DEF Overlap
<1> QED
  BY <1>4, <1>5

\* The segments of a that p takes, by equality or as parameters, up to its end or
\* a star at its end, and those that fit q up to its end or a star: p and q
\* overlap.
LEMMA CoveredOverlaps ==
  ASSUME NEW p, NEW q, NEW a, NEW m \in Nat, Len(p) \in Nat, Len(q) \in Nat, Len(a) \in Nat,
         \A i \in 1 .. Len(p) : p[i] \in Params \cup Stars \/ p[i] = a[i],
         Len(p) = Len(a) \/ (Len(p) \in 1 .. Len(a) /\ p[Len(p)] \in Stars),
         m <= Len(q), m <= Len(a), \A i \in 1 .. m : Fits(q[i], a[i]),
         \A i \in 1 .. m : i <= Len(p) /\ q[i] = Gap => p[i] \in Stars \/ p[i] = a[i],
         \/ m = Len(q) /\ m = Len(a)
         \/ m < Len(q) /\ q[m + 1] \in Stars
  PROVE  Overlap(p, q)
<1> DEFINE T == {i \in 1 .. Len(p) : p[i] \in Stars /\ i <= m + 1}
<1>1. ASSUME NEW i \in 1 .. m, i <= Len(p), p[i] \notin Stars PROVE Compatible(p[i], q[i])
  <2>1. Fits(q[i], a[i]) /\ (p[i] \in Params \/ p[i] = a[i]) /\ (q[i] = Gap => p[i] = a[i])
    BY <1>1
  <2> QED
    BY <1>1, <2>1, RoutingAssumption DEF Fits, Compatible, IsLiteral
<1>2. CASE T # {}
  <2>0. T \in SUBSET Nat
    OBVIOUS
  <2>1. PICK x \in T : \A y \in T : x <= y
    BY <1>2, <2>0, LeastNumber
  <2>2. x - 1 \in 0 .. Least(Len(p), Len(q))
    BY <2>1 DEF Least
  <2>3. \A i \in 1 .. x - 1 : Compatible(p[i], q[i])
    BY <1>1, <2>1
  <2>4. x - 1 < Len(p) /\ p[(x - 1) + 1] \in Stars
    BY <2>1
  <2> QED
    BY <2>2, <2>3, <2>4 DEF Overlap
<1>3. CASE T = {}
  <2>1. \A i \in 1 .. Len(p) : i <= m + 1 => p[i] \notin Stars
    BY <1>3
  <2>2. m <= Len(p)
    BY <2>1
  <2>3. m \in 0 .. Least(Len(p), Len(q)) /\ \A i \in 1 .. m : Compatible(p[i], q[i])
    BY <1>1, <2>1, <2>2 DEF Least
  <2>4. \/ m = Len(p) /\ m = Len(q)
        \/ m < Len(q) /\ q[m + 1] \in Stars
    BY <2>1
  <2> QED
    BY <2>3, <2>4 DEF Overlap
<1> QED
  BY <1>2, <1>3
-------------------------------------------------------------------------------
(* The tables of the host.                                                   *)

\* Words are literals, and no word is empty.
LEMMA Words ==
  /\ Gap \notin HostWords
  /\ \A w \in HostWords \cup {Gap} :
       w \notin Params /\ w \notin Stars /\ w \notin NamedStars /\ w \notin DOMAIN Begins
  /\ IdParam \in Params /\ PluginParam \in Params /\ BindingParams \subseteq Params \cup NamedStars
  /\ \A w \in HostWords \cup {Gap, IdParam, PluginParam} : w # Bare
  /\ \A w \in {IdParam, PluginParam} : w \notin Stars /\ w \notin DOMAIN Begins /\ w # Gap
<1>1. Gap \notin HostWords
  BY Zenon DEF HostWords, Gap
<1>2. \A w \in HostWords \cup {Gap} : w \notin Params /\ w \notin Stars /\ w \notin NamedStars /\ w \notin DOMAIN Begins
  BY WordsAssumption, RoutingAssumption
<1>3. IdParam \in Params /\ PluginParam \in Params
  BY WordsAssumption
<1>4. \A w \in {IdParam, PluginParam} : w \notin Stars /\ w \notin DOMAIN Begins
  BY <1>3, RoutingAssumption
<1>5. \A w \in {IdParam, PluginParam} : w # Gap
  BY <1>3, RoutingAssumption
<1>6. \A w \in HostWords \cup {Gap, IdParam, PluginParam} : w # Bare
  BY Zenon DEF HostWords, Gap, Bare, IdParam, PluginParam
<1> QED
  BY <1>1, <1>2, <1>3, <1>4, <1>5, <1>6 DEF BindingParams

Holders  == {IdParam, PluginParam}
HostSegs == HostWords \cup Holders

\* A pattern of words and parameters, and what it takes of a path.
IsPlain(p)  == p \in Seq(HostSegs) /\ p # <<>>
Takes(p, a) == Len(a) = Len(p) /\ \A i \in 1 .. Len(p) : p[i] = a[i] \/ p[i] \in Holders

\* What it matches it takes, and no segment of that is empty.
LEMMA PlainMatches ==
  ASSUME NEW p, IsPlain(p), NEW S, NEW u \in Seq(S), Matches(p, u)
  PROVE  Takes(p, u) /\ Len(u) # 0 /\ (\A i \in 1 .. Len(u) : u[i] # Gap) /\ Trimmed(u) = u
<1>1. Len(p) \in Nat /\ Len(u) \in Nat /\ Len(p) # 0
  BY DEF IsPlain
<1>2. \A i \in 1 .. Len(p) : p[i] \in HostSegs
  BY DEF IsPlain
<1>3. \A w \in HostSegs : w \notin Stars /\ w # Gap /\ (w \in Holders \/ IsLiteral(w))
  BY Words DEF HostSegs, Holders, IsLiteral
<1>4. PICK n \in 0 .. Len(u) : FitsUpTo(p, u, n)
  BY DEF Matches
<1>5. ~(n < Len(p) /\ p[n + 1] \in Stars)
  BY <1>1, <1>2, <1>3
<1>6. Len(u) = Len(p) /\ \A i \in 1 .. Len(p) : Fits(p[i], u[i])
  BY <1>4, <1>5 DEF FitsUpTo
<1>7. \A i \in 1 .. Len(p) : u[i] # Gap /\ (p[i] = u[i] \/ p[i] \in Holders)
  BY <1>2, <1>3, <1>6 DEF Fits
<1>8. u # <<>> /\ u[1] # Gap /\ u[Len(u)] # Gap
  BY <1>1, <1>6, <1>7
<1> QED
  BY <1>1, <1>6, <1>7, <1>8, TrimmedWhole DEF Takes

\* What it covers as a binding it takes, without the slashes at the ends.
LEMMA PlainCovers ==
  ASSUME NEW p, IsPlain(p), NEW u, BindingCovers(p, u)
  PROVE  Takes(p, Trimmed(u))
<1>1. p \in Seq(HostSegs) /\ p # <<>> /\ Len(p) \in Nat /\ 1 \in 1 .. Len(p) /\ Len(p) \in 1 .. Len(p)
  BY DEF IsPlain
<1>2. \A i \in 1 .. Len(p) : p[i] \in HostSegs
  BY <1>1
<1>3. \A w \in HostSegs : w # Gap /\ w \notin DOMAIN Begins /\ (w \in Holders \/ w \notin BindingParams)
  BY Words DEF HostSegs, Holders
<1>4. Trimmed(p) = p
  BY <1>1, <1>2, <1>3, TrimmedWhole
<1>5. p[Len(p)] \notin DOMAIN Begins
  BY <1>1, <1>2, <1>3
<1>6. Len(p) = Len(Trimmed(u)) /\ \A i \in 1 .. Len(p) : p[i] = Trimmed(u)[i] \/ p[i] \in BindingParams
  BY <1>4, <1>5, Zenon DEF BindingCovers
<1> QED
  BY <1>2, <1>3, <1>6 DEF Takes

\* The key that a path of the host needs.
ViewKey(t) ==
  IF t = "users" THEN "admin.users.view" ELSE IF t = "roles" THEN "admin.roles.view"
  ELSE IF t = "permissions" THEN "admin.permissions.view" ELSE IF t \in {"menus", "menu"} THEN "admin.menus.view"
  ELSE IF t = "logs" THEN "admin.logs.view" ELSE IF t = "config" THEN "admin.config.view" ELSE "admin.plugins.view"
ManageKey(t) ==
  IF t = "users" THEN "admin.users.manage" ELSE IF t = "roles" THEN "admin.roles.manage"
  ELSE IF t = "permissions" THEN "admin.permissions.manage" ELSE IF t \in {"menus", "menu"} THEN "admin.menus.manage"
  ELSE "admin.plugins.manage"
ApiKey(method, t) ==
  IF t = "auth" THEN "api.auth.me" ELSE IF method = "GET" THEN "api.users.read" ELSE "api.users.manage"
Topic(a) == IF a[2] \in {"partials", "api"} THEN a[3] ELSE a[2]
KeyFor(method, a) ==
  IF Len(a) = 1 THEN "admin.dashboard.view"
  ELSE IF a[1] = "api" THEN ApiKey(method, a[2])
  ELSE IF method = "GET" THEN ViewKey(Topic(a)) ELSE ManageKey(Topic(a))

\* What is true of the host's routes and pages, except the dashboard's and those
\* that have a star or are public.
IsHosts(e) == /\ e.plugin = "host" /\ IsPlain(e.path) /\ e.key # "none" /\ e.public = FALSE
              /\ (e.kind = "page" => e.method = "GET" /\ e.surface = "admin")
              /\ ~(e.method = "DELETE" /\ e.surface = "api")
              /\ \A a : Takes(e.path, a) => e.key = KeyFor(e.method, a) /\ a[2] \notin {"workspace", "kv"} /\ Len(a) # 1


\* Short paths of host words and parameters are plain.
LEMMA PlainTuples ==
  ASSUME NEW a \in HostSegs, NEW b \in HostSegs, NEW c \in HostSegs, NEW d \in HostSegs, NEW f \in HostSegs,
         NEW g \in HostSegs
  PROVE  /\ IsPlain(<<a>>) /\ IsPlain(<<a, b>>) /\ IsPlain(<<a, b, c>>) /\ IsPlain(<<a, b, c, d>>)
         /\ IsPlain(<<a, b, c, d, f>>) /\ IsPlain(<<a, b, c, d, f, g>>)
BY DEF IsPlain

\* A path taken by two host words is these two words.
LEMMA Taken2 ==
  ASSUME NEW a, NEW b \in HostWords, NEW c \in HostWords, Takes(<<b, c>>, a)
  PROVE  Len(a) = 2 /\ a[1] = b /\ a[2] = c
<1>1. b \notin Holders /\ c \notin Holders
  BY Words DEF Holders
<1> QED
  BY <1>1 DEF Takes

\* A path taken by three segments, two of them host words, begins with these.
LEMMA Taken3 ==
  ASSUME NEW a, NEW b \in HostWords, NEW c \in HostWords, NEW d, Takes(<<b, c, d>>, a)
  PROVE  Len(a) = 3 /\ a[1] = b /\ a[2] = c /\ (d \in HostWords => a[3] = d)
<1>1. b \notin Holders /\ c \notin Holders /\ (d \in HostWords => d \notin Holders)
  BY Words DEF Holders
<1> QED
  BY <1>1 DEF Takes

\* A path taken by four to six segments begins with their host words.
LEMMA TakenMore ==
  ASSUME NEW a, NEW b \in HostWords, NEW c \in HostWords, NEW d \in HostWords, NEW f, NEW g, NEW h, NEW p,
         Takes(p, a), p \in {<<b, c, d, f>>, <<b, c, d, f, g>>, <<b, c, d, f, g, h>>}
  PROVE  Len(a) \in 4 .. 6 /\ a[1] = b /\ a[2] = c /\ a[3] = d
<1>1. b \notin Holders /\ c \notin Holders /\ d \notin Holders
  BY Words DEF Holders
<1>2. Len(p) \in 4 .. 6 /\ p[1] = b /\ p[2] = c /\ p[3] = d
  <2>1. CASE p = <<b, c, d, f>>
    BY <2>1
  <2>2. CASE p = <<b, c, d, f, g>>
    BY <2>2
  <2>3. CASE p = <<b, c, d, f, g, h>>
    BY <2>3
  <2> QED
    BY <2>1, <2>2, <2>3
<1>3. \A n \in 4 .. 6 : 1 \in 1 .. n /\ 2 \in 1 .. n /\ 3 \in 1 .. n
  OBVIOUS
<1>4. Len(a) = Len(p) /\ \A i \in 1 .. Len(p) : p[i] = a[i] \/ p[i] \in Holders
  BY DEF Takes
<1> QED
  BY <1>1, <1>2, <1>3, <1>4

\* A segment put behind four, ...
LEMMA PutOne ==
  ASSUME NEW a, NEW b, NEW c, NEW d, NEW x
  PROVE  <<a, b, c, d>> \o <<x>> = <<a, b, c, d, x>>
<1> DEFINE S == {a, b, c, d, x}
           s == <<a, b, c, d>>
           r == s \o <<x>>
<1>1. s \in Seq(S) /\ <<x>> \in Seq(S) /\ Len(s) = 4
  OBVIOUS
<1>2. r \in Seq(S) /\ Len(r) = 5
  BY <1>1
<1>3. r[1] = a /\ r[2] = b /\ r[3] = c /\ r[4] = d /\ r[5] = x
  BY <1>1
<1> HIDE DEF r
<1>4. r = <<a, b, c, d, x>>
  BY <1>2, <1>3
<1> QED
  BY <1>4 DEF r

\* ... and two of them.
LEMMA PutTwo ==
  ASSUME NEW a, NEW b, NEW c, NEW d, NEW x, NEW y
  PROVE  <<a, b, c, d>> \o <<x, y>> = <<a, b, c, d, x, y>>
<1> DEFINE S == {a, b, c, d, x, y}
           s == <<a, b, c, d>>
           q == s \o <<x, y>>
<1>1. s \in Seq(S) /\ <<x, y>> \in Seq(S) /\ Len(s) = 4
  OBVIOUS
<1>2. q \in Seq(S) /\ Len(q) = 6
  BY <1>1
<1>3. q[1] = a /\ q[2] = b /\ q[3] = c /\ q[4] = d /\ q[5] = x /\ q[6] = y
  BY <1>1
<1> HIDE DEF q
<1>4. q = <<a, b, c, d, x, y>>
  BY <1>2, <1>3
<1> QED
  BY <1>4 DEF q

\* The words and parameters the host's paths are made of.
LEMMA SomeWords ==
  /\ "admin" \in HostWords /\ "partials" \in HostWords /\ "api" \in HostWords /\ "workspace" \in HostWords
  /\ "table" \in HostWords /\ "create" \in HostWords /\ "update" \in HostWords /\ "form" \in HostWords
  /\ "users" \in HostWords /\ "roles" \in HostWords /\ "permissions" \in HostWords /\ "menus" \in HostWords
  /\ "menu" \in HostWords /\ "plugins" \in HostWords /\ "logs" \in HostWords /\ "config" \in HostWords
  /\ "pages" \in HostWords /\ "state" \in HostWords /\ "assets" \in HostWords /\ "auth" \in HostWords
  /\ "me" \in HostWords /\ "login" \in HostWords /\ "refresh" \in HostWords /\ "admin-login" \in HostWords
  /\ IdParam \in Holders /\ PluginParam \in Holders
BY DEF HostWords, Holders

\* An entry of the host is one of these when its path is plain and what it takes
\* needs its key.
LEMMA HostsEntry ==
  ASSUME NEW kind, NEW method, NEW p, NEW key, key # "none", IsPlain(p), kind = "page" => method = "GET",
         kind = "page" \/ method # "DELETE" \/ p[1] = "admin",
         \A a : Takes(p, a) => key = KeyFor(method, a) /\ a[2] \notin {"workspace", "kv"} /\ Len(a) # 1
  PROVE  IsHosts(Entry("host", kind, method, p, key, FALSE))
BY DEF IsHosts, Entry, SurfaceOf

\* No page of the host goes without a key.
LEMMA KeysAreNamed ==
  ASSUME NEW t
  PROVE  ViewKey(t) # "none" /\ ManageKey(t) # "none"
BY DEF ViewKey, ManageKey

\* The page of a topic needs the topic's view key on every path it takes.
LEMMA PagesAreHosts ==
  ASSUME NEW t \in HostWords, t \notin {"partials", "api", "workspace", "kv"}
  PROVE  IsHosts(Page(<<"admin", t>>, ViewKey(t)))
<1>1. IsPlain(<<"admin", t>>)
  BY SomeWords, PlainTuples DEF HostSegs
<1>2. ASSUME NEW a, Takes(<<"admin", t>>, a) PROVE ViewKey(t) = KeyFor("GET", a) /\ a[2] \notin {"workspace", "kv"} /\ Len(a) # 1
  <2>1. Len(a) = 2 /\ a[1] = "admin" /\ a[2] = t
    BY <1>2, SomeWords, Taken2
  <2> QED
    BY <2>1 DEF KeyFor, Topic
<1> QED
  BY <1>1, <1>2, KeysAreNamed, HostsEntry DEF Page

\* So do its table and, with the manage key, the actions of its partials.
LEMMA PartialsAreHosts ==
  ASSUME NEW t \in HostWords
  PROVE  /\ IsHosts(Table(t, ViewKey(t))) /\ IsHosts(Create(t, ManageKey(t)))
         /\ IsHosts(Update(t, ManageKey(t))) /\ IsHosts(Delete(t, ManageKey(t)))
<1>1. ASSUME NEW method, NEW f \in HostSegs, NEW p, NEW key, key # "none",
             \/ p = <<"admin", "partials", t, f>> \/ p = <<"admin", "partials", t, IdParam, "update">>,
             key = IF method = "GET" THEN ViewKey(t) ELSE ManageKey(t)
      PROVE  IsHosts(Route(method, p, key))
  <2>1. IsPlain(p)
    BY <1>1, SomeWords, PlainTuples DEF HostSegs
  <2>2. ASSUME NEW a, Takes(p, a) PROVE key = KeyFor(method, a) /\ a[2] \notin {"workspace", "kv"} /\ Len(a) # 1
    <3>1. p \in {<<"admin", "partials", t, f>>, <<"admin", "partials", t, IdParam, "update">>}
      BY <1>1
    <3>2. Len(a) \in 4 .. 6 /\ a[1] = "admin" /\ a[2] = "partials" /\ a[3] = t
      BY <2>2, <3>1, SomeWords, TakenMore
    <3>3. Topic(a) = t /\ Len(a) # 1 /\ a[2] \notin {"workspace", "kv"} /\ a[1] # "api"
      BY <3>2 DEF Topic
    <3>4. KeyFor(method, a) = IF method = "GET" THEN ViewKey(t) ELSE ManageKey(t)
      BY <3>3 DEF KeyFor
    <3> QED
      BY <1>1, <3>3, <3>4
  <2>3. p[1] = "admin"
    BY <1>1
  <2> QED
    BY <1>1, <2>1, <2>2, <2>3, HostsEntry DEF Route
<1>2. /\ Partial(t, "table") = <<"admin", "partials", t, "table">> /\ Partial(t, "create") = <<"admin", "partials", t, "create">>
      /\ Partial(t, IdParam) = <<"admin", "partials", t, IdParam>>
      /\ Partial(t, IdParam) \o <<"update">> = <<"admin", "partials", t, IdParam, "update">>
  <2>1. <<"admin", "partials", t, IdParam>> \o <<"update">> = <<"admin", "partials", t, IdParam, "update">>
    BY PutOne
  <2> QED
    BY <2>1 DEF Partial
<1>3. "table" \in HostSegs /\ "create" \in HostSegs /\ IdParam \in HostSegs
  BY SomeWords DEF HostSegs
<1>4. IsHosts(Table(t, ViewKey(t)))
  BY <1>1, <1>2, <1>3, KeysAreNamed DEF Table
<1>5. IsHosts(Create(t, ManageKey(t)))
  BY <1>1, <1>2, <1>3, KeysAreNamed DEF Create
<1>6. IsHosts(Update(t, ManageKey(t)))
  BY <1>1, <1>2, <1>3, KeysAreNamed DEF Update
<1>7. IsHosts(Delete(t, ManageKey(t)))
  BY <1>1, <1>2, <1>3, KeysAreNamed DEF Delete
<1> QED
  BY <1>4, <1>5, <1>6, <1>7

\* The rest of the administration, one by one.
LEMMA ApisAreHosts ==
  /\ \A e \in MenuApi \cup Governance : IsHosts(e)
  /\ IsHosts(Route("GET", <<"admin", "api", "plugins">>, "admin.plugins.view"))
  /\ IsHosts(Route("GET", <<"admin", "api", "plugins", PluginParam, "pages">>, "admin.plugins.view"))
  /\ IsHosts(Route("GET", <<"admin", "api", "logs">>, "admin.logs.view"))
  /\ IsHosts(Route("GET", <<"admin", "api", "config">>, "admin.config.view"))
  /\ IsHosts(Route("GET", <<"admin", "api", "workspace", "assets">>, "admin.plugins.view"))
<1>1. ASSUME NEW method, NEW t \in HostWords, NEW f \in HostSegs, NEW g \in HostSegs, NEW p, NEW key, key # "none",
             p \in {<<"admin", "api", t>>, <<"admin", "api", t, f>>, <<"admin", "api", t, f, g>>},
             key = IF method = "GET" THEN ViewKey(t) ELSE ManageKey(t)
      PROVE  IsHosts(Route(method, p, key))
  <2>1. IsPlain(p)
    BY <1>1, SomeWords, PlainTuples DEF HostSegs
  <2>2. ASSUME NEW a, Takes(p, a) PROVE key = KeyFor(method, a) /\ a[2] \notin {"workspace", "kv"} /\ Len(a) # 1
    <3>1. Len(a) \in 3 .. 6 /\ a[1] = "admin" /\ a[2] = "api" /\ a[3] = t
      <4>1. "admin" \notin Holders /\ "api" \notin Holders /\ t \notin Holders
        BY SomeWords, Words DEF Holders
      <4>2. Len(p) \in 3 .. 6 /\ p[1] = "admin" /\ p[2] = "api" /\ p[3] = t
        BY <1>1
      <4>3. 1 \in 1 .. Len(p) /\ 2 \in 1 .. Len(p) /\ 3 \in 1 .. Len(p)
        BY <4>2
      <4> QED
        BY <2>2, <4>1, <4>2, <4>3 DEF Takes
    <3>2. Topic(a) = t /\ Len(a) # 1 /\ a[2] \notin {"workspace", "kv"} /\ a[1] # "api"
      BY <3>1 DEF Topic
    <3>3. KeyFor(method, a) = IF method = "GET" THEN ViewKey(t) ELSE ManageKey(t)
      BY <3>2 DEF KeyFor
    <3> QED
      BY <1>1, <3>2, <3>3
  <2>3. p[1] = "admin"
    BY <1>1
  <2> QED
    BY <1>1, <2>1, <2>2, <2>3, HostsEntry DEF Route
<1>2. /\ ViewKey("menu") = "admin.menus.view" /\ ManageKey("menu") = "admin.menus.manage"
      /\ ViewKey("plugins") = "admin.plugins.view" /\ ManageKey("plugins") = "admin.plugins.manage"
      /\ ViewKey("logs") = "admin.logs.view" /\ ViewKey("config") = "admin.config.view"
      /\ ViewKey("workspace") = "admin.plugins.view"
  BY DEF ViewKey, ManageKey
<1>3. {IdParam, PluginParam, "pages", "state", "assets"} \subseteq HostSegs
  BY SomeWords DEF HostSegs
<1>4. \A e \in MenuApi : IsHosts(e)
  <2>1. IsHosts(Route("GET", <<"admin", "api", "menu">>, "admin.menus.view"))
    BY <1>1, <1>2, <1>3, SomeWords
  <2>2. IsHosts(Route("POST", <<"admin", "api", "menu">>, "admin.menus.manage"))
    BY <1>1, <1>2, <1>3, SomeWords
  <2>3. IsHosts(Route("PUT", <<"admin", "api", "menu", IdParam>>, "admin.menus.manage"))
    BY <1>1, <1>2, <1>3, SomeWords
  <2>4. IsHosts(Route("DELETE", <<"admin", "api", "menu", IdParam>>, "admin.menus.manage"))
    BY <1>1, <1>2, <1>3, SomeWords
  <2> QED
    BY <2>1, <2>2, <2>3, <2>4 DEF MenuApi
<1>5. \A e \in Governance : IsHosts(e)
  <2>1. IsHosts(Route("PATCH", <<"admin", "api", "plugins", PluginParam, "state">>, "admin.plugins.manage"))
    BY <1>1, <1>2, <1>3, SomeWords
  <2> QED
    BY <2>1 DEF Governance
<1>6. IsHosts(Route("GET", <<"admin", "api", "plugins">>, "admin.plugins.view"))
  BY <1>1, <1>2, <1>3, SomeWords
<1>7. IsHosts(Route("GET", <<"admin", "api", "plugins", PluginParam, "pages">>, "admin.plugins.view"))
  BY <1>1, <1>2, <1>3, SomeWords
<1>8. IsHosts(Route("GET", <<"admin", "api", "logs">>, "admin.logs.view"))
  BY <1>1, <1>2, <1>3, SomeWords
<1>9. IsHosts(Route("GET", <<"admin", "api", "config">>, "admin.config.view"))
  BY <1>1, <1>2, <1>3, SomeWords
<1>10. IsHosts(Route("GET", <<"admin", "api", "workspace", "assets">>, "admin.plugins.view"))
  BY <1>1, <1>2, <1>3, SomeWords
<1> QED
  BY <1>4, <1>5, <1>6, <1>7, <1>8, <1>9, <1>10

\* The keys of the topics, as the builtins spell them.
LEMMA Keys ==
  /\ ViewKey("users") = "admin.users.view" /\ ManageKey("users") = "admin.users.manage"
  /\ ViewKey("roles") = "admin.roles.view" /\ ManageKey("roles") = "admin.roles.manage"
  /\ ViewKey("permissions") = "admin.permissions.view" /\ ManageKey("permissions") = "admin.permissions.manage"
  /\ ViewKey("menus") = "admin.menus.view" /\ ManageKey("menus") = "admin.menus.manage"
  /\ ViewKey("plugins") = "admin.plugins.view" /\ ViewKey("logs") = "admin.logs.view"
  /\ ViewKey("config") = "admin.config.view"
BY DEF ViewKey, ManageKey

\* The four routes and pages of a kind.
LEMMA KindsAreHosts ==
  ASSUME NEW t \in {"users", "roles", "permissions", "menus", "plugins", "logs", "config"}
  PROVE  /\ IsHosts(Page(<<"admin", t>>, ViewKey(t))) /\ IsHosts(Table(t, ViewKey(t)))
         /\ IsHosts(Create(t, ManageKey(t))) /\ IsHosts(Update(t, ManageKey(t))) /\ IsHosts(Delete(t, ManageKey(t)))
<1>1. t \in HostWords /\ t \notin {"partials", "api", "workspace", "kv"}
  BY SomeWords
<1> QED
  BY <1>1, PagesAreHosts, PartialsAreHosts

\* The entries of each builtin, topic by topic.
LEMMA UsersAreHosts == \A e \in Users : IsHosts(e)
BY KindsAreHosts, Keys DEF Users

\* Those of the roles, with the form of a role's permissions.
LEMMA RolesAreHosts == \A e \in Roles : IsHosts(e)
<1>1. ASSUME NEW method, NEW f \in HostSegs, NEW g, NEW p, NEW key, key # "none",
             \/ p = <<"admin", "partials", "roles", IdParam, f>>
             \/ g \in HostSegs /\ p = <<"admin", "partials", "roles", IdParam, f, g>>,
             key = IF method = "GET" THEN ViewKey("roles") ELSE ManageKey("roles")
      PROVE  IsHosts(Route(method, p, key))
  <2>1. IsPlain(p)
    BY <1>1, SomeWords, PlainTuples DEF HostSegs
  <2>2. ASSUME NEW a, Takes(p, a) PROVE key = KeyFor(method, a) /\ a[2] \notin {"workspace", "kv"} /\ Len(a) # 1
    <3>1. Len(a) \in 5 .. 6 /\ a[1] = "admin" /\ a[2] = "partials" /\ a[3] = "roles"
      <4>1. "admin" \notin Holders /\ "partials" \notin Holders /\ "roles" \notin Holders
        BY SomeWords, Words DEF Holders
      <4>2. Len(p) \in 5 .. 6 /\ p[1] = "admin" /\ p[2] = "partials" /\ p[3] = "roles"
        <5>1. CASE p = <<"admin", "partials", "roles", IdParam, f>>
          BY <5>1
        <5>2. CASE p = <<"admin", "partials", "roles", IdParam, f, g>>
          BY <5>2
        <5> QED
          BY <1>1, <5>1, <5>2
      <4>3. 1 \in 1 .. Len(p) /\ 2 \in 1 .. Len(p) /\ 3 \in 1 .. Len(p)
        BY <4>2
      <4> QED
        BY <2>2, <4>1, <4>2, <4>3 DEF Takes
    <3>2. Topic(a) = "roles" /\ Len(a) # 1 /\ a[2] \notin {"workspace", "kv"} /\ a[1] # "api"
      BY <3>1 DEF Topic
    <3>3. KeyFor(method, a) = IF method = "GET" THEN ViewKey("roles") ELSE ManageKey("roles")
      BY <3>2 DEF KeyFor
    <3> QED
      BY <1>1, <3>2, <3>3
  <2>3. p[1] = "admin"
    BY <1>1
  <2> QED
    BY <1>1, <2>1, <2>2, <2>3, HostsEntry DEF Route
<1>2. /\ Partial("roles", IdParam) \o <<"permissions", "form">> = <<"admin", "partials", "roles", IdParam, "permissions", "form">>
      /\ Partial("roles", IdParam) \o <<"permissions">> = <<"admin", "partials", "roles", IdParam, "permissions">>
  <2>1. /\ <<"admin", "partials", "roles", IdParam>> \o <<"permissions", "form">>
             = <<"admin", "partials", "roles", IdParam, "permissions", "form">>
        /\ <<"admin", "partials", "roles", IdParam>> \o <<"permissions">>
             = <<"admin", "partials", "roles", IdParam, "permissions">>
    BY PutOne, PutTwo
  <2> QED
    BY <2>1 DEF Partial
<1>3. {"permissions", "form"} \subseteq HostSegs
  BY SomeWords DEF HostSegs
<1>4. IsHosts(Route("GET", Partial("roles", IdParam) \o <<"permissions", "form">>, "admin.roles.view"))
  BY <1>1, <1>2, <1>3, Keys
<1>5. IsHosts(Route("POST", Partial("roles", IdParam) \o <<"permissions">>, "admin.roles.manage"))
  BY <1>1, <1>2, <1>3, Keys
<1> QED
  BY <1>4, <1>5, KindsAreHosts, Keys DEF Roles

\* Those of the permissions and of the menu page.
LEMMA PermissionsAreHosts == \A e \in Permissions \cup MenuPage : IsHosts(e)
<1>1. \A e \in Permissions : IsHosts(e)
  BY KindsAreHosts, Keys DEF Permissions
<1>2. \A e \in MenuPage : IsHosts(e)
  BY KindsAreHosts, Keys DEF MenuPage
<1> QED
  BY <1>1, <1>2

\* A page of one plugin, which the workspace shows too.
LEMMA PluginPageIsHosts == IsHosts(Page(<<"admin", "plugins", PluginParam>>, "admin.plugins.view"))
<1>1. IsPlain(<<"admin", "plugins", PluginParam>>)
  BY SomeWords DEF IsPlain, HostSegs
<1>2. ASSUME NEW a, Takes(<<"admin", "plugins", PluginParam>>, a)
      PROVE  "admin.plugins.view" = KeyFor("GET", a) /\ a[2] \notin {"workspace", "kv"} /\ Len(a) # 1
  <2>1. Len(a) = 3 /\ a[1] = "admin" /\ a[2] = "plugins"
    BY <1>2, SomeWords, Taken3
  <2> QED
    BY <2>1, Keys DEF KeyFor, Topic
<1> QED
  BY <1>1, <1>2, HostsEntry DEF Page

\* Those of the plugins, logs and configuration pages.
LEMMA PluginsAreHosts == \A e \in Plugins \cup Logs \cup Config : IsHosts(e)
<1>1. \A e \in Plugins : IsHosts(e)
  BY PluginPageIsHosts, ApisAreHosts, KindsAreHosts, Keys DEF Plugins
<1>2. \A e \in Logs : IsHosts(e)
  BY ApisAreHosts, KindsAreHosts, Keys DEF Logs
<1>3. \A e \in Config : IsHosts(e)
  BY ApisAreHosts, KindsAreHosts, Keys DEF Config
<1> QED
  BY <1>1, <1>2, <1>3

\* Those of the API router: sessions and users.
LEMMA ApiIsHosts ==
  /\ IsHosts(Route("GET", <<"api", "auth", "me">>, "api.auth.me"))
  /\ IsHosts(Route("GET", <<"api", "users">>, "api.users.read"))
  /\ IsHosts(Route("POST", <<"api", "users">>, "api.users.manage"))
<1>1. IsPlain(<<"api", "auth", "me">>) /\ IsPlain(<<"api", "users">>)
  BY SomeWords DEF IsPlain, HostSegs
<1>2. ASSUME NEW a, Takes(<<"api", "auth", "me">>, a)
      PROVE  "api.auth.me" = KeyFor("GET", a) /\ a[2] \notin {"workspace", "kv"} /\ Len(a) # 1
  <2>1. Len(a) = 3 /\ a[1] = "api" /\ a[2] = "auth"
    BY <1>2, SomeWords, Taken3
  <2> QED
    BY <2>1 DEF KeyFor, ApiKey
<1>3. ASSUME NEW a, Takes(<<"api", "users">>, a)
      PROVE  /\ "api.users.read" = KeyFor("GET", a) /\ "api.users.manage" = KeyFor("POST", a)
             /\ a[2] \notin {"workspace", "kv"} /\ Len(a) # 1
  <2>1. Len(a) = 2 /\ a[1] = "api" /\ a[2] = "users"
    BY <1>3, SomeWords, Taken2
  <2> QED
    BY <2>1 DEF KeyFor, ApiKey
<1> QED
  BY <1>1, <1>2, <1>3, HostsEntry DEF Route

DashboardPage  == Page(<<"admin", Gap>>, "admin.dashboard.view")
WorkspaceEntry == Route("GET", <<"admin", "workspace", ModuleStar>>, "none")
DeleteUser     == Route("DELETE", <<"api", "users", "*">>, "api.users.manage")

\* What the host registers.
LEMMA BuiltinCases ==
  ASSUME NEW e \in Builtins
  PROVE  \/ IsHosts(e)
         \/ e \in {DashboardPage, WorkspaceEntry, DeleteUser}
         \/ e.plugin = "host" /\ e.public = TRUE /\ e.key = "none" /\ e.kind = "route"
<1>1. CASE e \in Dashboard
  BY <1>1 DEF Dashboard, DashboardPage
<1>2. CASE e \in Users \cup Roles \cup Permissions \cup MenuPage \cup MenuApi \cup Plugins \cup Governance \cup Logs \cup Config
  BY <1>2, UsersAreHosts, RolesAreHosts, PermissionsAreHosts, PluginsAreHosts, ApisAreHosts
<1>3. CASE e \in Workspace
  BY <1>3, ApisAreHosts DEF Workspace, WorkspaceEntry
<1>4. CASE e \in AdminLogin
  BY <1>4 DEF AdminLogin, Open, Entry
<1>5. CASE e \in Auth
  <2>1. CASE e = Route("GET", <<"api", "auth", "me">>, "api.auth.me")
    BY <2>1, ApiIsHosts
  <2>2. CASE e \in {Open("POST", <<"api", "auth", "login">>), Open("POST", <<"api", "auth", "refresh">>)}
    BY <2>2 DEF Open, Entry
  <2> QED
    BY <1>5, <2>1, <2>2 DEF Auth
<1>6. CASE e \in ApiUsers
  BY <1>6, ApiIsHosts DEF ApiUsers, DeleteUser
<1> QED
  BY <1>1, <1>2, <1>3, <1>4, <1>5, <1>6 DEF Builtins

\* A path whose first two segments are not empty keeps them.
LEMMA TrimmedStart ==
  ASSUME NEW S, NEW s \in Seq(S), Len(s) >= 2, s[1] # Gap, s[2] # Gap
  PROVE  /\ Trimmed(s) \in Seq(S) /\ Len(Trimmed(s)) >= 2 /\ Trimmed(s)[1] = s[1] /\ Trimmed(s)[2] = s[2]
         /\ Len(Trimmed(s)) <= Len(s) /\ \A i \in 1 .. Len(Trimmed(s)) : Trimmed(s)[i] = s[i]
         /\ Trimmed(s)[Len(Trimmed(s))] # Gap
         /\ \A i \in 1 .. Len(s) : i > Len(Trimmed(s)) => s[i] = Gap
<1>1. Len(s) \in Nat /\ 1 \in 1 .. Len(s) /\ 2 \in 1 .. Len(s)
  OBVIOUS
<1>2. PICK a, b \in 1 .. Len(s) :
        /\ s[b] # Gap /\ \A i \in 1 .. Len(s) : s[i] # Gap => a <= i /\ i <= b
        /\ Trimmed(s) = SubSeq(s, a, b)
  BY <1>1, TrimmedShape
<1>3. a = 1 /\ b >= 2
  BY <1>1, <1>2
<1>4. /\ SubSeq(s, 1, b) \in Seq(S) /\ Len(SubSeq(s, 1, b)) = b
      /\ \A i \in 1 .. b : SubSeq(s, 1, b)[i] = s[i]
  BY <1>1, <1>2, <1>3
<1> QED
  BY <1>1, <1>2, <1>3, <1>4

\* The path /admin/ : what matches it and what its binding covers.
LEMMA DashboardPaths ==
  ASSUME NEW S, NEW u \in Seq(S)
  PROVE  /\ Matches(<<"admin", Gap>>, u) => Len(Trimmed(u)) = 1 /\ Trimmed(u)[1] = "admin" /\ Len(u) = 2 /\ u[2] = Gap /\ u[1] = "admin"
         /\ BindingCovers(<<"admin", Gap>>, u) => Len(Trimmed(u)) = 1 /\ Trimmed(u)[1] = "admin"
<1> DEFINE d == <<"admin", Gap>>
<1>1. "admin" # Gap /\ IsLiteral("admin") /\ IsLiteral(Gap) /\ Gap \notin Stars /\ "admin" \notin Stars
      /\ Gap \notin DOMAIN Begins /\ "admin" \notin Params \cup NamedStars
  BY SomeWords, Words DEF IsLiteral
<1>2. d \in Seq({"admin", Gap}) /\ Len(d) = 2 /\ d[1] = "admin" /\ d[2] = Gap
  OBVIOUS
<1>3. ASSUME NEW T, NEW s \in Seq(T), Len(s) = 2, s[1] = "admin", s[2] = Gap
      PROVE  Len(Trimmed(s)) = 1 /\ Trimmed(s)[1] = "admin"
  <2>1. Len(s) \in Nat /\ 1 \in 1 .. Len(s) /\ 2 \in 1 .. Len(s)
    BY <1>3
  <2>2. PICK a, b \in 1 .. Len(s) :
          /\ s[b] # Gap /\ \A i \in 1 .. Len(s) : s[i] # Gap => a <= i /\ i <= b
          /\ Trimmed(s) = SubSeq(s, a, b)
    BY <1>1, <1>3, <2>1, TrimmedShape
  <2>3. a = 1 /\ b = 1
    BY <1>1, <1>3, <2>1, <2>2
  <2>4. Len(SubSeq(s, 1, 1)) = 1 /\ SubSeq(s, 1, 1)[1] = s[1]
    BY <2>1
  <2> QED
    BY <1>3, <2>2, <2>3, <2>4
<1>4. ASSUME Matches(d, u) PROVE Len(u) = 2 /\ u[1] = "admin" /\ u[2] = Gap
  <2>1. PICK n \in 0 .. Len(u) : FitsUpTo(d, u, n)
    BY <1>4 DEF Matches
  <2>2. ~(n < Len(d) /\ d[n + 1] \in Stars)
    <3>1. Len(u) \in Nat
      OBVIOUS
    <3> QED
      BY <1>1, <1>2, <3>1
  <2>3. Len(u) = 2 /\ \A i \in 1 .. 2 : Fits(d[i], u[i])
    BY <1>2, <2>1, <2>2 DEF FitsUpTo
  <2>4. Fits(d[1], u[1]) /\ Fits(d[2], u[2])
    BY <2>3
  <2> QED
    BY <1>1, <1>2, <2>3, <2>4 DEF Fits
<1>5. ASSUME BindingCovers(d, u) PROVE Len(Trimmed(u)) = 1 /\ Trimmed(u)[1] = "admin"
  <2>1. Len(Trimmed(d)) = 1 /\ Trimmed(d)[1] = "admin"
    BY <1>2, <1>3
  <2>2. d[Len(d)] \notin DOMAIN Begins
    BY <1>1, <1>2
  <2>3. /\ Len(Trimmed(d)) = Len(Trimmed(u))
        /\ \A i \in 1 .. Len(Trimmed(d)) : Trimmed(d)[i] = Trimmed(u)[i] \/ Trimmed(d)[i] \in BindingParams
    BY <1>5, <2>2, Zenon DEF BindingCovers
  <2> HIDE DEF d
  <2>4. 1 \in 1 .. Len(Trimmed(d))
    BY <2>1
  <2>5. "admin" \notin BindingParams
    BY <1>1, WordsAssumption, RoutingAssumption DEF BindingParams, HostWords
  <2> QED
    BY <1>1, <2>1, <2>3, <2>4, <2>5
<1> HIDE DEF d
<1>6. Matches(d, u) => Len(Trimmed(u)) = 1 /\ Trimmed(u)[1] = "admin" /\ Len(u) = 2 /\ u[2] = Gap /\ u[1] = "admin"
  BY <1>3, <1>4
<1> QED
  BY <1>5, <1>6 DEF d

\* A pattern of two words and a star takes every path that begins with them.
LEMMA StarPaths ==
  ASSUME NEW S, NEW u \in Seq(S), NEW a \in HostWords, NEW b \in HostWords, NEW c \in Stars, Matches(<<a, b, c>>, u)
  PROVE  Len(u) >= 2 /\ u[1] = a /\ u[2] = b
<1> DEFINE d == <<a, b, c>>
<1>1. Len(d) = 3 /\ d[1] = a /\ d[2] = b /\ d[3] = c /\ Len(u) \in Nat
  OBVIOUS
<1>2. IsLiteral(a) /\ IsLiteral(b) /\ ~IsLiteral(c) /\ a \notin Stars /\ b \notin Stars /\ c \notin Params
  BY Words, RoutingAssumption DEF IsLiteral
<1>3. PICK n \in 0 .. Len(u) : FitsUpTo(d, u, n)
  BY DEF Matches
<1> HIDE DEF d
<1>4. n >= 2
  BY <1>1, <1>2, <1>3 DEF FitsUpTo
<1>5. Fits(d[1], u[1]) /\ Fits(d[2], u[2]) /\ Len(u) >= 2
  BY <1>1, <1>3, <1>4 DEF FitsUpTo
<1> QED
  BY <1>1, <1>2, <1>5 DEF Fits

\* What the path of a builtin needs is the key of the builtin.
LEMMA BuiltinNeeds ==
  ASSUME NEW e \in Builtins, e.public # TRUE, e # WorkspaceEntry, NEW S, NEW u \in Seq(S), Matches(e.path, u)
  PROVE  e.key = KeyFor(e.method, Trimmed(u)) /\ (Len(Trimmed(u)) = 1 \/ Trimmed(u)[2] # "workspace")
<1>1. CASE IsHosts(e)
  <2>1. Takes(e.path, u) /\ Trimmed(u) = u
    BY <1>1, PlainMatches DEF IsHosts
  <2> QED
    BY <1>1, <2>1 DEF IsHosts
<1>2. CASE e = DashboardPage
  <2>1. e.path = <<"admin", Gap>> /\ e.key = "admin.dashboard.view"
    BY <1>2 DEF DashboardPage, Page, Entry
  <2>2. Len(Trimmed(u)) = 1
    BY <2>1, DashboardPaths
  <2> QED
    BY <2>1, <2>2 DEF KeyFor
<1>3. CASE e = DeleteUser
  <2>1. e.path = <<"api", "users", "*">> /\ e.key = "api.users.manage" /\ e.method = "DELETE"
    BY <1>3 DEF DeleteUser, Route, Entry
  <2>2. "*" \in Stars
    BY WordsAssumption, RoutingAssumption
  <2>3. Len(u) >= 2 /\ u[1] = "api" /\ u[2] = "users"
    BY <2>1, <2>2, SomeWords, StarPaths
  <2>4. "api" # Gap /\ "users" # Gap
    BY SomeWords, Words
  <2>5. Len(Trimmed(u)) >= 2 /\ Trimmed(u)[1] = "api" /\ Trimmed(u)[2] = "users"
    BY <2>3, <2>4, TrimmedStart
  <2>6. Trimmed(u) \in Seq(S)
    BY <2>3, <2>4, TrimmedStart
  <2>7. Len(Trimmed(u)) # 1
    BY <2>5, <2>6
  <2> QED
    BY <2>1, <2>5, <2>7 DEF KeyFor, ApiKey
<1> QED
  BY <1>1, <1>2, <1>3, BuiltinCases

\* A binding of the host that is none of the dashboard's or of a module of the
\* workspace: what it takes needs its key.
IsHostsBinding(b) ==
  IsPlain(b.path) /\ \A a : Takes(b.path, a) => b.key = KeyFor(b.method, a) /\ a[2] # "workspace" /\ Len(a) # 1

ModuleBinding(m) ==
  [surface |-> "admin", method |-> "GET", path |-> <<"admin", "workspace", m>>, key |-> WorkspaceKey[m]]
PluginModuleBinding ==
  [surface |-> "admin", method |-> "GET", path |-> <<"admin", "workspace", "plugins", PluginParam>>,
   key |-> "admin.plugins.view"]
DeleteUserBinding ==
  [surface |-> "api", method |-> "DELETE", path |-> <<"api", "users", IdParam>>, key |-> "api.users.manage"]

\* A seeded binding is a builtin's or one of the four the migration adds.
LEMMA SeedsAreThese ==
  ASSUME NEW b \in SeedBindings
  PROVE  \/ \E e \in Builtins : b = BindingOf(e) /\ e.key # "none" /\ ~(e.method = "DELETE" /\ e.surface = "api")
         \/ b = DeleteUserBinding \/ b = PluginModuleBinding
         \/ \E m \in DOMAIN WorkspaceKey : b = ModuleBinding(m)
BY DEF SeedBindings, DeleteUserBinding, PluginModuleBinding, ModuleBinding

\* Told apart by shape: all but the dashboard's and the workspace's are plain.
LEMMA SeedCases ==
  ASSUME NEW b \in SeedBindings
  PROVE  \/ IsHostsBinding(b) \/ b = BindingOf(DashboardPage) \/ b = PluginModuleBinding
         \/ \E m \in DOMAIN WorkspaceKey : b = ModuleBinding(m)
<1>1. ASSUME NEW e \in Builtins, b = BindingOf(e), e.key # "none", ~(e.method = "DELETE" /\ e.surface = "api")
      PROVE  IsHostsBinding(b) \/ b = BindingOf(DashboardPage)
  <2>1. CASE IsHosts(e)
    <3>1. b.path = e.path /\ b.key = e.key /\ b.method = e.method
      BY <1>1 DEF BindingOf
    <3> QED
      BY <2>1, <3>1 DEF IsHosts, IsHostsBinding
  <2>2. e # WorkspaceEntry
    BY <1>1 DEF WorkspaceEntry, Route, Entry
  <2>3. e # DeleteUser
    <3>1. DeleteUser.method = "DELETE" /\ DeleteUser.surface = SurfaceOf(<<"api", "users", "*">>)
      BY DEF DeleteUser, Route, Entry
    <3>2. SurfaceOf(<<"api", "users", "*">>) = "api"
      BY DEF SurfaceOf
    <3> QED
      BY <1>1, <3>1, <3>2
  <2> QED
    BY <1>1, <2>1, <2>2, <2>3, BuiltinCases
<1>2. ASSUME b = DeleteUserBinding PROVE IsHostsBinding(b)
  <2>1. b.path = <<"api", "users", IdParam>> /\ b.key = "api.users.manage" /\ b.method = "DELETE"
    BY <1>2 DEF DeleteUserBinding
  <2>2. IsPlain(<<"api", "users", IdParam>>)
    BY SomeWords DEF IsPlain, HostSegs
  <2>3. ASSUME NEW a, Takes(<<"api", "users", IdParam>>, a)
        PROVE  "api.users.manage" = KeyFor("DELETE", a) /\ a[2] # "workspace" /\ Len(a) # 1
    <3>1. Len(a) = 3 /\ a[1] = "api" /\ a[2] = "users"
      BY <2>3, SomeWords, Taken3
    <3> QED
      BY <3>1 DEF KeyFor, ApiKey
  <2> QED
    BY <2>1, <2>2, <2>3 DEF IsHostsBinding
<1> QED
  BY <1>1, <1>2, SeedsAreThese

\* The modules of the workspace are words.
LEMMA Modules ==
  /\ \A m \in DOMAIN WorkspaceKey : m \in HostWords
  /\ \A m \in DOMAIN WorkspaceKey : m = "dashboard" => WorkspaceKey[m] = "admin.dashboard.view"
  /\ \A m \in {"users", "roles", "permissions", "plugins", "config", "logs", "menus"} :
       m \in DOMAIN WorkspaceKey /\ WorkspaceKey[m] = ViewKey(m)
  /\ "dashboard" \in DOMAIN WorkspaceKey
BY DEF WorkspaceKey, HostWords, ViewKey

\* A path that a binding of the host covers needs the key of the binding, unless
\* it is in the workspace.
LEMMA SeedNeeds ==
  ASSUME NEW b \in SeedBindings, NEW S, NEW u \in Seq(S), BindingCovers(b.path, u)
  PROVE  LET a == Trimmed(u)
         IN  \/ b.key = KeyFor(b.method, a) /\ (Len(a) = 1 \/ a[2] # "workspace")
             \/ Len(a) = 3 /\ a[2] = "workspace" /\ a[3] \in DOMAIN WorkspaceKey /\ b.key = WorkspaceKey[a[3]]
             \/ Len(a) = 4 /\ a[2] = "workspace" /\ a[3] = "plugins" /\ b.key = "admin.plugins.view"
<1> DEFINE a == Trimmed(u)
<1>1. CASE IsHostsBinding(b)
  <2>1. Takes(b.path, a)
    BY <1>1, PlainCovers DEF IsHostsBinding
  <2> QED
    BY <1>1, <2>1 DEF IsHostsBinding
<1>2. CASE b = BindingOf(DashboardPage)
  <2>1. b.path = <<"admin", Gap>> /\ b.key = "admin.dashboard.view"
    BY <1>2 DEF DashboardPage, Page, Entry, BindingOf
  <2>2. Len(a) = 1
    BY <2>1, DashboardPaths
  <2> QED
    BY <2>1, <2>2 DEF KeyFor
<1>3. CASE b = PluginModuleBinding
  <2>1. b.path = <<"admin", "workspace", "plugins", PluginParam>> /\ b.key = "admin.plugins.view"
    BY <1>3 DEF PluginModuleBinding
  <2>2. IsPlain(b.path)
    BY <2>1, SomeWords DEF IsPlain, HostSegs
  <2>3. Takes(b.path, a)
    BY <2>2, PlainCovers
  <2>4. "workspace" \notin Holders /\ "plugins" \notin Holders
    BY SomeWords, Words DEF Holders
  <2>5. Len(a) = 4 /\ a[2] = "workspace" /\ a[3] = "plugins"
    BY <2>1, <2>3, <2>4 DEF Takes
  <2> QED
    BY <2>1, <2>5
<1>4. ASSUME NEW m \in DOMAIN WorkspaceKey, b = ModuleBinding(m)
      PROVE  Len(a) = 3 /\ a[2] = "workspace" /\ a[3] \in DOMAIN WorkspaceKey /\ b.key = WorkspaceKey[a[3]]
  <2>1. b.path = <<"admin", "workspace", m>> /\ b.key = WorkspaceKey[m]
    BY <1>4 DEF ModuleBinding
  <2>2. m \in HostWords
    BY Modules
  <2>3. IsPlain(b.path)
    BY <2>1, <2>2, SomeWords DEF IsPlain, HostSegs
  <2>4. Takes(b.path, a)
    BY <2>3, PlainCovers
  <2>5. "workspace" \notin Holders /\ m \notin Holders
    BY <2>2, SomeWords, Words DEF Holders
  <2>6. Len(a) = 3 /\ a[2] = "workspace" /\ a[3] = m
    BY <2>1, <2>4, <2>5 DEF Takes
  <2> QED
    BY <2>1, <2>6
<1> QED
  BY <1>1, <1>2, <1>3, <1>4, SeedCases

-------------------------------------------------------------------------------
(* What the host reserves, and the plugin's bindings.                        *)

\* Reserving plain paths reserves plain paths.
LEMMA PlainSets ==
  ASSUME NEW s, NEW m, NEW P, \A p \in P : IsPlain(p)
  PROVE  \A r \in Reserve(s, m, P) : IsPlain(r.path)
BY DEF Reserve

ReservedShape(r) ==
  \/ IsPlain(r.path)
  \/ r.path = <<Gap>>
  \/ r.path = <<"admin", Gap>> /\ r.surface = "admin" /\ r.method = "GET"
  \/ r.path = <<"admin", "workspace", ModuleStar>>

\* Words that only reserved paths have.
LEMMA MoreWords ==
  /\ "favicon.ico" \in HostWords /\ "favicon.svg" \in HostWords /\ "index.html" \in HostWords
  /\ \A w \in HostWords \cup Holders : w \in HostSegs
BY DEF HostWords, HostSegs

\* What is reserved is plain but for the root, the dashboard and the workspace:
\* first the API surface,
LEMMA ReservedApiShape == \A r \in ReservedApi : ReservedShape(r)
<1>1. /\ IsPlain(<<"favicon.ico">>) /\ IsPlain(<<"favicon.svg">>) /\ IsPlain(<<"index.html">>)
      /\ IsPlain(<<"admin-login">>) /\ IsPlain(<<"api", "auth", "me">>) /\ IsPlain(<<"api", "users">>)
  BY SomeWords, MoreWords DEF IsPlain
<1>2. IsPlain(<<"api", "auth", "login">>) /\ IsPlain(<<"api", "auth", "refresh">>) /\ IsPlain(<<"api", "users", IdParam>>)
  BY SomeWords, MoreWords DEF IsPlain
<1> QED
  BY <1>1, <1>2 DEF ReservedApi, Reserve, ReservedShape

\* then the pages,
LEMMA ReservedPagesShape == \A r \in ReservedPages : ReservedShape(r)
<1> DEFINE P == {<<"admin">>, <<"admin", Gap>>, <<"admin", "workspace", ModuleStar>>, <<"admin", "plugins", PluginParam>>}
           Q == {"plugins", "users", "roles", "permissions", "config", "logs", "menus"}
           R == {"config", "logs", "menu", "plugins"}
           T == {<<"admin", "api", "workspace", "assets">>, <<"admin", "api", "plugins", PluginParam, "pages">>}
<1>1. \A p \in P : IsPlain(p) \/ p = <<"admin", Gap>> \/ p = <<"admin", "workspace", ModuleStar>>
  <2>1. IsPlain(<<"admin">>) /\ IsPlain(<<"admin", "plugins", PluginParam>>)
    BY SomeWords, MoreWords DEF IsPlain
  <2> QED
    BY <2>1
<1>2. \A q \in HostWords : IsPlain(<<"admin", q>>) /\ IsPlain(<<"admin", "api", q>>)
  BY SomeWords, MoreWords DEF IsPlain
<1>3. \A p \in T : IsPlain(p)
  <2>1. IsPlain(<<"admin", "api", "workspace", "assets">>) /\ IsPlain(<<"admin", "api", "plugins", PluginParam, "pages">>)
    BY SomeWords, MoreWords DEF IsPlain
  <2> QED
    BY <2>1
<1>4. Q \subseteq HostWords /\ R \subseteq HostWords
  BY SomeWords
<1>5. ReservedPages = Reserve("admin", "GET", P \cup {<<"admin", p>> : p \in Q} \cup {<<"admin", "api", p>> : p \in R} \cup T)
  BY DEF ReservedPages
<1> HIDE DEF P, Q, R, T
<1> SUFFICES ASSUME NEW r \in ReservedPages PROVE ReservedShape(r)
  OBVIOUS
<1>6. /\ r.surface = "admin" /\ r.method = "GET"
      /\ r.path \in P \cup {<<"admin", p>> : p \in Q} \cup {<<"admin", "api", p>> : p \in R} \cup T
  BY <1>5 DEF Reserve
<1>7. CASE r.path \in P
  BY <1>1, <1>6, <1>7 DEF ReservedShape
<1>8. CASE \E p \in HostWords : r.path = <<"admin", p>> \/ r.path = <<"admin", "api", p>>
  BY <1>2, <1>8 DEF ReservedShape
<1>9. CASE r.path \in T
  BY <1>3, <1>9 DEF ReservedShape
<1> QED
  BY <1>4, <1>6, <1>7, <1>8, <1>9

\* then the partials,
LEMMA ReservedPartialsShape == \A r \in ReservedPartials : ReservedShape(r)
<1>1. \A q \in HostWords : /\ IsPlain(Partial(q, "table")) /\ IsPlain(Partial(q, "create")) /\ IsPlain(Partial(q, IdParam))
                           /\ IsPlain(Partial(q, IdParam) \o <<"update">>)
  <2> SUFFICES ASSUME NEW q \in HostWords
               PROVE  /\ IsPlain(Partial(q, "table")) /\ IsPlain(Partial(q, "create")) /\ IsPlain(Partial(q, IdParam))
                      /\ IsPlain(Partial(q, IdParam) \o <<"update">>)
    OBVIOUS
  <2>1. Partial(q, IdParam) \o <<"update">> = <<"admin", "partials", q, IdParam, "update">>
    BY PutOne DEF Partial
  <2>2. IsPlain(Partial(q, "table")) /\ IsPlain(Partial(q, "create")) /\ IsPlain(Partial(q, IdParam))
    BY SomeWords, MoreWords DEF IsPlain, Partial
  <2>3. IsPlain(<<"admin", "partials", q, IdParam, "update">>)
    BY SomeWords, MoreWords DEF IsPlain
  <2> QED
    BY <2>1, <2>2, <2>3
<1>2. /\ IsPlain(Partial("roles", IdParam) \o <<"permissions", "form">>)
      /\ IsPlain(Partial("roles", IdParam) \o <<"permissions">>)
  <2>1. /\ <<"admin", "partials", "roles", IdParam>> \o <<"permissions", "form">>
             = <<"admin", "partials", "roles", IdParam, "permissions", "form">>
        /\ <<"admin", "partials", "roles", IdParam>> \o <<"permissions">>
             = <<"admin", "partials", "roles", IdParam, "permissions">>
    BY PutOne, PutTwo
  <2>2. /\ IsPlain(<<"admin", "partials", "roles", IdParam, "permissions", "form">>)
        /\ IsPlain(<<"admin", "partials", "roles", IdParam, "permissions">>)
    BY SomeWords, MoreWords DEF IsPlain
  <2> QED
    BY <2>1, <2>2 DEF Partial
<1>3. \A t \in {"users", "roles", "permissions", "plugins", "menus"} : t \in HostWords
  BY SomeWords
<1>4. \A r \in ReservedPartials : IsPlain(r.path)
  <2> DEFINE P == {Partial(p, "table") : p \in {"users", "roles", "permissions", "plugins", "menus"}} \cup
                    {Partial("roles", IdParam) \o <<"permissions", "form">>}
             Q == {Partial(p, "create") : p \in {"users", "roles", "permissions", "menus"}} \cup
                    {Partial(p, IdParam) \o <<"update">> : p \in {"roles", "permissions", "menus"}} \cup
                    {Partial("roles", IdParam) \o <<"permissions">>}
             R == {Partial(p, IdParam) : p \in {"users", "roles", "permissions", "menus"}}
  <2>1. (\A p \in P : IsPlain(p)) /\ (\A p \in Q : IsPlain(p)) /\ \A p \in R : IsPlain(p)
    BY <1>1, <1>2, <1>3
  <2>2. ReservedPartials = Reserve("admin", "GET", P) \cup Reserve("admin", "POST", Q) \cup Reserve("admin", "DELETE", R)
    BY DEF ReservedPartials
  <2> HIDE DEF P, Q, R
  <2> QED
    BY <2>1, <2>2, PlainSets
<1> QED
  BY <1>4 DEF ReservedShape

\* then the rest of the admin surface,
LEMMA ReservedActionsShape == \A r \in ReservedActions : ReservedShape(r)
<1>1. /\ IsPlain(<<"admin", "api", "menu">>) /\ IsPlain(<<"admin", "api", "menu", IdParam>>)
      /\ IsPlain(<<"admin", "api", "plugins", PluginParam, "state">>)
  BY SomeWords, MoreWords DEF IsPlain
<1> QED
  BY <1>1 DEF ReservedActions, Reserve, ReservedShape

\* and so all of it.
LEMMA ReservedShapes == \A r \in Reserved : ReservedShape(r)
BY ReservedApiShape, ReservedPagesShape, ReservedPartialsShape, ReservedActionsShape DEF Reserved

\* The reserved routes the workspace and the dashboard rest on.
LEMMA ReservedHas ==
  /\ [surface |-> "admin", method |-> "GET", path |-> <<"admin">>] \in Reserved
  /\ [surface |-> "admin", method |-> "GET", path |-> <<"admin", "workspace", ModuleStar>>] \in Reserved
  /\ [surface |-> "admin", method |-> "GET", path |-> <<"admin", "plugins", PluginParam>>] \in Reserved
BY DEF Reserved, ReservedPages, Reserve

\* A binding that is not wide and covers a reserved path is of a pattern that
\* overlaps a reserved one.
LEMMA CoveringIsReserved ==
  ASSUME NEW r \in Reserved, NEW S, NEW u \in Seq(S), Matches(r.path, u),
         NEW p \in Seq(S), p # <<>>, p[Len(p)] \notin DOMAIN Begins \ Stars, Trimmed(p) = p, BindingCovers(p, u)
  PROVE  Reserves(r.surface, r.method, p)
<1> DEFINE q == r.path
<1>0. Len(p) \in Nat /\ Len(u) \in Nat /\ Len(p) # 0 /\ Len(p) \in 1 .. Len(p)
  OBVIOUS
<1>1. Len(q) \in Nat
  <2>1. CASE IsPlain(q)
    BY <2>1 DEF IsPlain
  <2> QED
    BY <2>1, ReservedShapes DEF ReservedShape
<1>2. PICK m \in 0 .. Len(u) : FitsUpTo(q, u, m)
  BY DEF Matches
<1>3. /\ m \in Nat /\ m <= Len(q) /\ m <= Len(u) /\ \A i \in 1 .. m : Fits(q[i], u[i])
      /\ (m = Len(q) /\ m = Len(u)) \/ (m < Len(q) /\ q[m + 1] \in Stars)
  BY <1>0, <1>1, <1>2 DEF FitsUpTo
<1>4. CASE p[Len(p)] \in DOMAIN Begins
  <2>1. p[Len(p)] \in Stars
    BY <1>4
  <2>2. Len(p) <= Len(u) /\ \A i \in 1 .. Len(p) - 1 : p[i] = u[i]
    BY <1>4 DEF BindingCovers, PrefixCovers
  <2>3. \A i \in 1 .. Len(p) : p[i] \in Params \cup Stars \/ p[i] = u[i]
    BY <1>0, <2>1, <2>2
  <2>4. \A i \in 1 .. m : i <= Len(p) /\ q[i] = Gap => p[i] \in Stars \/ p[i] = u[i]
    BY <1>0, <2>1, <2>2
  <2>5. Len(p) \in 1 .. Len(u)
    BY <1>0, <2>2
  <2>6. Overlap(p, q)
    BY <1>0, <1>1, <1>3, <2>1, <2>3, <2>4, <2>5, CoveredOverlaps
  <2> QED
    BY <2>6 DEF Reserves
<1>5. CASE p[Len(p)] \notin DOMAIN Begins
  <2> DEFINE a == Trimmed(u)
  <2>1. Len(p) = Len(a) /\ \A i \in 1 .. Len(p) : p[i] = a[i] \/ p[i] \in BindingParams
    BY <1>5, Zenon DEF BindingCovers
  <2>2. \A i \in 1 .. Len(p) : p[i] \in Params \cup Stars \/ p[i] = a[i]
    BY <2>1, RoutingAssumption, Words
  <2>3. CASE IsPlain(q)
    <3>1. a = u /\ Len(u) = Len(q) /\ (\A i \in 1 .. Len(u) : u[i] # Gap)
      BY <2>3, PlainMatches DEF Takes
    <3>2. \A i \in 1 .. m : q[i] # Gap
      <4>1. \A i \in 1 .. Len(q) : q[i] \in HostSegs
        BY <2>3 DEF IsPlain
      <4>2. \A w \in HostSegs : w # Gap
        BY Words DEF HostSegs, Holders
      <4> QED
        BY <1>1, <1>3, <4>1, <4>2
    <3>3. Len(p) = Len(u)
      BY <2>1, <3>1
    <3>4. Overlap(p, q)
      BY <1>0, <1>1, <1>3, <2>2, <3>1, <3>2, <3>3, CoveredOverlaps
    <3> QED
      BY <3>4 DEF Reserves
  <2>4. CASE q = <<Gap>>
    <3>1. Len(q) = 1 /\ q[1] = Gap /\ Gap \notin Stars /\ IsLiteral(Gap)
      BY <2>4, Words DEF IsLiteral
    <3> HIDE DEF q
    <3>a. m = 1 /\ Len(u) = 1
      <4>1. m # 0
        <5> SUFFICES ASSUME m = 0 PROVE FALSE
          OBVIOUS
        <5>1. q[m + 1] = q[1]
          OBVIOUS
        <5> QED
          BY <1>3, <3>1, <5>1
      <4>2. m = 1
        BY <1>3, <3>1, <4>1
      <4>3. ~(m < Len(q))
        BY <3>1, <4>2
      <4> QED
        BY <1>3, <4>2, <4>3
    <3>2. Len(u) = 1 /\ Fits(q[1], u[1])
      BY <1>3, <3>a
    <3>3. u[1] = Gap
      BY <3>1, <3>2 DEF Fits
    <3>4. Trimmed(u) = <<>>
      <4>1. ~\E x \in 1 .. Len(u) : u[x] # Gap
        BY <3>2, <3>3
      <4> QED
        BY <4>1, TrimmedShape
    <3> QED
      BY <1>0, <2>1, <3>4
  <2>5. CASE q = <<"admin", Gap>> /\ r.surface = "admin" /\ r.method = "GET"
    <3> DEFINE q2 == <<"admin">>
    <3>1. Len(a) = 1 /\ a[1] = "admin"
      BY <2>5, DashboardPaths
    <3>2. Len(q2) = 1 /\ q2[1] = "admin" /\ "admin" # Gap /\ IsLiteral("admin")
      BY SomeWords, Words DEF IsLiteral
    <3>3. Fits(q2[1], a[1])
      BY <3>1, <3>2 DEF Fits
    <3> HIDE DEF q2, a
    <3>4. (\A i \in 1 .. 1 : Fits(q2[i], a[i])) /\ \A i \in 1 .. 1 : q2[i] # Gap
      BY <3>2, <3>3
    <3>a. /\ \A i \in 1 .. 1 : i <= Len(p) /\ q2[i] = Gap => p[i] \in Stars \/ p[i] = a[i]
          /\ 1 \in Nat /\ Len(q2) \in Nat /\ Len(a) \in Nat /\ Len(p) = Len(a) /\ 1 <= Len(q2) /\ 1 <= Len(a)
          /\ 1 = Len(q2) /\ 1 = Len(a)
      BY <2>1, <3>1, <3>2, <3>4
    <3>5. Overlap(p, q2)
      BY <1>0, <2>2, <3>4, <3>a, CoveredOverlaps
    <3> QED
      BY <2>5, <3>5, ReservedHas DEF Reserves, q2
  <2>6. CASE q = <<"admin", "workspace", ModuleStar>>
    <3>1. /\ Len(q) = 3 /\ q[1] = "admin" /\ q[2] = "workspace" /\ q[3] = ModuleStar
          /\ ModuleStar \in Stars
      BY <2>6, WordsAssumption, RoutingAssumption
    <3>2. "admin" # Gap /\ "workspace" # Gap /\ IsLiteral("admin") /\ IsLiteral("workspace")
      BY SomeWords, Words DEF IsLiteral
    <3>3. Len(u) >= 2 /\ u[1] = "admin" /\ u[2] = "workspace"
      BY <2>6, <3>1, SomeWords, StarPaths
    <3>4. Len(a) \in Nat /\ Len(a) >= 2 /\ a[1] = "admin" /\ a[2] = "workspace"
      BY <3>2, <3>3, TrimmedStart
    <3>5. Fits(q[1], a[1]) /\ Fits(q[2], a[2])
      BY <3>1, <3>2, <3>4 DEF Fits
    <3> HIDE DEF q, a
    <3>6. (\A i \in 1 .. 2 : Fits(q[i], a[i])) /\ \A i \in 1 .. 2 : q[i] # Gap
      BY <3>1, <3>2, <3>5
    <3>a. /\ \A i \in 1 .. 2 : i <= Len(p) /\ q[i] = Gap => p[i] \in Stars \/ p[i] = a[i]
          /\ 2 \in Nat /\ Len(p) = Len(a) /\ 2 <= Len(q) /\ 2 <= Len(a) /\ 2 < Len(q) /\ q[2 + 1] \in Stars
      BY <2>1, <3>1, <3>4, <3>6
    <3>7. Overlap(p, q)
      BY <1>0, <1>1, <2>2, <3>4, <3>6, <3>a, CoveredOverlaps
    <3> QED
      BY <3>7 DEF Reserves, q
  <2> QED
    BY <2>3, <2>4, <2>5, <2>6, ReservedShapes DEF ReservedShape
<1> QED
  BY <1>4, <1>5

-------------------------------------------------------------------------------
(* Who may be let in by a snapshot of the authorizer, whenever it was taken.  *)

AnyRows == UNION {Rows(C) : C \in Contracts}
CanLetIn(u) == CoveringKeys(SeedBindings \cup AnyRows, u.surface, u.method, u.path)

\* What a contract holds.
LEMMA ContractEntries ==
  ASSUME NEW C \in Contracts, NEW f \in C
  PROVE  /\ f.plugin = "self" /\ IsPath(f.path) /\ f.kind \in {"page", "route"}
         /\ f.kind = "page" => f.method = "GET" /\ f.surface = "admin"
         /\ ~Reserves(f.surface, f.method, f.path)
<1>1. IsOwn(f) /\ Accepted(f)
  BY RequestsAssumption DEF Contracts
<1>2. f = Entry("self", f.kind, f.method, f.path, f.key, f.public)
  BY <1>1 DEF IsOwn
<1>3. f.plugin = "self" /\ (f.kind = "page" => f.surface = "admin")
  BY <1>2 DEF Entry
<1>4. IsPath(f.path) /\ f.kind \in {"page", "route"} /\ (f.kind = "page" => f.method = "GET")
  BY <1>1 DEF IsOwn
<1>5. ~Reserves(f.surface, f.method, f.path)
  BY <1>1, <1>3, <1>4 DEF Accepted, PageRefused, RouteRefused
<1> QED
  BY <1>3, <1>4, <1>5

\* On a reserved path it is a seeded binding, or a wide one.
LEMMA LetInOnReserved ==
  ASSUME NEW u, IsPath(u.path), IsReserved(u), NEW k \in CanLetIn(u)
  PROVE  \/ k \in WideKeys(u)
         \/ \E b \in SeedBindings : b.key = k /\ b.method = u.method /\ BindingCovers(b.path, u.path)
<1>1. PICK b \in SeedBindings \cup AnyRows :
        b.key = k /\ b.surface = u.surface /\ b.method = u.method /\ BindingCovers(b.path, u.path)
  BY DEF CanLetIn, CoveringKeys
<1>2. CASE b \in AnyRows
  <2>1. PICK C \in Contracts : b \in Rows(C)
    BY <1>2 DEF AnyRows
  <2>2. PICK f \in C : b = BindingOf(f)
    BY <2>1 DEF Rows
  <2>3. b.path = f.path /\ b.surface = f.surface /\ b.method = f.method /\ b.key = f.key
    BY <2>2 DEF BindingOf
  <2>4. IsWide(f)
    <3> SUFFICES ASSUME ~IsWide(f) PROVE FALSE
      OBVIOUS
    <3>1. PICK r \in Reserved : r.surface = u.surface /\ r.method = u.method /\ Matches(r.path, u.path)
      BY DEF IsReserved
    <3>2. f.path \in Seq(Segments) /\ f.path # <<>> /\ u.path \in Seq(Segments)
      BY ContractEntries DEF IsPath
    <3>3. f.path[Len(f.path)] \notin DOMAIN Begins \ Stars /\ Trimmed(f.path) = f.path
      BY DEF IsWide
    <3>4. BindingCovers(f.path, u.path)
      BY <1>1, <2>3
    <3>5. Reserves(r.surface, r.method, f.path)
      BY <3>1, <3>2, <3>3, <3>4, CoveringIsReserved
    <3> QED
      BY <1>1, <2>3, <3>1, <3>5, ContractEntries
  <2>5. f \in {g \in UNION Contracts : IsWide(g)}
    BY <2>4
  <2>6. b \in {BindingOf(e) : e \in {g \in UNION Contracts : IsWide(g)}}
    BY <2>2, <2>5
  <2>7. k \in WideKeys(u)
    BY <1>1, <2>6 DEF WideKeys, CoveringKeys
  <2> QED
    BY <2>7
<1> QED
  BY <1>1, <1>2

\* A builtin that serves a reserved path: whoever is let in holds its key, or
\* that of a wide binding.
LEMMA BuiltinKept ==
  ASSUME NEW u, IsPath(u.path), IsReserved(u), NEW k \in CanLetIn(u),
         NEW e \in Builtins, e.public # TRUE, e # WorkspaceEntry, Matches(e.path, u.path), e.method = u.method
  PROVE  k = e.key \/ k \in WideKeys(u)
<1> SUFFICES ASSUME k \notin WideKeys(u) PROVE k = e.key
  OBVIOUS
<1>1. PICK b \in SeedBindings : b.key = k /\ b.method = u.method /\ BindingCovers(b.path, u.path)
  BY LetInOnReserved
<1> DEFINE a == Trimmed(u.path)
<1>2. u.path \in Seq(Segments)
  BY DEF IsPath
<1>3. e.key = KeyFor(e.method, a) /\ (Len(a) = 1 \/ a[2] # "workspace")
  BY <1>2, BuiltinNeeds
<1>4. \/ b.key = KeyFor(b.method, a)
      \/ Len(a) = 3 /\ a[2] = "workspace"
      \/ Len(a) = 4 /\ a[2] = "workspace"
  BY <1>1, <1>2, SeedNeeds
<1> HIDE DEF a
<1>5. b.key = KeyFor(b.method, a)
  BY <1>3, <1>4
<1> QED
  BY <1>1, <1>3, <1>5

-------------------------------------------------------------------------------
(* The workspace.                                                             *)

ModuleOf(p) == Trimmed(SubSeq(p, 3, Len(p)))
ShowsTemplate(p) == Len(ModuleOf(p)) = 1 /\ ModuleOf(p)[1] \in DOMAIN WorkspaceKey
PathOfModule(p) ==
  IF ModuleOf(p) = <<"dashboard">> THEN <<"admin", Gap>> ELSE <<"admin">> \o ModuleOf(p)

\* The module a workspace request stands for, as a function of its path.
LEMMA ModuleOfUrl ==
  Module = ModuleOf(url.path) /\ IsTemplate = ShowsTemplate(url.path) /\ ModulePath = PathOfModule(url.path)
BY DEF Module, IsTemplate, ModulePath, ModuleOf, ShowsTemplate, PathOfModule

\* The route chosen as the workspace's is the entry that is registered for it.
LEMMA WorkspaceRouteIs == WorkspaceRoute = WorkspaceEntry
<1>1. WorkspaceEntry \in Workspace /\ WorkspaceEntry.key = None
  BY DEF Workspace, WorkspaceEntry, Route, Entry, None
<1>2. \A e \in Workspace : e.key = None => e = WorkspaceEntry
  BY DEF Workspace, WorkspaceEntry, Route, Entry, None
<1> QED
  BY <1>1, <1>2 DEF WorkspaceRoute

\* The paths of the workspace are reserved.
LEMMA WorkspacePaths ==
  ASSUME NEW u, IsPath(u.path), Matches(<<"admin", "workspace", ModuleStar>>, u.path)
  PROVE  /\ u.surface = "admin" /\ u.method = "GET" => IsReserved(u)
         /\ Len(u.path) \in Nat /\ Len(u.path) >= 2 /\ u.path[1] = "admin" /\ u.path[2] = "workspace"
<1>1. ModuleStar \in Stars
  BY WordsAssumption, RoutingAssumption
<1>2. u.path \in Seq(Segments)
  BY DEF IsPath
<1>3. Len(u.path) >= 2 /\ u.path[1] = "admin" /\ u.path[2] = "workspace"
  <2>1. "admin" \in HostWords /\ "workspace" \in HostWords
    BY SomeWords
  <2> QED
    BY <1>1, <1>2, <2>1, StarPaths
<1> QED
  BY <1>2, <1>3, ReservedHas, SMTT(30) DEF IsReserved

\* The module of a path whose trimmed form has three or four segments.
LEMMA ModuleShape ==
  ASSUME NEW S, NEW p \in Seq(S), Len(p) >= 2, p[1] = "admin", p[2] = "workspace",
         Len(Trimmed(p)) \in {3, 4}, Trimmed(p)[3] # Gap
  PROVE  /\ Len(ModuleOf(p)) = Len(Trimmed(p)) - 2 /\ ModuleOf(p) \in Seq(S)
         /\ \A i \in 1 .. Len(ModuleOf(p)) : ModuleOf(p)[i] = Trimmed(p)[i + 2]
         /\ Trimmed(p)[Len(Trimmed(p))] # Gap
<1> DEFINE a == Trimmed(p)
           s == SubSeq(p, 3, Len(p))
<1>1. "admin" # Gap /\ "workspace" # Gap
  BY SomeWords, Words
<1>2. /\ Len(a) <= Len(p) /\ \A i \in 1 .. Len(a) : a[i] = p[i]
      /\ a[Len(a)] # Gap /\ \A i \in 1 .. Len(p) : i > Len(a) => p[i] = Gap
  BY <1>1, TrimmedStart
<1>3. Len(p) \in Nat /\ Len(p) >= 3
  BY <1>2
<1>4. s \in Seq(S) /\ Len(s) = Len(p) - 2 /\ \A i \in 1 .. Len(s) : s[i] = p[i + 2]
  BY <1>3
<1> HIDE DEF a, s
<1> DEFINE n == Len(a) - 2
<1>5. n \in 1 .. Len(s) /\ n \in {1, 2} /\ Len(a) = n + 2
  BY <1>2, <1>3, <1>4 DEF a
<1>6. s[1] # Gap /\ s[n] # Gap
  <2>1. s[1] = a[3]
    BY <1>2, <1>3, <1>4, <1>5
  <2>2. s[n] = a[Len(a)]
    BY <1>2, <1>3, <1>4, <1>5
  <2> QED
    BY <1>2, <2>1, <2>2 DEF a
<1>7. \A i \in 1 .. Len(s) : i > n => s[i] = Gap
  BY <1>2, <1>3, <1>4, <1>5
<1> HIDE DEF n
<1>8. PICK x, y \in 1 .. Len(s) :
        /\ s[y] # Gap /\ \A i \in 1 .. Len(s) : s[i] # Gap => x <= i /\ i <= y
        /\ Trimmed(s) = SubSeq(s, x, y)
  <2>1. 1 \in 1 .. Len(s)
    BY <1>4, <1>5
  <2> QED
    BY <1>4, <1>6, <2>1, TrimmedShape
<1>9. x = 1 /\ y = n
  BY <1>4, <1>5, <1>6, <1>7, <1>8
<1>10. /\ SubSeq(s, 1, n) \in Seq(S) /\ Len(SubSeq(s, 1, n)) = n
       /\ \A i \in 1 .. n : SubSeq(s, 1, n)[i] = s[i]
  BY <1>4, <1>5
<1>11. \A i \in 1 .. n : s[i] = a[i + 2]
  BY <1>2, <1>3, <1>4, <1>5
<1>12. ModuleOf(p) = SubSeq(s, 1, n)
  BY <1>8, <1>9 DEF ModuleOf, s
<1> QED
  BY <1>2, <1>5, <1>10, <1>11, <1>12 DEF a

\* Two segments make a path.
LEMMA Joined ==
  ASSUME NEW a, NEW b
  PROVE  <<a>> \o <<b>> = <<a, b>>
<1> DEFINE r == <<a>> \o <<b>>
<1>1. <<a>> \in Seq({a, b}) /\ <<b>> \in Seq({a, b}) /\ Len(<<a>>) = 1 /\ Len(<<b>>) = 1
  OBVIOUS
<1>2. r \in Seq({a, b}) /\ Len(r) = 2 /\ r[1] = a /\ r[2] = b
  BY <1>1
<1> HIDE DEF r
<1>3. r = <<a, b>>
  BY <1>2
<1> QED
  BY <1>3 DEF r

\* A segment before two others.
LEMMA Joined3 ==
  ASSUME NEW S, NEW r \in Seq(S), NEW s \in Seq(S), Len(r) = 1, Len(s) = 2
  PROVE  r \o s \in Seq(S) /\ Len(r \o s) = 3 /\ (r \o s)[1] = r[1] /\ (r \o s)[2] = s[1] /\ (r \o s)[3] = s[2]
<1> DEFINE q == r \o s
<1>1. /\ q \in Seq(S) /\ Len(q) = Len(r) + Len(s)
      /\ \A i \in 1 .. Len(r) + Len(s) : q[i] = IF i <= Len(r) THEN r[i] ELSE s[i - Len(r)]
  BY ConcatProperties, Zenon
<1> HIDE DEF q
<1>2. Len(q) = 3
  BY <1>1
<1>3. \A i \in 1 .. 3 : q[i] = IF i <= 1 THEN r[i] ELSE s[i - 1]
  BY <1>1
<1>4. q[1] = r[1] /\ q[2] = s[2 - 1] /\ q[3] = s[3 - 1]
  BY <1>3
<1> QED
  BY <1>1, <1>2, <1>4 DEF q
\* A page of the host: not public, and found on GET.
LEMMA HostPages ==
  ASSUME NEW e \in Builtins, e.kind = "page"
  PROVE  /\ e.public # TRUE /\ e # WorkspaceEntry /\ e.method = "GET" /\ e.surface = "admin"
         /\ e = DashboardPage \/ IsHosts(e)
<1>1. e # WorkspaceEntry /\ e # DeleteUser
  BY DEF WorkspaceEntry, DeleteUser, Route, Entry
<1>2. DashboardPage.method = "GET" /\ DashboardPage.public = FALSE /\ DashboardPage.surface = "admin"
  BY DEF DashboardPage, Page, Entry
<1>3. e = DashboardPage \/ IsHosts(e)
  BY <1>1, BuiltinCases
<1>4. IsHosts(e) => e.public = FALSE /\ e.method = "GET" /\ e.surface = "admin"
  BY DEF IsHosts
<1> QED
  BY <1>1, <1>2, <1>3, <1>4

\* What a binding that lets somebody into the workspace is bound to.
LEMMA WorkspaceLetIn ==
  ASSUME NEW u, IsPath(u.path), u.surface = "admin", u.method = "GET",
         Matches(<<"admin", "workspace", ModuleStar>>, u.path),
         NEW k \in CanLetIn(u), k \notin WideKeys(u)
  PROVE  /\ ModuleOf(u.path) \in Seq(Segments)
         /\ \/ /\ Len(ModuleOf(u.path)) = 1 /\ ModuleOf(u.path)[1] \in DOMAIN WorkspaceKey
               /\ k = WorkspaceKey[ModuleOf(u.path)[1]]
            \/ /\ Len(ModuleOf(u.path)) = 2 /\ ModuleOf(u.path)[1] = "plugins" /\ ModuleOf(u.path)[2] # Gap
               /\ k = "admin.plugins.view"
<1> DEFINE a == Trimmed(u.path)
           m == ModuleOf(u.path)
<1>1. /\ IsReserved(u) /\ u.path \in Seq(Segments)
      /\ Len(u.path) \in Nat /\ Len(u.path) >= 2 /\ u.path[1] = "admin" /\ u.path[2] = "workspace"
  BY WorkspacePaths DEF IsPath
<1>2. "admin" # Gap /\ "workspace" # Gap /\ "plugins" # Gap
  BY SomeWords, Words
<1>3. Len(a) >= 2 /\ a[2] = "workspace" /\ a \in Seq(Segments)
  BY <1>1, <1>2, TrimmedStart
<1>4. PICK b \in SeedBindings : b.key = k /\ BindingCovers(b.path, u.path)
  BY <1>1, LetInOnReserved
<1>5. \/ Len(a) = 3 /\ a[3] \in DOMAIN WorkspaceKey /\ k = WorkspaceKey[a[3]]
      \/ Len(a) = 4 /\ a[3] = "plugins" /\ k = "admin.plugins.view"
  <2>1. /\ Len(a) # 1 /\ a[2] = "workspace"
    BY <1>3
  <2>2. \/ b.key = KeyFor(b.method, a) /\ (Len(a) = 1 \/ a[2] # "workspace")
        \/ Len(a) = 3 /\ a[2] = "workspace" /\ a[3] \in DOMAIN WorkspaceKey /\ b.key = WorkspaceKey[a[3]]
        \/ Len(a) = 4 /\ a[2] = "workspace" /\ a[3] = "plugins" /\ b.key = "admin.plugins.view"
    BY <1>1, <1>4, SeedNeeds
  <2> HIDE DEF a
  <2> QED
    BY <1>4, <2>1, <2>2
<1>6. a[3] # Gap
  <2>1. \A w \in DOMAIN WorkspaceKey : w # Gap
    BY Modules, Words
  <2> HIDE DEF a
  <2> QED
    BY <1>2, <1>5, <2>1
<1>7. Len(a) \in {3, 4}
  <2> HIDE DEF a
  <2> QED
    BY <1>5
<1>8. /\ Len(m) = Len(a) - 2 /\ m \in Seq(Segments)
      /\ \A i \in 1 .. Len(m) : m[i] = a[i + 2]
      /\ a[Len(a)] # Gap
  BY <1>1, <1>6, <1>7, ModuleShape
<1> HIDE DEF a, m
<1>9. CASE Len(a) = 3
  <2>1. Len(m) = 1 /\ m[1] = a[3]
    BY <1>8, <1>9
  <2> QED
    BY <1>5, <1>8, <1>9, <2>1 DEF m
<1>10. CASE Len(a) = 4
  <2>1. Len(m) = 2 /\ m[1] = a[3] /\ m[2] = a[4] /\ a[4] # Gap
    BY <1>8, <1>10
  <2> QED
    BY <1>5, <1>8, <1>10, <2>1 DEF m
<1> QED
  BY <1>7, <1>9, <1>10

\* A module of the host in the workspace: whoever is let in holds the key of its
\* page, or that of a wide binding.
LEMMA TemplateKept ==
  ASSUME NEW u, IsPath(u.path), u.surface = "admin", u.method = "GET",
         Matches(<<"admin", "workspace", ModuleStar>>, u.path), ShowsTemplate(u.path),
         NEW k \in CanLetIn(u), k \notin WideKeys(u),
         NEW e \in Builtins, e.kind = "page", e.path = PathOfModule(u.path)
  PROVE  e.key = k
<1> DEFINE s == ModuleOf(u.path)
           m == s[1]
<1>1. s \in Seq(Segments) /\ Len(s) = 1 /\ m \in DOMAIN WorkspaceKey /\ k = WorkspaceKey[m]
  <2>1. Len(s) = 1
    BY DEF ShowsTemplate
  <2> QED
    BY <2>1, WorkspaceLetIn
<1>2. s = <<m>>
  BY <1>1
<1>3. e.path = IF s = <<"dashboard">> THEN <<"admin", Gap>> ELSE <<"admin">> \o s
  BY DEF PathOfModule
<1> HIDE DEF s
<1>4. m \in HostWords /\ m # Gap /\ m \notin Holders
  BY <1>1, Modules, Words DEF Holders
<1>5. CASE m = "dashboard"
  <2>1. e.path = <<"admin", Gap>>
    BY <1>2, <1>3, <1>5
  <2>2. ~IsHosts(e)
    <3>1. Gap \notin HostSegs
      BY Words DEF HostSegs, Holders
    <3>2. ~IsPlain(<<"admin", Gap>>)
      <4> SUFFICES ASSUME <<"admin", Gap>> \in Seq(HostSegs) PROVE FALSE
        BY DEF IsPlain
      <4> DEFINE t == <<"admin", Gap>>
      <4>1. t \in Seq(HostSegs) /\ Len(t) = 2 /\ t[2] = Gap
        OBVIOUS
      <4> HIDE DEF t
      <4>2. t[2] \in HostSegs
        BY <4>1
      <4> QED
        BY <3>1, <4>1, <4>2
    <3> QED
      BY <2>1, <3>2 DEF IsHosts
  <2>3. e = DashboardPage
    BY <2>2, HostPages
  <2>4. DashboardPage.key = "admin.dashboard.view"
    BY DEF DashboardPage, Page, Entry
  <2> QED
    BY <1>1, <1>5, <2>3, <2>4, Modules
<1>6. CASE m # "dashboard"
  <2>1. e.path = <<"admin", m>>
    <3>1. s # <<"dashboard">>
      BY <1>2, <1>6
    <3> HIDE DEF m
    <3>2. <<"admin">> \o <<m>> = <<"admin", m>>
      BY Joined
    <3> QED
      BY <1>2, <1>3, <3>1, <3>2
  <2>2. e # DashboardPage
    <3>1. DashboardPage.path = <<"admin", Gap>>
      BY DEF DashboardPage, Page, Entry
    <3> HIDE DEF m
    <3> QED
      BY <1>4, <2>1, <3>1
  <2>3. IsHosts(e) /\ e.method = "GET"
    BY <2>2, HostPages
  <2> DEFINE q == <<"admin", m>>
  <2>4. Len(q) = 2 /\ q[1] = "admin" /\ q[2] = m
    OBVIOUS
  <2> HIDE DEF q, m
  <2>5. e.path = q
    BY <2>1 DEF q
  <2>6. Takes(e.path, q)
    BY <2>5 DEF Takes
  <2>7. e.key = KeyFor("GET", q) /\ m \notin {"workspace", "kv"}
    BY <2>3, <2>4, <2>6 DEF IsHosts
  <2>8. m \in {"users", "roles", "permissions", "plugins", "config", "logs", "menus"}
    BY <1>1, <1>6, <2>7 DEF WorkspaceKey
  <2>9. k = ViewKey(m)
    BY <1>1, <2>8, Modules
  <2>10. KeyFor("GET", q) = ViewKey(m)
    BY <2>4, <2>8 DEF KeyFor, Topic
  <2> QED
    BY <2>7, <2>9, <2>10
<1> QED
  BY <1>5, <1>6

\* Any other module in the workspace: whoever is let in holds the key of the page
\* that is shown, or that of a wide binding.
LEMMA PageKept ==
  ASSUME NEW u, IsPath(u.path), u.surface = "admin", u.method = "GET",
         Matches(<<"admin", "workspace", ModuleStar>>, u.path), ~ShowsTemplate(u.path),
         NEW k \in CanLetIn(u), k \notin WideKeys(u),
         NEW e \in Builtins \cup UNION Contracts, e.kind = "page", Matches(e.path, PathOfModule(u.path))
  PROVE  e.key = k
<1> DEFINE s == ModuleOf(u.path)
           q == PathOfModule(u.path)
           d == <<"admin", "plugins", PluginParam>>
<1>1. s \in Seq(Segments) /\ Len(s) = 2 /\ s[1] = "plugins" /\ s[2] # Gap /\ k = "admin.plugins.view"
  BY WorkspaceLetIn DEF ShowsTemplate
<1>2. q = <<"admin">> \o s
  <2>1. s # <<"dashboard">>
    BY <1>1
  <2> QED
    BY <2>1 DEF PathOfModule
<1> HIDE DEF s
<1> DEFINE T == Segments \cup {"admin"}
<1>3. q \in Seq(T) /\ Len(q) = 3 /\ q[1] = "admin" /\ q[2] = "plugins" /\ q[3] # Gap
  <2> DEFINE r == <<"admin">>
  <2>1. r \in Seq(T) /\ s \in Seq(T) /\ Len(r) = 1 /\ r[1] = "admin"
    BY <1>1
  <2> HIDE DEF T, r
  <2>2. Len(s) = 2
    BY <1>1
  <2>3. r \o s \in Seq(T) /\ Len(r \o s) = 3 /\ (r \o s)[1] = r[1] /\ (r \o s)[2] = s[1] /\ (r \o s)[3] = s[2]
    BY <2>1, <2>2, Joined3
  <2>4. q = r \o s
    BY <1>2 DEF r
  <2> HIDE DEF q
  <2> QED
    BY <1>1, <2>1, <2>3, <2>4
<1> HIDE DEF q, T
<1>4. "admin" # Gap /\ "plugins" # Gap /\ IsLiteral("admin") /\ IsLiteral("plugins") /\ PluginParam \in Params
      /\ ~IsLiteral(PluginParam)
  BY SomeWords, Words DEF IsLiteral
<1>5. Len(d) = 3 /\ d[1] = "admin" /\ d[2] = "plugins" /\ d[3] = PluginParam
  OBVIOUS
<1> HIDE DEF d
<1>6. Matches(d, q)
  <2>1. Fits(d[1], q[1]) /\ Fits(d[2], q[2]) /\ Fits(d[3], q[3])
    BY <1>3, <1>4, <1>5 DEF Fits
  <2>2. FitsUpTo(d, q, 3)
    BY <1>3, <1>5, <2>1 DEF FitsUpTo
  <2> QED
    BY <1>3, <2>2 DEF Matches
<1>7. e \in Builtins
  <2> SUFFICES ASSUME NEW C \in Contracts, e \in C PROVE FALSE
    OBVIOUS
  <2>1. e.surface = "admin" /\ e.method = "GET" /\ e.path \in Seq(Segments) /\ ~Reserves("admin", "GET", e.path)
    BY ContractEntries DEF IsPath
  <2>2. Len(e.path) \in Nat /\ Len(d) \in Nat /\ Len(q) \in Nat
    BY <1>3, <1>5, <2>1
  <2>3. Overlap(e.path, d)
    BY <1>6, <2>2, BothMatch DEF q
  <2> QED
    BY <2>1, <2>3, ReservedHas DEF Reserves, d
<1>8. e.public # TRUE /\ e # WorkspaceEntry /\ e.method = "GET"
  BY <1>7, HostPages
<1>9. e.key = KeyFor("GET", Trimmed(q))
  BY <1>3, <1>7, <1>8, BuiltinNeeds DEF q
<1>10. Trimmed(q) = q
  <2>1. q # <<>> /\ q[1] # Gap /\ q[Len(q)] # Gap
    BY <1>3, <1>4
  <2> QED
    BY <1>3, <2>1, TrimmedWhole
<1>11. KeyFor("GET", q) = ViewKey("plugins")
  BY <1>3 DEF KeyFor, Topic
<1> QED
  BY <1>1, <1>9, <1>10, <1>11, Keys

-------------------------------------------------------------------------------
(* Who holds the key of what answers.                                         *)

\* A pattern without stars and without literals that end in one is covered, as a
\* binding, by every path that matches it.
LEMMA LiteralCovers ==
  ASSUME NEW S, NEW p \in Seq(S), p # <<>>, NEW T, NEW u \in Seq(T), Matches(p, u),
         \A i \in 1 .. Len(p) : p[i] \notin Stars /\ p[i] \notin DOMAIN Begins /\ p[i] # Bare
  PROVE  BindingCovers(p, u)
<1>1. Len(p) \in Nat /\ Len(u) \in Nat /\ Len(p) \in 1 .. Len(p)
  OBVIOUS
<1>2. PICK n \in 0 .. Len(u) : FitsUpTo(p, u, n)
  BY DEF Matches
<1>3. ~(n < Len(p) /\ p[n + 1] \in Stars)
  BY <1>1
<1>4. Len(u) = Len(p) /\ \A i \in 1 .. Len(p) : Fits(p[i], u[i])
  BY <1>2, <1>3 DEF FitsUpTo
<1>5. \A i \in 1 .. Len(p) : p[i] = u[i] \/ (p[i] \in BindingParams /\ p[i] # Gap /\ u[i] # Gap)
  BY <1>4, RoutingAssumption DEF Fits, IsLiteral, BindingParams
<1>6. p[Len(p)] \notin DOMAIN Begins
  BY <1>1
<1> DEFINE q == Trimmed(p)
           a == Trimmed(u)
<1>7. Len(q) = Len(a) /\ \A i \in 1 .. Len(q) : q[i] = a[i] \/ q[i] \in BindingParams
  <2>1. CASE \A i \in 1 .. Len(p) : p[i] = Gap
    <3>1. \A i \in 1 .. Len(u) : u[i] = Gap
      BY <1>4, <1>5, <2>1
    <3>2. q = <<>>
      <4>1. ~\E i \in 1 .. Len(p) : p[i] # Gap
        BY <2>1
      <4> QED
        BY <4>1, TrimmedShape
    <3>3. a = <<>>
      <4>1. ~\E i \in 1 .. Len(u) : u[i] # Gap
        BY <3>1
      <4> QED
        BY <4>1, TrimmedShape
    <3> QED
      BY <3>2, <3>3
  <2>2. CASE ~\A i \in 1 .. Len(p) : p[i] = Gap
    <3>1. PICK x, y \in 1 .. Len(p) :
            /\ x <= y /\ p[x] # Gap /\ p[y] # Gap
            /\ \A i \in 1 .. Len(p) : p[i] # Gap => x <= i /\ i <= y
            /\ q = SubSeq(p, x, y)
      BY <2>2, TrimmedShape
    <3>2. u[x] # Gap /\ u[y] # Gap /\ ~\A i \in 1 .. Len(u) : u[i] = Gap
      BY <1>4, <1>5, <3>1
    <3>3. PICK v, w \in 1 .. Len(u) :
            /\ v <= w /\ u[v] # Gap /\ u[w] # Gap
            /\ \A i \in 1 .. Len(u) : u[i] # Gap => v <= i /\ i <= w
            /\ a = SubSeq(u, v, w)
      BY <3>2, TrimmedShape
    <3>4. p[v] # Gap /\ p[w] # Gap
      BY <1>4, <1>5, <3>3
    <3>a. x <= v /\ w <= y
      BY <1>4, <3>1, <3>4
    <3>b. v <= x /\ y <= w
      BY <1>4, <3>2, <3>3
    <3>c. x \in Nat /\ y \in Nat /\ v \in Nat /\ w \in Nat
      BY <1>1
    <3>5. v = x /\ w = y
      BY <3>a, <3>b, <3>c
    <3> HIDE DEF q, a
    <3>6. Len(q) = y - x + 1 /\ \A i \in 1 .. Len(q) : q[i] = p[x + i - 1]
      BY <1>1, <3>1
    <3>7. Len(a) = y - x + 1 /\ \A i \in 1 .. Len(a) : a[i] = u[x + i - 1]
      BY <1>1, <1>4, <3>1, <3>3, <3>5
    <3>8. ASSUME NEW i \in 1 .. Len(q) PROVE q[i] = a[i] \/ q[i] \in BindingParams
      <4>1. q[i] = p[x + i - 1] /\ a[i] = u[x + i - 1]
        BY <3>6, <3>7
      <4>2. i \in 1 .. y - x + 1
        BY <3>6
      <4>3. x + i - 1 \in 1 .. Len(p)
        BY <1>1, <3>1, <4>2
      <4> QED
        BY <1>5, <4>1, <4>3
    <3> QED
      BY <3>6, <3>7, <3>8
  <2> QED
    BY <2>1, <2>2
<1> QED
  BY <1>6, <1>7, Zenon DEF BindingCovers

\* What answers matches the path, and is of the surface and method.
LEMMA AnsweringMatches ==
  ASSUME NEW C \in Contracts \cup {{}}, NEW s, NEW m, NEW p, NEW e \in Answering(Builtins \cup C, s, m, p)
  PROVE  e \in Builtins \cup C /\ Matches(e.path, p) /\ e.surface = s /\ e.method = m
<1> DEFINE all == Builtins \cup C
<1>1. ASSUME e \in PageAt(all, p), s = "admin", m = "GET"
      PROVE  e \in all /\ Matches(e.path, p) /\ e.surface = s /\ e.method = m
  <2>1. e \in all /\ e.kind = "page" /\ Matches(e.path, p)
    BY <1>1 DEF PageAt, Best
  <2>2. CASE e \in Builtins
    BY <1>1, <2>1, <2>2, HostPages
  <2>3. CASE e \in C
    <3>1. C \in Contracts
      BY <2>3
    <3> QED
      BY <1>1, <2>1, <2>3, <3>1, ContractEntries
  <2> QED
    BY <2>1, <2>2, <2>3
<1>2. ASSUME e \in RouteAt(all, s, m, p)
      PROVE  e \in all /\ Matches(e.path, p) /\ e.surface = s /\ e.method = m
  BY <1>2 DEF RouteAt, MatchHttp, Best
<1> QED
  BY <1>1, <1>2 DEF Answering

\* A builtin without a star that needs a key has a seeded binding.
LEMMA BuiltinIsSeeded ==
  ASSUME NEW e \in Builtins, e.key # "none", \A i \in DOMAIN e.path : e.path[i] \notin Stars
  PROVE  BindingOf(e) \in SeedBindings /\ e.path # <<>> /\ (e.path \in Seq(HostSegs) \/ e.path \in Seq({"admin", Gap}))
<1>1. e # WorkspaceEntry
  BY DEF WorkspaceEntry, Route, Entry
<1>2. e # DeleteUser
  <2> SUFFICES ASSUME e = DeleteUser PROVE FALSE
    OBVIOUS
  <2> DEFINE p == <<"api", "users", "*">>
  <2>1. e.path = p
    BY DEF DeleteUser, Route, Entry
  <2>2. 3 \in DOMAIN p /\ p[3] = "*"
    OBVIOUS
  <2> HIDE DEF p
  <2> QED
    BY <2>1, <2>2, WordsAssumption
<1>3. CASE IsHosts(e)
  <2>1. ~(e.method = "DELETE" /\ e.surface = "api") /\ IsPlain(e.path)
    BY <1>3 DEF IsHosts
  <2> QED
    BY <2>1 DEF SeedBindings, IsPlain
<1>4. CASE e = DashboardPage
  <2>1. e.method = "GET" /\ e.path = <<"admin", Gap>>
    BY <1>4 DEF DashboardPage, Page, Entry
  <2>2. <<"admin", Gap>> \in Seq({"admin", Gap}) /\ <<"admin", Gap>> # <<>>
    OBVIOUS
  <2> QED
    BY <2>1, <2>2 DEF SeedBindings
<1> QED
  BY <1>1, <1>2, <1>3, <1>4, BuiltinCases

\* Nobody is granted the key that stands for none.
LEMMA NoneIsNotHeld ==
  ASSUME NEW r, NEW K \in SUBSET PluginKeys
  PROVE  "none" \notin SeededFor(r) \cup K
<1>1. "none" \notin SeedKeys
  <2> SUFFICES ASSUME NEW b \in SeedBindings PROVE b.key # "none"
    BY DEF SeedKeys
  <2>1. \A m \in DOMAIN WorkspaceKey : WorkspaceKey[m] # "none"
    BY DEF WorkspaceKey
  <2>2. \A m \in DOMAIN WorkspaceKey : ModuleBinding(m).key = WorkspaceKey[m]
    BY DEF ModuleBinding
  <2>3. DeleteUserBinding.key # "none" /\ PluginModuleBinding.key # "none"
    BY DEF DeleteUserBinding, PluginModuleBinding
  <2>4. \A e \in Builtins : BindingOf(e).key = e.key
    BY DEF BindingOf
  <2> QED
    BY <2>1, <2>2, <2>3, <2>4, SeedsAreThese
<1>2. "none" \notin EditorKeys \cup ViewerKeys
  BY DEF EditorKeys, ViewerKeys
<1>3. \A g \in SeedGrants : g[2] \in SeedKeys \cup EditorKeys \cup ViewerKeys
  BY DEF SeedGrants
<1> QED
  BY <1>1, <1>2, <1>3, RequestsAssumption DEF SeededFor

\* Who holds the key of what answers is let in, when the snapshot is of the
\* bindings of what is published.
LEMMA HolderLetIn ==
  ASSUME NEW C \in Contracts \cup {{}}, NEW u, IsPath(u.path), NEW K \in SUBSET PluginKeys, NEW r,
         NEW e \in Answering(Builtins \cup C, u.surface, u.method, u.path),
         \A i \in DOMAIN e.path : e.path[i] \notin Stars \cup DOMAIN Begins \cup {Bare},
         e.key \in SeededFor(r) \cup K
  PROVE  e.key \in CoveringKeys(SeedBindings \cup Rows(C), u.surface, u.method, u.path)
<1>1. e \in Builtins \cup C /\ Matches(e.path, u.path) /\ e.surface = u.surface /\ e.method = u.method
  BY AnsweringMatches
<1>2. e.key # None
  BY NoneIsNotHeld DEF None
<1>3. BindingOf(e) \in SeedBindings \cup Rows(C) /\ BindingCovers(e.path, u.path)
  <2>1. u.path \in Seq(Segments)
    BY DEF IsPath
  <2>2. CASE e \in Builtins
    <3>1. BindingOf(e) \in SeedBindings /\ e.path # <<>> /\ (e.path \in Seq(HostSegs) \/ e.path \in Seq({"admin", Gap}))
      BY <1>2, <2>2, BuiltinIsSeeded DEF None
    <3>2. \A i \in 1 .. Len(e.path) : e.path[i] \notin Stars /\ e.path[i] \notin DOMAIN Begins /\ e.path[i] # Bare
      BY <3>1
    <3> QED
      BY <1>1, <2>1, <3>1, <3>2, LiteralCovers
  <2>3. CASE e \in C
    <3>1. C \in Contracts
      BY <2>3
    <3>2. e.path \in Seq(Segments) /\ e.path # <<>>
      BY <2>3, <3>1, ContractEntries DEF IsPath
    <3>3. \A i \in 1 .. Len(e.path) : e.path[i] \notin Stars /\ e.path[i] \notin DOMAIN Begins /\ e.path[i] # Bare
      BY <3>2
    <3>4. BindingCovers(e.path, u.path)
      BY <1>1, <2>1, <3>2, <3>3, LiteralCovers
    <3>5. BindingOf(e) \in Rows(C)
      BY <1>2, <2>3 DEF Rows
    <3> QED
      BY <3>4, <3>5
  <2> QED
    BY <1>1, <2>2, <2>3
<1>4. /\ BindingOf(e).key = e.key /\ BindingOf(e).surface = e.surface /\ BindingOf(e).method = e.method
      /\ BindingOf(e).path = e.path
  BY DEF BindingOf
<1> QED
  BY <1>1, <1>3, <1>4 DEF CoveringKeys

-------------------------------------------------------------------------------
(* What is true of the request in every state.                                *)

Statuses == {None, "redirected", "401", "403", "404", "405", "413", "500", "disabled", "served"}
HostUrls == UNION {b.urls : b \in Bounds}
AnyEntry == Builtins \cup UNION Contracts
AnyToken == [type : {None, "access", "refresh"}, exp : Int]
AnyKey   == {b.key : b \in SeedBindings \cup AnyRows}
Requests ==
  [stage : {"idle", "received", "passed", "matched", "checked", "found", "answered"}, url : HostUrls \cup {NoUrl},
   token : AnyToken, entry : AnyEntry \cup {NoEntry}, by : SUBSET AnyKey, via : {"router", "workspace"},
   steady : BOOLEAN, at : Int, status : Statuses]

\* Its entry was found by the routers, or shown by the workspace, at its url.
IsFound(r)     == r.stage \in {"matched", "checked", "found"} \/ (r.stage = "answered" /\ r.status = "served")
InWorkspace(u) == u.surface = "admin" /\ u.method = "GET" /\ Matches(<<"admin", "workspace", ModuleStar>>, u.path)
ByRouter(r) ==
  /\ r.via = "router" /\ Matches(r.entry.path, r.url.path) /\ r.entry.method = r.url.method
  /\ ~r.entry.public => r.entry.surface = r.url.surface
ByWorkspace(r) ==
  /\ r.via = "workspace" /\ InWorkspace(r.url) /\ ~ShowsTemplate(r.url.path)
  /\ r.entry.kind = "page" /\ Matches(r.entry.path, PathOfModule(r.url.path))
EntryFits(r) ==
  IsFound(r) =>
    /\ r.entry \in AnyEntry /\ (ByRouter(r) \/ ByWorkspace(r))
    /\ r.stage \in {"found", "answered"} /\ r.entry = WorkspaceEntry => ShowsTemplate(r.url.path)

\* Who was let in was let in by keys that cover the url, or is an administrator.
IsJudged(r) == r.stage = "passed" \/ (IsFound(r) /\ r.stage # "matched" /\ ~r.entry.public)
Judged(r, ro) ==
  IsJudged(r) => r.by \subseteq CanLetIn(r.url) /\ (r.by = {} => ro = "admin" /\ r.url.surface = "admin")

RequestOk(r, ro) ==
  /\ r \in Requests
  /\ r.stage # "idle" => r.url \in HostUrls
  /\ r.stage = "answered" <=> r.status # None
  /\ r.stage \in {"received", "passed"} => r.via = "router"
  /\ r.stage = "passed" => r.url.surface = "admin"
  /\ EntryFits(r) /\ Judged(r, ro)

\* No request, and one that has come in.
LEMMA IdleOk == ASSUME NEW ro PROVE RequestOk(Idle, ro)
BY DEF Idle, RequestOk, Requests, Statuses, AnyToken, NoToken, EntryFits, IsFound, Judged, IsJudged, None

\* A request that has just arrived is in order, whatever its token.
LEMMA ArriveOk ==
  ASSUME NEW ro, NEW u \in HostUrls, NEW t \in AnyToken
  PROVE  RequestOk([Idle EXCEPT !.stage = "received", !.url = u, !.token = t], ro)
<1>1. PICK q : q = Idle
  OBVIOUS
<1>2. q \in Requests /\ q.via = "router" /\ q.status = None
  <2>1. Idle.via = "router" /\ Idle.status = None
    BY DEF Idle
  <2> QED
    BY <1>1, <2>1, IdleOk DEF RequestOk
<1> DEFINE r == [q EXCEPT !.stage = "received", !.url = u, !.token = t]
<1>3. r \in Requests /\ r.stage = "received" /\ r.url = u /\ r.via = "router" /\ r.status = None
  BY <1>2 DEF Requests
<1> HIDE DEF r
<1>4. RequestOk(r, ro)
  BY <1>3 DEF RequestOk, EntryFits, IsFound, Judged, IsJudged
<1> QED
  BY <1>1, <1>4 DEF r

\* An answer that is not of a handler.
LEMMA AnswerOk ==
  ASSUME NEW ro, NEW q, RequestOk(q, ro), q.stage # "idle", NEW s \in Statuses, s # None, s # "served"
  PROVE  RequestOk([q EXCEPT !.stage = "answered", !.status = s], ro)
BY DEF RequestOk, Requests, EntryFits, IsFound, Judged, IsJudged

\* A refusal of the authorizer.
LEMMA RefuseOk ==
  ASSUME NEW ro, NEW q, RequestOk(q, ro), q.stage # "idle", NEW s \in Statuses, s # None, s # "served",
         NEW b \in BOOLEAN, NEW n \in Int, NEW K \in SUBSET AnyKey
  PROVE  /\ RequestOk([q EXCEPT !.stage = "answered", !.status = s, !.at = n, !.steady = b], ro)
         /\ RequestOk([q EXCEPT !.stage = "answered", !.status = s, !.by = K, !.at = n, !.steady = b], ro)
BY DEF RequestOk, Requests, EntryFits, IsFound, Judged, IsJudged

\* What happens meanwhile.
LEMMA DisturbOk ==
  ASSUME NEW ro, NEW q, RequestOk(q, ro)
  PROVE  RequestOk([q EXCEPT !.steady = FALSE], ro)
BY DEF RequestOk, Requests, EntryFits, IsFound, ByRouter, ByWorkspace, Judged, IsJudged

\* Let in by the middleware.
LEMMA PassOk ==
  ASSUME NEW ro, NEW q, RequestOk(q, ro), q.stage = "received", q.url.surface = "admin",
         NEW b \in BOOLEAN, NEW n \in Int, NEW K \in SUBSET AnyKey, K \subseteq CanLetIn(q.url), K = {} => ro = "admin"
  PROVE  RequestOk([q EXCEPT !.stage = "passed", !.by = K, !.at = n, !.steady = b], ro)
BY DEF RequestOk, Requests, EntryFits, IsFound, Judged, IsJudged

\* Found by a router, of the surface that needs a key, or public.
LEMMA FoundOk ==
  ASSUME NEW ro, NEW q, RequestOk(q, ro), NEW e \in AnyEntry, NEW s, 
         Matches(e.path, q.url.path), e.method = q.url.method, ~e.public => e.surface = q.url.surface,
         \/ q.stage = "passed" /\ s = "checked"
         \/ q.stage = "received" /\ s = "checked" /\ e.public
         \/ q.stage = "received" /\ s = "matched"
  PROVE  RequestOk([q EXCEPT !.stage = s, !.entry = e], ro)
<1> DEFINE r == [q EXCEPT !.stage = s, !.entry = e]
<1>1. /\ r \in Requests /\ r.stage = s /\ r.entry = e /\ r.url = q.url /\ r.via = q.via /\ r.by = q.by
      /\ r.status = q.status
  BY DEF RequestOk, Requests
<1> HIDE DEF r
<1>2. EntryFits(r)
  BY <1>1 DEF RequestOk, EntryFits, ByRouter
<1>3. Judged(r, ro)
  BY <1>1 DEF RequestOk, Judged, IsJudged, IsFound
<1> QED
  BY <1>1, <1>2, <1>3 DEF RequestOk, r

\* Let in by the API's dispatch.
LEMMA CheckOk ==
  ASSUME NEW ro, NEW q, RequestOk(q, ro), q.stage = "matched",
         NEW b \in BOOLEAN, NEW n \in Int, NEW K \in SUBSET AnyKey, K \subseteq CanLetIn(q.url), K # {}
  PROVE  RequestOk([q EXCEPT !.stage = "checked", !.status = None, !.by = K, !.at = n, !.steady = b], ro)
<1> DEFINE r == [q EXCEPT !.stage = "checked", !.status = None, !.by = K, !.at = n, !.steady = b]
<1>1. /\ r \in Requests /\ r.stage = "checked" /\ r.entry = q.entry /\ r.url = q.url /\ r.via = q.via /\ r.by = K
      /\ r.status = None
  BY DEF RequestOk, Requests, Statuses
<1> HIDE DEF r
<1>2. EntryFits(r)
  BY <1>1 DEF RequestOk, EntryFits, IsFound, ByRouter, ByWorkspace
<1>3. Judged(r, ro)
  BY <1>1 DEF RequestOk, Judged
<1> QED
  BY <1>1, <1>2, <1>3 DEF RequestOk, r

\* Served by a handler, which is not the workspace's unless it shows a template.
LEMMA ServeOk ==
  ASSUME NEW ro, NEW q, RequestOk(q, ro), q.stage \in {"checked", "found"},
         q.stage = "checked" /\ q.entry = WorkspaceEntry => ShowsTemplate(q.url.path)
  PROVE  RequestOk([q EXCEPT !.stage = "answered", !.status = "served"], ro)
<1> DEFINE r == [q EXCEPT !.stage = "answered", !.status = "served"]
<1>1. /\ r \in Requests /\ r.stage = "answered" /\ r.entry = q.entry /\ r.url = q.url /\ r.via = q.via /\ r.by = q.by
      /\ r.status = "served"
  BY DEF RequestOk, Requests, Statuses
<1>a. "served" # None
  BY DEF None
<1> HIDE DEF r
<1>2. EntryFits(r)
  BY <1>1 DEF RequestOk, EntryFits, IsFound, ByRouter, ByWorkspace
<1>3. Judged(r, ro)
  BY <1>1 DEF RequestOk, Judged, IsJudged, IsFound
<1> QED
  BY <1>1, <1>a, <1>2, <1>3 DEF RequestOk, r

\* A login has found the user.
LEMMA LoginOk ==
  ASSUME NEW ro, NEW q, RequestOk(q, ro), q.stage = "checked",
         q.entry = WorkspaceEntry => ShowsTemplate(q.url.path)
  PROVE  RequestOk([q EXCEPT !.stage = "found"], ro)
<1> DEFINE r == [q EXCEPT !.stage = "found"]
<1>1. /\ r \in Requests /\ r.stage = "found" /\ r.entry = q.entry /\ r.url = q.url /\ r.via = q.via /\ r.by = q.by
      /\ r.status = q.status
  BY DEF RequestOk, Requests
<1> HIDE DEF r
<1>2. EntryFits(r)
  BY <1>1 DEF RequestOk, EntryFits, IsFound, ByRouter, ByWorkspace
<1>3. Judged(r, ro)
  BY <1>1 DEF RequestOk, Judged, IsJudged, IsFound
<1> QED
  BY <1>1, <1>2, <1>3 DEF RequestOk, r

\* The workspace shows a page.
LEMMA ShowOk ==
  ASSUME NEW ro, NEW q, RequestOk(q, ro), q.stage = "checked", q.entry = WorkspaceEntry, ~ShowsTemplate(q.url.path),
         NEW e \in AnyEntry, e.kind = "page", Matches(e.path, PathOfModule(q.url.path))
  PROVE  RequestOk([q EXCEPT !.entry = e, !.via = "workspace"], ro)
<1> DEFINE r == [q EXCEPT !.entry = e, !.via = "workspace"]
<1>1. /\ r \in Requests /\ r.stage = "checked" /\ r.entry = e /\ r.url = q.url /\ r.via = "workspace" /\ r.by = q.by
      /\ r.status = q.status
  BY DEF RequestOk, Requests
<1> HIDE DEF r
<1>2. /\ WorkspaceEntry.public = FALSE /\ WorkspaceEntry.kind = "route" /\ WorkspaceEntry.method = "GET"
      /\ WorkspaceEntry.surface = "admin" /\ WorkspaceEntry.path = <<"admin", "workspace", ModuleStar>>
  BY DEF WorkspaceEntry, Route, Entry, SurfaceOf
<1>3. InWorkspace(q.url)
  <2>1. ByRouter(q)
    BY <1>2 DEF RequestOk, EntryFits, IsFound, ByWorkspace
  <2> QED
    BY <1>2, <2>1 DEF ByRouter, InWorkspace
<1>4. EntryFits(r)
  BY <1>1, <1>3 DEF EntryFits, ByWorkspace
<1>5. Judged(r, ro)
  BY <1>1, <1>2 DEF RequestOk, Judged, IsJudged, IsFound
<1> QED
  BY <1>1, <1>4, <1>5 DEF RequestOk, r

-------------------------------------------------------------------------------
(* The steps of a request.                                                    *)

Tables ==
  /\ published \in Contracts \cup {{}} /\ held \in SUBSET PluginKeys
  /\ \E C \in Contracts \cup {{}} : rows = Rows(C)
  /\ operation \in [at : {None, "retracted"}, script : {{}}] \cup [at : {"bound"}, script : Contracts]
  /\ operation.at = "bound" => rows = Rows(operation.script)
  /\ \E C \in Contracts \cup {{}}, K \in SUBSET PluginKeys : snapshot = [rows |-> Rows(C), held |-> K]
Kinds ==
  /\ role \in UserRoles /\ enabled \in BOOLEAN /\ now \in Nat /\ removed \in {Never} \cup 0 .. now
  /\ used \in [changes : Nat, logins : Nat, max : Bounds] /\ tokens \in SUBSET AnyToken
  /\ session \in [found : {Never} \cup 0 .. now, issued : {Never} \cup 0 .. now]

\* Whom the snapshot lets in, it lets in by a key that covers the url.
LEMMA LetInOk ==
  ASSUME Tables, NEW u
  PROVE  LetInBy(u) \in SUBSET AnyKey /\ LetInBy(u) \subseteq CanLetIn(u)
<1>1. PICK C \in Contracts \cup {{}}, K \in SUBSET PluginKeys : snapshot = [rows |-> Rows(C), held |-> K]
  BY DEF Tables
<1>2. Rows({}) = {}
  BY DEF Rows
<1>3. snapshot.rows \subseteq AnyRows
  BY <1>1, <1>2 DEF AnyRows
<1>4. \A k \in LetInBy(u) : \E b \in SeedBindings \cup AnyRows :
        b.key = k /\ b.surface = u.surface /\ b.method = u.method /\ BindingCovers(b.path, u.path)
  BY <1>3 DEF LetInBy, CoveringKeys
<1>5. LetInBy(u) \subseteq CanLetIn(u)
  BY <1>4 DEF CanLetIn, CoveringKeys
<1> QED
  BY <1>4, <1>5 DEF AnyKey

\* What a router finds in what is published.
LEMMA FoundIn ==
  ASSUME Tables
  PROVE  /\ All \subseteq AnyEntry
         /\ \A s, m, p : \A e \in RouteAt(All, s, m, p) :
              e \in AnyEntry /\ Matches(e.path, p) /\ e.surface = s /\ e.method = m
         /\ \A m, p : \A e \in Answering(All, "admin", m, p) :
              e \in AnyEntry /\ Matches(e.path, p) /\ e.surface = "admin" /\ e.method = m
         /\ \A p : \A e \in PageAt(All, p) : e \in AnyEntry /\ e.kind = "page" /\ Matches(e.path, p)
<1>1. All = Builtins \cup published /\ published \in Contracts \cup {{}}
  BY DEF All, Tables
<1>2. All \subseteq AnyEntry
  BY <1>1 DEF AnyEntry
<1>3. \A s, m, p : \A e \in RouteAt(All, s, m, p) : e \in All /\ Matches(e.path, p) /\ e.surface = s /\ e.method = m
  BY DEF RouteAt, MatchHttp, Best
<1>4. \A m, p : \A e \in Answering(All, "admin", m, p) :
        e \in All /\ Matches(e.path, p) /\ e.surface = "admin" /\ e.method = m
  BY <1>1, AnsweringMatches
<1>5. \A p : \A e \in PageAt(All, p) : e \in All /\ e.kind = "page" /\ Matches(e.path, p)
  BY DEF PageAt, Best
<1> QED
  BY <1>2, <1>3, <1>4, <1>5

\* Matching keeps it so in each of the three routers.
LEMMA RouterSteps ==
  ASSUME Tables, RequestOk(request, role), UNCHANGED role, MatchAdmin \/ MatchLogin \/ MatchApi
  PROVE  RequestOk(request', role')
<1>1. PICK q : q = request
  OBVIOUS
<1>2. RequestOk(q, role) /\ role' = role
  BY <1>1
<1>a. q.stage = "passed" => q.url.surface = "admin"
  BY <1>2 DEF RequestOk
<1>b. \A s \in {"404", "405", "500"} : s \in Statuses /\ s # None /\ s # "served"
  BY DEF Statuses, None
<1>3. ASSUME NEW s \in {"404", "405", "500"}, Answer(s), q.stage # "idle"
      PROVE  RequestOk(request', role')
  <2>1. request' = [q EXCEPT !.stage = "answered", !.status = s]
    BY <1>1, <1>3 DEF Answer
  <2> QED
    BY <1>2, <1>3, <1>b, <2>1, AnswerOk
<1>4. CASE MatchAdmin
  <2>1. q.stage = "passed" /\ url = q.url
    BY <1>1, <1>4 DEF MatchAdmin, Is, url
  <2>2. CASE Answering(All, "admin", url.method, url.path) = {}
    BY <1>3, <1>4, <2>1, <2>2 DEF MatchAdmin
  <2>3. CASE Answering(All, "admin", url.method, url.path) # {}
    <3>1. PICK e \in Answering(All, "admin", url.method, url.path) : request' = [q EXCEPT !.stage = "checked", !.entry = e]
      BY <1>1, <1>4, <2>3 DEF MatchAdmin
    <3>2. e \in AnyEntry /\ Matches(e.path, q.url.path) /\ e.surface = q.url.surface /\ e.method = q.url.method
      BY <1>a, <2>1, FoundIn
    <3> QED
      BY <1>2, <2>1, <3>1, <3>2, FoundOk
  <2> QED
    BY <2>2, <2>3
<1>5. CASE MatchLogin
  <2>1. q.stage = "received" /\ url = q.url
    BY <1>1, <1>5 DEF MatchLogin, Is, url
  <2>2. CASE RouteAt(All, "api", url.method, url.path) = {}
    BY <1>3, <1>5, <2>1, <2>2 DEF MatchLogin
  <2>3. CASE RouteAt(All, "api", url.method, url.path) # {}
    <3>1. PICK e \in RouteAt(All, "api", url.method, url.path) :
            IF ~e.public THEN Answer("500") ELSE request' = [q EXCEPT !.stage = "checked", !.entry = e]
      BY <1>1, <1>5, <2>3 DEF MatchLogin
    <3>2. e \in AnyEntry /\ Matches(e.path, q.url.path) /\ e.method = q.url.method
      BY <2>1, FoundIn
    <3>3. CASE ~e.public
      BY <1>3, <2>1, <3>1, <3>3
    <3>4. CASE e.public
      <4>1. request' = [q EXCEPT !.stage = "checked", !.entry = e]
        BY <3>1, <3>4
      <4> QED
        BY <1>2, <2>1, <3>2, <3>4, <4>1, FoundOk
    <3> QED
      BY <3>3, <3>4
  <2> QED
    BY <2>2, <2>3
<1>6. CASE MatchApi
  <2>1. q.stage = "received" /\ url = q.url /\ q.url.surface = "api"
    BY <1>1, <1>6 DEF MatchApi, Is, url
  <2>2. CASE RouteAt(All, "api", url.method, url.path) = {}
    BY <1>3, <1>6, <2>1, <2>2 DEF MatchApi
  <2>3. CASE RouteAt(All, "api", url.method, url.path) # {}
    <3>1. PICK e \in RouteAt(All, "api", url.method, url.path) :
            request' = [q EXCEPT !.stage = IF e.public THEN "checked" ELSE "matched", !.entry = e]
      BY <1>1, <1>6, <2>3 DEF MatchApi
    <3>2. e \in AnyEntry /\ Matches(e.path, q.url.path) /\ e.method = q.url.method /\ e.surface = q.url.surface
      BY <2>1, FoundIn
    <3>3. CASE ~e.public
      <4>1. request' = [q EXCEPT !.stage = "matched", !.entry = e]
        BY <3>1, <3>3
      <4> QED
        BY <1>2, <2>1, <3>2, <4>1, FoundOk
    <3>4. CASE e.public
      <4>1. request' = [q EXCEPT !.stage = "checked", !.entry = e]
        BY <3>1, <3>4
      <4> QED
        BY <1>2, <2>1, <3>2, <3>4, <4>1, FoundOk
    <3> QED
      BY <3>3, <3>4
  <2> QED
    BY <2>2, <2>3
<1> QED
  BY <1>4, <1>5, <1>6

\* The middleware and the dispatch of the API ask the authorizer.
LEMMA AuthorizerSteps ==
  ASSUME Tables, Kinds, RequestOk(request, role), UNCHANGED role, Middleware \/ CheckApi
  PROVE  RequestOk(request', role')
<1>1. PICK q : q = request
  OBVIOUS
<1>2. RequestOk(q, role) /\ role' = role /\ now \in Int
  BY <1>1 DEF Kinds
<1>3. PICK K \in SUBSET AnyKey : K = LetInBy(url) /\ K \subseteq CanLetIn(url)
  BY LetInOk
<1>4. PICK b \in BOOLEAN : b = (q.steady /\ Current)
  OBVIOUS
<1>b. \A s \in {"redirected", "401", "403"} : s \in Statuses /\ s # None /\ s # "served"
  BY DEF Statuses, None
<1>5. ASSUME NEW s \in {"redirected", "401"}, Answer(s), q.stage # "idle"
      PROVE  RequestOk(request', role')
  <2>1. request' = [q EXCEPT !.stage = "answered", !.status = s]
    BY <1>1, <1>5 DEF Answer
  <2> QED
    BY <1>2, <1>5, <1>b, <2>1, AnswerOk
<1>6. CASE Middleware
  <2>1. q.stage = "received" /\ url = q.url /\ q.url.surface = "admin"
    BY <1>1, <1>6 DEF Middleware, Is, url
  <2>2. CASE ~Opens(request.token)
    <3>1. Answer("redirected")
      BY <1>6, <2>2 DEF Middleware
    <3> QED
      BY <1>5, <2>1, <3>1
  <2>3. CASE Opens(request.token) /\ role # "admin" /\ K = {}
    <3>1. request' = [q EXCEPT !.stage = "answered", !.status = "403", !.at = now, !.steady = b]
      BY <1>1, <1>3, <1>4, <1>6, <2>3 DEF Middleware
    <3> QED
      BY <1>2, <1>b, <2>1, <3>1, RefuseOk
  <2>4. CASE Opens(request.token) /\ ~(role # "admin" /\ K = {})
    <3>1. request' = [q EXCEPT !.stage = "passed", !.by = K, !.at = now, !.steady = b]
      BY <1>1, <1>3, <1>4, <1>6, <2>4 DEF Middleware
    <3>2. K \subseteq CanLetIn(q.url) /\ (K = {} => role = "admin")
      BY <1>3, <2>1, <2>4
    <3> QED
      BY <1>2, <2>1, <3>1, <3>2, PassOk
  <2> QED
    BY <2>2, <2>3, <2>4
<1>7. CASE CheckApi
  <2>1. q.stage = "matched" /\ url = q.url
    BY <1>1, <1>7 DEF CheckApi, Is, url
  <2>2. CASE ~Opens(request.token)
    <3>1. Answer("401")
      BY <1>7, <2>2 DEF CheckApi
    <3> QED
      BY <1>5, <2>1, <3>1
  <2>3. CASE Opens(request.token)
    <3>1. request' = [q EXCEPT !.stage = IF K = {} THEN "answered" ELSE "checked",
                               !.status = IF K = {} THEN "403" ELSE None, !.by = K, !.at = now, !.steady = b]
      BY <1>1, <1>3, <1>4, <1>7, <2>3 DEF CheckApi
    <3>2. CASE K = {}
      <4>1. request' = [q EXCEPT !.stage = "answered", !.status = "403", !.by = K, !.at = now, !.steady = b]
        BY <3>1, <3>2, Zenon
      <4> QED
        BY <1>2, <1>b, <2>1, <4>1, RefuseOk
    <3>3. CASE K # {}
      <4>1. request' = [q EXCEPT !.stage = "checked", !.status = None, !.by = K, !.at = now, !.steady = b]
        BY <3>1, <3>3, Zenon
      <4> QED
        <5>1. RequestOk([q EXCEPT !.stage = "checked", !.status = None, !.by = K, !.at = now, !.steady = b], role)
          BY <1>2, <1>3, <2>1, <3>3, CheckOk
        <5> QED
          BY <1>2, <4>1, <5>1
    <3> QED
      BY <3>2, <3>3
  <2> QED
    BY <2>2, <2>3
<1> QED
  BY <1>6, <1>7

\* So does the guard by the governance row.
LEMMA DispatchStep ==
  ASSUME Tables, RequestOk(request, role), UNCHANGED role, Dispatch
  PROVE  RequestOk(request', role')
<1>1. PICK q : q = request
  OBVIOUS
<1>2. RequestOk(q, role) /\ role' = role /\ q.stage = "checked" /\ url = q.url
  BY <1>1 DEF Dispatch, Is, url
<1>b. \A s \in {"disabled", "404", "401"} : s \in Statuses /\ s # None /\ s # "served"
  BY DEF Statuses, None
<1>3. ASSUME NEW s \in {"disabled", "404", "401"}, Answer(s)
      PROVE  RequestOk(request', role')
  <2>1. request' = [q EXCEPT !.stage = "answered", !.status = s]
    BY <1>1, <1>3 DEF Answer
  <2> QED
    BY <1>2, <1>3, <1>b, <2>1, AnswerOk
<1>4. CASE request.entry.plugin = "self" /\ ~enabled
  <2>1. Answer("disabled")
    BY <1>4 DEF Dispatch
  <2> QED
    BY <1>3, <2>1
<1>5. CASE ~(request.entry.plugin = "self" /\ ~enabled) /\ request.entry = WorkspaceRoute /\ ~IsTemplate
  <2>1. PageOfModule
    BY <1>5 DEF Dispatch
  <2>2. q.entry = WorkspaceEntry /\ ~ShowsTemplate(q.url.path) /\ ModulePath = PathOfModule(q.url.path)
    BY <1>1, <1>2, <1>5, WorkspaceRouteIs, ModuleOfUrl
  <2>3. CASE Module = <<>> \/ PageAt(All, ModulePath) = {}
    <3>1. Answer("404")
      BY <2>1, <2>3 DEF PageOfModule
    <3> QED
      BY <1>3, <3>1
  <2>4. CASE ~(Module = <<>> \/ PageAt(All, ModulePath) = {})
    <3>1. PICK e \in PageAt(All, ModulePath) : request' = [q EXCEPT !.entry = e, !.via = "workspace"]
      BY <1>1, <2>1, <2>4 DEF PageOfModule
    <3>2. e \in AnyEntry /\ e.kind = "page" /\ Matches(e.path, PathOfModule(q.url.path))
      BY <2>2, FoundIn
    <3> QED
      BY <1>2, <2>2, <3>1, <3>2, ShowOk
  <2> QED
    BY <2>3, <2>4
<1>6. CASE ~(request.entry.plugin = "self" /\ ~enabled) /\ ~(request.entry = WorkspaceRoute /\ ~IsTemplate)
  <2>1. Handler
    BY <1>6 DEF Dispatch
  <2>2. Answer("served") \/ Answer("401") \/ Set("found")
    BY <2>1 DEF Handler, FindUser, Refresh
  <2>3. q.entry = WorkspaceEntry => ShowsTemplate(q.url.path)
    BY <1>1, <1>2, <1>6, WorkspaceRouteIs, ModuleOfUrl
  <2>4. CASE Answer("served")
    <3>1. request' = [q EXCEPT !.stage = "answered", !.status = "served"]
      BY <1>1, <2>4 DEF Answer
    <3> QED
      BY <1>2, <2>3, <3>1, ServeOk
  <2>5. CASE Set("found")
    <3>1. request' = [q EXCEPT !.stage = "found"]
      BY <1>1, <2>5 DEF Set
    <3> QED
      BY <1>2, <2>3, <3>1, LoginOk
  <2> QED
    BY <1>3, <2>2, <2>4, <2>5
<1> QED
  BY <1>4, <1>5, <1>6

\* And a login, once it has found the user.
LEMMA LoginStep ==
  ASSUME RequestOk(request, role), UNCHANGED role, Login \/ Mistyped
  PROVE  RequestOk(request', role')
<1>1. PICK q : q = request
  OBVIOUS
<1>2. RequestOk(q, role) /\ role' = role /\ q.stage = "found"
  BY <1>1 DEF Login, Mistyped, Is
<1>3. "401" \in Statuses /\ "401" # None /\ "401" # "served"
  BY DEF Statuses, None
<1>4. \/ request' = [q EXCEPT !.stage = "answered", !.status = "served"]
      \/ request' = [q EXCEPT !.stage = "answered", !.status = "401"]
  BY <1>1 DEF Login, Mistyped, Answer
<1>5. RequestOk([q EXCEPT !.stage = "answered", !.status = "served"], role)
  BY <1>2, ServeOk
<1>6. RequestOk([q EXCEPT !.stage = "answered", !.status = "401"], role)
  BY <1>2, <1>3, AnswerOk
<1> QED
  BY <1>2, <1>4, <1>5, <1>6

-------------------------------------------------------------------------------
(* The invariant.                                                             *)

\* A refusal while nothing changed was of a snapshot of the current tables.
Refusal ==
  request.stage = "answered" /\ request.status = "403" /\ request.steady => Current /\ LetInBy(url) = {}

\* A token outlives neither its time to live nor, by more than what it can renew,
\* the user, or the login that found it.
TokenOk(t, n, r) ==
  \/ t.type = "access" /\ t.exp <= n + AccessTtl /\ (r # Never => t.exp <= r + RefreshTtl + Leeway + AccessTtl)
  \/ t.type = "refresh" /\ t.exp <= n + RefreshTtl /\ (r # Never => t.exp <= r + RefreshTtl)
LastServed(r) == r + RefreshTtl + AccessTtl + 2 * Leeway
Ends == IF removed = Never THEN Never ELSE Later(removed, session.issued)
Sessions ==
  /\ \A t \in tokens : TokenOk(t, now, Ends)
  /\ request.token = NoToken \/ TokenOk(request.token, now, Ends)
  /\ request.at <= now /\ (removed # Never => request.at <= LastServed(Ends) /\ session.found <= removed)

IInv == Kinds /\ Tables /\ RequestOk(request, role) /\ Refusal /\ Sessions

\* Times are naturals.
LEMMA Ttls == AccessTtl \in Nat /\ RefreshTtl \in Nat /\ Leeway \in Nat
BY RequestsAssumption

\* The initial state has no request and no token.
LEMMA InitInv == Init => IInv
<1> SUFFICES ASSUME Init PROVE IInv
  OBVIOUS
<1>1. Kinds
  <2>1. used \in [changes : Nat, logins : Nat, max : Bounds]
    BY DEF Init
  <2> QED
    BY <2>1 DEF Init, Kinds, Never
<1>2. Tables
  <2>1. Rows({}) = {}
    BY DEF Rows
  <2>2. /\ {} \in Contracts \cup {{}} /\ {} \in SUBSET PluginKeys /\ rows = Rows({})
        /\ snapshot = [rows |-> Rows({}), held |-> {}] /\ published = {} /\ held = {}
    BY <2>1 DEF Init
  <2>3. operation \in [at : {None, "retracted"}, script : {{}}] /\ operation.at # "bound"
    <3>1. operation = [at |-> None, script |-> {}]
      BY DEF Init, NoOperation
    <3> QED
      BY <3>1 DEF None
  <2> QED
    BY <2>2, <2>3 DEF Tables
<1>3. RequestOk(request, role)
  BY IdleOk DEF Init
<1>4. request.stage = "idle" /\ request.token = NoToken /\ request.at = 0
  BY DEF Init, Idle
<1>5. Refusal
  BY <1>4 DEF Refusal
<1>6. Sessions
  BY <1>4 DEF Sessions, Init
<1> QED
  BY <1>1, <1>2, <1>3, <1>5, <1>6 DEF IInv

\* What a step of the request leaves of it.
LEMMA StepKeeps ==
  ASSUME RequestOk(request, role), Step
  PROVE  /\ request'.token = request.token /\ request'.url = request.url
         /\ request'.at = request.at \/ (request'.at = now /\ Opens(request.token))
         /\ request'.stage = "answered" /\ request'.status = "403" /\ request'.steady =>
              Current /\ LetInBy(url) = {}
<1>1. request \in Requests
  BY DEF RequestOk
<1>2. CASE Redirect \/ Body \/ Login \/ Mistyped
  BY <1>1, <1>2 DEF Redirect, Body, Login, Mistyped, Answer, Requests
<1>3. CASE Middleware
  <2>1. CASE ~Opens(request.token)
    BY <1>1, <1>3, <2>1 DEF Middleware, Answer, Requests
  <2>2. CASE Opens(request.token) /\ role # "admin" /\ LetInBy(url) = {}
    <3>1. request' = [request EXCEPT !.stage = "answered", !.status = "403", !.at = now,
                                     !.steady = request.steady /\ Current]
      BY <1>3, <2>2 DEF Middleware
    <3>2. request'.steady = (request.steady /\ Current)
      BY <1>1, <3>1, Zenon DEF Requests
    <3>3. request'.token = request.token /\ request'.url = request.url /\ request'.at = now
      BY <1>1, <3>1 DEF Requests
    <3> QED
      BY <2>2, <3>2, <3>3
  <2>3. CASE Opens(request.token) /\ ~(role # "admin" /\ LetInBy(url) = {})
    <3>1. request' = [request EXCEPT !.stage = "passed", !.by = LetInBy(url), !.at = now,
                                     !.steady = request.steady /\ Current]
      BY <1>3, <2>3 DEF Middleware
    <3>2. request'.token = request.token /\ request'.url = request.url /\ request'.at = now /\ request'.stage = "passed"
      BY <1>1, <3>1 DEF Requests
    <3> QED
      BY <2>3, <3>2
  <2> QED
    BY <2>1, <2>2, <2>3
<1>4. CASE MatchAdmin
  <2>1. \/ Answer("404")
        \/ \E e : request' = [request EXCEPT !.stage = "checked", !.entry = e]
    BY <1>4 DEF MatchAdmin
  <2> QED
    BY <1>1, <2>1 DEF Answer, Requests
<1>5. CASE MatchLogin
  <2>1. \/ Answer("405") \/ Answer("500")
        \/ \E e : request' = [request EXCEPT !.stage = "checked", !.entry = e]
    BY <1>5 DEF MatchLogin
  <2> QED
    BY <1>1, <2>1 DEF Answer, Requests
<1>6. CASE MatchApi
  <2>1. \/ Answer("404")
        \/ \E e : request' = [request EXCEPT !.stage = "checked", !.entry = e]
        \/ \E e : request' = [request EXCEPT !.stage = "matched", !.entry = e]
    BY <1>6 DEF MatchApi
  <2> QED
    BY <1>1, <2>1 DEF Answer, Requests
<1>7. CASE CheckApi
  <2>1. CASE ~Opens(request.token)
    BY <1>1, <1>7, <2>1 DEF CheckApi, Answer, Requests
  <2>2. CASE Opens(request.token)
    <3>1. request' = [request EXCEPT
            !.stage = IF LetInBy(url) = {} THEN "answered" ELSE "checked",
            !.status = IF LetInBy(url) = {} THEN "403" ELSE None,
            !.by = LetInBy(url), !.at = now, !.steady = request.steady /\ Current]
      BY <1>7, <2>2 DEF CheckApi
    <3>2. request'.steady = (request.steady /\ Current)
      BY <1>1, <3>1, Zenon DEF Requests
    <3>3. /\ request'.token = request.token /\ request'.url = request.url /\ request'.at = now
          /\ request'.stage = IF LetInBy(url) = {} THEN "answered" ELSE "checked"
      BY <1>1, <3>1 DEF Requests
    <3> QED
      BY <2>2, <3>2, <3>3
  <2> QED
    BY <2>1, <2>2
<1>8. CASE Dispatch
  <2>1. request.stage = "checked"
    BY <1>8 DEF Dispatch, Is
  <2>2. \/ Answer("disabled") \/ Answer("404") \/ Answer("served") \/ Answer("401")
        \/ \E e : request' = [request EXCEPT !.entry = e, !.via = "workspace"]
        \/ Set("found")
    BY <1>8 DEF Dispatch, PageOfModule, Handler, FindUser, Refresh
  <2> QED
    BY <1>1, <2>1, <2>2 DEF Answer, Set, Requests
<1> QED
  BY <1>2, <1>3, <1>4, <1>5, <1>6, <1>7, <1>8 DEF Step

\* A token that ends with something ends with what is later.
LEMMA TokenLasts ==
  ASSUME NEW t \in AnyToken, NEW n \in Int, NEW e1 \in Int, NEW e2 \in Int, TokenOk(t, n, e1),
         e1 = Never => e2 = Never, e1 <= e2
  PROVE  TokenOk(t, n, e2)
<1>1. t.exp \in Int
  BY DEF AnyToken
<1> QED
  BY <1>1, Ttls DEF TokenOk

\* What a step of the request does to the tokens.
LEMMA StepTokens ==
  ASSUME Kinds, Sessions, Step
  PROVE  /\ tokens' \in SUBSET AnyToken /\ used' \in [changes : Nat, logins : Nat, max : Bounds]
         /\ session' \in [found : {Never} \cup 0 .. now, issued : {Never} \cup 0 .. now]
         /\ Ends \in Int /\ Ends' \in Int /\ Ends <= Ends' /\ (Ends = Never <=> removed = Never)
         /\ Ends' = Never <=> removed = Never
         /\ removed # Never => session'.found <= removed
         /\ \A t \in tokens' : TokenOk(t, now, Ends')
<1> DEFINE Stays == session \in [found : {Never} \cup 0 .. now, issued : {Never} \cup 0 .. now]
<1>1. /\ tokens \in SUBSET AnyToken /\ used \in [changes : Nat, logins : Nat, max : Bounds] /\ now \in Nat
      /\ removed \in {Never} \cup 0 .. now /\ \A t \in tokens : TokenOk(t, now, Ends)
      /\ Stays /\ (removed # Never => session.found <= removed) /\ Never = -1
  BY DEF Kinds, Sessions, Never
<1>2. removed' = removed
  BY DEF Step
<1>3. Ends \in Int /\ (Ends = Never <=> removed = Never) /\ (removed # Never => removed <= Ends /\ Ends <= now)
  BY <1>1 DEF Ends, Later
<1>4. UNCHANGED session => Ends' = Ends
  BY <1>2 DEF Ends, Later
<1>5. CASE UNCHANGED <<tokens, session, used>>
  BY <1>1, <1>3, <1>4, <1>5
<1>6. CASE FindUser /\ UNCHANGED <<tokens, used>>
  <2>1. removed = Never /\ session' = [session EXCEPT !.found = now]
    BY <1>6 DEF FindUser
  <2>2. session' \in [found : {Never} \cup 0 .. now, issued : {Never} \cup 0 .. now]
    BY <1>1, <2>1
  <2>3. Ends' = Ends
    BY <1>2, <2>1 DEF Ends
  <2> QED
    BY <1>1, <1>3, <1>6, <2>1, <2>2, <2>3
<1>7. CASE Refresh /\ UNCHANGED session
  <2>1. PICK t \in tokens : Refreshable(t) /\ tokens' = tokens \cup {Issue("access")}
    BY <1>7 DEF Refresh
  <2>2. t.type = "refresh" /\ t.exp >= now - Leeway /\ t.exp \in Int /\ TokenOk(t, now, Ends)
    BY <1>1, <2>1 DEF Refreshable, Verified, AnyToken
  <2>3. Ends # Never => now <= Ends + RefreshTtl + Leeway
    BY <1>1, <1>3, <2>2, Ttls DEF TokenOk
  <2>4. Issue("access").type = "access" /\ Issue("access").exp = now + AccessTtl
    BY DEF Issue
  <2>5. Issue("access") \in AnyToken
    BY <1>1, Ttls DEF Issue, AnyToken
  <2>6. TokenOk(Issue("access"), now, Ends)
    BY <1>1, <1>3, <2>3, <2>4, Ttls DEF TokenOk
  <2>7. used' = [used EXCEPT !.logins = used.logins + 1]
    BY <1>7 DEF Refresh, MayIssue
  <2>8. used' \in [changes : Nat, logins : Nat, max : Bounds]
    BY <1>1, <2>7
  <2>9. \A k \in tokens' : TokenOk(k, now, Ends)
    BY <1>1, <2>1, <2>6
  <2>10. tokens' \in SUBSET AnyToken
    BY <1>1, <2>1, <2>5
  <2> QED
    BY <1>1, <1>3, <1>4, <1>7, <2>8, <2>9, <2>10
<1>8. CASE Login
  <2>1. PICK K \in SUBSET {"access", "refresh"} : tokens' = tokens \cup {Issue(k) : k \in K}
    BY <1>8 DEF Login
  <2>2. session' = [session EXCEPT !.issued = now] /\ used' = [used EXCEPT !.logins = used.logins + 1]
    BY <1>8 DEF Login, MayIssue
  <2>3. /\ session' \in [found : {Never} \cup 0 .. now, issued : {Never} \cup 0 .. now]
        /\ session'.found = session.found /\ session'.issued = now
        /\ used' \in [changes : Nat, logins : Nat, max : Bounds]
    BY <1>1, <2>2
  <2>4. Ends' = IF removed = Never THEN Never ELSE now
    BY <1>1, <1>2, <2>3 DEF Ends, Later
  <2>5. Ends' \in Int /\ Ends <= Ends' /\ (Ends' = Never <=> removed = Never)
    BY <1>1, <1>3, <2>4
  <2>6. ASSUME NEW k \in K PROVE Issue(k) \in AnyToken /\ TokenOk(Issue(k), now, Ends')
    <3>1. Issue(k).type = k /\ Issue(k).exp = now + (IF k = "access" THEN AccessTtl ELSE RefreshTtl)
      BY DEF Issue
    <3>2. Issue(k) \in AnyToken
      BY <1>1, Ttls DEF Issue, AnyToken
    <3> QED
      BY <1>1, <2>4, <3>1, <3>2, Ttls DEF TokenOk
  <2>7. ASSUME NEW t \in tokens PROVE TokenOk(t, now, Ends')
    <3>1. t \in AnyToken /\ TokenOk(t, now, Ends) /\ (Ends = Never => Ends' = Never) /\ now \in Int
      BY <1>1, <1>3, <2>5
    <3> QED
      BY <1>3, <2>5, <3>1, TokenLasts
  <2>8. tokens' \in SUBSET AnyToken /\ \A t \in tokens' : TokenOk(t, now, Ends')
    BY <1>1, <2>1, <2>6, <2>7
  <2> QED
    BY <1>1, <1>3, <2>3, <2>5, <2>8
<1>9. \/ UNCHANGED <<tokens, session, used>> \/ (FindUser /\ UNCHANGED <<tokens, used>>)
      \/ (Refresh /\ UNCHANGED session) \/ Login
  BY DEF Step, Dispatch, Handler
<1> QED
  BY <1>5, <1>6, <1>7, <1>8, <1>9

\* A step of the request keeps the invariant.
LEMMA StepInv ==
  ASSUME IInv, Step
  PROVE  IInv'
<1>1. Kinds /\ Tables /\ RequestOk(request, role) /\ Refusal /\ Sessions
  BY DEF IInv
<1>2. /\ role' = role /\ enabled' = enabled /\ published' = published /\ rows' = rows /\ held' = held
      /\ operation' = operation /\ snapshot' = snapshot /\ now' = now /\ removed' = removed
  BY DEF Step, policy
<1>3. Kinds'
  BY <1>1, <1>2, StepTokens DEF Kinds
<1>4. Tables'
  BY <1>1, <1>2 DEF Tables
<1>5. RequestOk(request', role')
  <2>1. CASE Redirect \/ Body
    <3>1. \A s \in {"redirected", "413"} : s \in Statuses /\ s # None /\ s # "served"
      BY DEF Statuses, None
    <3>2. PICK s \in {"redirected", "413"} : request' = [request EXCEPT !.stage = "answered", !.status = s]
      BY <2>1 DEF Redirect, Body, Answer
    <3>3. request.stage # "idle"
      BY <2>1 DEF Redirect, Body, Is
    <3>4. PICK q : q = request
      OBVIOUS
    <3> QED
      BY <1>1, <1>2, <3>1, <3>2, <3>3, <3>4, AnswerOk
  <2> QED
    BY <1>1, <1>2, <2>1, RouterSteps, AuthorizerSteps, DispatchStep, LoginStep DEF Step
<1>6. Refusal'
  <2>1. LetInBy(url)' = LetInBy(url) /\ Current' = Current
    BY <1>1, <1>2, StepKeeps DEF LetInBy, url, Compile, Current
  <2> QED
    BY <1>1, <1>2, <2>1, StepKeeps DEF Refusal
<1>7. Sessions'
  <2>1. /\ \A t \in tokens' : TokenOk(t, now, Ends')
        /\ Ends \in Int /\ Ends' \in Int /\ Ends <= Ends' /\ (Ends = Never => Ends' = Never)
        /\ (Ends = Never <=> removed = Never) /\ (removed # Never => session'.found <= removed)
    BY <1>1, StepTokens
  <2>2. request'.token = request.token /\ (request'.at = request.at \/ (request'.at = now /\ Opens(request.token)))
    BY <1>1, StepKeeps
  <2>3. now \in Nat /\ request.token \in AnyToken /\ request.at \in Int
    BY <1>1 DEF Kinds, RequestOk, Requests
  <2>4. Opens(request.token) /\ removed # Never => now <= LastServed(Ends)
    <3> SUFFICES ASSUME Opens(request.token), removed # Never PROVE now <= LastServed(Ends)
      OBVIOUS
    <3>1. request.token # NoToken /\ request.token.exp >= now - Leeway /\ request.token.type = "access"
      BY DEF Opens, Verified
    <3>2. request.token.exp <= Ends + RefreshTtl + Leeway + AccessTtl
      BY <1>1, <2>1, <3>1 DEF Sessions, TokenOk
    <3>3. request.token.exp \in Int
      BY <2>3 DEF AnyToken
    <3> QED
      BY <2>1, <2>3, <3>1, <3>2, <3>3, Ttls DEF LastServed
  <2>5. LastServed(Ends) \in Int /\ LastServed(Ends') \in Int /\ LastServed(Ends) <= LastServed(Ends')
    <3>1. \A m, n \in Int : m <= n => LastServed(m) \in Int /\ LastServed(n) \in Int /\ LastServed(m) <= LastServed(n)
      BY Ttls DEF LastServed
    <3> QED
      BY <2>1, <3>1
  <2>6. request'.at <= now /\ (removed # Never => request'.at <= LastServed(Ends'))
    <3>1. request.at <= now /\ (removed # Never => request.at <= LastServed(Ends))
      BY <1>1 DEF Sessions
    <3> QED
      BY <2>2, <2>3, <2>4, <2>5, <3>1
  <2>7. request.token = NoToken \/ TokenOk(request.token, now, Ends')
    <3>1. request.token = NoToken \/ TokenOk(request.token, now, Ends)
      BY <1>1 DEF Sessions
    <3>2. now \in Int
      BY <2>3
    <3> QED
      BY <2>1, <2>3, <3>1, <3>2, TokenLasts
  <2> QED
    BY <1>2, <2>1, <2>2, <2>6, <2>7 DEF Sessions
<1> QED
  BY <1>3, <1>4, <1>5, <1>6, <1>7 DEF IInv

\* What leaves the request alone but for its steadiness, or makes it idle, while
\* there is no answer, leaves the request as it should be.
LEMMA RequestKept ==
  ASSUME RequestOk(request, role), role' = role, Sessions,
         removed' = removed, now' = now, tokens' = tokens, session' = session, Kinds,
         \/ Disturb /\ ~Is("answered")
         \/ request' = Idle
  PROVE  RequestOk(request', role') /\ Refusal' /\ Sessions'
<1>1. request \in Requests
  BY DEF RequestOk
<1>2. CASE Disturb /\ ~Is("answered")
  <2>1. PICK q : q = request
    OBVIOUS
  <2>2. RequestOk(request', role')
    BY <1>2, <2>1, DisturbOk DEF Disturb
  <2>3. request'.stage = request.stage /\ request'.token = request.token /\ request'.at = request.at
    BY <1>1, <1>2 DEF Disturb, Requests
  <2>4. Refusal'
    BY <1>2, <2>3 DEF Refusal, Is
  <2>5. Sessions'
    BY <2>3 DEF Sessions, Ends
  <2> QED
    BY <2>2, <2>4, <2>5
<1>3. CASE request' = Idle
  <2>1. RequestOk(request', role')
    BY <1>3, IdleOk
  <2>2. Idle.stage = "idle" /\ Idle.token = NoToken /\ Idle.at = 0
    BY DEF Idle
  <2>3. Refusal'
    BY <1>3, <2>2 DEF Refusal
  <2>4. 0 <= now /\ (removed # Never => 0 <= LastServed(Ends))
    BY Ttls DEF Kinds, LastServed, Ends, Later, Never
  <2>5. Sessions'
    BY <1>3, <2>2, <2>4 DEF Sessions, Ends
  <2> QED
    BY <2>1, <2>3, <2>5
<1> QED
  BY <1>2, <1>3

\* A change spends one of the changes there are.
LEMMA ChangeKinds ==
  ASSUME Kinds, Change
  PROVE  used' \in [changes : Nat, logins : Nat, max : Bounds]
<1>1. used \in [changes : Nat, logins : Nat, max : Bounds] /\ used' = [used EXCEPT !.changes = used.changes + 1]
  BY DEF Kinds, Change
<1> QED
  BY <1>1

\* What the operations leave of the tables, one by one.
LEMMA OperationTables ==
  ASSUME Tables, Enable \/ Disable \/ Bind \/ Publish \/ Retract \/ Erase \/ Abandon
  PROVE  Tables'
<1>1. /\ published \in Contracts \cup {{}} /\ held \in SUBSET PluginKeys /\ \E C \in Contracts \cup {{}} : rows = Rows(C)
      /\ operation \in [at : {None, "retracted"}, script : {{}}] \cup [at : {"bound"}, script : Contracts]
      /\ held' = held /\ snapshot' = snapshot
  BY DEF Tables, Enable, Disable, Bind, Publish, Retract, Erase, Abandon
<1>2. Rows({}) = {}
  BY DEF Rows
<1>3. NoOperation \in [at : {None, "retracted"}, script : {{}}] /\ NoOperation.at # "bound"
  BY DEF NoOperation, None
<1>4. CASE Enable \/ Disable
  BY <1>4 DEF Tables, Enable, Disable
<1>5. CASE Bind
  <2>1. PICK C \in Contracts : rows' = Rows(C) /\ operation' = [at |-> "bound", script |-> C]
    BY <1>5 DEF Bind
  <2>2. published' = published
    BY <1>5 DEF Bind
  <2>3. operation' \in [at : {"bound"}, script : Contracts] /\ operation'.script = C
    BY <2>1
  <2> QED
    BY <1>1, <2>1, <2>2, <2>3 DEF Tables
<1>6. CASE Publish
  <2>1. operation.at = "bound" /\ published' = operation.script /\ operation' = NoOperation /\ rows' = rows
    BY <1>6 DEF Publish
  <2>2. operation.script \in Contracts
    BY <1>1, <2>1 DEF None
  <2> QED
    BY <1>1, <1>3, <2>1, <2>2 DEF Tables
<1>7. CASE Retract
  <2>1. published' = {} /\ operation' = [at |-> "retracted", script |-> {}] /\ rows' = rows
    BY <1>7 DEF Retract
  <2>2. operation' \in [at : {None, "retracted"}, script : {{}}] /\ operation'.at # "bound"
    BY <2>1
  <2> QED
    BY <1>1, <2>1, <2>2 DEF Tables
<1>8. CASE Erase
  <2>1. published' = published /\ operation' = NoOperation /\ rows' = Rows({})
    BY <1>2, <1>8 DEF Erase
  <2> QED
    BY <1>1, <1>3, <2>1 DEF Tables
<1>9. CASE Abandon
  BY <1>1, <1>3, <1>9 DEF Abandon, Tables
<1> QED
  BY <1>4, <1>5, <1>6, <1>7, <1>8, <1>9

\* The plugin and the role change, and the host restarts.
LEMMA ChangesInv ==
  ASSUME IInv, \/ Enable \/ Disable \/ Bind \/ Publish \/ Retract \/ Erase \/ Abandon
               \/ ReplaceKeys \/ Restart \/ Done
  PROVE  IInv'
<1>1. Kinds /\ Tables /\ RequestOk(request, role) /\ Refusal /\ Sessions
  BY DEF IInv
<1>2. role' = role /\ tokens' = tokens /\ now' = now /\ removed' = removed /\ session' = session
  BY DEF Enable, Disable, Bind, Publish, Retract, Erase, Abandon, ReplaceKeys, Restart, Done
<1>3. (Disturb /\ ~Is("answered")) \/ request' = Idle
  BY DEF Enable, Disable, Bind, Publish, Retract, Erase, Abandon, ReplaceKeys, Restart, Done, Change
<1>4. RequestOk(request', role') /\ Refusal' /\ Sessions'
  BY <1>1, <1>2, <1>3, RequestKept
<1>5. Kinds'
  <2>1. Change \/ UNCHANGED used
    BY DEF Enable, Disable, Bind, Publish, Retract, Erase, Abandon, ReplaceKeys, Restart, Done
  <2>2. used' \in [changes : Nat, logins : Nat, max : Bounds]
    BY <1>1, <2>1, ChangeKinds DEF Kinds
  <2>3. enabled' \in BOOLEAN
    BY <1>1 DEF Enable, Disable, Bind, Publish, Retract, Erase, Abandon, ReplaceKeys, Restart, Done, Kinds, policy
  <2> QED
    BY <1>1, <1>2, <2>2, <2>3 DEF Kinds
<1>6. Tables'
  <2>1. published \in Contracts \cup {{}} /\ held \in SUBSET PluginKeys
    BY <1>1 DEF Tables
  <2>2. PICK C \in Contracts \cup {{}} : rows = Rows(C)
    BY <1>1 DEF Tables
  <2>3. CASE ReplaceKeys
    <3>1. PICK K \in SUBSET PluginKeys \ {held} : held' = K /\ snapshot' = [rows |-> Rows(C), held |-> K]
      BY <2>2, <2>3 DEF ReplaceKeys
    <3>2. published' = published /\ rows' = rows /\ operation' = operation
      BY <2>3 DEF ReplaceKeys
    <3> QED
      BY <1>1, <3>1, <3>2 DEF Tables
  <2>4. CASE Restart
    <3>1. PICK D \in Contracts \cup {{}} : rows' = Rows(D)
      BY <2>2, <2>4 DEF Restart
    <3>2. published' \in Contracts \cup {{}} /\ held' = held /\ operation' = NoOperation
      BY <2>4 DEF Restart
    <3>3. snapshot' = [rows |-> Rows(D), held |-> held]
      BY <2>4, <3>1 DEF Restart
    <3>4. NoOperation \in [at : {None, "retracted"}, script : {{}}] /\ NoOperation.at # "bound"
      BY DEF NoOperation, None
    <3> QED
      BY <2>1, <3>1, <3>2, <3>3, <3>4 DEF Tables
  <2>5. CASE Done
    BY <1>1, <2>5 DEF Done, policy, Tables
  <2> QED
    BY <1>1, <2>3, <2>4, <2>5, OperationTables
<1> QED
  BY <1>4, <1>5, <1>6 DEF IInv

\* A request comes in, with one of the user's tokens or without any.
LEMMA ArriveInv ==
  ASSUME IInv, Arrive
  PROVE  IInv'
<1>1. Kinds /\ Tables /\ RequestOk(request, role) /\ Refusal /\ Sessions
  BY DEF IInv
<1>2. UNCHANGED <<role, enabled, published, rows, operation, held, snapshot, tokens, now, removed, session, used>>
  BY DEF Arrive, policy
<1>3. PICK u \in used.max.urls, t \in tokens \cup {NoToken} :
        request' = [Idle EXCEPT !.stage = "received", !.url = u, !.token = t]
  BY DEF Arrive
<1>4. used.max \in Bounds /\ tokens \in SUBSET AnyToken /\ now \in Nat /\ removed \in {Never} \cup 0 .. now
  BY <1>1 DEF Kinds
<1>5. u \in HostUrls /\ t \in AnyToken
  BY <1>3, <1>4 DEF HostUrls, AnyToken, NoToken
<1>6. RequestOk(request', role')
  BY <1>2, <1>3, <1>5, ArriveOk
<1>7. request'.stage = "received" /\ request'.token = t /\ request'.at = 0
  BY <1>3 DEF Idle
<1>8. Refusal'
  BY <1>7 DEF Refusal
<1>9. 0 <= now /\ (removed # Never => 0 <= LastServed(Ends))
  BY <1>1, <1>4, Ttls DEF LastServed, Kinds, Ends, Later, Never
<1>10. Sessions'
  <2>1. t = NoToken \/ TokenOk(t, now, Ends)
    BY <1>1 DEF Sessions
  <2>2. Ends' = Ends
    BY <1>2 DEF Ends
  <2> QED
    BY <1>1, <1>2, <1>7, <1>9, <2>1, <2>2 DEF Sessions
<1>11. Kinds' /\ Tables'
  BY <1>1, <1>2 DEF Kinds, Tables
<1> QED
  BY <1>6, <1>8, <1>10, <1>11 DEF IInv

\* Time passes, or the user is deleted.
LEMMA TimeInv ==
  ASSUME IInv, RemoveUser \/ Tick
  PROVE  IInv'
<1>1. Kinds /\ Tables /\ RequestOk(request, role) /\ Refusal /\ Sessions
  BY DEF IInv
<1>2. /\ UNCHANGED <<role, enabled, published, rows, operation, held, snapshot, session, request, used>>
      /\ request.stage # "answered"
  BY DEF RemoveUser, Tick, policy, Is
<1>3. /\ now \in Nat /\ removed \in {Never} \cup 0 .. now /\ tokens \in SUBSET AnyToken /\ Never = -1
      /\ session \in [found : {Never} \cup 0 .. now, issued : {Never} \cup 0 .. now]
  BY <1>1 DEF Kinds, Never
<1>4. /\ now' \in Nat /\ now <= now' /\ removed' \in {Never} \cup 0 .. now' /\ tokens' \subseteq tokens
      /\ removed' = removed \/ (removed = Never /\ removed' = now /\ now' = now)
  <2>1. CASE RemoveUser
    BY <1>3, <2>1 DEF RemoveUser
  <2>2. CASE Tick
    BY <1>3, <2>2 DEF Tick
  <2> QED
    BY <2>1, <2>2
<1>a. \/ removed' = removed /\ Ends' = Ends
      \/ removed = Never /\ removed' = now /\ now' = now /\ Ends = Never /\ Ends' = now
  BY <1>2, <1>3, <1>4 DEF Ends, Later
<1>b. Ends \in Int /\ (Ends = Never <=> removed = Never)
  BY <1>3 DEF Ends, Later
<1>5. ASSUME NEW t \in AnyToken, TokenOk(t, now, Ends) PROVE TokenOk(t, now', Ends')
  <2>1. t.exp \in Int
    BY DEF AnyToken
  <2>2. t.exp <= now + AccessTtl => t.exp <= now' + AccessTtl /\ t.exp <= now + RefreshTtl + Leeway + AccessTtl
    BY <1>3, <1>4, <2>1, Ttls
  <2>3. t.exp <= now + RefreshTtl => t.exp <= now' + RefreshTtl
    BY <1>3, <1>4, <2>1, Ttls
  <2>4. CASE Ends' = Ends
    BY <1>5, <2>2, <2>3, <2>4 DEF TokenOk
  <2>5. CASE Ends = Never /\ Ends' = now
    BY <1>5, <2>2, <2>3, <2>5 DEF TokenOk
  <2> QED
    BY <1>a, <2>4, <2>5
<1>6. request.token \in AnyToken /\ request.at \in Int
  BY <1>1 DEF RequestOk, Requests
<1>7. request.at <= now' /\ (removed' # Never => request.at <= LastServed(Ends') /\ session.found <= removed')
  <2>1. request.at <= now /\ (removed # Never => request.at <= LastServed(Ends) /\ session.found <= removed)
    BY <1>1 DEF Sessions
  <2>2. request.at <= LastServed(now)
    BY <1>3, <1>6, <2>1, Ttls DEF LastServed
  <2>3. request.at <= now'
    BY <1>3, <1>4, <1>6, <2>1
  <2>4. session.found <= now
    BY <1>3
  <2> QED
    BY <1>a, <2>1, <2>2, <2>3, <2>4
<1>8. Sessions'
  <2>1. \A t \in tokens' : TokenOk(t, now', Ends')
    BY <1>1, <1>3, <1>4, <1>5 DEF Sessions
  <2>2. request.token = NoToken \/ TokenOk(request.token, now', Ends')
    BY <1>1, <1>5, <1>6 DEF Sessions
  <2> QED
    BY <1>2, <1>7, <2>1, <2>2 DEF Sessions
<1>9. Refusal'
  BY <1>2 DEF Refusal
<1>10. Kinds' /\ Tables' /\ RequestOk(request', role')
  BY <1>1, <1>2, <1>3, <1>4 DEF Kinds, Tables
<1> QED
  BY <1>8, <1>9, <1>10 DEF IInv

\* A step that changes nothing keeps the invariant.
LEMMA Stutter ==
  ASSUME IInv, UNCHANGED vars
  PROVE  IInv'
<1>1. UNCHANGED <<role, enabled, published, rows, operation, held, snapshot, tokens, now, removed, session, request, used>>
  BY DEF vars
<1>2. Refusal'
  BY <1>1 DEF IInv, Refusal, LetInBy, url, Compile, Current
<1>3. Ends' = Ends
  BY <1>1 DEF Ends
<1> QED
  BY <1>1, <1>2, <1>3 DEF IInv, Kinds, Tables, Sessions

\* Every step keeps the invariant.
THEOREM Invariance == Spec => []IInv
<1>1. IInv /\ [Next]_vars => IInv'
  BY StepInv, ChangesInv, ArriveInv, TimeInv, Stutter DEF Next
<1> QED
  BY InitInv, <1>1, PTL DEF Spec

-------------------------------------------------------------------------------
(* What follows from the invariant.                                           *)

\* The types of the state, and that the bindings are those of one script, of the
\* one about to be published while there is one.
THEOREM TypeCorrect == Spec => []TypeOK
<1>1. IInv => TypeOK
  <2> SUFFICES ASSUME IInv PROVE TypeOK
    OBVIOUS
  <2>1. Kinds /\ Tables /\ RequestOk(request, role) /\ Sessions
    BY DEF IInv
  <2>2. /\ role \in UserRoles /\ enabled \in BOOLEAN /\ removed \in {Never} \cup 0 .. now
        /\ session \in [found : {Never} \cup 0 .. now, issued : {Never} \cup 0 .. now]
    BY <2>1 DEF Kinds
  <2>a. /\ rows \in {Rows(C) : C \in Contracts \cup {{}}} /\ (operation.at = "bound" => rows = Rows(operation.script))
        /\ operation \in [at : {None, "retracted"}, script : {{}}] \cup [at : {"bound"}, script : Contracts]
    BY <2>1 DEF Tables
  <2>3. /\ published \in Contracts \cup {{}} /\ held \subseteq PluginKeys
        /\ snapshot.held \subseteq PluginKeys /\ snapshot.rows \in {Rows(C) : C \in Contracts \cup {{}}}
    BY <2>1 DEF Tables
  <2>4. ASSUME NEW t \in tokens PROVE t.type \in {"access", "refresh"} /\ t.exp <= now + RefreshTtl + AccessTtl
    <3>1. TokenOk(t, now, Ends) /\ t.exp \in Int /\ now \in Nat
      BY <2>1 DEF Sessions, Kinds, AnyToken
    <3> QED
      BY <3>1, Ttls DEF TokenOk
  <2>5. Is("answered") <=> request.status # None
    BY <2>1 DEF RequestOk, Is
  <2>6. request.stage \in {"checked", "matched", "found"} => request.entry # NoEntry
    <3> SUFFICES ASSUME request.stage \in {"checked", "matched", "found"} PROVE request.entry # NoEntry
      OBVIOUS
    <3>1. request.entry \in AnyEntry
      BY <2>1 DEF RequestOk, EntryFits, IsFound
    <3>2. \A e \in Builtins : e.plugin = "host"
      <4>1. DashboardPage.plugin = "host" /\ WorkspaceEntry.plugin = "host" /\ DeleteUser.plugin = "host"
        BY DEF DashboardPage, WorkspaceEntry, DeleteUser, Page, Route, Entry
      <4> QED
        BY <4>1, BuiltinCases DEF IsHosts
    <3>3. request.entry.plugin \in {"host", "self"}
      BY <3>1, <3>2, ContractEntries DEF AnyEntry
    <3>4. NoEntry.plugin = "none"
      BY DEF NoEntry, None
    <3> QED
      BY <3>3, <3>4
  <2> QED
    BY <2>2, <2>a, <2>3, <2>4, <2>5, <2>6 DEF TypeOK
<1> QED
  BY <1>1, Invariance, PTL

\* What a served request that was asked for says of those who were let in.
LEMMA AskedWas ==
  ASSUME IInv, Asked
  PROVE  /\ request.entry \in AnyEntry /\ (ByRouter(request) \/ ByWorkspace(request))
         /\ request.entry = WorkspaceEntry => ShowsTemplate(url.path)
         /\ request.by \subseteq CanLetIn(url) /\ request.by # {}
         /\ IsPath(url.path) /\ url = request.url /\ ~request.entry.public
<1>1. RequestOk(request, role)
  BY DEF IInv
<1>2. request.stage = "answered" /\ request.status = "served" /\ ~request.entry.public /\ url = request.url
      /\ ~(role = "admin" /\ url.surface = "admin")
  BY DEF Asked, Protected, Served, Is, url
<1>3. /\ request.entry \in AnyEntry /\ (ByRouter(request) \/ ByWorkspace(request))
      /\ request.entry = WorkspaceEntry => ShowsTemplate(url.path)
  BY <1>1, <1>2 DEF RequestOk, EntryFits, IsFound
<1>4. request.by \subseteq CanLetIn(url) /\ request.by # {}
  BY <1>1, <1>2 DEF RequestOk, Judged, IsJudged, IsFound
<1>5. IsPath(url.path)
  BY <1>1, <1>2, RequestsAssumption DEF RequestOk, HostUrls
<1> QED
  BY <1>2, <1>3, <1>4, <1>5

\* A reserved path is not opened to anybody by what a plugin publishes.
THEOREM BuiltinsKept == Spec => []BuiltinsKeepTheirKeys
<1>1. IInv => BuiltinsKeepTheirKeys
  <2> SUFFICES ASSUME IInv, Asked, request.entry.plugin = "host", request.entry # WorkspaceRoute, IsReserved(url)
               PROVE  request.entry.key \in request.by \/ request.by \cap WideKeys(url) # {}
    BY DEF BuiltinsKeepTheirKeys
  <2>1. /\ request.entry \in AnyEntry /\ (ByRouter(request) \/ ByWorkspace(request))
        /\ request.by \subseteq CanLetIn(url) /\ request.by # {}
        /\ IsPath(url.path) /\ url = request.url /\ ~request.entry.public
    BY AskedWas
  <2>2. PICK e : e = request.entry
    OBVIOUS
  <2>3. PICK u : u = url
    OBVIOUS
  <2>4. e \in Builtins
    BY <2>1, <2>2, ContractEntries DEF AnyEntry
  <2>5. e.public # TRUE /\ e # WorkspaceEntry
    BY <2>1, <2>2, WorkspaceRouteIs
  <2>6. PICK k \in request.by : k \in CanLetIn(u)
    BY <2>1, <2>3
  <2>7. CASE ByRouter(request)
    <3>1. Matches(e.path, u.path) /\ e.method = u.method
      BY <2>1, <2>2, <2>3, <2>7 DEF ByRouter
    <3>2. k = e.key \/ k \in WideKeys(u)
      BY <2>1, <2>3, <2>4, <2>5, <2>6, <3>1, BuiltinKept
    <3> QED
      BY <2>2, <2>3, <2>6, <3>2
  <2>8. CASE ByWorkspace(request)
    <3>1. /\ u.surface = "admin" /\ u.method = "GET" /\ Matches(<<"admin", "workspace", ModuleStar>>, u.path)
          /\ ~ShowsTemplate(u.path) /\ e.kind = "page" /\ Matches(e.path, PathOfModule(u.path))
      BY <2>1, <2>2, <2>3, <2>8 DEF ByWorkspace, InWorkspace
    <3>2. k = e.key \/ k \in WideKeys(u)
      BY <2>1, <2>3, <2>4, <2>6, <3>1, PageKept
    <3> QED
      BY <2>2, <2>3, <2>6, <3>2
  <2> QED
    BY <2>1, <2>7, <2>8
<1> QED
  BY <1>1, Invariance, PTL

\* The workspace opens a page to nobody to whom the page itself is closed.
THEOREM WorkspaceFollows == Spec => []WorkspaceFollowsPages
<1>1. IInv => WorkspaceFollowsPages
  <2> SUFFICES ASSUME IInv, Asked, request.entry = WorkspaceRoute \/ request.via = "workspace",
                      request.by \cap WideKeys(url) = {}
               PROVE  \/ request.entry # WorkspaceRoute /\ request.entry.key \in request.by
                      \/ /\ request.entry = WorkspaceRoute
                         /\ \A e \in Builtins : e.kind = "page" /\ e.path = ModulePath => e.key \in request.by
    BY DEF WorkspaceFollowsPages
  <2>1. /\ request.entry \in AnyEntry /\ (ByRouter(request) \/ ByWorkspace(request))
        /\ request.entry = WorkspaceEntry => ShowsTemplate(url.path)
        /\ request.by \subseteq CanLetIn(url) /\ request.by # {}
        /\ IsPath(url.path) /\ url = request.url /\ ~request.entry.public
    BY AskedWas
  <2>2. PICK f : f = request.entry
    OBVIOUS
  <2>3. PICK u : u = url
    OBVIOUS
  <2>4. PICK k \in request.by : k \in CanLetIn(u) /\ k \notin WideKeys(u)
    BY <2>1, <2>3
  <2>5. /\ WorkspaceEntry.public = FALSE /\ WorkspaceEntry.kind = "route" /\ WorkspaceEntry.method = "GET"
        /\ WorkspaceEntry.surface = "admin" /\ WorkspaceEntry.path = <<"admin", "workspace", ModuleStar>>
    BY DEF WorkspaceEntry, Route, Entry, SurfaceOf
  <2>6. CASE f = WorkspaceEntry
    <3>1. /\ u.surface = "admin" /\ u.method = "GET" /\ Matches(<<"admin", "workspace", ModuleStar>>, u.path)
          /\ ShowsTemplate(u.path)
      BY <2>1, <2>2, <2>3, <2>5, <2>6 DEF ByRouter, ByWorkspace
    <3>2. ModulePath = PathOfModule(u.path)
      BY <2>1, <2>3, ModuleOfUrl
    <3>3. ASSUME NEW e \in Builtins, e.kind = "page", e.path = ModulePath PROVE e.key \in request.by
      <4>1. e.key = k
        BY <2>1, <2>3, <2>4, <3>1, <3>2, <3>3, TemplateKept
      <4> QED
        BY <2>4, <4>1
    <3> QED
      BY <2>2, <2>6, <3>3, WorkspaceRouteIs
  <2>7. CASE f # WorkspaceEntry
    <3>1. ByWorkspace(request)
      BY <2>1, <2>2, <2>7, WorkspaceRouteIs DEF ByRouter
    <3>2. /\ u.surface = "admin" /\ u.method = "GET" /\ Matches(<<"admin", "workspace", ModuleStar>>, u.path)
          /\ ~ShowsTemplate(u.path) /\ f.kind = "page" /\ Matches(f.path, PathOfModule(u.path))
      BY <2>1, <2>2, <2>3, <3>1 DEF ByWorkspace, InWorkspace
    <3>3. f \in Builtins \cup UNION Contracts
      BY <2>1, <2>2 DEF AnyEntry
    <3>4. f.key = k
      BY <2>1, <2>3, <2>4, <3>2, <3>3, PageKept
    <3> QED
      BY <2>2, <2>4, <2>7, <3>4, WorkspaceRouteIs
  <2> QED
    BY <2>6, <2>7
<1> QED
  BY <1>1, Invariance, PTL

\* Nobody who holds the key of what would answer is refused by a snapshot of the
\* current tables.
THEOREM HolderServed == Spec => []HolderIsServed
<1>1. IInv => HolderIsServed
  <2> SUFFICES ASSUME IInv, Is("answered"), request.status = "403", request.steady,
                      NEW e \in Answering(All, url.surface, url.method, url.path),
                      e.key \in SeededFor(role) \cup held,
                      \A i \in DOMAIN e.path : e.path[i] \notin Stars \cup DOMAIN Begins \cup {Bare}
               PROVE  FALSE
    BY DEF HolderIsServed
  <2>1. Current /\ LetInBy(url) = {}
    BY DEF IInv, Refusal, Is
  <2>2. published \in Contracts \cup {{}} /\ rows = Rows(published) /\ held \in SUBSET PluginKeys
    BY <2>1 DEF IInv, Tables, Current
  <2>3. snapshot.rows = Rows(published) /\ snapshot.held = held
    BY <2>1, <2>2 DEF Compile, Current
  <2>4. IsPath(url.path)
    <3>1. url \in HostUrls
      BY DEF IInv, RequestOk, Is, url
    <3> QED
      BY <3>1, RequestsAssumption DEF HostUrls
  <2>5. PICK C \in Contracts \cup {{}} : C = published
    BY <2>2
  <2>6. PICK u : u = url
    OBVIOUS
  <2>7. e \in Answering(Builtins \cup C, u.surface, u.method, u.path)
    BY <2>5, <2>6 DEF All
  <2>8. e.key \in CoveringKeys(SeedBindings \cup Rows(C), u.surface, u.method, u.path)
    BY <2>2, <2>4, <2>6, <2>7, HolderLetIn
  <2>9. e.key \in LetInBy(url)
    BY <2>3, <2>5, <2>6, <2>8 DEF LetInBy
  <2> QED
    BY <2>1, <2>9
<1> QED
  BY <1>1, Invariance, PTL

\* A deleted user is let in by logins that found it before only, and for no longer
\* than the tokens can last.
THEOREM SessionsEnd == Spec => []SessionEnds
<1>1. IInv => SessionEnds
  <2> SUFFICES ASSUME IInv, Protected, removed # Never
               PROVE  /\ session.found <= removed
                      /\ request.at <= Later(removed, session.issued) + RefreshTtl + AccessTtl + 2 * Leeway
    BY DEF SessionEnds
  <2> QED
    BY DEF IInv, Sessions, LastServed, Ends
<1> QED
  BY <1>1, Invariance, PTL
===============================================================================
