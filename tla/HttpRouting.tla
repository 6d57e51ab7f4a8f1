----------------------------- MODULE HttpRouting -----------------------------
(***************************************************************************)
(* How the host matches paths: the patterns of registered routes and pages *)
(* (runtime/registry.rs) and, by different rules, the patterns of policy   *)
(* bindings (auth/authorizer.rs).                                          *)
(*                                                                         *)
(* A path is the sequence of what stands between its slashes, without the  *)
(* leading one: "/" is <<"">>, "/admin/" is <<"admin", "">>.  A pattern is *)
(* such a sequence too, in which the elements of Params and Stars are not  *)
(* literal.  SegmentOrder lists the segments in the order of strings.      *)
(***************************************************************************)
EXTENDS Integers, Sequences, FiniteSets

CONSTANTS
  Params,         \* segments like {id}
  Stars,          \* segments * and {*rest}
  NamedStars,     \* those of the second form
  Begins,         \* for "*" and literals that end in it: the segments that begin as they do
  SegmentOrder    \* all segments, literal or not, smallest first

\* The segment before a second slash, and after a last one.
Gap == ""

ASSUME RoutingAssumption ==
  /\ Params \cap Stars = {} /\ NamedStars \subseteq Stars
  /\ Gap \notin Params \cup Stars
  /\ Stars \ NamedStars \subseteq DOMAIN Begins
  /\ DOMAIN Begins \cap (Params \cup NamedStars) = {}

IsLiteral(s) == s \notin Params \cup Stars
Least(m, n)  == IF m < n THEN m ELSE n

\* HttpSurface::from_path: "/admin" and what is below it; "/admin-login" is not.
SurfaceOf(path) == IF path[1] = "admin" THEN "admin" ELSE "api"

\* http_path_match_score: a literal fits itself, a parameter anything but "".
Fits(s, segment) == IF IsLiteral(s) THEN segment = s ELSE s \in Params /\ segment # Gap

\* The first n segments of a pattern fit those of a path, and then the pattern
\* ends with the path, or goes on with a star, which takes all that is left.
FitsUpTo(pattern, path, n) ==
  /\ n <= Len(pattern) /\ n <= Len(path)
  /\ \A i \in 1 .. n : Fits(pattern[i], path[i])
  /\ \/ n = Len(pattern) /\ n = Len(path)
     \/ n < Len(pattern) /\ pattern[n + 1] \in Stars

Matches(pattern, path) == \E n \in 0 .. Len(path) : FitsUpTo(pattern, path, n)

\* 3 for a literal, 2 for a parameter, 1 more when nothing was left to a star.
Score(pattern, path) ==
  LET n        == CHOOSE n \in 0 .. Len(path) : FitsUpTo(pattern, path, n)
      literals == {i \in 1 .. n : IsLiteral(pattern[i])}
  IN  2 * n + Cardinality(literals) + (IF n = Len(pattern) THEN 1 ELSE 0)

\* Ties go to the path that is smallest as a string.
Rank(s) == CHOOSE i \in 1 .. Len(SegmentOrder) : SegmentOrder[i] = s
Smaller(p, q) ==
  \E n \in 0 .. Least(Len(p), Len(q)) :
    /\ \A i \in 1 .. n : p[i] = q[i]
    /\ \/ n = Len(p) /\ n < Len(q)
       \/ n < Len(p) /\ n < Len(q) /\ Rank(p[n + 1]) < Rank(q[n + 1])

\* match_http_on and admin_page: the best of the entries whose pattern matches.
Best(entries, path) ==
  LET matching == {e \in entries : Matches(e.path, path)}
      top      == {e \in matching : \A f \in matching : Score(f.path, path) <= Score(e.path, path)}
  IN  {e \in top : \A f \in top : ~Smaller(f.path, e.path)}

\* match_http_on: methods are compared in upper case, entries hold theirs so.
MatchHttp(routes, surface, method, path) ==
  Best({r \in routes : r.surface = surface /\ r.method = method}, path)

-------------------------------------------------------------------------------
\* path_segments_overlap: can some path match both patterns?
Compatible(s, t) ==
  /\ s \notin Stars /\ t \notin Stars
  /\ IsLiteral(s) /\ IsLiteral(t) => s = t
  /\ IsLiteral(s) /\ ~IsLiteral(t) => s # Gap
  /\ ~IsLiteral(s) /\ IsLiteral(t) => t # Gap

Overlap(p, q) ==
  \E n \in 0 .. Least(Len(p), Len(q)) :
    /\ \A i \in 1 .. n : Compatible(p[i], q[i])
    /\ \/ n = Len(p) /\ n = Len(q)
       \/ n < Len(p) /\ p[n + 1] \in Stars
       \/ n < Len(q) /\ q[n + 1] \in Stars

-------------------------------------------------------------------------------
\* split_path_segments of a binding: slashes at both ends are dropped.
Trimmed(path) ==
  LET kept == {i \in 1 .. Len(path) : path[i] # Gap}
  IN  IF kept = {} THEN <<>>
      ELSE SubSeq(path, CHOOSE i \in kept : \A j \in kept : i <= j,
                        CHOOSE i \in kept : \A j \in kept : j <= i)

\* is_path_param: "{*rest}" is a parameter like any other, "{}" is not one.
Bare          == "{}"
BindingParams == (Params \cup NamedStars) \ {Bare}

\* path_pattern_matches: a pattern that ends in "*" is a prefix of the path as a
\* string, a star in the middle of its last segment included, and every other
\* segment is taken literally; a parameter takes exactly one segment, even an
\* empty one.
PrefixCovers(pattern, path) ==
  LET n == Len(pattern)
  IN  /\ n <= Len(path)
      /\ \A i \in 1 .. n - 1 : pattern[i] = path[i]
      /\ path[n] \in Begins[pattern[n]]
\* Mutant of BindingCovers: parameters are compared like literals.
BindingEquals(pattern, path) == Trimmed(pattern) = Trimmed(path)
BindingCovers(pattern, path) ==
  IF pattern[Len(pattern)] \in DOMAIN Begins THEN PrefixCovers(pattern, path)
  ELSE LET p == Trimmed(pattern)
           a == Trimmed(path)
       IN  Len(p) = Len(a) /\ \A i \in 1 .. Len(p) : p[i] = a[i] \/ p[i] \in BindingParams

\* http_allowed: a binding matches by surface, method and path, and one of those
\* that do has a key the role holds; a role without a row holds none.
CoveringKeys(bindings, surface, method, path) ==
  {b.key : b \in {c \in bindings : c.surface = surface /\ c.method = method /\ BindingCovers(c.path, path)}}
HttpAllowed(bindings, grants, role, surface, method, path) ==
  \E k \in CoveringKeys(bindings, surface, method, path) : <<role, k>> \in grants
===============================================================================
