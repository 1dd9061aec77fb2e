------------------------------ MODULE Datadiff ------------------------------
(***************************************************************************)
(* dataquality/datadiff: the comparisons of sets, maps, schemas and        *)
(* aggregates, and the Reconciler that runs four layers through a          *)
(* Comparator, any of which may fail.  A name is the sequence of its       *)
(* dot-separated parts; an aggregate is a float: a number, an infinity or  *)
(* NaN.                                                                    *)
(***************************************************************************)
EXTENDS Integers, Sequences, FiniteSets, SequencesExt

\* s without the elements seen before.
Distinct(s) == LET first == SelectSeq([i \in DOMAIN s |-> i],
                              LAMBDA i : \A j \in 1 .. i - 1 : s[j] # s[i])
               IN [k \in DOMAIN first |-> s[first[k]]]

Keep(s, S) == SelectSeq(s, LAMBDA v : v \in S)
Drop(s, S) == SelectSeq(s, LAMBDA v : v \notin S)

\* A map entry is deleted once its key was taken, so a repeated element is
\* taken once.
SetDiff(left, right) ==
  [LeftOnly |-> Distinct(Drop(left, ToSet(right))),
   Intersection |-> Distinct(Keep(left, ToSet(right))),
   RightOnly |-> Distinct(Drop(right, ToSet(left)))]

SetMatch(r) == r.LeftOnly = <<>> /\ r.RightOnly = <<>>
IsSubset(r) == r.LeftOnly = <<>>
IsSuperset(r) == r.RightOnly = <<>>
IsDisjoint(r) == r.Intersection = <<>>

Sub(f, S) == [k \in S |-> f[k]]

\* Without a predicate values are compared by their text.
MapDiff(left, right, equals(_, _)) ==
  LET both == DOMAIN left \cap DOMAIN right
      same == {k \in both : equals(left[k], right[k])}
  IN [Identical |-> Sub(left, same),
      LeftOnly |-> Sub(left, DOMAIN left \ DOMAIN right),
      RightOnly |-> Sub(right, DOMAIN right \ DOMAIN left),
      Mismatched |-> [k \in both \ same |-> [Left |-> left[k], Right |-> right[k]]]]

MapMatch(r) == DOMAIN r.LeftOnly = {} /\ DOMAIN r.RightOnly = {} /\ DOMAIN r.Mismatched = {}

\* Mutation of ThreeWayDiff: found in the target is moved, left over or not.
ThreeWayMovedFirst(baseline, target, leftovers) ==
  [Moved |-> Distinct(Keep(baseline, ToSet(target))),
   Leftovers |-> Drop(Distinct(Keep(baseline, ToSet(leftovers))), ToSet(target)),
   Missing |-> Distinct(Drop(baseline, ToSet(target) \cup ToSet(leftovers))),
   Unaccounted |-> Distinct(Drop(target, ToSet(baseline)))]

\* A baseline item is left over before it is moved before it is missing.
ThreeWayDiff(baseline, target, leftovers) ==
  [Moved |-> Drop(Distinct(Keep(baseline, ToSet(target))), ToSet(leftovers)),
   Leftovers |-> Distinct(Keep(baseline, ToSet(leftovers))),
   Missing |-> Distinct(Drop(baseline, ToSet(target) \cup ToSet(leftovers))),
   Unaccounted |-> Distinct(Drop(target, ToSet(baseline)))]

Passed(r) == r.Leftovers = <<>> /\ r.Missing = <<>> /\ r.Unaccounted = <<>>
-----------------------------------------------------------------------------
\* Column: Name, DataType, Children; Flatten gives the leaves by path, here by
\* opening every record that is left, level by level.
MaxNesting == 15  \* bound: levels of records, BigQuery's own

Opened(cols) ==
  FlattenSeq([i \in DOMAIN cols |->
    IF cols[i].children = <<>> THEN <<cols[i]>>
    ELSE [j \in DOMAIN cols[i].children |->
            [cols[i].children[j] EXCEPT !.name = cols[i].name \o @]]])

FlattenAll(cols) ==
  LET level[d \in 0 .. MaxNesting] == IF d = 0 THEN cols ELSE Opened(level[d - 1])
      leaves == level[MaxNesting]
  IN [i \in DOMAIN leaves |-> [name |-> leaves[i].name, type |-> leaves[i].type]]

\* The last column of a name wins.
indexColumns(flat) ==
  [n \in {flat[i].name : i \in DOMAIN flat} |->
     flat[CHOOSE i \in DOMAIN flat :
            flat[i].name = n /\ \A j \in i + 1 .. Len(flat) : flat[j].name # n]]

DiffColumns(left, right) ==
  LET l == FlattenAll(left)
      r == FlattenAll(right)
      byName == indexColumns(r)
      lo == SelectSeq(l, LAMBDA c : c.name \notin DOMAIN byName)
      ro == SelectSeq(r, LAMBDA c : c.name \notin DOMAIN indexColumns(l))
      td == SelectSeq(l, LAMBDA c : c.name \in DOMAIN byName /\ c.type # byName[c.name].type)
  IN [LeftOnly |-> lo, RightOnly |-> ro, TypeDiffs |-> td,
      Match |-> lo = <<>> /\ ro = <<>> /\ td = <<>>]
-----------------------------------------------------------------------------
\* A float is [kind, v]: "fin" with its value, "+Inf", "-Inf" or "NaN".  An
\* infinity equals itself, NaN equals nothing.
isFinite(f) == f.kind = "fin"
Equal(l, r) == l = r /\ l.kind # "NaN"
Abs(n) == IF n < 0 THEN -n ELSE n
Base(l, r) == IF Abs(l.v) > Abs(r.v) THEN Abs(l.v) ELSE Abs(r.v)

StatDiff(field, l, r) == [field |-> field, l |-> l, r |-> r]

\* Tolerances are percentages.  Next to a value that is not finite the relative
\* difference is NaN, which is within no tolerance.
diffFloat(field, l, r, tolerance) ==
  IF \/ Equal(l, r)
     \/ /\ isFinite(l) /\ isFinite(r) /\ Base(l, r) > 0 /\ tolerance > 0
        /\ Abs(l.v - r.v) * 100 <= tolerance * Base(l, r)
  THEN <<>> ELSE <<StatDiff(field, l, r)>>

diffInt(field, l, r) == IF l = r THEN <<>> ELSE <<StatDiff(field, l, r)>>

\* A column the right side has no statistics of is passed over.  A stat is
\* [column, Sum, NullCount]: one field of each kind.
DiffStats(left, right, tolerance) ==
  LET of(c) == CHOOSE s \in ToSet(right) : s.column = c
      known == SelectSeq(left, LAMBDA s : \E x \in ToSet(right) : x.column = s.column)
      diffs == FlattenSeq([i \in DOMAIN known |->
                 LET s == known[i]
                 IN diffFloat(<<s.column, "Sum">>, s.Sum, of(s.column).Sum, tolerance)
                    \o diffInt(<<s.column, "NullCount">>, s.NullCount,
                               of(s.column).NullCount)])
  IN [Match |-> diffs = <<>>, Diffs |-> diffs]

withinTolerance(d, tolerance) ==
  /\ isFinite(d.l) /\ isFinite(d.r) /\ Base(d.l, d.r) # 0
  /\ Abs(d.r.v - d.l.v) * 100 <= tolerance * Base(d.l, d.r)

applyStatsTolerance(s, tolerance) ==
  LET left == SelectSeq(s.Diffs, LAMBDA d : ~withinTolerance(d, tolerance))
  IN IF tolerance = 0 \/ s.Diffs = <<>> THEN s
     ELSE [Diffs |-> left, Match |-> left = <<>>]

-----------------------------------------------------------------------------
\* What the layers of the Comparator answer: [err, Match] each, the statistics
\* with their differences.  An adapter may answer and fail at once.
Layers == {"Schema", "Volume", "Content", "Stats"}

\* Compare runs the layers in order; content only when the schemas match.  The
\* first error is returned with whatever was found.
Compare(ask, tolerance) ==
  LET found(n) == ask[n].Match
      runs == <<"Schema", "Volume">>
              \o (IF found("Schema") THEN <<"Content">> ELSE <<>>) \o <<"Stats">>
      failed == SelectSeq(runs, LAMBDA n : ask[n].err)
      stats == applyStatsTolerance([Match |-> ask["Stats"].Match,
                                    Diffs |-> ask["Stats"].Diffs], tolerance)
  IN [Schema |-> found("Schema"), Volume |-> found("Volume"),
      Content |-> found("Schema") /\ found("Content"),
      Stats |-> stats, ran |-> runs,
      err |-> IF failed = <<>> THEN "nil" ELSE failed[1]]

Pass(r) == r.Schema /\ r.Volume /\ r.Content

\* ParseTarget cuts at the first two dots: the table keeps the rest.
ParseTarget(parts) ==
  IF Len(parts) < 3 THEN [ok |-> FALSE]
  ELSE [ok |-> TRUE, Project |-> parts[1], Dataset |-> parts[2],
        Table |-> SubSeq(parts, 3, Len(parts))]
String(t) == <<t.Project, t.Dataset>> \o t.Table

\* The project that pays: the one given, the environment's, the target's.
BillingProject(explicit, env, fallback) ==
  IF explicit # "" THEN explicit ELSE IF env # "" THEN env ELSE fallback
-----------------------------------------------------------------------------
\* The verdicts of SetDiff are those of the sets, and every element is in
\* exactly one part, once.
SetVerdicts(l, r) ==
  LET d == SetDiff(l, r)
      all == d.LeftOnly \o d.Intersection \o d.RightOnly
  IN /\ ToSet(all) = ToSet(l) \cup ToSet(r) /\ IsInjective(all)
     /\ SetMatch(d) <=> ToSet(l) = ToSet(r)
     /\ IsSubset(d) <=> ToSet(l) \subseteq ToSet(r)
     /\ IsSuperset(d) <=> ToSet(r) \subseteq ToSet(l)
     /\ IsDisjoint(d) <=> ToSet(l) \cap ToSet(r) = {}

\* "baseline \ leftovers == target": a migration passes exactly when every
\* item arrived, none stayed behind and none came from elsewhere.
MigrationEquation(b, t, l) ==
  LET d == ThreeWayDiff(b, t, l)
  IN /\ Passed(d) <=> /\ ToSet(b) = ToSet(t) /\ ToSet(b) \cap ToSet(l) = {}
     /\ ToSet(d.Moved \o d.Leftovers \o d.Missing) = ToSet(b)
     /\ IsInjective(d.Moved \o d.Leftovers \o d.Missing \o d.Unaccounted)

\* A key is in one part, and the maps match when they are equal.
MapVerdict(l, r) ==
  LET d == MapDiff(l, r, LAMBDA x, y : x = y)
  IN /\ MapMatch(d) <=> l = r
     /\ Cardinality(DOMAIN d.Identical) + Cardinality(DOMAIN d.LeftOnly)
        + Cardinality(DOMAIN d.RightOnly) + Cardinality(DOMAIN d.Mismatched)
        = Cardinality(DOMAIN l \cup DOMAIN r)

\* The comparison of schemas does not depend on the side: it matches when both
\* have the same leaves, and what one misses the other has too much.
SchemaVerdict(l, r) ==
  LET d == DiffColumns(l, r)
      e == DiffColumns(r, l)
  IN /\ d.Match <=> ToSet(FlattenAll(l)) = ToSet(FlattenAll(r))
     /\ d.LeftOnly = e.RightOnly /\ d.RightOnly = e.LeftOnly /\ d.Match = e.Match

\* The reconciler's tolerance drops no difference of floats that an adapter
\* with the same tolerance would report, and adds none.  Whatever the tolerance,
\* sums that are not both finite are reported, unless they are the same
\* infinity: diffFloat takes that for no difference before any tolerance is
\* applied.
StatsVerdict(l, r, t) ==
  LET late == applyStatsTolerance(DiffStats(l, r, 0), t)
      early == DiffStats(l, r, t)
      sums(s) == {d \in ToSet(s.Diffs) : d.field[2] = "Sum"}
      wild(x, y) == {x.kind, y.kind} # {"fin"}
      sameInfinity(x, y) == x.kind = y.kind /\ x.kind \in {"+Inf", "-Inf"}
  IN /\ sums(late) = sums(early) /\ ToSet(late.Diffs) \subseteq ToSet(early.Diffs)
     /\ late.Match <=> late.Diffs = <<>>
     /\ \A x \in ToSet(l), y \in ToSet(r) :
          x.column = y.column /\ wild(x.Sum, y.Sum) =>
            ((\E d \in sums(late) : d.field[1] = x.column) <=> ~sameInfinity(x.Sum, y.Sum))

\* A comparison that returns no error passes only when its three layers ran,
\* answered and matched; an error of any layer that ran is returned, and stops
\* no other layer.
CompareVerdict(ask, t) ==
  LET r == Compare(ask, t)
  IN /\ Pass(r) /\ r.err = "nil" => \A n \in {"Schema", "Volume", "Content"} :
                     n \in ToSet(r.ran) /\ ~ask[n].err /\ ask[n].Match
     /\ {"Schema", "Volume", "Stats"} \subseteq ToSet(r.ran)
     /\ r.err # "nil" <=> \E n \in ToSet(r.ran) : ask[n].err

\* A target's text reads back as the target.
TargetReadsBack(parts) ==
  ParseTarget(parts).ok => ParseTarget(String(ParseTarget(parts))) = ParseTarget(parts)
=============================================================================
