-------------------------- MODULE IntervalSets_proofs --------------------------
(***************************************************************************)
(* The operations of an IntervalSet are those of a set of numbers: what    *)
(* they leave is in descending order with gaps, and stands for the union   *)
(* or the difference, for every number and every order of operations.      *)
(*                                                                         *)
(* First two intervals: the tests that the operations branch on tell       *)
(* exactly how they lie, and Merge, Complement and the fragments of a      *)
(* removal are the union and the difference.  Then the four recursive      *)
(* functions: each descends by a measure, so it is the function that its   *)
(* definition says, and an induction on the measure shows what it          *)
(* computes.  Last the specification, and that a list in order is          *)
(* determined by its numbers.                                              *)
(***************************************************************************)
EXTENDS IntervalSets, SequenceTheorems, FunctionTheorems, SumTheorems

-----------------------------------------------------------------------------
\* PointComp tells where a number lies (interval.hh:40).
THEOREM PointCompMeaning ==
    ASSUME NEW i \in Interval, NEW n \in Nat
    PROVE  /\ PointComp(i, n) = "LEFT" <=> n + 1 < i.start
           /\ PointComp(i, n) = "LEFT_EXTENSIBLE" <=> n + 1 = i.start
           /\ PointComp(i, n) = "INNER" <=> n \in Members(i)
           /\ PointComp(i, n) = "RIGHT_EXTENSIBLE" <=> n = i.end + 1
           /\ PointComp(i, n) = "RIGHT" <=> n > i.end + 1
           /\ PointComp(i, n) \in {"LEFT", "LEFT_EXTENSIBLE", "INNER", "RIGHT_EXTENSIBLE", "RIGHT"}
<1>1. i.start \in Nat /\ i.end \in Nat /\ i.start <= i.end
  BY DEF Interval
<1>2. CASE n + 1 < i.start
  BY <1>1, <1>2 DEF PointComp, Members
<1>3. CASE n + 1 = i.start
  BY <1>1, <1>3 DEF PointComp, Members
<1>4. CASE i.start <= n /\ n <= i.end
  BY <1>1, <1>4 DEF PointComp, Members
<1>5. CASE n = i.end + 1
  BY <1>1, <1>5 DEF PointComp, Members
<1>6. CASE n > i.end + 1
  BY <1>1, <1>6 DEF PointComp, Members
<1> QED
  BY <1>1, <1>2, <1>3, <1>4, <1>5, <1>6

\* RangeComp tells how two intervals lie, and never throws (interval.hh:54).
THEOREM RangeCompMeaning ==
    ASSUME NEW i \in Interval, NEW v \in Interval
    PROVE  /\ RangeComp(i, v) = "LEFT" <=> v.end + 1 < i.start
           /\ RangeComp(i, v) = "LEFT_EXTENSIBLE" <=> v.end + 1 = i.start
           /\ RangeComp(i, v) = "LEFT_INTERSECT" <=>
                  v.start < i.start /\ i.start <= v.end /\ v.end < i.end
           /\ RangeComp(i, v) = "INNER" <=> i.start <= v.start /\ v.end <= i.end
           /\ RangeComp(i, v) = "OUTER" <=>
                  v.start <= i.start /\ i.end <= v.end /\ (v.start = i.start => i.end < v.end)
           /\ RangeComp(i, v) = "RIGHT_INTERSECT" <=>
                  i.start < v.start /\ v.start <= i.end /\ i.end < v.end
           /\ RangeComp(i, v) = "RIGHT_EXTENSIBLE" <=> v.start = i.end + 1
           /\ RangeComp(i, v) = "RIGHT" <=> v.start > i.end + 1
<1>1. /\ i.start \in Nat /\ i.end \in Nat /\ i.start <= i.end
      /\ v.start \in Nat /\ v.end \in Nat /\ v.start <= v.end
  BY DEF Interval
<1> DEFINE first == PointComp(i, v.start)
           last == PointComp(i, v.end)
<1>2. /\ first = "LEFT" <=> v.start + 1 < i.start
      /\ first = "LEFT_EXTENSIBLE" <=> v.start + 1 = i.start
      /\ first = "INNER" <=> i.start <= v.start /\ v.start <= i.end
      /\ first = "RIGHT_EXTENSIBLE" <=> v.start = i.end + 1
      /\ first = "RIGHT" <=> v.start > i.end + 1
  BY <1>1, PointCompMeaning DEF Members
<1>3. /\ last = "LEFT" <=> v.end + 1 < i.start
      /\ last = "LEFT_EXTENSIBLE" <=> v.end + 1 = i.start
      /\ last = "INNER" <=> i.start <= v.end /\ v.end <= i.end
      /\ last = "RIGHT_EXTENSIBLE" <=> v.end = i.end + 1
      /\ last = "RIGHT" <=> v.end > i.end + 1
  BY <1>1, PointCompMeaning DEF Members
<1> HIDE DEF first, last
<1>4. RangeComp(i, v) =
        CASE last \in {"LEFT", "LEFT_EXTENSIBLE"} -> last
          [] first \in {"LEFT", "LEFT_EXTENSIBLE"} /\ last = "INNER" /\ i.end # v.end -> "LEFT_INTERSECT"
          [] first \in {"LEFT", "LEFT_EXTENSIBLE"}
             /\ (last \in {"RIGHT_EXTENSIBLE", "RIGHT"} \/ i.end = v.end) -> "OUTER"
          [] first = "INNER" /\ last = "INNER" -> "INNER"
          [] first = "INNER" /\ last \in {"RIGHT_EXTENSIBLE", "RIGHT"} /\ i.start # v.start -> "RIGHT_INTERSECT"
          [] first = "INNER" /\ last \in {"RIGHT_EXTENSIBLE", "RIGHT"} /\ i.start = v.start -> "OUTER"
          [] first \in {"RIGHT_EXTENSIBLE", "RIGHT"} -> first
  BY DEF RangeComp, first, last
<1>5. CASE v.end + 1 < i.start
  BY <1>1, <1>2, <1>3, <1>4, <1>5
<1>6. CASE v.end + 1 = i.start
  BY <1>1, <1>2, <1>3, <1>4, <1>6
<1>7. CASE v.start < i.start /\ i.start <= v.end /\ v.end < i.end
  BY <1>1, <1>2, <1>3, <1>4, <1>7
<1>8. CASE v.start < i.start /\ i.end <= v.end
  BY <1>1, <1>2, <1>3, <1>4, <1>8
<1>9. CASE i.start <= v.start /\ v.end <= i.end
  BY <1>1, <1>2, <1>3, <1>4, <1>9
<1>10. CASE i.start <= v.start /\ v.start <= i.end /\ i.end < v.end
  BY <1>1, <1>2, <1>3, <1>4, <1>10
<1>11. CASE i.end < v.start
  BY <1>1, <1>2, <1>3, <1>4, <1>11
<1> QED
  BY <1>1, <1>5, <1>6, <1>7, <1>8, <1>9, <1>10, <1>11

-----------------------------------------------------------------------------
\* Intervals that touch or overlap merge into their union (interval.hh:141).
THEOREM MergeIsUnion ==
    ASSUME NEW i \in Interval, NEW v \in Interval,
           RangeComp(i, v) \notin {"LEFT", "RIGHT"}
    PROVE  /\ Merge(i, v) \in Interval
           /\ Members(Merge(i, v)) = Members(i) \cup Members(v)
<1>1. /\ i.start \in Nat /\ i.end \in Nat /\ i.start <= i.end
      /\ v.start \in Nat /\ v.end \in Nat /\ v.start <= v.end
  BY DEF Interval
<1>2. /\ v.end + 1 >= i.start /\ v.start <= i.end + 1
  BY <1>1, RangeCompMeaning
<1> DEFINE m == Merge(i, v)
<1>3. CASE v.start < i.start /\ v.end < i.end
  <2>1. m = From(v.start, i.end)
    BY <1>1, <1>2, <1>3, RangeCompMeaning DEF Merge
  <2> QED  BY <1>1, <1>2, <1>3, <2>1 DEF From, Members, Interval
<1>4. CASE i.start <= v.start /\ v.end <= i.end
  <2>1. m = i
    BY <1>1, <1>2, <1>4, RangeCompMeaning DEF Merge
  <2> QED  BY <1>1, <1>2, <1>4, <2>1 DEF From, Members, Interval
<1>5. CASE i.start < v.start /\ i.end < v.end
  <2>1. m = From(i.start, v.end)
    BY <1>1, <1>2, <1>5, RangeCompMeaning DEF Merge
  <2> QED  BY <1>1, <1>2, <1>5, <2>1 DEF From, Members, Interval
<1>6. CASE v.start <= i.start /\ i.end <= v.end /\ (v.start # i.start \/ v.end # i.end)
  <2>1. m = v
    BY <1>1, <1>2, <1>6, RangeCompMeaning DEF Merge
  <2> QED  BY <1>1, <1>2, <1>6, <2>1 DEF From, Members, Interval
<1> QED
  BY <1>1, <1>3, <1>4, <1>5, <1>6

\* What Complement leaves is the difference, and is never empty (interval.hh:115).
THEOREM ComplementIsDifference ==
    ASSUME NEW i \in Interval, NEW v \in Interval,
           RangeComp(i, v) \in {"LEFT_INTERSECT", "RIGHT_INTERSECT"}
    PROVE  /\ Complement(i, v) \in Interval
           /\ Members(Complement(i, v)) = Members(i) \ Members(v)
<1>1. /\ i.start \in Nat /\ i.end \in Nat /\ i.start <= i.end
      /\ v.start \in Nat /\ v.end \in Nat /\ v.start <= v.end
  BY DEF Interval
<1>2. CASE RangeComp(i, v) = "LEFT_INTERSECT"
  <2>1. v.start < i.start /\ i.start <= v.end /\ v.end < i.end
    BY <1>2, RangeCompMeaning
  <2>2. Complement(i, v) = From(v.end + 1, i.end)
    BY <1>2 DEF Complement
  <2> QED  BY <1>1, <2>1, <2>2 DEF From, Members, Interval
<1>3. CASE RangeComp(i, v) = "RIGHT_INTERSECT"
  <2>1. i.start < v.start /\ v.start <= i.end /\ i.end < v.end
    BY <1>3, RangeCompMeaning
  <2>2. Complement(i, v) = From(i.start, v.start - 1)
    BY <1>3 DEF Complement
  <2> QED  BY <1>1, <2>1, <2>2 DEF From, Members, Interval
<1> QED
  BY <1>2, <1>3

\* Taking v out of an interval around it leaves at most two intervals, the upper one
\* first and a number apart, that hold the difference (interval.hh:306, interval.hh:383).
THEOREM FragmentsAreDifference ==
    ASSUME NEW i \in Interval, NEW v \in Interval, RangeComp(i, v) = "INNER"
    PROVE  /\ Fragments(i, v) \in Seq(Interval)
           /\ UNION {Members(Fragments(i, v)[k]) : k \in DOMAIN Fragments(i, v)} = Members(i) \ Members(v)
           /\ Len(Fragments(i, v)) = 2 => Fragments(i, v)[1].start > Fragments(i, v)[2].end + 1
<1>1. /\ i.start \in Nat /\ i.end \in Nat /\ i.start <= i.end
      /\ v.start \in Nat /\ v.end \in Nat /\ v.start <= v.end
  BY DEF Interval
<1>2. i.start <= v.start /\ v.end <= i.end
  BY RangeCompMeaning
<1> DEFINE upper == From(v.end + 1, i.end)
           lower == From(i.start, v.start - 1)
<1>3. v.end < i.end => upper \in Interval /\ Members(upper) = v.end + 1 .. i.end
  BY <1>1 DEF From, Members, Interval
<1>4. i.start < v.start => lower \in Interval /\ Members(lower) = i.start .. v.start - 1
  BY <1>1 DEF From, Members, Interval
<1>5. Members(i) = i.start .. i.end /\ Members(v) = v.start .. v.end
  BY DEF Members
<1>6. upper.start = v.end + 1 /\ lower.end = v.start - 1
  BY DEF From
<1> HIDE DEF upper, lower
<1>7. CASE v.end < i.end /\ i.start < v.start
  <2> DEFINE s == Fragments(i, v)
  <2>1. s = <<upper>> \o <<lower>>
    BY <1>7 DEF Fragments, upper, lower
  <2>2. <<upper>> \in Seq(Interval) /\ <<lower>> \in Seq(Interval)
    BY <1>3, <1>4, <1>7
  <2>3. s \in Seq(Interval) /\ Len(s) = 2 /\ s[1] = upper /\ s[2] = lower
    BY <2>1, <2>2, ConcatProperties
  <2> HIDE DEF s
  <2>4. {Members(s[k]) : k \in DOMAIN s} = {Members(upper), Members(lower)}
    BY <2>3
  <2>5. Members(upper) \cup Members(lower) = Members(i) \ Members(v)
    BY <1>1, <1>2, <1>3, <1>4, <1>5, <1>7
  <2> QED  BY <1>1, <1>6, <2>3, <2>4, <2>5 DEF s
<1>8. CASE v.end < i.end /\ ~(i.start < v.start)
  <2> DEFINE s == Fragments(i, v)
  <2>1. s = <<upper>>
    BY <1>8 DEF Fragments, upper
  <2>2. s \in Seq(Interval) /\ Len(s) = 1 /\ s[1] = upper
    BY <1>3, <1>8, <2>1
  <2> HIDE DEF s
  <2>3. {Members(s[k]) : k \in DOMAIN s} = {Members(upper)}
    BY <2>2
  <2>4. Members(upper) = Members(i) \ Members(v)
    BY <1>1, <1>2, <1>3, <1>5, <1>8
  <2>5. UNION {Members(s[k]) : k \in DOMAIN s} = Members(i) \ Members(v)
    BY <2>3, <2>4
  <2> QED  BY <2>2, <2>5 DEF s
<1>9. CASE ~(v.end < i.end) /\ i.start < v.start
  <2> DEFINE s == Fragments(i, v)
  <2>1. s = <<lower>>
    BY <1>9 DEF Fragments, lower
  <2>2. s \in Seq(Interval) /\ Len(s) = 1 /\ s[1] = lower
    BY <1>4, <1>9, <2>1
  <2> HIDE DEF s
  <2>3. {Members(s[k]) : k \in DOMAIN s} = {Members(lower)}
    BY <2>2
  <2>4. Members(lower) = Members(i) \ Members(v)
    BY <1>1, <1>2, <1>4, <1>5, <1>9
  <2>5. UNION {Members(s[k]) : k \in DOMAIN s} = Members(i) \ Members(v)
    BY <2>3, <2>4
  <2> QED  BY <2>2, <2>5 DEF s
<1>10. CASE ~(v.end < i.end) /\ ~(i.start < v.start)
  <2>1. Fragments(i, v) = <<>>
    BY <1>10 DEF Fragments
  <2>2. Members(i) \ Members(v) = {}
    BY <1>1, <1>2, <1>5, <1>10
  <2> QED  BY <2>1, <2>2
<1> QED
  BY <1>7, <1>8, <1>9, <1>10

-----------------------------------------------------------------------------
(***************************************************************************)
(* Recursive functions.  A definition by recursion is a choice among the   *)
(* functions that satisfy it, so there has to be one.  A step says what a  *)
(* function's value is, given a function that is right wherever the        *)
(* measure is smaller.                                                     *)
(***************************************************************************)
Recursive(D, V, m, step) ==
  /\ m \in [D -> Nat] /\ V # {}
  /\ \A x \in D : \A g \in [D -> V] : step[<<x, g>>] \in V
  /\ \A x \in D : \A g, h \in [D -> V] :
        (\A y \in D : m[y] < m[x] => g[y] = h[y]) => step[<<x, g>>] = step[<<x, h>>]

\* Such a step has a function that it is the definition of.
LEMMA RecursionExists ==
  ASSUME NEW D, NEW V, NEW m, NEW step, Recursive(D, V, m, step)
  PROVE  \E f \in [D -> V] : \A x \in D : f[x] = step[<<x, f>>]
<1>0. /\ m \in [D -> Nat]
      /\ \A x \in D : \A g \in [D -> V] : step[<<x, g>>] \in V
      /\ \A x \in D : \A g, h \in [D -> V] :
            (\A y \in D : m[y] < m[x] => g[y] = h[y]) => step[<<x, g>>] = step[<<x, h>>]
  BY DEF Recursive
<1> USE <1>0
<1> PICK v \in V : TRUE
  BY DEF Recursive
<1> DEFINE Right(f, n) == \A x \in D : m[x] < n => f[x] = step[<<x, f>>]
           Found == {n \in Nat : \E f \in [D -> V] : Right(f, n)}
           Unique == {n \in Nat : \A f, g \in [D -> V] :
                        Right(f, n) /\ Right(g, n) => \A x \in D : m[x] < n => f[x] = g[x]}
<1>1. 0 \in Found
  <2> DEFINE f == [x \in D |-> v]
  <2>1. f \in [D -> V] /\ Right(f, 0)
    OBVIOUS
  <2> HIDE DEF f, Right
  <2> QED
    BY <2>1
<1>2. ASSUME NEW n \in Found PROVE n + 1 \in Found
  <2>1. PICK f \in [D -> V] : Right(f, n)
    BY <1>2
  <2> DEFINE g == [x \in D |-> step[<<x, f>>]]
  <2>2. g \in [D -> V] /\ n \in Nat
    OBVIOUS
  <2>3. \A y \in D : m[y] < n => f[y] = g[y]
    BY <2>1
  <2>4. ASSUME NEW x \in D, m[x] < n + 1 PROVE g[x] = step[<<x, g>>]
    <3>1. g[x] = step[<<x, f>>]
      OBVIOUS
    <3> HIDE DEF g, Right, Found
    <3>2. \A y \in D : m[y] < m[x] => m[y] < n
      BY <2>2, <2>4
    <3>3. step[<<x, f>>] = step[<<x, g>>]
      BY <2>2, <2>3, <3>2
    <3> QED
      BY <3>1, <3>3
  <2>5. Right(g, n + 1)
    BY <2>4
  <2> HIDE DEF g, Right
  <2> QED
    BY <2>2, <2>5
<1>3. Found = Nat
  <2>1. Found \in SUBSET Nat
    OBVIOUS
  <2> HIDE DEF Found
  <2> QED
    BY <1>1, <1>2, <2>1, NaturalInduction
<1>4. 0 \in Unique
  OBVIOUS
<1>5. ASSUME NEW n \in Unique PROVE n + 1 \in Unique
  <2>1. n \in Nat
    OBVIOUS
  <2>2. ASSUME NEW f \in [D -> V], NEW g \in [D -> V], Right(f, n + 1), Right(g, n + 1),
               NEW x \in D, m[x] < n + 1
        PROVE  f[x] = g[x]
    <3>1. Right(f, n) /\ Right(g, n)
      BY <2>1, <2>2
    <3>2. \A y \in D : m[y] < n => f[y] = g[y]
      BY <1>5, <3>1
    <3>3. \A y \in D : m[y] < m[x] => m[y] < n
      BY <2>1, <2>2
    <3>4. f[x] = step[<<x, f>>] /\ g[x] = step[<<x, g>>]
      BY <2>2
    <3> HIDE DEF Right, Found, Unique
    <3>5. step[<<x, f>>] = step[<<x, g>>]
      BY <3>2, <3>3
    <3> QED
      BY <3>4, <3>5
  <2> QED
    BY <2>1, <2>2
<1>6. Unique = Nat
  <2>1. Unique \in SUBSET Nat
    OBVIOUS
  <2> HIDE DEF Unique
  <2> QED
    BY <1>4, <1>5, <2>1, NaturalInduction
<1> DEFINE at == [n \in Nat |-> CHOOSE f \in [D -> V] : Right(f, n)]
           F == [x \in D |-> at[m[x] + 1][x]]
<1>7. \A n \in Nat : at[n] \in [D -> V] /\ Right(at[n], n)
  <2> TAKE n \in Nat
  <2>1. \E f \in [D -> V] : Right(f, n)
    BY <1>3
  <2> HIDE DEF Right
  <2> QED
    BY <2>1
<1>8. F \in [D -> V]
  <2> HIDE DEF at
  <2>1. \A x \in D : m[x] + 1 \in Nat
    OBVIOUS
  <2> QED
    BY <1>7, <2>1
<1>9. ASSUME NEW x \in D PROVE F[x] = step[<<x, F>>]
  <2> DEFINE f == at[m[x] + 1]
  <2>1. m[x] + 1 \in Nat
    OBVIOUS
  <2>2. f \in [D -> V] /\ Right(f, m[x] + 1)
    BY <1>7, <2>1
  <2>3. ASSUME NEW y \in D, m[y] < m[x] PROVE f[y] = F[y]
    <3>1. m[y] + 1 \in Nat /\ m[y] < m[y] + 1 /\ m[y] + 1 <= m[x]
      BY <2>3
    <3>2. at[m[y] + 1] \in [D -> V] /\ Right(at[m[y] + 1], m[y] + 1)
      BY <1>7, <3>1
    <3>3. Right(f, m[y] + 1)
      <4> HIDE DEF f
      <4>1. \A z \in D : m[z] < m[y] + 1 => m[z] < m[x] + 1
        BY <3>1
      <4> QED
        BY <2>2, <4>1
    <3>4. F[y] = at[m[y] + 1][y]
      OBVIOUS
    <3>5. m[y] + 1 \in Unique
      BY <1>6, <3>1
    <3>6. \A a, b \in [D -> V] :
            Right(a, m[y] + 1) /\ Right(b, m[y] + 1) =>
               \A z \in D : m[z] < m[y] + 1 => a[z] = b[z]
      BY <3>5
    <3> HIDE DEF f, F, Right, at, Unique, Found
    <3> QED
      BY <2>2, <3>1, <3>2, <3>3, <3>4, <3>6
  <2>4. F[x] = f[x] /\ m[x] < m[x] + 1
    OBVIOUS
  <2>5. f[x] = step[<<x, f>>]
    <3> HIDE DEF f, F, at
    <3> QED
      BY <2>2, <2>4
  <2> HIDE DEF f, F, Right, at, Unique, Found
  <2>6. step[<<x, f>>] = step[<<x, F>>]
    BY <1>8, <2>2, <2>3
  <2> QED
    BY <2>4, <2>5, <2>6
<1> HIDE DEF F
<1> QED
  BY <1>8, <1>9

-----------------------------------------------------------------------------
(* The four walks, unfolded.                                               *)

List == Seq(Interval)

\* Putting an interval in front, and taking the first away.
LEMMA InFront ==
  ASSUME NEW x \in Interval, NEW r \in List
  PROVE  /\ <<x>> \o r \in List
         /\ Len(<<x>> \o r) = Len(r) + 1
         /\ (<<x>> \o r)[1] = x
         /\ \A i \in DOMAIN r : (<<x>> \o r)[i + 1] = r[i]
         /\ Head(<<x>> \o r) = x /\ Tail(<<x>> \o r) = r
<1>1. <<x>> \in List /\ Len(<<x>>) = 1 /\ <<x>>[1] = x
  BY DEF List
<1>2. /\ <<x>> \o r \in List
      /\ Len(<<x>> \o r) = Len(r) + 1
      /\ \A i \in 1 .. 1 + Len(r) : (<<x>> \o r)[i] = IF i <= 1 THEN <<x>>[i] ELSE r[i - 1]
  BY <1>1, ConcatProperties DEF List
<1> DEFINE s == <<x>> \o r
<1>3. r \in Seq(Interval) /\ Len(r) \in Nat /\ DOMAIN r = 1 .. Len(r)
  BY DEF List
<1>4. s[1] = x
  BY <1>1, <1>2, <1>3
<1>5. \A i \in DOMAIN r : s[i + 1] = r[i]
  BY <1>2, <1>3
<1> HIDE DEF s
<1>6. s \in Seq(Interval) /\ s # <<>> /\ Len(s) = Len(r) + 1
  BY <1>2, <1>3 DEF s, List
<1>7. Head(s) = x
  BY <1>4, <1>6
<1>8. Tail(s) = r
  <2>1. Tail(s) \in Seq(Interval) /\ Len(Tail(s)) = Len(r)
        /\ \A i \in 1 .. Len(r) : Tail(s)[i] = s[i + 1]
    BY <1>3, <1>6, HeadTailProperties
  <2> QED
    BY <1>3, <1>5, <2>1, SeqEqual
<1> QED
  BY <1>2, <1>4, <1>5, <1>7, <1>8 DEF s

\* A list that is not empty is its first interval in front of the rest.
LEMMA FirstAway ==
  ASSUME NEW l \in List, l # <<>>
  PROVE  /\ Head(l) \in Interval /\ Tail(l) \in List
         /\ Head(l) = l[1]
         /\ Len(l) \in Nat /\ Len(l) > 0 /\ Len(Tail(l)) = Len(l) - 1
         /\ l = <<Head(l)>> \o Tail(l)
         /\ \A i \in DOMAIN Tail(l) : Tail(l)[i] = l[i + 1]
<1>1. /\ Head(l) \in Interval /\ Tail(l) \in List
      /\ Head(l) = l[1]
      /\ Len(l) \in Nat /\ Len(l) > 0 /\ Len(Tail(l)) = Len(l) - 1
      /\ \A i \in DOMAIN Tail(l) : Tail(l)[i] = l[i + 1]
  BY HeadTailProperties DEF List
<1> DEFINE r == <<Head(l)>> \o Tail(l)
<1>2. /\ r \in List /\ Len(r) = Len(l) /\ r[1] = l[1]
      /\ \A i \in DOMAIN Tail(l) : r[i + 1] = l[i + 1]
  BY <1>1, InFront
<1>3. \A i \in 1 .. Len(l) : i # 1 => i - 1 \in DOMAIN Tail(l)
  BY <1>1 DEF List
<1> HIDE DEF r
<1>4. \A i \in 1 .. Len(l) : r[i] = l[i]
  <2> TAKE i \in 1 .. Len(l)
  <2>1. CASE i = 1
    BY <1>2, <2>1
  <2>2. CASE i # 1
    <3>1. i - 1 \in DOMAIN Tail(l) /\ (i - 1) + 1 = i
      BY <1>1, <1>3, <2>2
    <3>2. r[(i - 1) + 1] = l[(i - 1) + 1]
      BY <1>2, <3>1
    <3> QED
      BY <3>1, <3>2
  <2> QED
    BY <2>1, <2>2
<1>5. r = l
  BY <1>1, <1>2, <1>4, SeqEqual DEF List
<1> QED
  BY <1>1, <1>5 DEF r

\* The empty list is a list.
LEMMA EmptyList == <<>> \in List /\ Len(<<>>) = 0 /\ DOMAIN <<>> = {}
  BY DEF List

(***************************************************************************)
(* A walk: at each place its value is a list, or its value at a place      *)
(* further on, or that with a list in front.                               *)
(***************************************************************************)
Plan(D) == [way : {"stop", "go", "put"}, front : List, next : D]

Value(p, f) ==
    CASE p.way = "stop" -> p.front
      [] p.way = "go"   -> f[p.next]
      [] p.way = "put"  -> p.front \o f[p.next]

Stop(v, x) == [way |-> "stop", front |-> v, next |-> x]
Go(y) == [way |-> "go", front |-> <<>>, next |-> y]
Put(v, y) == [way |-> "put", front |-> v, next |-> y]

Descending(D, m, plan) ==
  /\ m \in [D -> Nat]
  /\ plan \in [D -> Plan(D)]
  /\ \A x \in D : plan[x].way # "stop" => m[plan[x].next] < m[x]

Walks(D, plan, f) == f = [x \in D |-> Value(plan[x], f)]

\* A walk whose measure descends has a value everywhere, and its values are lists.
LEMMA WalkExists ==
  ASSUME NEW D, NEW m, NEW plan, Descending(D, m, plan)
  PROVE  /\ \E f : Walks(D, plan, f)
         /\ \A f : Walks(D, plan, f) => f \in [D -> List]
<1>0. /\ m \in [D -> Nat] /\ plan \in [D -> Plan(D)]
      /\ \A x \in D : plan[x].way # "stop" => m[plan[x].next] < m[x]
  BY DEF Descending
<1> USE <1>0
<1>1. \A x \in D : /\ plan[x].way \in {"stop", "go", "put"}
                   /\ plan[x].front \in List /\ plan[x].next \in D
  BY DEF Plan
<1>2. \A v, w \in List : v \o w \in List
  BY ConcatProperties DEF List
<1>3. \A x \in D : \A f : (plan[x].way # "stop" => f[plan[x].next] \in List)
                           => Value(plan[x], f) \in List
  BY <1>1, <1>2 DEF Value
<1>4. \E f : Walks(D, plan, f)
  <2> DEFINE step == [y \in D \X [D -> List] |-> Value(plan[y[1]], y[2])]
  <2>1. \A x \in D : \A g \in [D -> List] : step[<<x, g>>] = Value(plan[x], g)
    OBVIOUS
  <2> HIDE DEF step
  <2>2. \A x \in D : \A g \in [D -> List] : step[<<x, g>>] \in List
    BY <1>1, <1>3, <2>1
  <2>3. \A x \in D : \A g, h \in [D -> List] :
           (\A y \in D : m[y] < m[x] => g[y] = h[y]) => step[<<x, g>>] = step[<<x, h>>]
    <3> TAKE x \in D
    <3> TAKE g, h \in [D -> List]
    <3>1. HAVE \A y \in D : m[y] < m[x] => g[y] = h[y]
    <3>2. plan[x].way # "stop" => g[plan[x].next] = h[plan[x].next]
      BY <1>1, <3>1
    <3>3. Value(plan[x], g) = Value(plan[x], h)
      BY <1>1, <3>2 DEF Value
    <3> QED
      BY <2>1, <3>3
  <2>4. \E f \in [D -> List] : \A x \in D : f[x] = step[<<x, f>>]
    <3>1. Recursive(D, List, m, step)
      BY <2>2, <2>3, EmptyList DEF Recursive, Descending
    <3> QED
      BY <3>1, RecursionExists
  <2>5. PICK f \in [D -> List] : \A x \in D : f[x] = step[<<x, f>>]
    BY <2>4
  <2>6. f = [x \in D |-> Value(plan[x], f)]
    BY <2>1, <2>5
  <2> QED
    BY <2>6 DEF Walks
<1>5. ASSUME NEW f, Walks(D, plan, f)
      PROVE  f \in [D -> List]
  <2> DEFINE Good == {n \in Nat : \A x \in D : m[x] < n => f[x] \in List}
  <2>1. \A x \in D : f[x] = Value(plan[x], f)
    BY <1>5 DEF Walks
  <2>2. 0 \in Good
    OBVIOUS
  <2>3. ASSUME NEW n \in Good PROVE n + 1 \in Good
    <3>1. n \in Nat /\ \A x \in D : m[x] < n => f[x] \in List
      OBVIOUS
    <3>2. ASSUME NEW x \in D, m[x] < n + 1 PROVE f[x] \in List
      <4>1. plan[x].way # "stop" => m[plan[x].next] < n
        BY <1>1, <3>1, <3>2
      <4>2. plan[x].way # "stop" => f[plan[x].next] \in List
        BY <1>1, <3>1, <4>1
      <4> QED
        BY <1>3, <2>1, <4>2
    <3> QED
      BY <3>1, <3>2
  <2>4. Good = Nat
    <3>1. Good \in SUBSET Nat
      OBVIOUS
    <3> HIDE DEF Good
    <3> QED
      BY <2>2, <2>3, <3>1, NaturalInduction
  <2>5. \A x \in D : f[x] \in List
    <3> TAKE x \in D
    <3>1. m[x] + 1 \in Good /\ m[x] < m[x] + 1
      BY <2>4
    <3> QED
      BY <3>1
  <2> QED
    BY <1>5, <2>5 DEF Walks
<1> QED
  BY <1>4, <1>5

\* The three ways the head goes on swallowing.
LEMMA SwallowedIsInterval ==
  ASSUME NEW i \in Interval, NEW v \in Interval,
         RangeComp(v, i) \in {"RIGHT_EXTENSIBLE", "RIGHT_INTERSECT"}
  PROVE  RangeComp(i, v) \notin {"LEFT", "RIGHT"}
<1>1. /\ i.start \in Nat /\ i.end \in Nat /\ i.start <= i.end
      /\ v.start \in Nat /\ v.end \in Nat /\ v.start <= v.end
  BY DEF Interval
<1>2. i.start <= v.end + 1 /\ v.start <= i.start
  BY <1>1, RangeCompMeaning
<1> QED
  BY <1>1, <1>2, RangeCompMeaning

MaintainStep(g, l) ==
    IF Len(l) < 2 THEN l
    ELSE LET rest == Tail(Tail(l))
             c == RangeComp(l[2], l[1])
         IN  CASE c \in {"RIGHT_EXTENSIBLE", "RIGHT_INTERSECT"} ->
                      g[<<Merge(l[1], l[2])>> \o rest]
               [] c = "OUTER" -> g[<<l[1]>> \o rest]
               [] c \notin {"RIGHT_EXTENSIBLE", "RIGHT_INTERSECT", "OUTER"} -> l

\* The definition of Maintain (interval.hh:241), read as a choice of a function.
LEMMA MaintainChosen ==
  Maintain = CHOOSE g : g = [l \in List |-> MaintainStep(g, l)]
BY DEF Maintain, MaintainStep, List

\* What Maintain looks at.
LEMMA TwoFirst ==
  ASSUME NEW l \in List, ~(Len(l) < 2)
  PROVE  /\ l[1] \in Interval /\ l[2] \in Interval /\ Tail(Tail(l)) \in List
         /\ Head(l) = l[1] /\ Head(Tail(l)) = l[2] /\ Tail(l) # <<>> /\ l # <<>>
         /\ Len(Tail(Tail(l))) + 2 = Len(l)
         /\ \A x \in Interval : /\ <<x>> \o Tail(Tail(l)) \in List
                                /\ Len(<<x>> \o Tail(Tail(l))) = Len(l) - 1
<1>1. Len(l) \in Nat /\ Len(l) >= 2 /\ l # <<>> /\ 1 \in DOMAIN l /\ 2 \in DOMAIN l
      /\ l[1] \in Interval /\ l[2] \in Interval
  BY DEF List
<1>2. /\ Tail(l) \in List /\ Len(Tail(l)) = Len(l) - 1 /\ Head(l) = l[1]
      /\ \A i \in DOMAIN Tail(l) : Tail(l)[i] = l[i + 1]
  BY <1>1, FirstAway
<1> DEFINE t == Tail(l)
<1> HIDE DEF t
<1>3. t # <<>> /\ 1 \in DOMAIN t /\ t \in List
  <2>1. t \in List /\ Len(t) > 0
    BY <1>1, <1>2 DEF t
  <2> QED
    BY <2>1, EmptyList DEF List
<1>4. Head(Tail(l)) = l[2] /\ Tail(Tail(l)) \in List /\ Len(Tail(Tail(l))) = Len(l) - 2
  <2>1. Head(t) = t[1] /\ Tail(t) \in List /\ Len(Tail(t)) = Len(t) - 1
    BY <1>3, FirstAway
  <2>2. t[1] = l[1 + 1] /\ Len(t) = Len(l) - 1
    BY <1>2, <1>3 DEF t
  <2> QED
    BY <1>1, <2>1, <2>2 DEF t
<1>5. \A x \in Interval : /\ <<x>> \o Tail(Tail(l)) \in List
                          /\ Len(<<x>> \o Tail(Tail(l))) = Len(l) - 1
  BY <1>1, <1>4, InFront
<1> QED
  BY <1>1, <1>2, <1>3, <1>4, <1>5 DEF t

MaintainFits(l, p) ==
  /\ \A g : MaintainStep(g, l) = Value(p, g)
  /\ p.way # "stop" => Len(p.next) < Len(l)

\* Maintain either stops or goes on with a shorter list.
LEMMA MaintainPlan ==
  ASSUME NEW l \in List
  PROVE  \E p \in Plan(List) : MaintainFits(l, p)
<1>1. CASE Len(l) < 2
  <2>1. \A g : MaintainStep(g, l) = Value(Stop(l, l), g)
    BY <1>1 DEF MaintainStep, Value, Stop
  <2> QED
    BY <2>1 DEF Stop, Plan, MaintainFits
<1>2. CASE ~(Len(l) < 2)
  <2> DEFINE rest == Tail(Tail(l))
             c == RangeComp(l[2], l[1])
  <2>1. /\ l[1] \in Interval /\ l[2] \in Interval
        /\ \A x \in Interval : <<x>> \o rest \in List /\ Len(<<x>> \o rest) = Len(l) - 1
    BY <1>2, TwoFirst
  <2>2. Len(l) \in Nat
    BY DEF List
  <2> HIDE DEF rest, c
  <2>3. ASSUME NEW x \in Interval, \A g : MaintainStep(g, l) = g[<<x>> \o rest]
        PROVE  \E p \in Plan(List) : MaintainFits(l, p)
    <3> DEFINE k == <<x>> \o rest
    <3>1. k \in List /\ Len(k) < Len(l)
      BY <2>1, <2>2
    <3> HIDE DEF k
    <3>2. \A g : MaintainStep(g, l) = Value(Go(k), g)
      BY <2>3 DEF Go, Value, k
    <3>3. Go(k) \in Plan(List) /\ Go(k).next = k
      BY <3>1, EmptyList DEF Go, Plan
    <3> QED
      BY <3>1, <3>2, <3>3 DEF MaintainFits
  <2>4. CASE c \in {"RIGHT_EXTENSIBLE", "RIGHT_INTERSECT"}
    <3>1. \A g : MaintainStep(g, l) = g[<<Merge(l[1], l[2])>> \o rest]
      BY <1>2, <2>4 DEF MaintainStep, rest, c
    <3>2. Merge(l[1], l[2]) \in Interval
      BY <2>1, <2>4, SwallowedIsInterval, MergeIsUnion DEF c
    <3> QED
      BY <2>3, <3>1, <3>2
  <2>5. CASE c = "OUTER"
    <3>1. \A g : MaintainStep(g, l) = g[<<l[1]>> \o rest]
      BY <1>2, <2>5 DEF MaintainStep, rest, c
    <3> QED
      BY <2>1, <2>3, <3>1
  <2>6. CASE c \notin {"RIGHT_EXTENSIBLE", "RIGHT_INTERSECT", "OUTER"}
    <3>1. \A g : MaintainStep(g, l) = Value(Stop(l, l), g)
      BY <1>2, <2>6 DEF MaintainStep, Value, Stop, rest, c
    <3> QED
      BY <3>1 DEF Stop, Plan, MaintainFits
  <2> QED
    BY <2>4, <2>5, <2>6
<1> QED
  BY <1>1, <1>2

\* Maintain is the function that its definition says.
LEMMA MaintainUnfolds ==
  /\ Maintain \in [List -> List]
  /\ \A l \in List : Maintain[l] = MaintainStep(Maintain, l)
<1> DEFINE plan == [l \in List |-> CHOOSE p \in Plan(List) : MaintainFits(l, p)]
           m == [l \in List |-> Len(l)]
<1>1. \A l \in List : plan[l] \in Plan(List) /\ MaintainFits(l, plan[l])
  <2> TAKE l \in List
  <2>1. \E p \in Plan(List) : MaintainFits(l, p)
    BY MaintainPlan
  <2> QED
    BY <2>1
<1>2. m \in [List -> Nat] /\ \A l \in List : m[l] = Len(l)
  BY DEF List
<1>3. plan \in [List -> Plan(List)]
  BY <1>1
<1> HIDE DEF plan
<1>4. \A l \in List : plan[l].next \in List
  BY <1>3 DEF Plan
<1>5. /\ \A l \in List : plan[l].way # "stop" => Len(plan[l].next) < Len(l)
      /\ \A l \in List : \A g : MaintainStep(g, l) = Value(plan[l], g)
  BY <1>1 DEF MaintainFits
<1> HIDE DEF m
<1>6. \A g : Walks(List, plan, g) <=> g = [l \in List |-> MaintainStep(g, l)]
  <2> TAKE g
  <2>1. \A l \in List : MaintainStep(g, l) = Value(plan[l], g)
    BY <1>5
  <2> QED
    BY <2>1 DEF Walks
<1>7. /\ \E f : Walks(List, plan, f)
      /\ \A f : Walks(List, plan, f) => f \in [List -> List]
  <2>1. \A l \in List : plan[l].way # "stop" => m[plan[l].next] < m[l]
    BY <1>2, <1>4, <1>5
  <2> QED
    <3>1. Descending(List, m, plan)
      BY <1>2, <1>3, <2>1 DEF Descending
    <3> QED
      BY <3>1, WalkExists
<1>8. \E f : f = [l \in List |-> MaintainStep(f, l)]
  BY <1>6, <1>7
<1>9. Maintain = [l \in List |-> MaintainStep(Maintain, l)]
  BY <1>8, MaintainChosen
<1>10. Maintain \in [List -> List]
  BY <1>6, <1>7, <1>9
<1> QED
  BY <1>9, <1>10

-----------------------------------------------------------------------------
\* Induction on a measure.
Inductive(D, m, Good) ==
  /\ m \in [D -> Nat] /\ Good \in SUBSET D
  /\ \A x \in D : (\A y \in D : m[y] < m[x] => y \in Good) => x \in Good

\* What follows for a place from all the places of smaller measure holds everywhere.
LEMMA MeasureInduction ==
  ASSUME NEW D, NEW m, NEW Good, Inductive(D, m, Good)
  PROVE  Good = D
<1>0. /\ m \in [D -> Nat] /\ Good \in SUBSET D
      /\ \A x \in D : (\A y \in D : m[y] < m[x] => y \in Good) => x \in Good
  BY DEF Inductive
<1> USE <1>0
<1> DEFINE Low == {n \in Nat : \A x \in D : m[x] < n => x \in Good}
<1>1. 0 \in Low
  OBVIOUS
<1>2. ASSUME NEW n \in Low PROVE n + 1 \in Low
  <2>1. n \in Nat /\ \A x \in D : m[x] < n => x \in Good
    OBVIOUS
  <2>2. ASSUME NEW x \in D, m[x] < n + 1 PROVE x \in Good
    <3>1. \A y \in D : m[y] < m[x] => m[y] < n
      BY <2>1, <2>2
    <3> QED
      BY <2>1, <3>1
  <2> QED
    BY <2>1, <2>2
<1>3. Low = Nat
  <2>1. Low \in SUBSET Nat
    OBVIOUS
  <2> HIDE DEF Low
  <2> QED
    BY <1>1, <1>2, <2>1, NaturalInduction
<1>4. ASSUME NEW x \in D PROVE x \in Good
  <2>1. m[x] + 1 \in Low /\ m[x] < m[x] + 1
    BY <1>3
  <2> QED
    BY <2>1
<1> QED
  BY <1>4

\* The three kinds of a plan.
LEMMA Plans ==
  ASSUME NEW D, NEW v \in List, NEW y \in D
  PROVE  /\ Stop(v, y) \in Plan(D) /\ Stop(v, y).way = "stop"
         /\ \A g : Value(Stop(v, y), g) = v
         /\ Go(y) \in Plan(D) /\ Go(y).next = y
         /\ \A g : Value(Go(y), g) = g[y]
         /\ Put(v, y) \in Plan(D) /\ Put(v, y).next = y
         /\ \A g : Value(Put(v, y), g) = v \o g[y]
<1>1. Stop(v, y) \in Plan(D) /\ Go(y) \in Plan(D) /\ Put(v, y) \in Plan(D)
  BY EmptyList DEF Stop, Go, Put, Plan
<1>2. Stop(v, y).way = "stop" /\ Go(y).next = y /\ Put(v, y).next = y
  BY DEF Stop, Go, Put
<1>3. \A g : Value(Stop(v, y), g) = v
  BY DEF Stop, Value
<1>4. \A g : Value(Go(y), g) = g[y]
  BY DEF Go, Value
<1>5. \A g : Value(Put(v, y), g) = v \o g[y]
  BY DEF Put, Value
<1> QED
  BY <1>1, <1>2, <1>3, <1>4, <1>5

\* RangeComp has no other result.
LEMMA RangeCompKinds ==
  ASSUME NEW i \in Interval, NEW v \in Interval
  PROVE  RangeComp(i, v) \in {"LEFT", "LEFT_EXTENSIBLE", "LEFT_INTERSECT", "INNER", "OUTER",
                              "RIGHT_INTERSECT", "RIGHT_EXTENSIBLE", "RIGHT"}
<1>1. /\ i.start \in Nat /\ i.end \in Nat /\ i.start <= i.end
      /\ v.start \in Nat /\ v.end \in Nat /\ v.start <= v.end
  BY DEF Interval
<1> QED
  BY <1>1, RangeCompMeaning

\* What Maintain does with the first two intervals.
LEMMA MaintainArms ==
  ASSUME NEW l \in List
  PROVE  /\ Len(l) < 2 => Maintain[l] = l
         /\ ~(Len(l) < 2) =>
              /\ RangeComp(l[2], l[1]) \in {"RIGHT_EXTENSIBLE", "RIGHT_INTERSECT"} =>
                   /\ Merge(l[1], l[2]) \in Interval
                   /\ Members(Merge(l[1], l[2])) = Members(l[1]) \cup Members(l[2])
                   /\ Maintain[l] = Maintain[<<Merge(l[1], l[2])>> \o Tail(Tail(l))]
              /\ RangeComp(l[2], l[1]) = "OUTER" =>
                   Maintain[l] = Maintain[<<l[1]>> \o Tail(Tail(l))]
              /\ RangeComp(l[2], l[1]) \notin {"RIGHT_EXTENSIBLE", "RIGHT_INTERSECT", "OUTER"} =>
                   Maintain[l] = l
<1>1. Maintain[l] = MaintainStep(Maintain, l)
  BY MaintainUnfolds
<1>2. CASE Len(l) < 2
  BY <1>1, <1>2 DEF MaintainStep
<1>3. CASE ~(Len(l) < 2)
  <2>1. l[1] \in Interval /\ l[2] \in Interval
    BY <1>3, TwoFirst
  <2>2. CASE RangeComp(l[2], l[1]) \in {"RIGHT_EXTENSIBLE", "RIGHT_INTERSECT"}
    <3>1. /\ Merge(l[1], l[2]) \in Interval
          /\ Members(Merge(l[1], l[2])) = Members(l[1]) \cup Members(l[2])
      BY <2>1, <2>2, SwallowedIsInterval, MergeIsUnion
    <3>2. Maintain[l] = Maintain[<<Merge(l[1], l[2])>> \o Tail(Tail(l))]
      BY <1>1, <1>3, <2>2 DEF MaintainStep
    <3> QED
      BY <1>3, <2>2, <3>1, <3>2
  <2>3. CASE RangeComp(l[2], l[1]) = "OUTER"
    BY <1>1, <1>3, <2>3 DEF MaintainStep
  <2>4. CASE RangeComp(l[2], l[1]) \notin {"RIGHT_EXTENSIBLE", "RIGHT_INTERSECT", "OUTER"}
    BY <1>1, <1>3, <2>4 DEF MaintainStep
  <2> QED
    BY <2>2, <2>3, <2>4
<1> QED
  BY <1>2, <1>3

\* Maintain never lengthens a list.
LEMMA MaintainShortens ==
  ASSUME NEW l \in List
  PROVE  Maintain[l] \in List /\ Len(Maintain[l]) <= Len(l)
<1> DEFINE m == [k \in List |-> Len(k)]
           Good == {k \in List : Len(Maintain[k]) <= Len(k)}
<1>1. m \in [List -> Nat] /\ \A k \in List : m[k] = Len(k)
  BY DEF List
<1>2. ASSUME NEW k \in List, \A j \in List : m[j] < m[k] => j \in Good
      PROVE  k \in Good
  <2>1. Len(k) \in Nat
    BY DEF List
  <2>2. CASE Maintain[k] = k
    BY <2>1, <2>2
  <2>3. ASSUME NEW x \in Interval, ~(Len(k) < 2), Maintain[k] = Maintain[<<x>> \o Tail(Tail(k))]
        PROVE  k \in Good
    <3> DEFINE j == <<x>> \o Tail(Tail(k))
    <3>1. j \in List /\ Len(j) = Len(k) - 1
      BY <2>3, TwoFirst
    <3>2. Maintain[k] = Maintain[j]
      BY <2>3
    <3> HIDE DEF j, m
    <3>3. m[j] < m[k]
      BY <1>1, <2>1, <3>1
    <3>4. Len(Maintain[j]) <= Len(j) /\ Len(Maintain[j]) \in Nat
      BY <1>2, <3>1, <3>3, MaintainUnfolds DEF List
    <3>5. Len(Maintain[k]) <= Len(k)
      BY <2>1, <3>1, <3>2, <3>4
    <3> QED
      BY <3>5
  <2> HIDE DEF Good
  <2>4. ~(Len(k) < 2) => k[1] \in Interval
    BY TwoFirst
  <2> QED
    BY <2>2, <2>3, <2>4, MaintainArms
<1>3. Good = List
  <2>1. Good \in SUBSET List
    OBVIOUS
  <2> HIDE DEF m, Good
  <2>2. Inductive(List, m, Good)
    BY <1>1, <1>2, <2>1 DEF Inductive
  <2> QED
    BY <2>2, MeasureInduction
<1> QED
  BY <1>3, MaintainUnfolds

-----------------------------------------------------------------------------
Walk == List \X List

AddStep(g, walk) ==
    LET l == walk[1]
        set == walk[2]
    IN  IF set = <<>> THEN l
        ELSE IF l = <<>> THEN set
        ELSE LET c == RangeComp(Head(l), Head(set))
                 merged == <<Merge(Head(l), Head(set))>> \o Tail(l)
             IN  CASE c = "RIGHT" -> <<Head(set)>> \o g[<<l, Tail(set)>>]
                   [] c \in {"RIGHT_INTERSECT", "RIGHT_EXTENSIBLE"} -> g[<<merged, Tail(set)>>]
                   [] c \in {"OUTER", "LEFT_EXTENSIBLE", "LEFT_INTERSECT"} ->
                          g[<<Maintain[merged], Tail(set)>>]
                   [] c = "INNER" -> g[<<l, Tail(set)>>]
                   [] c = "LEFT" -> <<Head(l)>> \o g[<<Tail(l), set>>]

\* The definition of AddIntervalSet (interval.hh:308), read as a choice of a function.
LEMMA AddChosen ==
  AddIntervalSet = CHOOSE g : g = [walk \in Walk |-> AddStep(g, walk)]
BY DEF AddIntervalSet, AddStep, Walk, List

\* What is left of a walk.
AddLeft == [walk \in Walk |-> Len(walk[1]) + Len(walk[2])]

\* What is left of a walk over two lists is a natural number.
LEMMA AddLeftIs ==
  /\ AddLeft \in [Walk -> Nat]
  /\ \A a, b \in List : <<a, b>> \in Walk /\ AddLeft[<<a, b>>] = Len(a) + Len(b)
<1>1. \A a \in List : Len(a) \in Nat
  BY DEF List
<1>2. \A walk \in Walk : walk[1] \in List /\ walk[2] \in List
  BY DEF Walk
<1>3. AddLeft \in [Walk -> Nat]
  <2>1. ASSUME NEW walk \in Walk PROVE Len(walk[1]) + Len(walk[2]) \in Nat
    <3> DEFINE a == Len(walk[1])
               b == Len(walk[2])
    <3>1. a \in Nat /\ b \in Nat
      BY <1>1, <1>2
    <3>2. a + b \in Nat
      <4> HIDE DEF a, b
      <4> QED
        BY <3>1
    <3> QED
      BY <3>2
  <2> QED
    BY <2>1 DEF AddLeft
<1>4. \A a, b \in List : <<a, b>> \in Walk
  BY DEF Walk
<1>5. \A walk \in Walk : AddLeft[walk] = Len(walk[1]) + Len(walk[2])
  BY DEF AddLeft
<1> QED
  BY <1>3, <1>4, <1>5

AddFits(walk, p) ==
  /\ \A g : AddStep(g, walk) = Value(p, g)
  /\ p.way # "stop" => AddLeft[p.next] < AddLeft[walk]

\* AddIntervalSet either stops or goes on with less left, behind a list or not.
LEMMA AddPlan ==
  ASSUME NEW l \in List, NEW set \in List
  PROVE  \E p \in Plan(Walk) : AddFits(<<l, set>>, p)
<1>0. /\ <<l, set>> \in Walk /\ <<l, set>>[1] = l /\ <<l, set>>[2] = set
      /\ Len(l) \in Nat /\ Len(set) \in Nat
      /\ AddLeft[<<l, set>>] = Len(l) + Len(set)
  <2>1. Len(l) \in Nat /\ Len(set) \in Nat
    BY DEF List
  <2> QED
    BY <2>1, AddLeftIs
<1> DEFINE w == <<l, set>>
<1> SUFFICES \E p \in Plan(Walk) : AddFits(w, p)
  OBVIOUS
<1> HIDE DEF w
<1> DEFINE Stops(v) == \A g : AddStep(g, w) = v
           Goes(a, b) == \A g : AddStep(g, w) = g[<<a, b>>]
           Puts(v, a, b) == \A g : AddStep(g, w) = v \o g[<<a, b>>]
<1>1. ASSUME NEW v \in List, Stops(v)
      PROVE  \E p \in Plan(Walk) : AddFits(w, p)
  <2>1. /\ Stop(v, w) \in Plan(Walk) /\ Stop(v, w).way = "stop"
        /\ \A g : Value(Stop(v, w), g) = v
    <3>1. w \in Walk
      BY <1>0 DEF w
    <3> QED
      BY <3>1, Plans
  <2> QED
    BY <1>1, <2>1 DEF AddFits
<1>2. ASSUME NEW a \in List, NEW b \in List, Len(a) + Len(b) < Len(l) + Len(set),
             Goes(a, b)
      PROVE  \E p \in Plan(Walk) : AddFits(w, p)
  <2> DEFINE y == <<a, b>>
  <2>1. y \in Walk /\ AddLeft[y] < AddLeft[w]
    BY <1>0, <1>2, AddLeftIs DEF w
  <2>2. \A g : AddStep(g, w) = g[y]
    BY <1>2
  <2> HIDE DEF y
  <2> QED
    <3>1. Go(y) \in Plan(Walk) /\ Go(y).next = y /\ \A g : Value(Go(y), g) = g[y]
      BY <2>1, Plans, EmptyList
    <3> QED
      BY <2>1, <2>2, <3>1 DEF AddFits
<1>3. ASSUME NEW v \in List, NEW a \in List, NEW b \in List, Len(a) + Len(b) < Len(l) + Len(set),
             Puts(v, a, b)
      PROVE  \E p \in Plan(Walk) : AddFits(w, p)
  <2> DEFINE y == <<a, b>>
  <2>1. y \in Walk /\ AddLeft[y] < AddLeft[w]
    BY <1>0, <1>3, AddLeftIs DEF w
  <2>2. \A g : AddStep(g, w) = v \o g[y]
    BY <1>3
  <2> HIDE DEF y
  <2> QED
    <3>1. Put(v, y) \in Plan(Walk) /\ Put(v, y).next = y /\ \A g : Value(Put(v, y), g) = v \o g[y]
      BY <2>1, Plans
    <3> QED
      BY <2>1, <2>2, <3>1 DEF AddFits
<1>4. CASE set = <<>>
  <2>1. Stops(l)
    BY <1>4 DEF AddStep, w
  <2> HIDE DEF Stops
  <2> QED
    BY <1>1, <2>1
<1>5. CASE set # <<>> /\ l = <<>>
  <2>1. Stops(set)
    BY <1>5 DEF AddStep, w
  <2> HIDE DEF Stops
  <2> QED
    BY <1>1, <2>1
<1>6. CASE set # <<>> /\ l # <<>>
  <2> DEFINE h == Head(l)
             e == Head(set)
             c == RangeComp(h, e)
             below == Tail(l)
             others == Tail(set)
             k == <<Merge(h, e)>> \o below
  <2>1. /\ h \in Interval /\ below \in List /\ Len(below) = Len(l) - 1
        /\ e \in Interval /\ others \in List /\ Len(others) = Len(set) - 1
    BY <1>6, FirstAway
  <2>0. Len(below) \in Nat /\ Len(others) \in Nat
    BY <1>0, <2>1
  <2>2. \A g : AddStep(g, w) =
               CASE c = "RIGHT" -> <<e>> \o g[<<l, others>>]
                 [] c \in {"RIGHT_INTERSECT", "RIGHT_EXTENSIBLE"} -> g[<<k, others>>]
                 [] c \in {"OUTER", "LEFT_EXTENSIBLE", "LEFT_INTERSECT"} -> g[<<Maintain[k], others>>]
                 [] c = "INNER" -> g[<<l, others>>]
                 [] c = "LEFT" -> <<h>> \o g[<<below, set>>]
    BY <1>6 DEF AddStep, w
  <2>3. c \notin {"LEFT", "RIGHT"} =>
             /\ k \in List /\ Len(k) = Len(l)
             /\ Maintain[k] \in List /\ Len(Maintain[k]) <= Len(l)
    <3>1. HAVE c \notin {"LEFT", "RIGHT"}
    <3>2. Merge(h, e) \in Interval
      BY <2>1, <3>1, MergeIsUnion
    <3>3. k \in List /\ Len(k) = Len(l)
      BY <1>0, <2>1, <3>2, InFront
    <3> HIDE DEF k
    <3> QED
      BY <3>3, MaintainShortens
  <2>4. c \in {"LEFT", "LEFT_EXTENSIBLE", "LEFT_INTERSECT", "INNER", "OUTER",
               "RIGHT_INTERSECT", "RIGHT_EXTENSIBLE", "RIGHT"}
    BY <2>1, RangeCompKinds
  <2>5. <<h>> \in List /\ <<e>> \in List
    BY <2>1 DEF List
  <2> HIDE DEF h, e, c, k, below, others
  <2>6. CASE c = "RIGHT"
    <3>1. Puts(<<e>>, l, others)
      BY <2>2, <2>6
    <3> HIDE DEF Puts
    <3> QED
      BY <1>0, <2>0, <1>3, <2>1, <2>5, <3>1
  <2>7. CASE c \in {"RIGHT_INTERSECT", "RIGHT_EXTENSIBLE"}
    <3>1. Goes(k, others)
      BY <2>2, <2>7
    <3> HIDE DEF Goes
    <3> QED
      BY <1>0, <2>0, <1>2, <2>1, <2>3, <2>7, <3>1
  <2>8. CASE c \in {"OUTER", "LEFT_EXTENSIBLE", "LEFT_INTERSECT"}
    <3> DEFINE n == Maintain[k]
    <3>1. n \in List /\ Len(n) \in Nat /\ Len(n) <= Len(l)
      BY <2>3, <2>8 DEF List
    <3>2. Goes(n, others)
      BY <2>2, <2>8
    <3> HIDE DEF n, Goes
    <3> QED
      BY <1>0, <2>0, <1>2, <2>1, <3>1, <3>2
  <2>9. CASE c = "INNER"
    <3>1. Goes(l, others)
      BY <2>2, <2>9
    <3> HIDE DEF Goes
    <3> QED
      BY <1>0, <2>0, <1>2, <2>1, <3>1
  <2>10. CASE c = "LEFT"
    <3>1. Puts(<<h>>, below, set)
      BY <2>2, <2>10
    <3> HIDE DEF Puts
    <3> QED
      BY <1>0, <2>0, <1>3, <2>1, <2>5, <3>1
  <2> QED
    BY <2>4, <2>6, <2>7, <2>8, <2>9, <2>10
<1> QED
  BY <1>4, <1>5, <1>6

\* AddIntervalSet is the function that its definition says.
LEMMA AddUnfolds ==
  /\ AddIntervalSet \in [Walk -> List]
  /\ \A x \in Walk : AddIntervalSet[x] = AddStep(AddIntervalSet, x)
<1> DEFINE plan == [x \in Walk |-> CHOOSE p \in Plan(Walk) : AddFits(x, p)]
<1>1. \A x \in Walk : plan[x] \in Plan(Walk) /\ AddFits(x, plan[x])
  <2> TAKE x \in Walk
  <2>1. \E p \in Plan(Walk) : AddFits(x, p)
    <3>1. PICK l \in List, set \in List : x = <<l, set>>
      BY DEF Walk
    <3> QED
      BY <3>1, AddPlan
  <2> QED
    BY <2>1
<1>2. plan \in [Walk -> Plan(Walk)]
  BY <1>1
<1> HIDE DEF plan
<1>3. Descending(Walk, AddLeft, plan)
  BY <1>1, <1>2, AddLeftIs DEF AddFits, Descending
<1>4. \A g : Walks(Walk, plan, g) <=> g = [x \in Walk |-> AddStep(g, x)]
  <2> TAKE g
  <2>1. \A x \in Walk : AddStep(g, x) = Value(plan[x], g)
    BY <1>1 DEF AddFits
  <2> QED
    BY <2>1 DEF Walks
<1>5. /\ \E f : Walks(Walk, plan, f)
      /\ \A f : Walks(Walk, plan, f) => f \in [Walk -> List]
  BY <1>3, WalkExists
<1>6. \E f : f = [x \in Walk |-> AddStep(f, x)]
  BY <1>4, <1>5
<1>7. AddIntervalSet = [x \in Walk |-> AddStep(AddIntervalSet, x)]
  BY <1>6, AddChosen
<1>8. AddIntervalSet \in [Walk -> List]
  BY <1>4, <1>5, <1>7
<1> QED
  BY <1>7, <1>8

-----------------------------------------------------------------------------
(* What a list stands for.                                                 *)

Numbers(l) == {n \in Nat : \E i \in DOMAIN l : n \in Members(l[i])}

\* In descending order, with a number missing between any two intervals.
Normal(l) == \A i, j \in DOMAIN l : i < j => l[j].end + 1 < l[i].start

\* All of S lies below a, and a number is missing between.
Below(S, a) == \A n \in S : n + 1 < a

\* The members of an interval are the numbers from its start to its end.
LEMMA MembersAre ==
  ASSUME NEW i \in Interval
  PROVE  /\ i.start \in Nat /\ i.end \in Nat /\ i.start <= i.end
         /\ Members(i) \in SUBSET Nat /\ i.start \in Members(i) /\ i.end \in Members(i)
         /\ \A n : n \in Members(i) <=> n \in Nat /\ i.start <= n /\ n <= i.end
BY DEF Interval, Members

\* The empty list stands for no number.
LEMMA NumbersOfNothing == Numbers(<<>>) = {} /\ Normal(<<>>)
  BY EmptyList DEF Numbers, Normal

\* An interval in front of a list adds its members, and keeps the order when it lies above.
LEMMA OneInFront ==
  ASSUME NEW x \in Interval, NEW r \in List
  PROVE  /\ Numbers(<<x>> \o r) = Members(x) \cup Numbers(r)
         /\ Normal(r) /\ Below(Numbers(r), x.start) => Normal(<<x>> \o r)
<1> DEFINE s == <<x>> \o r
<1>1. /\ s \in List /\ Len(s) = Len(r) + 1 /\ s[1] = x
      /\ \A i \in DOMAIN r : s[i + 1] = r[i]
  BY InFront
<1>2. /\ Len(r) \in Nat /\ DOMAIN r = 1 .. Len(r)
      /\ \A i \in DOMAIN r : r[i] \in Interval
  BY DEF List
<1> HIDE DEF s
<1>3. DOMAIN s = 1 .. Len(r) + 1
  BY <1>1 DEF List
<1>4. \A i \in DOMAIN s : i = 1 \/ (i - 1 \in DOMAIN r /\ s[i] = r[i - 1])
  <2> TAKE i \in DOMAIN s
  <2>1. CASE i # 1
    <3>1. i - 1 \in DOMAIN r /\ (i - 1) + 1 = i
      BY <1>2, <1>3, <2>1
    <3>2. s[(i - 1) + 1] = r[i - 1]
      BY <1>1, <3>1
    <3> QED
      BY <3>1, <3>2
  <2> QED
    BY <2>1
<1>5. \A i \in DOMAIN r : i + 1 \in DOMAIN s
  BY <1>2, <1>3
<1>6. Numbers(s) = Members(x) \cup Numbers(r)
  <2>1. ASSUME NEW n \in Numbers(s) PROVE n \in Members(x) \cup Numbers(r)
    <3>1. PICK i \in DOMAIN s : n \in Members(s[i])
      BY DEF Numbers
    <3>2. n \in Nat
      BY DEF Numbers
    <3> QED
      BY <1>1, <1>4, <3>1, <3>2 DEF Numbers
  <2>2. ASSUME NEW n \in Members(x) PROVE n \in Numbers(s)
    <3>1. 1 \in DOMAIN s /\ s[1] = x
      BY <1>1, <1>2, <1>3
    <3>2. n \in Nat
      BY MembersAre
    <3> QED
      BY <3>1, <3>2 DEF Numbers
  <2>3. ASSUME NEW n \in Numbers(r) PROVE n \in Numbers(s)
    <3>1. PICK i \in DOMAIN r : n \in Members(r[i])
      BY DEF Numbers
    <3>2. n \in Nat /\ i + 1 \in DOMAIN s /\ s[i + 1] = r[i]
      BY <1>1, <1>5 DEF Numbers
    <3> QED
      BY <3>1, <3>2 DEF Numbers
  <2> QED
    BY <2>1, <2>2, <2>3
<1>7. ASSUME Normal(r), Below(Numbers(r), x.start) PROVE Normal(s)
  <2>1. ASSUME NEW i \in DOMAIN s, NEW j \in DOMAIN s, i < j
        PROVE  s[j].end + 1 < s[i].start
    <3>1. i \in Nat /\ j \in Nat /\ j # 1 /\ j - 1 \in DOMAIN r /\ s[j] = r[j - 1]
      BY <1>2, <1>3, <1>4, <2>1
    <3>2. CASE i = 1
      <4>1. r[j - 1] \in Interval
        BY <1>2, <3>1
      <4>2. r[j - 1].end \in Numbers(r)
        BY <3>1, <4>1, MembersAre DEF Numbers
      <4> QED
        BY <1>1, <1>7, <3>1, <3>2, <4>2 DEF Below
    <3>3. CASE i # 1
      <4>1. i - 1 \in DOMAIN r /\ s[i] = r[i - 1] /\ i - 1 < j - 1
        BY <1>4, <2>1, <3>1, <3>3
      <4> QED
        BY <1>7, <3>1, <4>1 DEF Normal
    <3> QED
      BY <3>2, <3>3
  <2> QED
    BY <2>1 DEF Normal
<1> QED
  BY <1>6, <1>7 DEF s

\* The rest of a list in order is in order, and below its first interval.
LEMMA OneAway ==
  ASSUME NEW l \in List, l # <<>>
  PROVE  /\ Numbers(l) = Members(Head(l)) \cup Numbers(Tail(l))
         /\ Normal(l) => Normal(Tail(l)) /\ Below(Numbers(Tail(l)), Head(l).start)
<1>1. /\ Head(l) \in Interval /\ Tail(l) \in List /\ Head(l) = l[1]
      /\ Len(l) \in Nat /\ Len(l) > 0 /\ Len(Tail(l)) = Len(l) - 1
      /\ l = <<Head(l)>> \o Tail(l)
      /\ \A i \in DOMAIN Tail(l) : Tail(l)[i] = l[i + 1]
  BY FirstAway
<1> DEFINE h == Head(l)
           t == Tail(l)
<1>2. Numbers(l) = Members(h) \cup Numbers(t)
  BY <1>1, OneInFront
<1> HIDE DEF h, t
<1>3. /\ DOMAIN t = 1 .. Len(l) - 1 /\ DOMAIN l = 1 .. Len(l)
      /\ \A i \in DOMAIN t : t[i] = l[i + 1]
      /\ h = l[1] /\ Len(l) \in Nat /\ Len(l) > 0
  BY <1>1 DEF h, t, List
<1>4. \A i \in DOMAIN t : i + 1 \in DOMAIN l /\ 1 < i + 1 /\ i \in Nat
  BY <1>3
<1>5. 1 \in DOMAIN l
  BY <1>3
<1>6. ASSUME Normal(l) PROVE Normal(t) /\ Below(Numbers(t), h.start)
  <2>1. ASSUME NEW i \in DOMAIN t, NEW j \in DOMAIN t, i < j
        PROVE  t[j].end + 1 < t[i].start
    <3>1. i + 1 \in DOMAIN l /\ j + 1 \in DOMAIN l /\ i + 1 < j + 1
      BY <1>4, <2>1
    <3>2. l[j + 1].end + 1 < l[i + 1].start
      BY <1>6, <3>1 DEF Normal
    <3> QED
      BY <1>3, <3>2
  <2>2. ASSUME NEW n \in Numbers(t) PROVE n + 1 < h.start
    <3>1. PICK i \in DOMAIN t : n \in Members(t[i])
      BY DEF Numbers
    <3>2. l[i + 1].end + 1 < l[1].start
      BY <1>4, <1>5, <1>6 DEF Normal
    <3>3. t[i] \in Interval /\ h \in Interval
      BY <1>1 DEF t, h, List
    <3>4. n \in Nat /\ n <= t[i].end /\ t[i].end \in Nat /\ h.start \in Nat
      BY <3>1, <3>3, MembersAre
    <3>5. t[i].end + 1 < h.start
      BY <1>3, <3>2
    <3> QED
      BY <3>4, <3>5
  <2> QED
    BY <2>1, <2>2 DEF Normal, Below
<1> QED
  BY <1>2, <1>6 DEF h, t

\* A list stands for natural numbers.
LEMMA NumbersAre ==
  ASSUME NEW l \in List
  PROVE  Numbers(l) \in SUBSET Nat
BY DEF Numbers

\* What lies below lies below in part.
LEMMA BelowLess ==
  ASSUME NEW S, NEW T \in SUBSET S, NEW a, Below(S, a)
  PROVE  Below(T, a)
BY DEF Below

\* The pieces of an interval that v was taken out of, in front of a list.
LEMMA FragmentsInFront ==
  ASSUME NEW i \in Interval, NEW v \in Interval, RangeComp(i, v) = "INNER", NEW r \in List
  PROVE  /\ Fragments(i, v) \o r \in List
         /\ Len(Fragments(i, v) \o r) <= Len(r) + 2
         /\ Numbers(Fragments(i, v) \o r) = (Members(i) \ Members(v)) \cup Numbers(r)
         /\ Normal(r) /\ Below(Numbers(r), i.start) => Normal(Fragments(i, v) \o r)
<1>1. /\ i.start \in Nat /\ i.end \in Nat /\ i.start <= i.end
      /\ v.start \in Nat /\ v.end \in Nat /\ v.start <= v.end
      /\ i.start <= v.start /\ v.end <= i.end
  BY MembersAre, RangeCompMeaning
<1> DEFINE upper == From(v.end + 1, i.end)
           lower == From(i.start, v.start - 1)
           s == IF i.start < v.start THEN <<lower>> \o r ELSE r
           t == IF v.end < i.end THEN <<upper>> \o s ELSE s
<1>2. /\ v.end < i.end => upper \in Interval /\ Members(upper) = v.end + 1 .. i.end
      /\ upper.start = v.end + 1
  BY <1>1 DEF From, Members, Interval
<1>3. /\ i.start < v.start => lower \in Interval /\ Members(lower) = i.start .. v.start - 1
      /\ lower.start = i.start
  BY <1>1 DEF From, Members, Interval
<1> HIDE DEF upper, lower
<1>4. Fragments(i, v) \o r = t
  <2>1. r \in Seq(Interval) /\ <<>> \in Seq(Interval)
    BY DEF List
  <2>2. /\ v.end < i.end => <<upper>> \in Seq(Interval)
        /\ i.start < v.start => <<lower>> \in Seq(Interval)
    BY <1>2, <1>3
  <2>3. Fragments(i, v) = (IF v.end < i.end THEN <<upper>> ELSE <<>>)
                          \o (IF i.start < v.start THEN <<lower>> ELSE <<>>)
    BY DEF Fragments, upper, lower
  <2>4. \A a, b, c \in Seq(Interval) : (a \o b) \o c = a \o (b \o c)
    BY ConcatAssociative
  <2>5. \A a \in Seq(Interval) : a \o <<>> = a /\ <<>> \o a = a
    BY ConcatEmptySeq
  <2> QED
    BY <2>1, <2>2, <2>3, <2>4, <2>5
<1>5. /\ s \in List /\ Len(s) <= Len(r) + 1
      /\ Numbers(s) = (i.start .. v.start - 1) \cup Numbers(r)
      /\ Normal(r) /\ Below(Numbers(r), i.start) => Normal(s) /\ Below(Numbers(s), v.end + 1)
  <2>1. Len(r) \in Nat
    BY DEF List
  <2>2. CASE i.start < v.start
    <3>1. s = <<lower>> \o r
      BY <2>2
    <3> HIDE DEF s
    <3>2. s \in List /\ Len(s) = Len(r) + 1 /\ Numbers(s) = (i.start .. v.start - 1) \cup Numbers(r)
      BY <1>3, <2>2, <3>1, InFront, OneInFront
    <3>3. Normal(r) /\ Below(Numbers(r), i.start) => Normal(s)
      BY <1>3, <2>2, <3>1, OneInFront
    <3>4. Below(Numbers(r), i.start) => Below(Numbers(s), v.end + 1)
      BY <1>1, <3>2, NumbersAre DEF Below
    <3> QED
      BY <2>1, <3>2, <3>3, <3>4
  <2>3. CASE ~(i.start < v.start)
    <3>1. s = r /\ i.start .. v.start - 1 = {}
      BY <1>1, <2>3
    <3> HIDE DEF s
    <3>2. Below(Numbers(r), i.start) => Below(Numbers(r), v.end + 1)
      BY <1>1, NumbersAre DEF Below
    <3> QED
      BY <2>1, <3>1, <3>2
  <2> QED
    BY <2>2, <2>3
<1> HIDE DEF s
<1>6. /\ t \in List /\ Len(t) <= Len(r) + 2
      /\ Numbers(t) = (v.end + 1 .. i.end) \cup (i.start .. v.start - 1) \cup Numbers(r)
      /\ Normal(r) /\ Below(Numbers(r), i.start) => Normal(t)
  <2>1. Len(r) \in Nat /\ Len(s) \in Nat
    BY <1>5 DEF List
  <2>2. CASE v.end < i.end
    <3>1. t = <<upper>> \o s
      BY <2>2
    <3> HIDE DEF t
    <3>2. t \in List /\ Len(t) = Len(s) + 1 /\ Numbers(t) = (v.end + 1 .. i.end) \cup Numbers(s)
      BY <1>2, <1>5, <2>2, <3>1, InFront, OneInFront
    <3>3. Normal(s) /\ Below(Numbers(s), v.end + 1) => Normal(t)
      BY <1>2, <1>5, <2>2, <3>1, OneInFront
    <3> QED
      BY <1>5, <2>1, <3>2, <3>3
  <2>3. CASE ~(v.end < i.end)
    <3>1. t = s /\ v.end + 1 .. i.end = {}
      BY <1>1, <2>3
    <3> HIDE DEF t
    <3> QED
      BY <1>5, <2>1, <3>1
  <2> QED
    BY <2>2, <2>3
<1>7. (v.end + 1 .. i.end) \cup (i.start .. v.start - 1) = Members(i) \ Members(v)
  BY <1>1 DEF Members
<1> HIDE DEF t
<1> QED
  BY <1>4, <1>6, <1>7

-----------------------------------------------------------------------------
Removal == List \X Interval

RemoveStep(g, walk) ==
    LET l == walk[1]
        v == walk[2]
    IN  IF l = <<>> THEN l
        ELSE LET c == RangeComp(v, Head(l))
             IN  CASE c \in {"RIGHT", "RIGHT_EXTENSIBLE"} -> <<Head(l)>> \o g[<<Tail(l), v>>]
                   [] c = "RIGHT_INTERSECT" -> <<Complement(Head(l), v)>> \o g[<<Tail(l), v>>]
                   [] c = "INNER" -> g[<<Tail(l), v>>]
                   [] c = "LEFT_INTERSECT" -> <<Complement(Head(l), v)>> \o Tail(l)
                   [] c \in {"LEFT", "LEFT_EXTENSIBLE"} -> l
                   [] c = "OUTER" -> Fragments(Head(l), v) \o Tail(l)

\* The definition of RemoveInterval (interval.hh:262), read as a choice of a function.
LEMMA RemoveChosen ==
  RemoveInterval = CHOOSE g : g = [walk \in Removal |-> RemoveStep(g, walk)]
BY DEF RemoveInterval, RemoveStep, Removal, List

RemoveLeft == [walk \in Removal |-> Len(walk[1])]

\* What is left of a walk over one list is a natural number.
LEMMA RemoveLeftIs ==
  /\ RemoveLeft \in [Removal -> Nat]
  /\ \A a \in List : \A b \in Interval : <<a, b>> \in Removal /\ RemoveLeft[<<a, b>>] = Len(a)
<1>1. \A a \in List : Len(a) \in Nat
  BY DEF List
<1>2. \A walk \in Removal : walk[1] \in List /\ walk[2] \in Interval
  BY DEF Removal
<1>3. RemoveLeft \in [Removal -> Nat]
  BY <1>1, <1>2 DEF RemoveLeft
<1>4. \A a \in List : \A b \in Interval : <<a, b>> \in Removal
  BY DEF Removal
<1>5. \A walk \in Removal : RemoveLeft[walk] = Len(walk[1])
  BY DEF RemoveLeft
<1> QED
  BY <1>3, <1>4, <1>5

RemoveFits(walk, p) ==
  /\ \A g : RemoveStep(g, walk) = Value(p, g)
  /\ p.way # "stop" => RemoveLeft[p.next] < RemoveLeft[walk]

\* How an interval of the list lies to the one taken out, told from the other side.
LEMMA Converse ==
  ASSUME NEW h \in Interval, NEW v \in Interval
  PROVE  /\ RangeComp(v, h) = "RIGHT_INTERSECT" => RangeComp(h, v) = "LEFT_INTERSECT"
         /\ RangeComp(v, h) = "LEFT_INTERSECT" => RangeComp(h, v) = "RIGHT_INTERSECT"
         /\ RangeComp(v, h) = "OUTER" => RangeComp(h, v) = "INNER"
<1>1. /\ h.start \in Nat /\ h.end \in Nat /\ h.start <= h.end
      /\ v.start \in Nat /\ v.end \in Nat /\ v.start <= v.end
  BY DEF Interval
<1> QED
  BY <1>1, RangeCompMeaning

\* RemoveInterval either stops or goes on with a shorter list.
LEMMA RemovePlan ==
  ASSUME NEW l \in List, NEW v \in Interval
  PROVE  \E p \in Plan(Removal) : RemoveFits(<<l, v>>, p)
<1>0. /\ <<l, v>> \in Removal /\ <<l, v>>[1] = l /\ <<l, v>>[2] = v
      /\ Len(l) \in Nat /\ RemoveLeft[<<l, v>>] = Len(l)
  <2>1. Len(l) \in Nat
    BY DEF List
  <2> QED
    BY <2>1, RemoveLeftIs
<1> DEFINE w == <<l, v>>
<1> SUFFICES \E p \in Plan(Removal) : RemoveFits(w, p)
  OBVIOUS
<1> HIDE DEF w
<1> DEFINE Stops(a) == \A g : RemoveStep(g, w) = a
           Goes(a, b) == \A g : RemoveStep(g, w) = g[<<a, b>>]
           Puts(u, a, b) == \A g : RemoveStep(g, w) = u \o g[<<a, b>>]
<1>1. ASSUME NEW a \in List, Stops(a)
      PROVE  \E p \in Plan(Removal) : RemoveFits(w, p)
  <2>1. /\ Stop(a, w) \in Plan(Removal) /\ Stop(a, w).way = "stop"
        /\ \A g : Value(Stop(a, w), g) = a
    <3>1. w \in Removal
      BY <1>0 DEF w
    <3> QED
      BY <3>1, Plans
  <2> QED
    BY <1>1, <2>1 DEF RemoveFits
<1>2. ASSUME NEW a \in List, Len(a) < Len(l), Goes(a, v)
      PROVE  \E p \in Plan(Removal) : RemoveFits(w, p)
  <2> DEFINE y == <<a, v>>
  <2>1. y \in Removal /\ RemoveLeft[y] < RemoveLeft[w]
    BY <1>0, <1>2, RemoveLeftIs DEF w
  <2>2. \A g : RemoveStep(g, w) = g[y]
    BY <1>2
  <2> HIDE DEF y
  <2>3. Go(y) \in Plan(Removal) /\ Go(y).next = y /\ \A g : Value(Go(y), g) = g[y]
    BY <2>1, Plans, EmptyList
  <2> QED
    BY <2>1, <2>2, <2>3 DEF RemoveFits
<1>3. ASSUME NEW u \in List, NEW a \in List, Len(a) < Len(l), Puts(u, a, v)
      PROVE  \E p \in Plan(Removal) : RemoveFits(w, p)
  <2> DEFINE y == <<a, v>>
  <2>1. y \in Removal /\ RemoveLeft[y] < RemoveLeft[w]
    BY <1>0, <1>3, RemoveLeftIs DEF w
  <2>2. \A g : RemoveStep(g, w) = u \o g[y]
    BY <1>3
  <2> HIDE DEF y
  <2>3. Put(u, y) \in Plan(Removal) /\ Put(u, y).next = y /\ \A g : Value(Put(u, y), g) = u \o g[y]
    <3>1. y \in Removal
      BY <2>1
    <3>2. Put(u, y) \in Plan(Removal)
      BY <3>1, Plans
    <3>3. Put(u, y).next = y
      BY <3>1, Plans
    <3>4. \A g : Value(Put(u, y), g) = u \o g[y]
      BY DEF Put, Value
    <3> QED
      BY <3>2, <3>3, <3>4
  <2> QED
    BY <2>1, <2>2, <2>3 DEF RemoveFits
<1>4. CASE l = <<>>
  <2>1. Stops(l)
    BY <1>4 DEF RemoveStep, w
  <2> HIDE DEF Stops
  <2> QED
    BY <1>1, <2>1
<1>5. CASE l # <<>>
  <2> DEFINE h == Head(l)
             below == Tail(l)
             c == RangeComp(v, h)
             cut == Complement(h, v)
  <2>1. h \in Interval /\ below \in List /\ Len(below) = Len(l) - 1
    BY <1>5, FirstAway
  <2>2. \A g : RemoveStep(g, w) =
               CASE c \in {"RIGHT", "RIGHT_EXTENSIBLE"} -> <<h>> \o g[<<below, v>>]
                 [] c = "RIGHT_INTERSECT" -> <<cut>> \o g[<<below, v>>]
                 [] c = "INNER" -> g[<<below, v>>]
                 [] c = "LEFT_INTERSECT" -> <<cut>> \o below
                 [] c \in {"LEFT", "LEFT_EXTENSIBLE"} -> l
                 [] c = "OUTER" -> Fragments(h, v) \o below
    BY <1>5 DEF RemoveStep, w
  <2>3. c \in {"LEFT_INTERSECT", "RIGHT_INTERSECT"} => cut \in Interval
    BY <2>1, Converse, ComplementIsDifference
  <2>4. c \in {"LEFT", "LEFT_EXTENSIBLE", "LEFT_INTERSECT", "INNER", "OUTER",
               "RIGHT_INTERSECT", "RIGHT_EXTENSIBLE", "RIGHT"}
    BY <2>1, RangeCompKinds
  <2>5. c = "OUTER" => Fragments(h, v) \o below \in List
    BY <2>1, Converse, FragmentsInFront
  <2> HIDE DEF h, below, c, cut
  <2>6. Len(below) < Len(l)
    BY <1>0, <2>1
  <2>7. CASE c \in {"RIGHT", "RIGHT_EXTENSIBLE"}
    <3>1. Puts(<<h>>, below, v)
      BY <2>2, <2>7
    <3> HIDE DEF Puts
    <3>2. <<h>> \in List
      BY <2>1 DEF List
    <3> QED
      BY <1>3, <2>1, <2>6, <3>1, <3>2
  <2>8. CASE c = "RIGHT_INTERSECT"
    <3>1. Puts(<<cut>>, below, v)
      BY <2>2, <2>8
    <3> HIDE DEF Puts
    <3>2. <<cut>> \in List
      BY <2>3, <2>8 DEF List
    <3> QED
      BY <1>3, <2>1, <2>6, <3>1, <3>2
  <2>9. CASE c = "INNER"
    <3>1. Goes(below, v)
      BY <2>2, <2>9
    <3> HIDE DEF Goes
    <3> QED
      BY <1>2, <2>1, <2>6, <3>1
  <2>10. CASE c = "LEFT_INTERSECT"
    <3>1. Stops(<<cut>> \o below)
      BY <2>2, <2>10
    <3> HIDE DEF Stops
    <3>2. <<cut>> \o below \in List
      BY <2>1, <2>3, <2>10, InFront
    <3> QED
      BY <1>1, <3>1, <3>2
  <2>11. CASE c \in {"LEFT", "LEFT_EXTENSIBLE"}
    <3>1. Stops(l)
      BY <2>2, <2>11
    <3> HIDE DEF Stops
    <3> QED
      BY <1>1, <3>1
  <2>12. CASE c = "OUTER"
    <3>1. Stops(Fragments(h, v) \o below)
      BY <2>2, <2>12
    <3> HIDE DEF Stops
    <3> QED
      BY <1>1, <2>5, <2>12, <3>1
  <2> QED
    BY <2>4, <2>7, <2>8, <2>9, <2>10, <2>11, <2>12
<1> QED
  BY <1>4, <1>5

\* RemoveInterval is the function that its definition says.
LEMMA RemoveUnfolds ==
  /\ RemoveInterval \in [Removal -> List]
  /\ \A x \in Removal : RemoveInterval[x] = RemoveStep(RemoveInterval, x)
<1> DEFINE plan == [x \in Removal |-> CHOOSE p \in Plan(Removal) : RemoveFits(x, p)]
<1>1. \A x \in Removal : plan[x] \in Plan(Removal) /\ RemoveFits(x, plan[x])
  <2> TAKE x \in Removal
  <2>1. \E p \in Plan(Removal) : RemoveFits(x, p)
    <3>1. PICK l \in List, set \in Interval : x = <<l, set>>
      BY DEF Removal
    <3> QED
      BY <3>1, RemovePlan
  <2> QED
    BY <2>1
<1>2. plan \in [Removal -> Plan(Removal)]
  BY <1>1
<1> HIDE DEF plan
<1>3. Descending(Removal, RemoveLeft, plan)
  BY <1>1, <1>2, RemoveLeftIs DEF RemoveFits, Descending
<1>4. \A g : Walks(Removal, plan, g) <=> g = [x \in Removal |-> RemoveStep(g, x)]
  <2> TAKE g
  <2>1. \A x \in Removal : RemoveStep(g, x) = Value(plan[x], g)
    BY <1>1 DEF RemoveFits
  <2> QED
    BY <2>1 DEF Walks
<1>5. /\ \E f : Walks(Removal, plan, f)
      /\ \A f : Walks(Removal, plan, f) => f \in [Removal -> List]
  BY <1>3, WalkExists
<1>6. \E f : f = [x \in Removal |-> RemoveStep(f, x)]
  BY <1>4, <1>5
<1>7. RemoveInterval = [x \in Removal |-> RemoveStep(RemoveInterval, x)]
  BY <1>6, RemoveChosen
<1>8. RemoveInterval \in [Removal -> List]
  BY <1>4, <1>5, <1>7
<1> QED
  BY <1>7, <1>8

-----------------------------------------------------------------------------
RemoveSetStep(g, walk) ==
    LET l == walk[1]
        set == walk[2]
    IN  IF l = <<>> \/ set = <<>> THEN l
        ELSE LET c == RangeComp(Head(l), Head(set))
                 cut == Complement(Head(l), Head(set))
             IN  CASE c \in {"LEFT", "LEFT_EXTENSIBLE"} -> <<Head(l)>> \o g[<<Tail(l), set>>]
                   [] c = "LEFT_INTERSECT" -> <<cut>> \o g[<<Tail(l), set>>]
                   [] c = "INNER" -> g[<<Fragments(Head(l), Head(set)) \o Tail(l), Tail(set)>>]
                   [] c \in {"RIGHT", "RIGHT_EXTENSIBLE"} -> g[<<l, Tail(set)>>]
                   [] c = "RIGHT_INTERSECT" -> g[<<<<cut>> \o Tail(l), Tail(set)>>]
                   [] c = "OUTER" -> g[<<Tail(l), set>>]

\* The definition of RemoveIntervalSet (interval.hh:345), read as a choice of a function.
LEMMA RemoveSetChosen ==
  RemoveIntervalSet = CHOOSE g : g = [walk \in Walk |-> RemoveSetStep(g, walk)]
BY DEF RemoveIntervalSet, RemoveSetStep, Walk, List

\* An interval taken out can leave two behind.
RemoveSetLeft == [walk \in Walk |-> Len(walk[1]) + 2 * Len(walk[2])]

\* What is left of a walk that may split an interval is a natural number.
LEMMA RemoveSetLeftIs ==
  /\ RemoveSetLeft \in [Walk -> Nat]
  /\ \A a, b \in List : <<a, b>> \in Walk /\ RemoveSetLeft[<<a, b>>] = Len(a) + 2 * Len(b)
<1>1. \A a \in List : Len(a) \in Nat
  BY DEF List
<1>2. \A walk \in Walk : walk[1] \in List /\ walk[2] \in List
  BY DEF Walk
<1>3. RemoveSetLeft \in [Walk -> Nat]
  <2>1. ASSUME NEW walk \in Walk PROVE Len(walk[1]) + 2 * Len(walk[2]) \in Nat
    <3> DEFINE a == Len(walk[1])
               b == Len(walk[2])
    <3>1. a \in Nat /\ b \in Nat
      BY <1>1, <1>2
    <3>2. a + 2 * b \in Nat
      <4> HIDE DEF a, b
      <4> QED
        BY <3>1
    <3> QED
      BY <3>2
  <2> QED
    BY <2>1 DEF RemoveSetLeft
<1>4. \A a, b \in List : <<a, b>> \in Walk
  BY DEF Walk
<1>5. \A walk \in Walk : RemoveSetLeft[walk] = Len(walk[1]) + 2 * Len(walk[2])
  BY DEF RemoveSetLeft
<1> QED
  BY <1>3, <1>4, <1>5

RemoveSetFits(walk, p) ==
  /\ \A g : RemoveSetStep(g, walk) = Value(p, g)
  /\ p.way # "stop" => RemoveSetLeft[p.next] < RemoveSetLeft[walk]

\* RemoveIntervalSet either stops or goes on with less left.
LEMMA RemoveSetPlan ==
  ASSUME NEW l \in List, NEW set \in List
  PROVE  \E p \in Plan(Walk) : RemoveSetFits(<<l, set>>, p)
<1>0. /\ <<l, set>> \in Walk /\ <<l, set>>[1] = l /\ <<l, set>>[2] = set
      /\ Len(l) \in Nat /\ Len(set) \in Nat
      /\ RemoveSetLeft[<<l, set>>] = Len(l) + 2 * Len(set)
  <2>1. Len(l) \in Nat /\ Len(set) \in Nat
    BY DEF List
  <2> QED
    BY <2>1, RemoveSetLeftIs
<1> DEFINE w == <<l, set>>
<1> SUFFICES \E p \in Plan(Walk) : RemoveSetFits(w, p)
  OBVIOUS
<1> HIDE DEF w
<1> DEFINE Stops(a) == \A g : RemoveSetStep(g, w) = a
           Goes(a, b) == \A g : RemoveSetStep(g, w) = g[<<a, b>>]
           Puts(u, a, b) == \A g : RemoveSetStep(g, w) = u \o g[<<a, b>>]
<1>1. ASSUME NEW a \in List, Stops(a)
      PROVE  \E p \in Plan(Walk) : RemoveSetFits(w, p)
  <2>1. /\ Stop(a, w) \in Plan(Walk) /\ Stop(a, w).way = "stop"
        /\ \A g : Value(Stop(a, w), g) = a
    <3>1. w \in Walk
      BY <1>0 DEF w
    <3> QED
      BY <3>1, Plans
  <2> QED
    BY <1>1, <2>1 DEF RemoveSetFits
<1>2. ASSUME NEW a \in List, NEW b \in List, Len(a) + 2 * Len(b) < Len(l) + 2 * Len(set), Goes(a, b)
      PROVE  \E p \in Plan(Walk) : RemoveSetFits(w, p)
  <2> DEFINE y == <<a, b>>
  <2>1. y \in Walk /\ RemoveSetLeft[y] < RemoveSetLeft[w]
    BY <1>0, <1>2, RemoveSetLeftIs DEF w
  <2>2. \A g : RemoveSetStep(g, w) = g[y]
    BY <1>2
  <2> HIDE DEF y
  <2>3. Go(y) \in Plan(Walk) /\ Go(y).next = y /\ \A g : Value(Go(y), g) = g[y]
    BY <2>1, Plans, EmptyList
  <2> QED
    BY <2>1, <2>2, <2>3 DEF RemoveSetFits
<1>3. ASSUME NEW u \in List, NEW a \in List, Len(a) < Len(l), Puts(u, a, set)
      PROVE  \E p \in Plan(Walk) : RemoveSetFits(w, p)
  <2> DEFINE y == <<a, set>>
  <2>1. Len(a) \in Nat
    BY DEF List
  <2>2. y \in Walk /\ RemoveSetLeft[y] < RemoveSetLeft[w]
    BY <1>0, <1>3, <2>1, RemoveSetLeftIs DEF w
  <2>3. \A g : RemoveSetStep(g, w) = u \o g[y]
    BY <1>3
  <2> HIDE DEF y
  <2>4. Put(u, y) \in Plan(Walk) /\ Put(u, y).next = y /\ \A g : Value(Put(u, y), g) = u \o g[y]
    BY <2>2, Plans
  <2> QED
    BY <2>2, <2>3, <2>4 DEF RemoveSetFits
<1>4. CASE l = <<>> \/ set = <<>>
  <2>1. Stops(l)
    BY <1>4 DEF RemoveSetStep, w
  <2> HIDE DEF Stops
  <2> QED
    BY <1>1, <2>1
<1>5. CASE ~(l = <<>> \/ set = <<>>)
  <2> DEFINE h == Head(l)
             e == Head(set)
             below == Tail(l)
             others == Tail(set)
             c == RangeComp(h, e)
             cut == Complement(h, e)
             k == Fragments(h, e) \o below
             j == <<cut>> \o below
  <2>1. /\ h \in Interval /\ below \in List /\ Len(below) = Len(l) - 1
        /\ e \in Interval /\ others \in List /\ Len(others) = Len(set) - 1
    BY <1>5, FirstAway
  <2>2. \A g : RemoveSetStep(g, w) =
               CASE c \in {"LEFT", "LEFT_EXTENSIBLE"} -> <<h>> \o g[<<below, set>>]
                 [] c = "LEFT_INTERSECT" -> <<cut>> \o g[<<below, set>>]
                 [] c = "INNER" -> g[<<k, others>>]
                 [] c \in {"RIGHT", "RIGHT_EXTENSIBLE"} -> g[<<l, others>>]
                 [] c = "RIGHT_INTERSECT" -> g[<<j, others>>]
                 [] c = "OUTER" -> g[<<below, set>>]
    BY <1>5 DEF RemoveSetStep, w
  <2>3. c \in {"LEFT_INTERSECT", "RIGHT_INTERSECT"} => cut \in Interval
    BY <2>1, ComplementIsDifference
  <2>4. c \in {"LEFT", "LEFT_EXTENSIBLE", "LEFT_INTERSECT", "INNER", "OUTER",
               "RIGHT_INTERSECT", "RIGHT_EXTENSIBLE", "RIGHT"}
    BY <2>1, RangeCompKinds
  <2>5. c = "INNER" => k \in List /\ Len(k) <= Len(below) + 2
    BY <2>1, FragmentsInFront
  <2>6. c = "RIGHT_INTERSECT" => j \in List /\ Len(j) = Len(below) + 1
    BY <2>1, <2>3, InFront
  <2> HIDE DEF h, e, below, others, c, cut, k, j
  <2>7. Len(below) \in Nat /\ Len(others) \in Nat /\ Len(below) < Len(l)
    BY <1>0, <2>1
  <2>8. CASE c \in {"LEFT", "LEFT_EXTENSIBLE"}
    <3>1. Puts(<<h>>, below, set)
      BY <2>2, <2>8
    <3> HIDE DEF Puts
    <3>2. <<h>> \in List
      BY <2>1 DEF List
    <3> QED
      BY <1>3, <2>1, <2>7, <3>1, <3>2
  <2>9. CASE c = "LEFT_INTERSECT"
    <3>1. Puts(<<cut>>, below, set)
      BY <2>2, <2>9
    <3> HIDE DEF Puts
    <3>2. <<cut>> \in List
      BY <2>3, <2>9 DEF List
    <3> QED
      BY <1>3, <2>1, <2>7, <3>1, <3>2
  <2>10. CASE c = "INNER"
    <3>1. Goes(k, others)
      BY <2>2, <2>10
    <3> HIDE DEF Goes
    <3>2. k \in List /\ Len(k) \in Nat /\ Len(k) <= Len(below) + 2
      BY <2>5, <2>10 DEF List
    <3> QED
      BY <1>0, <1>2, <2>1, <2>7, <3>1, <3>2
  <2>11. CASE c \in {"RIGHT", "RIGHT_EXTENSIBLE"}
    <3>1. Goes(l, others)
      BY <2>2, <2>11
    <3> HIDE DEF Goes
    <3> QED
      BY <1>0, <1>2, <2>1, <2>7, <3>1
  <2>12. CASE c = "RIGHT_INTERSECT"
    <3>1. Goes(j, others)
      BY <2>2, <2>12
    <3> HIDE DEF Goes
    <3> QED
      BY <1>0, <1>2, <2>1, <2>6, <2>7, <2>12, <3>1
  <2>13. CASE c = "OUTER"
    <3>1. Goes(below, set)
      BY <2>2, <2>13
    <3> HIDE DEF Goes
    <3> QED
      BY <1>0, <1>2, <2>1, <2>7, <3>1
  <2> QED
    BY <2>4, <2>8, <2>9, <2>10, <2>11, <2>12, <2>13
<1> QED
  BY <1>4, <1>5

\* RemoveIntervalSet is the function that its definition says.
LEMMA RemoveSetUnfolds ==
  /\ RemoveIntervalSet \in [Walk -> List]
  /\ \A x \in Walk : RemoveIntervalSet[x] = RemoveSetStep(RemoveIntervalSet, x)
<1> DEFINE plan == [x \in Walk |-> CHOOSE p \in Plan(Walk) : RemoveSetFits(x, p)]
<1>1. \A x \in Walk : plan[x] \in Plan(Walk) /\ RemoveSetFits(x, plan[x])
  <2> TAKE x \in Walk
  <2>1. \E p \in Plan(Walk) : RemoveSetFits(x, p)
    <3>1. PICK l \in List, set \in List : x = <<l, set>>
      BY DEF Walk
    <3> QED
      BY <3>1, RemoveSetPlan
  <2> QED
    BY <2>1
<1>2. plan \in [Walk -> Plan(Walk)]
  BY <1>1
<1> HIDE DEF plan
<1>3. Descending(Walk, RemoveSetLeft, plan)
  BY <1>1, <1>2, RemoveSetLeftIs DEF RemoveSetFits, Descending
<1>4. \A g : Walks(Walk, plan, g) <=> g = [x \in Walk |-> RemoveSetStep(g, x)]
  <2> TAKE g
  <2>1. \A x \in Walk : RemoveSetStep(g, x) = Value(plan[x], g)
    BY <1>1 DEF RemoveSetFits
  <2> QED
    BY <2>1 DEF Walks
<1>5. /\ \E f : Walks(Walk, plan, f)
      /\ \A f : Walks(Walk, plan, f) => f \in [Walk -> List]
  BY <1>3, WalkExists
<1>6. \E f : f = [x \in Walk |-> RemoveSetStep(f, x)]
  BY <1>4, <1>5
<1>7. RemoveIntervalSet = [x \in Walk |-> RemoveSetStep(RemoveIntervalSet, x)]
  BY <1>6, RemoveSetChosen
<1>8. RemoveIntervalSet \in [Walk -> List]
  BY <1>4, <1>5, <1>7
<1> QED
  BY <1>7, <1>8

-----------------------------------------------------------------------------
(* What Maintain and AddIntervalSet do.                                    *)

\* What Maintain is given: the head reaches above the rest, and the rest is in order.
Grown(l) ==
  /\ l # <<>> /\ Normal(Tail(l))
  /\ \A n \in Numbers(Tail(l)) : n < Head(l).end

\* r is in order and stands for what l and k stand for together.
IsUnion(r, l, k) == r \in List /\ Normal(r) /\ Numbers(r) = Numbers(l) \cup Numbers(k)

\* A list is in order when its rest is and lies below its first interval.
LEMMA LastInFront ==
  ASSUME NEW l \in List, l # <<>>, Normal(Tail(l)), Below(Numbers(Tail(l)), Head(l).start)
  PROVE  Normal(l)
<1>1. Head(l) \in Interval /\ Tail(l) \in List /\ l = <<Head(l)>> \o Tail(l)
  BY FirstAway
<1> QED
  BY <1>1, OneInFront

\* Maintain puts a list whose head has grown in order again, and keeps its numbers
\* (interval.hh:241).
THEOREM MaintainKeeps ==
  ASSUME NEW l \in List, Grown(l)
  PROVE  Maintain[l] \in List /\ Normal(Maintain[l]) /\ Numbers(Maintain[l]) = Numbers(l)
<1> DEFINE m == [k \in List |-> Len(k)]
           Kept(k) == Grown(k) => Normal(Maintain[k]) /\ Numbers(Maintain[k]) = Numbers(k)
           Good == {k \in List : Kept(k)}
<1>1. m \in [List -> Nat] /\ \A k \in List : m[k] = Len(k)
  BY DEF List
<1>2. ASSUME NEW k \in List, \A j \in List : m[j] < m[k] => j \in Good
      PROVE  k \in Good
  <2>1. SUFFICES ASSUME Grown(k)
                 PROVE  Normal(Maintain[k]) /\ Numbers(Maintain[k]) = Numbers(k)
    OBVIOUS
  <2> DEFINE h == Head(k)
             t == Tail(k)
  <2>2. /\ h \in Interval /\ t \in List /\ h = k[1] /\ Len(t) = Len(k) - 1
        /\ Len(k) \in Nat
    BY <2>1, FirstAway DEF Grown
  <2>3. Normal(t) /\ \A n \in Numbers(t) : n < h.end
    BY <2>1 DEF Grown
  <2>4. Numbers(k) = Members(h) \cup Numbers(t)
    BY <2>1, OneAway DEF Grown
  <2>5. Below(Numbers(t), h.start) => Normal(k)
    BY <2>1, <2>3, LastInFront DEF Grown
  <2> HIDE DEF m, Good
  <2>6. CASE Len(k) < 2
    <3> HIDE DEF t
    <3>1. t = <<>>
      BY <2>2, <2>6 DEF List
    <3>2. Maintain[k] = k
      BY <2>6, MaintainArms
    <3> QED
      BY <2>5, <3>1, <3>2, NumbersOfNothing DEF Below
  <2>7. CASE ~(Len(k) < 2)
    <3> DEFINE b == k[2]
               r == Tail(Tail(k))
    <3>1. b \in Interval /\ r \in List /\ t # <<>> /\ b = Head(t) /\ r = Tail(t)
      BY <2>7, TwoFirst
    <3>2. Numbers(t) = Members(b) \cup Numbers(r) /\ Below(Numbers(r), b.start)
          /\ Normal(r)
      BY <2>2, <2>3, <3>1, OneAway
    <3>3. b.end < h.end
      BY <2>3, <3>1, <3>2, MembersAre
    <3>4. ASSUME NEW x \in Interval, Members(x) = Members(h) \cup Members(b),
                 Maintain[k] = Maintain[<<x>> \o r]
          PROVE  Normal(Maintain[k]) /\ Numbers(Maintain[k]) = Numbers(k)
      <4> DEFINE y == <<x>> \o r
      <4>1. y \in List /\ Len(y) = Len(k) - 1
        BY <2>7, TwoFirst
      <4>2. Head(y) = x /\ Tail(y) = r /\ y # <<>>
        <5>1. Head(y) = x /\ Tail(y) = r /\ Len(y) = Len(r) + 1
          BY <3>1, InFront
        <5>2. Len(r) \in Nat
          BY <3>1 DEF List
        <5> HIDE DEF y
        <5> QED
          BY <5>1, <5>2, EmptyList
      <4>3. Numbers(y) = Members(x) \cup Numbers(r)
        BY <3>1, OneInFront
      <4>4. Maintain[k] = Maintain[y]
        BY <3>4
      <4> HIDE DEF y, h, t, b, r
      <4>5. h.end <= x.end
        BY <2>2, <3>4, MembersAre
      <4>6. \A n \in Numbers(r) : n < x.end
        <5> TAKE n \in Numbers(r)
        <5>1. n \in Nat /\ n < h.end
          BY <2>3, <3>1, <3>2, NumbersAre
        <5> QED
          BY <2>2, <4>5, <5>1, MembersAre
      <4>7. Grown(y)
        BY <3>2, <4>2, <4>6 DEF Grown
      <4>8. m[y] < m[k]
        BY <1>1, <2>2, <4>1
      <4>9. y \in Good
        BY <1>2, <4>1, <4>8
      <4>10. Normal(Maintain[y]) /\ Numbers(Maintain[y]) = Numbers(y)
        BY <4>7, <4>9 DEF Good
      <4> QED
        BY <2>4, <3>2, <3>4, <4>3, <4>4, <4>10
    <3>5. CASE RangeComp(b, h) \in {"RIGHT_EXTENSIBLE", "RIGHT_INTERSECT"}
      BY <2>2, <2>7, <3>4, <3>5, MaintainArms
    <3>6. CASE RangeComp(b, h) = "OUTER"
      <4>1. Members(h) = Members(h) \cup Members(b)
        BY <2>2, <3>1, <3>6, RangeCompMeaning, MembersAre
      <4> QED
        BY <2>2, <2>7, <3>4, <3>6, <4>1, MaintainArms
    <3>7. CASE RangeComp(b, h) \notin {"RIGHT_EXTENSIBLE", "RIGHT_INTERSECT", "OUTER"}
      <4>1. Maintain[k] = k
        BY <2>2, <2>7, <3>7, MaintainArms
      <4> HIDE DEF h, t, b, r
      <4>2. b.end + 1 < h.start
        <5>1. /\ h.start \in Nat /\ h.end \in Nat /\ h.start <= h.end
              /\ b.start \in Nat /\ b.end \in Nat /\ b.start <= b.end
          BY <2>2, <3>1, MembersAre
        <5> QED
          BY <2>2, <3>1, <3>3, <3>7, <5>1, RangeCompMeaning
      <4>3. Below(Numbers(t), h.start)
        <5>1. ASSUME NEW n \in Numbers(t) PROVE n + 1 < h.start
          <6>1. /\ h.start \in Nat /\ n \in Nat
                /\ b.start \in Nat /\ b.end \in Nat /\ b.start <= b.end
            BY <2>2, <3>1, MembersAre, NumbersAre
          <6>2. n \in Members(b) => n <= b.end
            BY <3>1, MembersAre
          <6>3. n \in Numbers(r) => n + 1 < b.start
            BY <3>2 DEF Below
          <6> QED
            BY <3>2, <4>2, <6>1, <6>2, <6>3
        <5> QED
          BY <5>1 DEF Below
      <4> QED
        BY <2>5, <4>1, <4>3
    <3> QED
      BY <3>5, <3>6, <3>7
  <2> QED
    BY <2>6, <2>7
<1>3. Good = List
  <2>1. Good \in SUBSET List
    OBVIOUS
  <2> HIDE DEF m, Good
  <2>2. Inductive(List, m, Good)
    BY <1>1, <1>2, <2>1 DEF Inductive
  <2> QED
    BY <2>2, MeasureInduction
<1> QED
  BY <1>3, MaintainShortens

-----------------------------------------------------------------------------
\* No number of a list in order lies above its first interval.
LEMMA HeadNumbers ==
  ASSUME NEW l \in List, l # <<>>, Normal(l)
  PROVE  \A n \in Numbers(l) : n \in Nat /\ n <= Head(l).end
<1>1. Head(l) \in Interval /\ Tail(l) \in List
  BY FirstAway
<1>2. Numbers(l) = Members(Head(l)) \cup Numbers(Tail(l)) /\ Below(Numbers(Tail(l)), Head(l).start)
  BY OneAway
<1> DEFINE h == Head(l)
           t == Tail(l)
<1> HIDE DEF h, t
<1>3. h.start \in Nat /\ h.end \in Nat /\ h.start <= h.end
  BY <1>1, MembersAre DEF h
<1>4. TAKE n \in Numbers(l)
<1>5. n \in Members(h) \/ n \in Numbers(t)
  BY <1>2 DEF h, t
<1>6. CASE n \in Members(h)
  BY <1>1, <1>6, MembersAre DEF h
<1>7. CASE n \in Numbers(t)
  <2>1. n \in Nat /\ n + 1 < h.start
    BY <1>1, <1>2, <1>7, NumbersAre DEF Below, h, t
  <2> QED
    BY <1>3, <2>1 DEF h
<1> QED
  BY <1>5, <1>6, <1>7

\* AddIntervalSet is the union of sets in order.
THEOREM AddIsUnion ==
  ASSUME NEW l \in List, NEW set \in List, Normal(l), Normal(set)
  PROVE  IsUnion(AddIntervalSet[<<l, set>>], l, set)
<1> DEFINE Good == {w \in Walk : Normal(w[1]) /\ Normal(w[2]) =>
                                   IsUnion(AddIntervalSet[w], w[1], w[2])}
<1>1. ASSUME NEW k \in List, NEW s \in List, Normal(k), Normal(s),
             \A y \in Walk : AddLeft[y] < AddLeft[<<k, s>>] => y \in Good
      PROVE  IsUnion(AddIntervalSet[<<k, s>>], k, s)
  <2> DEFINE R == AddIntervalSet[<<k, s>>]
  <2>1. R \in List /\ R = AddStep(AddIntervalSet, <<k, s>>)
    BY AddUnfolds, AddLeftIs
  <2>2. Len(k) \in Nat /\ Len(s) \in Nat
    BY DEF List
  <2>3. \A a, b \in List : Len(a) + Len(b) < Len(k) + Len(s) /\ Normal(a) /\ Normal(b) =>
           IsUnion(AddIntervalSet[<<a, b>>], a, b)
    <3> TAKE a, b \in List
    <3>1. HAVE Len(a) + Len(b) < Len(k) + Len(s) /\ Normal(a) /\ Normal(b)
    <3> DEFINE y == <<a, b>>
    <3>2. y \in Walk /\ y[1] = a /\ y[2] = b
      BY AddLeftIs
    <3>3. AddLeft[y] < AddLeft[<<k, s>>]
      BY <3>1, AddLeftIs
    <3> HIDE DEF y
    <3>4. y \in Good
      BY <1>1, <3>2, <3>3
    <3>5. IsUnion(AddIntervalSet[y], a, b)
      BY <3>1, <3>2, <3>4
    <3> QED
      BY <3>5 DEF y
  <2>4. CASE s = <<>>
    <3>1. R = k
      BY <2>1, <2>4 DEF AddStep
    <3> QED
      BY <1>1, <2>4, <3>1, NumbersOfNothing DEF IsUnion
  <2>5. CASE s # <<>> /\ k = <<>>
    <3>1. R = s
      BY <2>1, <2>5 DEF AddStep
    <3> QED
      BY <1>1, <2>5, <3>1, NumbersOfNothing DEF IsUnion
  <2>6. CASE s # <<>> /\ k # <<>>
    <3> DEFINE h == Head(k)
               e == Head(s)
               below == Tail(k)
               others == Tail(s)
               c == RangeComp(h, e)
               g == Merge(h, e)
               merged == <<g>> \o below
    <3>1. /\ h \in Interval /\ below \in List /\ Len(below) = Len(k) - 1
          /\ e \in Interval /\ others \in List /\ Len(others) = Len(s) - 1
      BY <2>6, FirstAway
    <3>2. /\ Numbers(k) = Members(h) \cup Numbers(below)
          /\ Normal(below) /\ Below(Numbers(below), h.start)
          /\ Numbers(s) = Members(e) \cup Numbers(others)
          /\ Normal(others) /\ Below(Numbers(others), e.start)
      BY <1>1, <2>6, OneAway
    <3>3. /\ \A n \in Numbers(k) : n \in Nat /\ n <= h.end
          /\ \A n \in Numbers(s) : n \in Nat /\ n <= e.end
      BY <1>1, <2>6, HeadNumbers
    <3>4. c \in {"LEFT", "LEFT_EXTENSIBLE", "LEFT_INTERSECT", "INNER", "OUTER",
                 "RIGHT_INTERSECT", "RIGHT_EXTENSIBLE", "RIGHT"}
      BY <3>1, RangeCompKinds
    <3>5. /\ h.start \in Nat /\ h.end \in Nat /\ h.start <= h.end
          /\ e.start \in Nat /\ e.end \in Nat /\ e.start <= e.end
      BY <3>1, MembersAre
    <3>6. R =  CASE c = "RIGHT" -> <<e>> \o AddIntervalSet[<<k, others>>]
                 [] c \in {"RIGHT_INTERSECT", "RIGHT_EXTENSIBLE"} -> AddIntervalSet[<<merged, others>>]
                 [] c \in {"OUTER", "LEFT_EXTENSIBLE", "LEFT_INTERSECT"} ->
                       AddIntervalSet[<<Maintain[merged], others>>]
                 [] c = "INNER" -> AddIntervalSet[<<k, others>>]
                 [] c = "LEFT" -> <<h>> \o AddIntervalSet[<<below, s>>]
      BY <2>1, <2>6 DEF AddStep
    <3>7. c \notin {"LEFT", "RIGHT"} => g \in Interval /\ Members(g) = Members(h) \cup Members(e)
      BY <3>1, MergeIsUnion
    <3>8. g \in Interval =>
             /\ merged \in List /\ Len(merged) = Len(below) + 1
             /\ Head(merged) = g /\ Tail(merged) = below
             /\ Numbers(merged) = Members(g) \cup Numbers(below)
             /\ Below(Numbers(below), g.start) => Normal(merged)
      BY <3>1, <3>2, InFront, OneInFront
    <3> HIDE DEF h, e, below, others, c, g, merged
    <3>9. Len(below) \in Nat /\ Len(others) \in Nat
      BY <2>2, <3>1
    <3>10. Numbers(merged) \cup Numbers(others) = Numbers(k) \cup Numbers(s)
           \/ c \in {"LEFT", "RIGHT"}
      BY <3>2, <3>7, <3>8
    <3> HIDE DEF R
    <3>11. CASE c = "RIGHT"
      <4> DEFINE q == AddIntervalSet[<<k, others>>]
      <4>1. IsUnion(q, k, others)
        BY <1>1, <2>2, <2>3, <3>1, <3>2, <3>9
      <4>2. R = <<e>> \o q
        BY <3>6, <3>11
      <4> HIDE DEF q
      <4>3. h.end + 1 < e.start
        BY <3>1, <3>11, <3>5, RangeCompMeaning DEF c
      <4>4. Below(Numbers(q), e.start)
        <5>1. ASSUME NEW n \in Numbers(q) PROVE n + 1 < e.start
          <6>1. CASE n \in Numbers(k)
            <7>1. n \in Nat /\ n <= h.end
              BY <3>3, <6>1
            <7> QED
              BY <3>5, <4>3, <7>1
          <6>2. CASE n \in Numbers(others)
            BY <3>2, <6>2 DEF Below
          <6> QED
            BY <4>1, <6>1, <6>2 DEF IsUnion
        <5> QED
          BY <5>1 DEF Below
      <4>5. Normal(R) /\ Numbers(R) = Members(e) \cup Numbers(q)
        BY <3>1, <4>1, <4>2, <4>4, OneInFront DEF IsUnion
      <4> QED
        BY <2>1, <3>2, <4>1, <4>5 DEF IsUnion, R
    <3>12. CASE c \in {"RIGHT_INTERSECT", "RIGHT_EXTENSIBLE"}
      <4>1. g \in Interval /\ Members(g) = Members(h) \cup Members(e) /\ merged \in List
        BY <3>7, <3>8, <3>12
      <4>2. g.start = h.start
        BY <3>12, <3>5 DEF g, c, Merge, From
      <4>3. Normal(merged)
        BY <3>2, <3>8, <4>1, <4>2
      <4>4. IsUnion(AddIntervalSet[<<merged, others>>], merged, others)
        BY <2>2, <2>3, <3>1, <3>2, <3>8, <3>9, <4>1, <4>3
      <4>5. R = AddIntervalSet[<<merged, others>>]
        BY <3>6, <3>12
      <4> QED
        BY <3>10, <3>12, <4>4, <4>5 DEF IsUnion, R
    <3>13. CASE c \in {"OUTER", "LEFT_EXTENSIBLE", "LEFT_INTERSECT"}
      <4>1. g \in Interval /\ Members(g) = Members(h) \cup Members(e) /\ merged \in List
        BY <3>7, <3>8, <3>13
      <4>2. h.end <= g.end /\ g.end \in Nat
        BY <3>1, <4>1, MembersAre
      <4>3. Grown(merged)
        <5>1. \A n \in Numbers(below) : n < g.end
          <6> TAKE n \in Numbers(below)
          <6>1. n \in Nat /\ n + 1 < h.start
            BY <3>1, <3>2, NumbersAre DEF Below
          <6> QED
            BY <3>5, <4>2, <6>1
        <5>2. merged # <<>>
          BY <3>8, <3>9, <4>1, EmptyList
        <5> QED
          BY <3>2, <3>8, <4>1, <5>1, <5>2 DEF Grown
      <4> DEFINE n == Maintain[merged]
      <4>4. n \in List /\ Normal(n) /\ Numbers(n) = Numbers(merged) /\ Len(n) <= Len(merged)
        BY <4>1, <4>3, MaintainKeeps, MaintainShortens
      <4>5. R = AddIntervalSet[<<n, others>>]
        BY <3>6, <3>13
      <4> HIDE DEF n
      <4>6. Len(n) \in Nat
        BY <4>4 DEF List
      <4>7. IsUnion(AddIntervalSet[<<n, others>>], n, others)
        BY <2>2, <2>3, <3>1, <3>2, <3>8, <3>9, <4>1, <4>4, <4>6
      <4> QED
        BY <3>10, <3>13, <4>4, <4>5, <4>7 DEF IsUnion, R
    <3>14. CASE c = "INNER"
      <4>1. IsUnion(AddIntervalSet[<<k, others>>], k, others)
        BY <1>1, <2>2, <2>3, <3>1, <3>2, <3>9
      <4>2. Members(e) \subseteq Members(h)
        BY <3>1, <3>5, <3>14, RangeCompMeaning, MembersAre DEF c
      <4>3. R = AddIntervalSet[<<k, others>>]
        BY <3>6, <3>14
      <4> QED
        BY <3>2, <4>1, <4>2, <4>3 DEF IsUnion, R
    <3>15. CASE c = "LEFT"
      <4> DEFINE q == AddIntervalSet[<<below, s>>]
      <4>1. IsUnion(q, below, s)
        BY <1>1, <2>2, <2>3, <3>1, <3>2, <3>9
      <4>2. R = <<h>> \o q
        BY <3>6, <3>15
      <4> HIDE DEF q
      <4>3. e.end + 1 < h.start
        BY <3>1, <3>15, <3>5, RangeCompMeaning DEF c
      <4>4. Below(Numbers(q), h.start)
        <5>1. ASSUME NEW n \in Numbers(q) PROVE n + 1 < h.start
          <6>1. CASE n \in Numbers(s)
            <7>1. n \in Nat /\ n <= e.end
              BY <3>3, <6>1
            <7> QED
              BY <3>5, <4>3, <7>1
          <6>2. CASE n \in Numbers(below)
            BY <3>2, <6>2 DEF Below
          <6> QED
            BY <4>1, <6>1, <6>2 DEF IsUnion
        <5> QED
          BY <5>1 DEF Below
      <4>5. Normal(R) /\ Numbers(R) = Members(h) \cup Numbers(q)
        BY <3>1, <4>1, <4>2, <4>4, OneInFront DEF IsUnion
      <4> QED
        BY <2>1, <3>2, <4>1, <4>5 DEF IsUnion, R
    <3> QED
      BY <3>4, <3>11, <3>12, <3>13, <3>14, <3>15
  <2> QED
    BY <2>4, <2>5, <2>6
<1>2. ASSUME NEW x \in Walk, \A y \in Walk : AddLeft[y] < AddLeft[x] => y \in Good
      PROVE  x \in Good
  <2>1. PICK k \in List, s \in List : x = <<k, s>>
    BY DEF Walk
  <2>2. x[1] = k /\ x[2] = s
    BY <2>1
  <2>3. Normal(k) /\ Normal(s) => IsUnion(AddIntervalSet[x], k, s)
    <3> HIDE DEF Good
    <3> QED
      BY <1>1, <1>2, <2>1
  <2> QED
    BY <2>2, <2>3
<1>3. Good = Walk
  <2>1. Good \in SUBSET Walk
    OBVIOUS
  <2> HIDE DEF Good
  <2>2. Inductive(Walk, AddLeft, Good)
    BY <1>2, <2>1, AddLeftIs DEF Inductive
  <2> QED
    BY <2>2, MeasureInduction
<1>4. <<l, set>> \in Good /\ <<l, set>>[1] = l /\ <<l, set>>[2] = set
  BY <1>3, AddLeftIs
<1> QED
  BY <1>4

-----------------------------------------------------------------------------
\* r is in order and stands for what is left of l without S.
IsRest(r, l, S) == r \in List /\ Normal(r) /\ Numbers(r) = Numbers(l) \ S

\* Something of the head kept in front of the rest of a list in order.
LEMMA KeptInFront ==
  ASSUME NEW x \in Interval, NEW h \in Interval, NEW q \in List, NEW S,
         Normal(q), Members(x) \in SUBSET Members(h), Numbers(q) \in SUBSET S, Below(S, h.start)
  PROVE  /\ <<x>> \o q \in List /\ Normal(<<x>> \o q)
         /\ Numbers(<<x>> \o q) = Members(x) \cup Numbers(q)
<1>1. /\ x.start \in Nat /\ h.start \in Nat /\ h.start <= x.start
  BY MembersAre
<1>2. Below(Numbers(q), x.start)
  BY <1>1, NumbersAre DEF Below
<1> QED
  BY <1>2, OneInFront, InFront

\* RemoveInterval is the difference.
THEOREM RemoveIsDifference ==
  ASSUME NEW l \in List, NEW v \in Interval, Normal(l)
  PROVE  IsRest(RemoveInterval[<<l, v>>], l, Members(v))
<1> DEFINE Good == {w \in Removal : Normal(w[1]) =>
                                      IsRest(RemoveInterval[w], w[1], Members(w[2]))}
<1>1. ASSUME NEW k \in List, NEW u \in Interval, Normal(k),
             \A y \in Removal : RemoveLeft[y] < RemoveLeft[<<k, u>>] => y \in Good
      PROVE  IsRest(RemoveInterval[<<k, u>>], k, Members(u))
  <2> DEFINE R == RemoveInterval[<<k, u>>]
  <2>1. R \in List /\ R = RemoveStep(RemoveInterval, <<k, u>>)
    BY RemoveUnfolds, RemoveLeftIs
  <2>2. \A a \in List : Len(a) < Len(k) /\ Normal(a) =>
           IsRest(RemoveInterval[<<a, u>>], a, Members(u))
    <3> TAKE a \in List
    <3>1. HAVE Len(a) < Len(k) /\ Normal(a)
    <3> DEFINE y == <<a, u>>
    <3>2. y \in Removal /\ y[1] = a /\ y[2] = u
      BY RemoveLeftIs
    <3>3. RemoveLeft[y] < RemoveLeft[<<k, u>>]
      BY <3>1, RemoveLeftIs
    <3> HIDE DEF y
    <3>4. y \in Good
      BY <1>1, <3>2, <3>3
    <3>5. IsRest(RemoveInterval[y], a, Members(u))
      BY <3>1, <3>2, <3>4
    <3> QED
      BY <3>5 DEF y
  <2>3. CASE k = <<>>
    <3>1. R = k
      BY <2>1, <2>3 DEF RemoveStep
    <3> QED
      BY <1>1, <2>3, <3>1, NumbersOfNothing DEF IsRest
  <2>4. CASE k # <<>>
    <3> DEFINE h == Head(k)
               below == Tail(k)
               c == RangeComp(u, h)
               cut == Complement(h, u)
               q == RemoveInterval[<<below, u>>]
    <3>1. h \in Interval /\ below \in List /\ Len(below) = Len(k) - 1 /\ Len(k) \in Nat
      BY <2>4, FirstAway
    <3>2. /\ Numbers(k) = Members(h) \cup Numbers(below)
          /\ Normal(below) /\ Below(Numbers(below), h.start)
      BY <1>1, <2>4, OneAway
    <3>3. c \in {"LEFT", "LEFT_EXTENSIBLE", "LEFT_INTERSECT", "INNER", "OUTER",
                 "RIGHT_INTERSECT", "RIGHT_EXTENSIBLE", "RIGHT"}
      BY <3>1, RangeCompKinds
    <3>4. /\ h.start \in Nat /\ h.end \in Nat /\ h.start <= h.end
          /\ u.start \in Nat /\ u.end \in Nat /\ u.start <= u.end
      BY <3>1, MembersAre
    <3>5. /\ \A n : n \in Members(h) <=> n \in Nat /\ h.start <= n /\ n <= h.end
          /\ \A n : n \in Members(u) <=> n \in Nat /\ u.start <= n /\ n <= u.end
          /\ \A n \in Numbers(below) : n \in Nat /\ n + 1 < h.start
      BY <3>1, <3>2, MembersAre, NumbersAre DEF Below
    <3>6. R =  CASE c \in {"RIGHT", "RIGHT_EXTENSIBLE"} -> <<h>> \o q
                 [] c = "RIGHT_INTERSECT" -> <<cut>> \o q
                 [] c = "INNER" -> q
                 [] c = "LEFT_INTERSECT" -> <<cut>> \o below
                 [] c \in {"LEFT", "LEFT_EXTENSIBLE"} -> k
                 [] c = "OUTER" -> Fragments(h, u) \o below
      BY <2>1, <2>4 DEF RemoveStep
    <3>7. c \in {"LEFT_INTERSECT", "RIGHT_INTERSECT"} =>
             cut \in Interval /\ Members(cut) = Members(h) \ Members(u)
      BY <3>1, Converse, ComplementIsDifference
    <3>8. Len(below) < Len(k)
      <4> HIDE DEF below
      <4> QED
        BY <3>1
    <3>9. IsRest(q, below, Members(u))
      BY <2>2, <3>1, <3>2, <3>8
    <3> HIDE DEF h, below, cut, q, R
    <3>10. q \in List /\ Normal(q) /\ Numbers(q) = Numbers(below) \ Members(u)
      BY <3>9 DEF IsRest
    <3>11. CASE c \in {"RIGHT", "RIGHT_EXTENSIBLE"}
      <4>1. u.end < h.start
        BY <3>1, <3>4, <3>11, RangeCompMeaning DEF c
      <4>2. Members(h) \ Members(u) = Members(h)
        <5> HIDE DEF c
        <5> QED
          BY <3>4, <3>5, <4>1
      <4>3. R \in List /\ Normal(R) /\ Numbers(R) = Members(h) \cup Numbers(q)
        <5>1. R = <<h>> \o q
          BY <3>6, <3>11
        <5>2. Numbers(q) \in SUBSET Numbers(below)
          BY <3>10
        <5> QED
          BY <3>1, <3>2, <3>10, <5>1, <5>2, KeptInFront
      <4> QED
        BY <3>2, <3>10, <4>2, <4>3 DEF IsRest, R
    <3>12. CASE c = "RIGHT_INTERSECT"
      <4>1. cut \in Interval /\ Members(cut) = Members(h) \ Members(u)
        BY <3>7, <3>12
      <4>2. R \in List /\ Normal(R) /\ Numbers(R) = Members(cut) \cup Numbers(q)
        <5>1. R = <<cut>> \o q
          BY <3>6, <3>12
        <5>2. Numbers(q) \in SUBSET Numbers(below) /\ Members(cut) \in SUBSET Members(h)
          BY <3>10, <4>1
        <5> QED
          BY <3>1, <3>2, <3>10, <4>1, <5>1, <5>2, KeptInFront
      <4> QED
        BY <3>2, <3>10, <4>1, <4>2 DEF IsRest, R
    <3>13. CASE c = "INNER"
      <4>1. Members(h) \ Members(u) = {}
        BY <3>1, <3>4, <3>5, <3>13, RangeCompMeaning DEF c
      <4>2. R = q
        BY <3>6, <3>13
      <4> QED
        BY <3>2, <3>10, <4>1, <4>2 DEF IsRest, R
    <3>14. CASE c = "LEFT_INTERSECT"
      <4>1. cut \in Interval /\ Members(cut) = Members(h) \ Members(u)
        BY <3>7, <3>14
      <4>2. h.start < u.start
        BY <3>1, <3>4, <3>14, RangeCompMeaning DEF c
      <4>3. Numbers(below) \ Members(u) = Numbers(below)
        <5> HIDE DEF c
        <5> QED
          BY <3>4, <3>5, <4>2
      <4>4. R \in List /\ Normal(R) /\ Numbers(R) = Members(cut) \cup Numbers(below)
        <5>1. R = <<cut>> \o below
          BY <3>6, <3>14
        <5>2. Numbers(below) \in SUBSET Numbers(below) /\ Members(cut) \in SUBSET Members(h)
          BY <4>1
        <5> QED
          BY <3>1, <3>2, <4>1, <5>1, <5>2, KeptInFront
      <4> QED
        BY <3>2, <4>1, <4>3, <4>4 DEF IsRest, R
    <3>15. CASE c \in {"LEFT", "LEFT_EXTENSIBLE"}
      <4>1. h.end < u.start
        BY <3>1, <3>4, <3>15, RangeCompMeaning DEF c
      <4>2. R = k
        BY <3>6, <3>15
      <4>3. Numbers(k) \ Members(u) = Numbers(k)
        <5> HIDE DEF c
        <5>1. \A n \in Numbers(below) : n \notin Members(u)
          BY <3>4, <3>5, <4>1
        <5>2. \A n \in Members(h) : n \notin Members(u)
          BY <3>4, <3>5, <4>1
        <5> QED
          BY <3>2, <5>1, <5>2
      <4> QED
        BY <1>1, <4>2, <4>3 DEF IsRest, R
    <3>16. CASE c = "OUTER"
      <4>1. RangeComp(h, u) = "INNER"
        BY <3>1, <3>16, Converse DEF c
      <4>2. h.start <= u.start
        BY <3>1, <3>4, <4>1, RangeCompMeaning
      <4>3. Numbers(below) \ Members(u) = Numbers(below)
        <5> HIDE DEF c
        <5> QED
          BY <3>4, <3>5, <4>2
      <4>4. R = Fragments(h, u) \o below
        BY <3>6, <3>16
      <4>5. R \in List /\ Normal(R) /\ Numbers(R) = (Members(h) \ Members(u)) \cup Numbers(below)
        BY <3>1, <3>2, <4>1, <4>4, FragmentsInFront
      <4> QED
        BY <3>2, <4>3, <4>5 DEF IsRest, R
    <3> QED
      BY <3>3, <3>11, <3>12, <3>13, <3>14, <3>15, <3>16
  <2> QED
    BY <2>3, <2>4
<1>2. ASSUME NEW x \in Removal, \A y \in Removal : RemoveLeft[y] < RemoveLeft[x] => y \in Good
      PROVE  x \in Good
  <2>1. PICK k \in List, u \in Interval : x = <<k, u>>
    BY DEF Removal
  <2>2. x[1] = k /\ x[2] = u
    BY <2>1
  <2>3. Normal(k) => IsRest(RemoveInterval[x], k, Members(u))
    <3> HIDE DEF Good
    <3> QED
      BY <1>1, <1>2, <2>1
  <2> QED
    BY <2>2, <2>3
<1>3. Good = Removal
  <2>1. Good \in SUBSET Removal
    OBVIOUS
  <2> HIDE DEF Good
  <2>2. Inductive(Removal, RemoveLeft, Good)
    BY <1>2, <2>1, RemoveLeftIs DEF Inductive
  <2> QED
    BY <2>2, MeasureInduction
<1>4. <<l, v>> \in Good /\ <<l, v>>[1] = l /\ <<l, v>>[2] = v
  BY <1>3, RemoveLeftIs
<1> QED
  BY <1>4

\* RemoveIntervalSet is the difference of sets in order.
THEOREM RemoveSetIsDifference ==
  ASSUME NEW l \in List, NEW set \in List, Normal(l), Normal(set)
  PROVE  IsRest(RemoveIntervalSet[<<l, set>>], l, Numbers(set))
<1> DEFINE Good == {w \in Walk : Normal(w[1]) /\ Normal(w[2]) =>
                                   IsRest(RemoveIntervalSet[w], w[1], Numbers(w[2]))}
<1>1. ASSUME NEW k \in List, NEW s \in List, Normal(k), Normal(s),
             \A y \in Walk : RemoveSetLeft[y] < RemoveSetLeft[<<k, s>>] => y \in Good
      PROVE  IsRest(RemoveIntervalSet[<<k, s>>], k, Numbers(s))
  <2> DEFINE R == RemoveIntervalSet[<<k, s>>]
  <2>1. R \in List /\ R = RemoveSetStep(RemoveIntervalSet, <<k, s>>)
    BY RemoveSetUnfolds, RemoveSetLeftIs
  <2>2. Len(k) \in Nat /\ Len(s) \in Nat
    BY DEF List
  <2>3. \A a, b \in List : Len(a) + 2 * Len(b) < Len(k) + 2 * Len(s) /\ Normal(a) /\ Normal(b) =>
           IsRest(RemoveIntervalSet[<<a, b>>], a, Numbers(b))
    <3> TAKE a, b \in List
    <3>1. HAVE Len(a) + 2 * Len(b) < Len(k) + 2 * Len(s) /\ Normal(a) /\ Normal(b)
    <3> DEFINE y == <<a, b>>
    <3>2. y \in Walk /\ y[1] = a /\ y[2] = b
      BY RemoveSetLeftIs
    <3>3. RemoveSetLeft[y] < RemoveSetLeft[<<k, s>>]
      BY <3>1, RemoveSetLeftIs
    <3> HIDE DEF y
    <3>4. y \in Good
      BY <1>1, <3>2, <3>3
    <3>5. IsRest(RemoveIntervalSet[y], a, Numbers(b))
      BY <3>1, <3>2, <3>4
    <3> QED
      BY <3>5 DEF y
  <2>4. CASE k = <<>> \/ s = <<>>
    <3>1. R = k
      BY <2>1, <2>4 DEF RemoveSetStep
    <3>2. Numbers(k) \ Numbers(s) = Numbers(k)
      BY <2>4, NumbersOfNothing
    <3> QED
      BY <1>1, <3>1, <3>2 DEF IsRest
  <2>5. CASE ~(k = <<>> \/ s = <<>>)
    <3> DEFINE h == Head(k)
               e == Head(s)
               below == Tail(k)
               others == Tail(s)
               c == RangeComp(h, e)
               cut == Complement(h, e)
               frag == Fragments(h, e) \o below
               j == <<cut>> \o below
               q == RemoveIntervalSet[<<below, s>>]
    <3>1. /\ h \in Interval /\ below \in List /\ Len(below) = Len(k) - 1
          /\ e \in Interval /\ others \in List /\ Len(others) = Len(s) - 1
      BY <2>5, FirstAway
    <3>2. /\ Numbers(k) = Members(h) \cup Numbers(below)
          /\ Normal(below) /\ Below(Numbers(below), h.start)
          /\ Numbers(s) = Members(e) \cup Numbers(others)
          /\ Normal(others) /\ Below(Numbers(others), e.start)
      BY <1>1, <2>5, OneAway
    <3>3. /\ \A n \in Numbers(k) : n \in Nat /\ n <= h.end
          /\ \A n \in Numbers(s) : n \in Nat /\ n <= e.end
      BY <1>1, <2>5, HeadNumbers
    <3>4. c \in {"LEFT", "LEFT_EXTENSIBLE", "LEFT_INTERSECT", "INNER", "OUTER",
                 "RIGHT_INTERSECT", "RIGHT_EXTENSIBLE", "RIGHT"}
      BY <3>1, RangeCompKinds
    <3>5. /\ h.start \in Nat /\ h.end \in Nat /\ h.start <= h.end
          /\ e.start \in Nat /\ e.end \in Nat /\ e.start <= e.end
      BY <3>1, MembersAre
    <3>6. /\ \A n : n \in Members(h) <=> n \in Nat /\ h.start <= n /\ n <= h.end
          /\ \A n : n \in Members(e) <=> n \in Nat /\ e.start <= n /\ n <= e.end
          /\ \A n \in Numbers(below) : n \in Nat /\ n + 1 < h.start
          /\ \A n \in Numbers(others) : n \in Nat /\ n + 1 < e.start
      BY <3>1, <3>2, MembersAre, NumbersAre DEF Below
    <3>7. R =  CASE c \in {"LEFT", "LEFT_EXTENSIBLE"} -> <<h>> \o q
                 [] c = "LEFT_INTERSECT" -> <<cut>> \o q
                 [] c = "INNER" -> RemoveIntervalSet[<<frag, others>>]
                 [] c \in {"RIGHT", "RIGHT_EXTENSIBLE"} -> RemoveIntervalSet[<<k, others>>]
                 [] c = "RIGHT_INTERSECT" -> RemoveIntervalSet[<<j, others>>]
                 [] c = "OUTER" -> q
      BY <2>1, <2>5 DEF RemoveSetStep
    <3>8. c \in {"LEFT_INTERSECT", "RIGHT_INTERSECT"} =>
             cut \in Interval /\ Members(cut) = Members(h) \ Members(e)
      BY <3>1, ComplementIsDifference
    <3>9. c = "INNER" => /\ frag \in List /\ Len(frag) <= Len(below) + 2 /\ Normal(frag)
                         /\ Numbers(frag) = (Members(h) \ Members(e)) \cup Numbers(below)
      BY <3>1, <3>2, FragmentsInFront
    <3>10. c = "RIGHT_INTERSECT" => /\ j \in List /\ Len(j) = Len(below) + 1 /\ Normal(j)
                                    /\ Numbers(j) = Members(cut) \cup Numbers(below)
      <4>1. HAVE c = "RIGHT_INTERSECT"
      <4>2. cut \in Interval /\ Members(cut) \in SUBSET Members(h)
        BY <3>8, <4>1
      <4>3. Len(j) = Len(below) + 1
        BY <3>1, <4>2, InFront
      <4> HIDE DEF h, below, cut
      <4>4. Numbers(below) \in SUBSET Numbers(below)
        OBVIOUS
      <4> QED
        BY <3>1, <3>2, <4>2, <4>3, <4>4, KeptInFront
    <3> HIDE DEF h, e, below, others, cut, frag, j, q, R
    <3>11. Len(below) \in Nat /\ Len(others) \in Nat /\ Len(below) + 2 * Len(s) < Len(k) + 2 * Len(s)
      BY <2>2, <3>1
    <3>12. q \in List /\ Normal(q) /\ Numbers(q) = Numbers(below) \ Numbers(s)
      BY <1>1, <2>3, <3>1, <3>2, <3>11 DEF IsRest, q
    <3>13. Numbers(q) \in SUBSET Numbers(below)
      BY <3>12
    <3>14. CASE c \in {"LEFT", "LEFT_EXTENSIBLE"}
      <4>1. e.end < h.start
        BY <3>1, <3>5, <3>14, RangeCompMeaning DEF c
      <4>2. Members(h) \ Numbers(s) = Members(h)
        <5>1. \A n \in Members(h) : n \notin Numbers(s)
          <6> HIDE DEF c
          <6> QED
            BY <3>3, <3>5, <3>6, <4>1
        <5> QED
          BY <5>1
      <4>3. R \in List /\ Normal(R) /\ Numbers(R) = Members(h) \cup Numbers(q)
        <5>1. R = <<h>> \o q
          BY <3>7, <3>14
        <5> QED
          BY <3>1, <3>2, <3>12, <3>13, <5>1, KeptInFront
      <4> QED
        BY <3>2, <3>12, <4>2, <4>3 DEF IsRest, R
    <3>15. CASE c = "LEFT_INTERSECT"
      <4>1. cut \in Interval /\ Members(cut) = Members(h) \ Members(e)
        BY <3>8, <3>15
      <4>2. e.start < h.start
        BY <3>1, <3>5, <3>15, RangeCompMeaning DEF c
      <4>3. Members(h) \ Numbers(s) = Members(cut)
        <5>1. \A n \in Members(h) : n \notin Numbers(others)
          <6> HIDE DEF c
          <6> QED
            BY <3>5, <3>6, <4>2
        <5> QED
          BY <3>2, <4>1, <5>1
      <4>4. R \in List /\ Normal(R) /\ Numbers(R) = Members(cut) \cup Numbers(q)
        <5>1. R = <<cut>> \o q
          BY <3>7, <3>15
        <5>2. Members(cut) \in SUBSET Members(h)
          BY <4>1
        <5> QED
          BY <3>1, <3>2, <3>12, <3>13, <4>1, <5>1, <5>2, KeptInFront
      <4> QED
        BY <3>2, <3>12, <4>3, <4>4 DEF IsRest, R
    <3>16. CASE c = "INNER"
      <4>1. h.start <= e.start
        BY <3>1, <3>5, <3>16, RangeCompMeaning DEF c
      <4>2. Numbers(below) \ Members(e) = Numbers(below)
        <5>1. \A n \in Numbers(below) : n \notin Members(e)
          <6> HIDE DEF c
          <6> QED
            BY <3>5, <3>6, <4>1
        <5> QED
          BY <5>1
      <4>3. frag \in List /\ Len(frag) \in Nat /\ Len(frag) <= Len(below) + 2 /\ Normal(frag)
            /\ Numbers(frag) = (Members(h) \ Members(e)) \cup Numbers(below)
        BY <3>9, <3>16 DEF List
      <4>4. IsRest(RemoveIntervalSet[<<frag, others>>], frag, Numbers(others))
        <5>1. Len(frag) + 2 * Len(others) < Len(k) + 2 * Len(s)
          BY <2>2, <3>1, <3>11, <4>3
        <5> QED
          BY <2>3, <3>1, <3>2, <4>3, <5>1
      <4>5. R = RemoveIntervalSet[<<frag, others>>]
        BY <3>7, <3>16
      <4> QED
        BY <3>2, <4>2, <4>3, <4>4, <4>5 DEF IsRest, R
    <3>17. CASE c \in {"RIGHT", "RIGHT_EXTENSIBLE"}
      <4>1. h.end < e.start
        BY <3>1, <3>5, <3>17, RangeCompMeaning DEF c
      <4>2. Numbers(k) \ Members(e) = Numbers(k)
        <5>1. \A n \in Numbers(k) : n \notin Members(e)
          <6> HIDE DEF c
          <6> QED
            BY <3>3, <3>5, <3>6, <4>1
        <5> QED
          BY <5>1
      <4>3. IsRest(RemoveIntervalSet[<<k, others>>], k, Numbers(others))
        BY <1>1, <2>2, <2>3, <3>1, <3>2, <3>11
      <4>4. R = RemoveIntervalSet[<<k, others>>]
        BY <3>7, <3>17
      <4> QED
        BY <3>2, <4>2, <4>3, <4>4 DEF IsRest, R
    <3>18. CASE c = "RIGHT_INTERSECT"
      <4>1. h.start < e.start
        BY <3>1, <3>5, <3>18, RangeCompMeaning DEF c
      <4>2. Numbers(below) \ Members(e) = Numbers(below)
        <5>1. \A n \in Numbers(below) : n \notin Members(e)
          <6> HIDE DEF c
          <6> QED
            BY <3>5, <3>6, <4>1
        <5> QED
          BY <5>1
      <4>3. j \in List /\ Len(j) = Len(below) + 1 /\ Normal(j)
            /\ Numbers(j) = (Members(h) \ Members(e)) \cup Numbers(below)
        BY <3>8, <3>10, <3>18
      <4>4. IsRest(RemoveIntervalSet[<<j, others>>], j, Numbers(others))
        <5>1. Len(j) + 2 * Len(others) < Len(k) + 2 * Len(s)
          BY <2>2, <3>1, <3>11, <4>3
        <5> QED
          BY <2>3, <3>1, <3>2, <4>3, <5>1
      <4>5. R = RemoveIntervalSet[<<j, others>>]
        BY <3>7, <3>18
      <4> QED
        BY <3>2, <4>2, <4>3, <4>4, <4>5 DEF IsRest, R
    <3>19. CASE c = "OUTER"
      <4>1. Members(h) \ Members(e) = {}
        BY <3>1, <3>5, <3>6, <3>19, RangeCompMeaning DEF c
      <4>2. R = q
        BY <3>7, <3>19
      <4> QED
        BY <3>2, <3>12, <4>1, <4>2 DEF IsRest, R
    <3> QED
      BY <3>4, <3>14, <3>15, <3>16, <3>17, <3>18, <3>19
  <2> QED
    BY <2>4, <2>5
<1>2. ASSUME NEW x \in Walk, \A y \in Walk : RemoveSetLeft[y] < RemoveSetLeft[x] => y \in Good
      PROVE  x \in Good
  <2>1. PICK k \in List, s \in List : x = <<k, s>>
    BY DEF Walk
  <2>2. x[1] = k /\ x[2] = s
    BY <2>1
  <2>3. Normal(k) /\ Normal(s) => IsRest(RemoveIntervalSet[x], k, Numbers(s))
    <3> HIDE DEF Good
    <3> QED
      BY <1>1, <1>2, <2>1
  <2> QED
    BY <2>2, <2>3
<1>3. Good = Walk
  <2>1. Good \in SUBSET Walk
    OBVIOUS
  <2> HIDE DEF Good
  <2>2. Inductive(Walk, RemoveSetLeft, Good)
    BY <1>2, <2>1, RemoveSetLeftIs DEF Inductive
  <2> QED
    BY <2>2, MeasureInduction
<1>4. <<l, set>> \in Good /\ <<l, set>>[1] = l /\ <<l, set>>[2] = set
  BY <1>3, RemoveSetLeftIs
<1> QED
  BY <1>4

-----------------------------------------------------------------------------
\* The intervals of a list in order, by their places.
LEMMA Places ==
  ASSUME NEW l \in List, Normal(l)
  PROVE  /\ DOMAIN l = 1 .. Len(l) /\ Len(l) \in Nat
         /\ \A i \in DOMAIN l :
               /\ l[i] \in Interval /\ l[i] = From(l[i].start, l[i].end)
               /\ l[i].start \in Nat /\ l[i].end \in Nat /\ l[i].start <= l[i].end
               /\ \A n : n \in Members(l[i]) <=> n \in Nat /\ l[i].start <= n /\ n <= l[i].end
         /\ \A i, j \in DOMAIN l : i < j => l[j].end + 1 < l[i].start
<1>1. DOMAIN l = 1 .. Len(l) /\ Len(l) \in Nat
  BY DEF List
<1>2. ASSUME NEW i \in DOMAIN l
      PROVE  /\ l[i] \in Interval /\ l[i] = From(l[i].start, l[i].end)
             /\ l[i].start \in Nat /\ l[i].end \in Nat /\ l[i].start <= l[i].end
             /\ \A n : n \in Members(l[i]) <=> n \in Nat /\ l[i].start <= n /\ n <= l[i].end
  <2>1. l[i] \in Interval
    BY <1>2 DEF List
  <2> DEFINE x == l[i]
  <2> HIDE DEF x
  <2>2. x \in Interval
    BY <2>1 DEF x
  <2>3. x = From(x.start, x.end)
    BY <2>2 DEF From, Interval
  <2>4. /\ x.start \in Nat /\ x.end \in Nat /\ x.start <= x.end
        /\ \A n : n \in Members(x) <=> n \in Nat /\ x.start <= n /\ n <= x.end
    BY <2>2, MembersAre
  <2> QED
    BY <2>2, <2>3, <2>4 DEF x
<1>3. \A i, j \in DOMAIN l : i < j => l[j].end + 1 < l[i].start
  BY DEF Normal
<1> QED
  BY <1>1, <1>2, <1>3

\* Each interval ends where a run of the numbers ends.
LEMMA EndsAre ==
  ASSUME NEW l \in List, Normal(l)
  PROVE  Ends(Numbers(l)) = {l[i].end : i \in DOMAIN l}
<1>1. ASSUME NEW n \in Ends(Numbers(l)) PROVE n \in {l[i].end : i \in DOMAIN l}
  <2>1. n \in Numbers(l) /\ n + 1 \notin Numbers(l)
    BY DEF Ends
  <2>2. PICK i \in DOMAIN l : n \in Members(l[i])
    BY <2>1 DEF Numbers
  <2>3. n \in Nat /\ l[i].start <= n /\ n <= l[i].end /\ l[i].start \in Nat /\ l[i].end \in Nat
    BY <2>2, Places
  <2>4. n + 1 \notin Members(l[i])
    BY <2>1, <2>3 DEF Numbers
  <2>5. ~(n + 1 <= l[i].end)
    BY <2>3, <2>4, Places
  <2>6. n = l[i].end
    BY <2>3, <2>5
  <2> QED
    BY <2>6
<1>2. ASSUME NEW i \in DOMAIN l PROVE l[i].end \in Ends(Numbers(l))
  <2> DEFINE n == l[i].end
  <2>1. n \in Nat /\ n \in Numbers(l)
    BY Places DEF Numbers
  <2>2. ASSUME n + 1 \in Numbers(l) PROVE FALSE
    <3>1. PICK j \in DOMAIN l : n + 1 \in Members(l[j])
      BY <2>2 DEF Numbers
    <3>2. l[j].start <= n + 1 /\ n + 1 <= l[j].end
      BY <3>1, Places
    <3>3. /\ l[i].start \in Nat /\ l[i].end \in Nat /\ l[i].start <= l[i].end
          /\ l[j].start \in Nat /\ l[j].end \in Nat
      BY Places
    <3>4. i < j => l[j].end + 1 < l[i].start
      BY Places
    <3>5. j < i => l[i].end + 1 < l[j].start
      BY Places
    <3>6. i < j \/ j < i \/ i = j
      BY Places
    <3> QED
      BY <3>2, <3>3, <3>4, <3>5, <3>6
  <2> QED
    BY <2>1, <2>2 DEF Ends
<1> QED
  BY <1>1, <1>2

\* As many runs end at the end of the k-th interval or above as there are intervals up to it.
LEMMA EndsAbove ==
  ASSUME NEW l \in List, Normal(l), NEW k \in DOMAIN l
  PROVE  Cardinality({f \in Ends(Numbers(l)) : f >= l[k].end}) = k
<1> DEFINE T == {f \in Ends(Numbers(l)) : f >= l[k].end}
           F == [i \in 1 .. k |-> l[i].end]
<1>0. k \in Nat /\ 1 .. k \subseteq DOMAIN l
  BY Places
<1>1. \A i, j \in DOMAIN l : i < j => l[j].end < l[i].end
  <2> TAKE i, j \in DOMAIN l
  <2>1. HAVE i < j
  <2>2. /\ l[i].start \in Nat /\ l[i].end \in Nat /\ l[i].start <= l[i].end
        /\ l[j].end \in Nat /\ l[j].end + 1 < l[i].start
    BY <2>1, Places
  <2> QED
    BY <2>2
<1>2. \A i \in DOMAIN l : i \in Nat /\ l[i].end \in Nat
  BY Places
<1>3. F \in [1 .. k -> T]
  <2>1. ASSUME NEW i \in 1 .. k PROVE l[i].end \in T
    <3>1. i \in DOMAIN l /\ (i = k \/ i < k)
      BY <1>0
    <3>2. l[i].end >= l[k].end
      BY <1>1, <1>2, <3>1
    <3> QED
      BY <3>1, <3>2, EndsAre
  <2> QED
    BY <2>1
<1>4. \A i, j \in 1 .. k : F[i] = F[j] => i = j
  <2> TAKE i, j \in 1 .. k
  <2>1. HAVE F[i] = F[j]
  <2>2. i \in DOMAIN l /\ j \in DOMAIN l /\ l[i].end = l[j].end
    BY <1>0, <2>1
  <2>3. ~(i < j) /\ ~(j < i)
    BY <1>1, <1>2, <2>2
  <2> QED
    BY <1>2, <2>2, <2>3
<1>5. \A t \in T : \E i \in 1 .. k : F[i] = t
  <2> TAKE t \in T
  <2>1. PICK i \in DOMAIN l : t = l[i].end
    BY EndsAre
  <2>2. t >= l[k].end
    OBVIOUS
  <2>3. ~(k < i)
    BY <1>1, <1>2, <2>1, <2>2
  <2>4. i \in 1 .. k
    BY <1>0, <2>3, Places
  <2> QED
    BY <2>1, <2>4
<1> HIDE DEF T, F
<1>6. F \in Bijection(1 .. k, T)
  BY <1>3, <1>4, <1>5, Fun_IsBij
<1>7. ExistsBijection(1 .. k, T)
  BY <1>6, Fun_ExistsBij
<1>8. Cardinality(T) = k
  BY <1>0, <1>7, FS_CountingElements
<1> QED
  BY <1>8 DEF T

\* Runs finds the list of a set again: a list in order is determined by its numbers.
THEOREM RunsFindsList ==
  ASSUME NEW l \in List, Normal(l)
  PROVE  Runs(Numbers(l)) = l
<1> DEFINE S == Numbers(l)
           E == Ends(S)
           Rank(e) == Cardinality({f \in E : f >= e})
<1>1. E = {l[i].end : i \in DOMAIN l} /\ \A i \in DOMAIN l : Rank(l[i].end) = i
  BY EndsAre, EndsAbove
<1> HIDE DEF E, Rank
<1>2. Cardinality(E) = Len(l)
  <2>1. CASE Len(l) = 0
    <3>1. DOMAIN l = {}
      BY <2>1, Places
    <3>2. E = {}
      BY <1>1, <3>1
    <3> QED
      BY <2>1, <3>2, FS_EmptySet
  <2>2. CASE Len(l) # 0
    <3>1. Len(l) \in DOMAIN l
      BY <2>2, Places
    <3>2. \A f \in E : f >= l[Len(l)].end
      <4> TAKE f \in E
      <4>1. PICK i \in DOMAIN l : f = l[i].end
        BY <1>1
      <4>2. i < Len(l) \/ i = Len(l)
        BY Places
      <4>3. /\ l[i].start \in Nat /\ l[i].end \in Nat /\ l[i].start <= l[i].end
            /\ l[Len(l)].end \in Nat
        BY <3>1, Places
      <4>4. i < Len(l) => l[Len(l)].end + 1 < l[i].start
        BY <3>1, Places
      <4> QED
        BY <4>1, <4>2, <4>3, <4>4
    <3>3. {f \in E : f >= l[Len(l)].end} = E
      BY <3>2
    <3> QED
      BY <1>1, <3>1, <3>3 DEF Rank
  <2> QED
    BY <2>1, <2>2
<1>3. ASSUME NEW k \in DOMAIN l
      PROVE  (CHOOSE e \in E : Rank(e) = k) = l[k].end
  <2>1. l[k].end \in E /\ Rank(l[k].end) = k
    BY <1>1
  <2>2. \A e \in E : Rank(e) = k => e = l[k].end
    BY <1>1
  <2> QED
    BY <2>1, <2>2
<1>4. ASSUME NEW k \in DOMAIN l
      PROVE  RunTo(S, l[k].end) = l[k]
  <2> DEFINE e == l[k].end
             b == l[k].start
             Starts(a) == a <= e /\ a .. e \subseteq S /\ a - 1 \notin S
  <2>1. /\ l[k] = From(b, e) /\ b \in Nat /\ e \in Nat /\ b <= e
        /\ \A n : n \in Members(l[k]) <=> n \in Nat /\ b <= n /\ n <= e
    BY Places
  <2>2. \A n \in Nat : b <= n /\ n <= e => n \in S
    BY <2>1 DEF Numbers
  <2>3. b - 1 \notin S
    <3>1. ASSUME b - 1 \in S PROVE FALSE
      <4>1. PICK j \in DOMAIN l : b - 1 \in Members(l[j])
        BY <3>1 DEF Numbers
      <4>2. /\ l[j].start <= b - 1 /\ b - 1 <= l[j].end
            /\ l[j].start \in Nat /\ l[j].end \in Nat
        BY <4>1, Places
      <4>3. k < j => l[j].end + 1 < b
        BY Places
      <4>4. j < k => e + 1 < l[j].start
        BY Places
      <4>5. j < k \/ k < j \/ j = k
        BY Places
      <4> HIDE DEF b, e
      <4> QED
        BY <2>1, <4>2, <4>3, <4>4, <4>5 DEF b
    <3> QED
      BY <3>1
  <2> HIDE DEF b, e
  <2>4. b \in S /\ Starts(b)
    BY <2>1, <2>2, <2>3
  <2>5. \A a \in S : Starts(a) => a = b
    <3> TAKE a \in S
    <3>1. HAVE Starts(a)
    <3>2. a \in Nat
      BY NumbersAre
    <3>3. ~(a < b)
      <4>1. ASSUME a < b PROVE FALSE
        <5>1. b - 1 \in a .. e
          BY <2>1, <3>2, <4>1
        <5> QED
          BY <2>3, <3>1, <5>1
      <4> QED
        BY <4>1
    <3>4. ~(b < a)
      <4>1. ASSUME b < a PROVE FALSE
        <5>1. a - 1 \in Nat /\ b <= a - 1 /\ a - 1 <= e
          BY <2>1, <3>1, <3>2, <4>1
        <5> QED
          BY <2>2, <3>1, <5>1
      <4> QED
        BY <4>1
    <3> QED
      BY <2>1, <3>2, <3>3, <3>4
  <2>6. RunTo(S, e) = From(CHOOSE a \in S : Starts(a), e)
    BY DEF RunTo
  <2> HIDE DEF Starts, S
  <2>7. (CHOOSE a \in S : Starts(a)) = b
    BY <2>4, <2>5
  <2> QED
    BY <2>1, <2>6, <2>7 DEF e
<1>5. Runs(S) = [k \in 1 .. Cardinality(E) |-> RunTo(S, CHOOSE e \in E : Rank(e) = k)]
  BY DEF Runs, E, Rank
<1> HIDE DEF S
<1>6. Runs(S) = [k \in DOMAIN l |-> RunTo(S, CHOOSE e \in E : Rank(e) = k)]
  BY <1>2, <1>5, Places
<1>7. Runs(S) = [k \in DOMAIN l |-> l[k]]
  BY <1>3, <1>4, <1>6
<1>8. l = [k \in DOMAIN l |-> l[k]]
  BY DEF List
<1> QED
  BY <1>7, <1>8 DEF S

\* One interval is a list in order.
LEMMA OneInterval ==
  ASSUME NEW x \in Interval
  PROVE  <<x>> \in List /\ Normal(<<x>>) /\ Numbers(<<x>>) = Members(x)
<1>1. <<x>> \o <<>> = <<x>>
  BY ConcatEmptySeq DEF List
<1>2. Below(Numbers(<<>>), x.start)
  BY NumbersOfNothing DEF Below
<1> QED
  BY <1>1, <1>2, OneInFront, NumbersOfNothing, EmptyList, InFront

\* From makes an interval of two ends in order.
LEMMA FromIs ==
  ASSUME NEW a \in Nat, NEW b \in Nat, a <= b
  PROVE  From(a, b) \in Interval /\ Members(From(a, b)) = a .. b
BY DEF From, Interval, Members

\* AddInterval adds the numbers of an interval.
LEMMA AddIntervalAdds ==
  ASSUME NEW l \in List, Normal(l), NEW x \in Interval
  PROVE  /\ AddInterval(l, x) \in List /\ Normal(AddInterval(l, x))
         /\ Numbers(AddInterval(l, x)) = Numbers(l) \cup Members(x)
<1>1. IsUnion(AddIntervalSet[<<l, <<x>>>>], l, <<x>>)
  BY OneInterval, AddIsUnion
<1> QED
  BY <1>1, OneInterval DEF IsUnion, AddInterval

\* Every bounded set of numbers has a list in order, which Runs finds.
LEMMA RunsAreNormal ==
  ASSUME NEW n \in Nat, NEW S \in SUBSET (0 .. n)
  PROVE  Runs(S) \in List /\ Normal(Runs(S)) /\ Numbers(Runs(S)) = S
<1> DEFINE Listed(T) == \E l \in List : Normal(l) /\ Numbers(l) = T
           Good == {k \in Nat : \A T \in SUBSET (0 .. k - 1) : Listed(T)}
<1>1. 0 \in Good
  <2>1. Listed({})
    BY NumbersOfNothing, EmptyList
  <2>2. \A T \in SUBSET (0 .. 0 - 1) : T = {}
    OBVIOUS
  <2> HIDE DEF Listed
  <2> QED
    BY <2>1, <2>2
<1>2. ASSUME NEW k \in Good PROVE k + 1 \in Good
  <2>1. k \in Nat /\ \A T \in SUBSET (0 .. k - 1) : Listed(T)
    OBVIOUS
  <2>2. ASSUME NEW T \in SUBSET (0 .. (k + 1) - 1) PROVE Listed(T)
    <3>1. T \ {k} \in SUBSET (0 .. k - 1)
      BY <2>1
    <3>2. Listed(T \ {k})
      <4> HIDE DEF Listed
      <4> QED
        BY <2>1, <3>1
    <3>3. PICK l \in List : Normal(l) /\ Numbers(l) = T \ {k}
      BY <3>2
    <3>4. CASE k \notin T
      BY <3>3, <3>4
    <3>5. CASE k \in T
      <4> DEFINE q == AddInterval(l, From(k, k))
      <4>1. From(k, k) \in Interval /\ Members(From(k, k)) = {k}
        BY <2>1, FromIs
      <4>2. q \in List /\ Normal(q) /\ Numbers(q) = (T \ {k}) \cup {k}
        BY <3>3, <4>1, AddIntervalAdds
      <4> HIDE DEF q
      <4> QED
        BY <3>5, <4>2
    <3> QED
      BY <3>4, <3>5
  <2> HIDE DEF Listed
  <2> QED
    BY <2>1, <2>2
<1>3. Good = Nat
  <2>1. Good \in SUBSET Nat
    OBVIOUS
  <2> HIDE DEF Good
  <2> QED
    BY <1>1, <1>2, <2>1, NaturalInduction
<1>4. Listed(S)
  <2>1. n + 1 \in Good /\ S \in SUBSET (0 .. (n + 1) - 1)
    BY <1>3
  <2> HIDE DEF Listed
  <2> QED
    BY <2>1
<1>5. PICK l \in List : Normal(l) /\ Numbers(l) = S
  BY <1>4
<1> QED
  BY <1>5, RunsFindsList

-----------------------------------------------------------------------------
(***************************************************************************)
(* The list of a set, changed by any of its operations.                    *)
(***************************************************************************)
IntervalInv ==
  /\ intervals \in List /\ Normal(intervals)
  /\ numbers = Numbers(intervals)
  /\ numbers \in SUBSET (0 .. MaxNumber)

\* Every operation keeps the list in order, and does to its numbers what it should.
LEMMA IntervalInvStep ==
  ASSUME IntervalInv, [IntervalNext]_intervalVars
  PROVE  IntervalInv'
<1> USE MaxNumberAssumption
<1>1. /\ intervals \in List /\ Normal(intervals)
      /\ numbers = Numbers(intervals) /\ numbers \in SUBSET (0 .. MaxNumber)
  BY DEF IntervalInv
<1>2. ASSUME NEW a \in 0 .. MaxNumber, NEW b \in a .. MaxNumber, AddNumbers(a, b)
      PROVE  IntervalInv'
  <2>1. From(a, b) \in Interval /\ Members(From(a, b)) = a .. b
    BY FromIs
  <2>2. intervals' = AddInterval(intervals, From(a, b)) /\ numbers' = numbers \cup (a .. b)
    BY <1>2 DEF AddNumbers
  <2>3. /\ intervals' \in List /\ Normal(intervals')
        /\ Numbers(intervals') = Numbers(intervals) \cup (a .. b)
    BY <1>1, <2>1, <2>2, AddIntervalAdds
  <2>4. a .. b \in SUBSET (0 .. MaxNumber)
    OBVIOUS
  <2> QED
    BY <1>1, <2>2, <2>3, <2>4 DEF IntervalInv
<1>3. ASSUME NEW a \in 0 .. MaxNumber, NEW b \in a .. MaxNumber, RemoveNumbers(a, b)
      PROVE  IntervalInv'
  <2>1. From(a, b) \in Interval /\ Members(From(a, b)) = a .. b
    BY FromIs
  <2>2. /\ intervals' = RemoveInterval[<<intervals, From(a, b)>>]
        /\ numbers' = numbers \ (a .. b)
    BY <1>3 DEF RemoveNumbers
  <2>3. IsRest(intervals', intervals, a .. b)
    <3>1. IsRest(RemoveInterval[<<intervals, From(a, b)>>], intervals, Members(From(a, b)))
      BY <1>1, <2>1, RemoveIsDifference
    <3> QED
      BY <2>1, <2>2, <3>1
  <2> QED
    BY <1>1, <2>2, <2>3 DEF IntervalInv, IsRest
<1>4. ASSUME NEW S \in SUBSET (0 .. MaxNumber), AddNumberSet(S)
      PROVE  IntervalInv'
  <2>1. Runs(S) \in List /\ Normal(Runs(S)) /\ Numbers(Runs(S)) = S
    BY RunsAreNormal
  <2>2. intervals' = AddIntervalSet[<<intervals, Runs(S)>>] /\ numbers' = numbers \cup S
    BY <1>4 DEF AddNumberSet
  <2>3. IsUnion(intervals', intervals, Runs(S))
    BY <1>1, <2>1, <2>2, AddIsUnion
  <2> QED
    BY <1>1, <2>1, <2>2, <2>3 DEF IntervalInv, IsUnion
<1>5. ASSUME NEW S \in SUBSET (0 .. MaxNumber), RemoveNumberSet(S)
      PROVE  IntervalInv'
  <2>1. Runs(S) \in List /\ Normal(Runs(S)) /\ Numbers(Runs(S)) = S
    BY RunsAreNormal
  <2>2. intervals' = RemoveIntervalSet[<<intervals, Runs(S)>>] /\ numbers' = numbers \ S
    BY <1>5 DEF RemoveNumberSet
  <2>3. IsRest(intervals', intervals, S)
    <3>1. IsRest(RemoveIntervalSet[<<intervals, Runs(S)>>], intervals, Numbers(Runs(S)))
      BY <1>1, <2>1, RemoveSetIsDifference
    <3> QED
      BY <2>1, <2>2, <3>1
  <2> QED
    BY <1>1, <2>2, <2>3 DEF IntervalInv, IsRest
<1>6. CASE UNCHANGED intervalVars
  BY <1>1, <1>6 DEF IntervalInv, intervalVars
<1> QED
  BY <1>2, <1>3, <1>4, <1>5, <1>6 DEF IntervalNext

\* A list in order represents its numbers.
LEMMA IntervalInvRepresents ==
  ASSUME IntervalInv
  PROVE  RepresentsNumbers
<1>1. /\ intervals \in List /\ Normal(intervals)
      /\ numbers = Numbers(intervals) /\ numbers \in SUBSET (0 .. MaxNumber)
  BY DEF IntervalInv
<1>2. intervals = Runs(numbers)
  BY <1>1, RunsFindsList
<1>3. \A n \in 0 .. MaxNumber : Contain(intervals, n) <=> n \in numbers
  <2> TAKE n \in 0 .. MaxNumber
  <2>1. n \in Nat
    BY MaxNumberAssumption
  <2>2. \A k \in DOMAIN intervals : PointComp(intervals[k], n) = "INNER" <=> n \in Members(intervals[k])
    BY <1>1, <2>1, Places, PointCompMeaning
  <2>3. n \in numbers <=> \E k \in DOMAIN intervals : n \in Members(intervals[k])
    BY <1>1, <2>1 DEF Numbers
  <2> QED
    BY <2>2, <2>3 DEF Contain
<1>4. ASSUME numbers # {}
      PROVE  /\ \A n \in numbers : GetStart(intervals) <= n /\ n <= GetEnd(intervals)
             /\ GetStart(intervals) \in numbers /\ GetEnd(intervals) \in numbers
  <2> DEFINE l == intervals
             z == Len(l)
  <2>1. /\ DOMAIN l = 1 .. z /\ z \in Nat
        /\ \A i \in DOMAIN l :
              /\ l[i].start \in Nat /\ l[i].end \in Nat /\ l[i].start <= l[i].end
              /\ \A n : n \in Members(l[i]) <=> n \in Nat /\ l[i].start <= n /\ n <= l[i].end
        /\ \A i, j \in DOMAIN l : i < j => l[j].end + 1 < l[i].start
    BY <1>1, Places
  <2>2. \A n : n \in numbers <=> n \in Nat /\ \E i \in DOMAIN l : n \in Members(l[i])
    BY <1>1 DEF Numbers
  <2> HIDE DEF l, z
  <2>3. DOMAIN l # {}
    BY <1>4, <2>2
  <2>4. 1 \in DOMAIN l /\ z \in DOMAIN l
    BY <2>1, <2>3
  <2>5. GetStart(intervals) = l[z].start /\ GetEnd(intervals) = l[1].end
    BY DEF GetStart, GetEnd, l, z
  <2>6. l[z].start \in numbers /\ l[1].end \in numbers
    BY <2>1, <2>2, <2>4
  <2>7. \A n \in numbers : l[z].start <= n /\ n <= l[1].end
    <3> TAKE n \in numbers
    <3>1. PICK i \in DOMAIN l : n \in Members(l[i])
      BY <2>2
    <3>2. /\ n \in Nat /\ l[i].start <= n /\ n <= l[i].end
          /\ l[i].start \in Nat /\ l[i].end \in Nat
          /\ l[z].start \in Nat /\ l[z].end \in Nat /\ l[z].start <= l[z].end
          /\ l[1].start \in Nat /\ l[1].end \in Nat /\ l[1].start <= l[1].end
      BY <2>1, <2>4, <3>1
    <3>3. /\ i < z => l[z].end + 1 < l[i].start
          /\ 1 < i => l[i].end + 1 < l[1].start
          /\ i = z \/ i < z
          /\ i = 1 \/ 1 < i
      BY <2>1, <2>4
    <3> QED
      BY <3>2, <3>3
  <2> QED
    BY <2>5, <2>6, <2>7
<1> QED
  BY <1>2, <1>3, <1>4 DEF RepresentsNumbers

\* Whatever order the operations come in, the list holds exactly the numbers put in and not
\* taken out, as runs in descending order (interval.hh, class IntervalSet).
THEOREM ListsRepresentNumbers == IntervalSpec => []RepresentsNumbers
<1>1. IntervalInit => IntervalInv
  BY NumbersOfNothing, EmptyList DEF IntervalInit, IntervalInv
<1>2. IntervalInv /\ [IntervalNext]_intervalVars => IntervalInv'
  BY IntervalInvStep
<1>3. IntervalInv => RepresentsNumbers
  BY IntervalInvRepresents
<1> QED
  BY <1>1, <1>2, <1>3, PTL DEF IntervalSpec
=============================================================================
