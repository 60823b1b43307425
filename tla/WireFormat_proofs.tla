-------------------------- MODULE WireFormat_proofs --------------------------
(***************************************************************************)
(* Theorems about WireFormat: a packet is as long as it announces          *)
(* (BufferIsFilled), and what is parsed of it is what was put into it      *)
(* (PacketsRoundTrip).                                                     *)
(*                                                                         *)
(* The operators are proved about one layer at a time: bytes of integers,  *)
(* fields, frames, headers, packets.  For every layer there is a lemma on  *)
(* the length of what is written and one on a cursor that stands in front  *)
(* of it, which takes it back and nothing else.                            *)
(***************************************************************************)
EXTENDS WireFormat, IntervalSets_proofs, SumTheorems

-----------------------------------------------------------------------------
(* Sequences put together.                                                 *)

\* What holds of the empty sequence, and with a sequence of any with an element more, holds
\* of every one.
LEMMA SequenceInduction ==
  ASSUME NEW S, NEW Good \in SUBSET Seq(S), <<>> \in Good,
         \A s \in Good : \A e \in S : Append(s, e) \in Good
  PROVE  Good = Seq(S)
<1> DEFINE Upto == {n \in Nat : \A s \in Seq(S) : Len(s) = n => s \in Good}
<1>1. 0 \in Upto
  <2>1. \A s \in Seq(S) : Len(s) = 0 => s = <<>>
    BY EmptySeq
  <2> QED
    BY <2>1
<1>2. ASSUME NEW n \in Upto PROVE n + 1 \in Upto
  <2>1. n \in Nat /\ \A s \in Seq(S) : Len(s) = n => s \in Good
    OBVIOUS
  <2>2. ASSUME NEW s \in Seq(S), Len(s) = n + 1 PROVE s \in Good
    <3>1. s # <<>>
      BY <2>1, <2>2
    <3>2. PICK r \in Seq(S), e \in S : s = Append(r, e)
      BY <3>1, SequenceEmptyOrAppend
    <3>3. Len(r) = n
      BY <2>1, <2>2, <3>2, AppendProperties
    <3> QED
      BY <2>1, <3>2, <3>3
  <2> QED
    BY <2>1, <2>2
<1>3. Upto = Nat
  <2>1. Upto \in SUBSET Nat
    OBVIOUS
  <2> HIDE DEF Upto
  <2> QED
    BY <1>1, <1>2, <2>1, NaturalInduction
<1>4. ASSUME NEW s \in Seq(S) PROVE s \in Good
  <2>1. Len(s) \in Upto
    BY <1>3
  <2> QED
    BY <2>1
<1> QED
  BY <1>4

\* Two functions that go on in the same way from the same start.
Alike(g, h, a, n) ==
  /\ a <= n => g[a] = h[a]
  /\ \A k \in a .. n - 1 : g[k] = h[k] => g[k + 1] = h[k + 1]

\* They are the same up to the end.
LEMMA LoopsAgree ==
  ASSUME NEW g, NEW h, NEW a \in Nat, NEW n \in Nat, Alike(g, h, a, n)
  PROVE  \A k \in a .. n : g[k] = h[k]
<1>0. /\ a <= n => g[a] = h[a]
      /\ \A k \in a .. n - 1 : g[k] = h[k] => g[k + 1] = h[k + 1]
  BY DEF Alike
<1> USE <1>0
<1> DEFINE Good == {j \in Nat : a + j <= n => g[a + j] = h[a + j]}
<1>1. 0 \in Good
  OBVIOUS
<1>2. ASSUME NEW j \in Good PROVE j + 1 \in Good
  <2>1. /\ j \in Nat /\ a + j <= n => g[a + j] = h[a + j]
        /\ a + (j + 1) = (a + j) + 1
    OBVIOUS
  <2>2. ASSUME a + (j + 1) <= n PROVE g[a + (j + 1)] = h[a + (j + 1)]
    <3>1. a + j \in a .. n - 1 /\ g[a + j] = h[a + j]
      BY <2>1, <2>2
    <3> QED
      BY <2>1, <3>1
  <2> QED
    BY <2>1, <2>2
<1>3. Good = Nat
  <2>1. Good \in SUBSET Nat
    OBVIOUS
  <2> HIDE DEF Good
  <2> QED
    BY <1>1, <1>2, <2>1, NaturalInduction
<1>4. ASSUME NEW k \in a .. n PROVE g[k] = h[k]
  <2>1. k - a \in Nat /\ a + (k - a) = k /\ k <= n
    OBVIOUS
  <2>2. k - a \in Good
    <3> HIDE DEF Good
    <3> QED
      BY <1>3, <2>1
  <2>3. a + (k - a) <= n => g[a + (k - a)] = h[a + (k - a)]
    BY <2>2
  <2> QED
    BY <2>1, <2>3
<1> QED
  BY <1>4

\* Short sequences, one behind the other.
LEMMA OneAndOne ==
  ASSUME NEW a, NEW b
  PROVE  <<a>> \o <<b>> = <<a, b>> /\ <<a>> \o <<>> = <<a>>
<1> DEFINE S == {a, b}
           s == <<a>> \o <<b>>
           t == <<a, b>>
<1>1. /\ <<a>> \in Seq(S) /\ <<b>> \in Seq(S) /\ Len(<<a>>) = 1 /\ Len(<<b>>) = 1
      /\ <<a>>[1] = a /\ <<b>>[1] = b
  OBVIOUS
<1>2. t \in Seq(S) /\ Len(t) = 2 /\ t[1] = a /\ t[2] = b
  OBVIOUS
<1>3. <<a>> \o <<>> = <<a>>
  BY <1>1, ConcatEmptySeq
<1>4. /\ s \in Seq(S) /\ Len(s) = 1 + 1
      /\ \A i \in 1 .. 1 + 1 : s[i] = IF i <= 1 THEN <<a>>[i] ELSE <<b>>[i - 1]
  <2> HIDE DEF S
  <2> QED
    BY <1>1, ConcatProperties
<1>5. s[1] = a /\ s[2] = b
  BY <1>1, <1>4
<1> HIDE DEF s, t, S
<1>6. s = t
  BY <1>2, <1>4, <1>5, SeqEqual
<1> QED
  BY <1>3, <1>6 DEF s, t

\* Two of them and one.
LEMMA TwoAndOne ==
  ASSUME NEW a, NEW b, NEW c
  PROVE  <<a, b>> \o <<c>> = <<a, b, c>>
<1> DEFINE S == {a, b, c}
           s == <<a, b>> \o <<c>>
           t == <<a, b, c>>
<1>1. /\ <<a, b>> \in Seq(S) /\ <<c>> \in Seq(S) /\ Len(<<a, b>>) = 2 /\ Len(<<c>>) = 1
      /\ <<a, b>>[1] = a /\ <<a, b>>[2] = b /\ <<c>>[1] = c
  OBVIOUS
<1>2. t \in Seq(S) /\ Len(t) = 3 /\ t[1] = a /\ t[2] = b /\ t[3] = c
  OBVIOUS
<1>3. /\ s \in Seq(S) /\ Len(s) = 2 + 1
      /\ \A i \in 1 .. 2 + 1 : s[i] = IF i <= 2 THEN <<a, b>>[i] ELSE <<c>>[i - 2]
  <2> HIDE DEF S
  <2> QED
    BY <1>1, ConcatProperties
<1>4. s[1] = a /\ s[2] = b /\ s[3] = c
  BY <1>1, <1>3
<1> HIDE DEF s, t, S
<1>5. s = t
  BY <1>2, <1>3, <1>4, SeqEqual
<1> QED
  BY <1>5 DEF s, t

\* FlattenSeq goes on with one sequence after the other,
Flattens(f, ss) ==
  f = [i \in 1 .. Len(ss) |-> IF i = 1 THEN ss[i] ELSE f[i - 1] \o ss[i]]

\* FlattenSeq takes what some such function ends with.
LEMMA FlattenChosen ==
  ASSUME NEW ss
  PROVE  FlattenSeq(ss) = IF Len(ss) = 0 THEN ss ELSE (CHOOSE f : Flattens(f, ss))[Len(ss)]
BY DEF FlattenSeq, Flattens

\* and there is a function that does.
LEMMA FlattensExists ==
  ASSUME NEW S, NEW ss \in Seq(S)
  PROVE  \E f : Flattens(f, ss)
<1> DEFINE Good == {s \in Seq(S) : \E f : Flattens(f, s)}
<1>1. <<>> \in Good
  <2> DEFINE f == [i \in 1 .. 0 |-> <<>>]
  <2>1. Len(<<>>) = 0 /\ <<>> \in Seq(S)
    BY EmptySeq
  <2>2. f = [i \in 1 .. 0 |-> IF i = 1 THEN <<>>[i] ELSE f[i - 1] \o <<>>[i]]
    OBVIOUS
  <2>3. Flattens(f, <<>>)
    BY <2>1, <2>2 DEF Flattens
  <2> QED
    BY <2>1, <2>3
<1>2. ASSUME NEW s \in Good, NEW e \in S PROVE Append(s, e) \in Good
  <2>1. PICK f : Flattens(f, s)
    OBVIOUS
  <2>2. s \in Seq(S) /\ Len(s) \in Nat
    OBVIOUS
  <2> DEFINE t == Append(s, e)
             n == Len(s)
             g == [i \in 1 .. n + 1 |->
                      IF i <= n THEN f[i] ELSE IF i = 1 THEN e ELSE f[n] \o e]
  <2>3. /\ t \in Seq(S) /\ Len(t) = n + 1 /\ t[n + 1] = e
        /\ \A i \in 1 .. n : t[i] = s[i]
    BY <2>2, AppendProperties
  <2>4. \A i \in 1 .. n : f[i] = IF i = 1 THEN s[i] ELSE f[i - 1] \o s[i]
    BY <2>1 DEF Flattens
  <2>5. ASSUME NEW i \in 1 .. n + 1
        PROVE  g[i] = IF i = 1 THEN t[i] ELSE g[i - 1] \o t[i]
    <3> HIDE DEF t
    <3>1. CASE i <= n
      BY <2>2, <2>3, <2>4, <3>1
    <3>2. CASE i = n + 1
      <4>1. g[i] = IF i = 1 THEN e ELSE f[n] \o e
        BY <2>2, <3>2
      <4>2. i # 1 => g[i - 1] = f[n]
        BY <2>2, <3>2
      <4> QED
        BY <2>3, <3>2, <4>1, <4>2
    <3> QED
      BY <2>2, <3>1, <3>2
  <2>6. Flattens(g, t)
    <3> HIDE DEF t
    <3> QED
      BY <2>3, <2>5 DEF Flattens
  <2> HIDE DEF g, t
  <2> QED
    BY <2>3, <2>6 DEF t
<1>3. Good = Seq(S)
  <2>1. Good \in SUBSET Seq(S)
    OBVIOUS
  <2> HIDE DEF Good
  <2> QED
    BY <1>1, <1>2, <2>1, SequenceInduction
<1> QED
  BY <1>3

\* So an element more is put behind.
LEMMA FlattenAppend ==
  ASSUME NEW S, NEW ss \in Seq(Seq(S)), NEW s \in Seq(S)
  PROVE  FlattenSeq(Append(ss, s)) = IF ss = <<>> THEN s ELSE FlattenSeq(ss) \o s
<1> DEFINE n == Len(ss)
           tt == Append(ss, s)
           f == CHOOSE h : Flattens(h, ss)
           g == CHOOSE h : Flattens(h, tt)
<1>1. /\ n \in Nat /\ tt \in Seq(Seq(S)) /\ Len(tt) = n + 1 /\ tt[n + 1] = s
      /\ \A i \in 1 .. n : tt[i] = ss[i]
  BY AppendProperties
<1>2. Flattens(f, ss) /\ Flattens(g, tt)
  BY <1>1, FlattensExists
<1>3. FlattenSeq(tt) = g[n + 1] /\ (n # 0 => FlattenSeq(ss) = f[n])
  <2>1. FlattenSeq(tt) = IF Len(tt) = 0 THEN tt ELSE g[Len(tt)]
    <3> HIDE DEF tt
    <3> QED
      BY FlattenChosen
  <2>2. FlattenSeq(ss) = IF Len(ss) = 0 THEN ss ELSE f[Len(ss)]
    BY FlattenChosen
  <2> HIDE DEF f, g, tt
  <2>3. n + 1 # 0
    BY <1>1
  <2> HIDE DEF n
  <2>4. Len(ss) = n
    BY DEF n
  <2> QED
    BY <1>1, <2>1, <2>2, <2>3, <2>4
<1> HIDE DEF f, g, tt
<1>4. /\ \A i \in 1 .. n : f[i] = IF i = 1 THEN ss[i] ELSE f[i - 1] \o ss[i]
      /\ \A i \in 1 .. n + 1 : g[i] = IF i = 1 THEN tt[i] ELSE g[i - 1] \o tt[i]
  BY <1>1, <1>2 DEF Flattens
<1>5. CASE n = 0
  <2>1. ss = <<>>
    BY <1>5, EmptySeq
  <2>2. g[1] = tt[1]
    BY <1>1, <1>4
  <2> QED
    BY <1>1, <1>3, <1>5, <2>1, <2>2 DEF tt
<1>6. CASE n # 0
  <2>1. ASSUME NEW k \in 1 .. n - 1, f[k] = g[k] PROVE f[k + 1] = g[k + 1]
    <3>1. k + 1 \in 1 .. n /\ k + 1 \in 1 .. n + 1 /\ k + 1 # 1 /\ (k + 1) - 1 = k
      BY <1>1
    <3> QED
      BY <1>1, <1>4, <2>1, <3>1
  <2>2. f[1] = g[1]
    <3>1. 1 \in 1 .. n /\ 1 \in 1 .. n + 1
      BY <1>1, <1>6
    <3> QED
      BY <1>1, <1>4, <3>1
  <2>3. \A k \in 1 .. n : f[k] = g[k]
    <3> DEFINE a == 1
    <3>1. a \in Nat /\ n \in Nat /\ (a <= n => f[a] = g[a])
      BY <1>1, <2>2
    <3>2. \A k \in a .. n - 1 : f[k] = g[k] => f[k + 1] = g[k + 1]
      BY <2>1
    <3> HIDE DEF a, n
    <3>3. Alike(f, g, a, n)
      BY <3>1, <3>2 DEF Alike
    <3>4. \A k \in a .. n : f[k] = g[k]
      BY <3>1, <3>3, LoopsAgree
    <3> QED
      BY <3>4 DEF a
  <2>4. g[n + 1] = f[n] \o s
    <3>1. n \in 1 .. n /\ n + 1 \in 1 .. n + 1 /\ n + 1 # 1 /\ (n + 1) - 1 = n
      BY <1>1, <1>6
    <3> QED
      BY <1>1, <1>4, <2>3, <3>1
  <2>5. ss # <<>>
    BY <1>6, EmptySeq
  <2> QED
    BY <1>3, <1>6, <2>4, <2>5 DEF tt
<1> QED
  BY <1>5, <1>6

\* The empty sequence is what nothing makes.
LEMMA FlattenEmpty == FlattenSeq(<<>>) = <<>>
<1>1. Len(<<>>) = 0
  BY EmptySeq
<1> QED
  BY <1>1, FlattenChosen

\* FlattenSeq makes a sequence of the elements,
LEMMA FlattenTyped ==
  ASSUME NEW S, NEW ss \in Seq(Seq(S))
  PROVE  FlattenSeq(ss) \in Seq(S)
<1> DEFINE Good == {tt \in Seq(Seq(S)) : FlattenSeq(tt) \in Seq(S)}
<1>1. <<>> \in Good
  BY FlattenEmpty, EmptySeq
<1>2. ASSUME NEW tt \in Good, NEW s \in Seq(S) PROVE Append(tt, s) \in Good
  <2>1. tt \in Seq(Seq(S)) /\ FlattenSeq(tt) \in Seq(S)
    OBVIOUS
  <2>2. FlattenSeq(tt) \o s \in Seq(S)
    BY <2>1, ConcatProperties
  <2>3. Append(tt, s) \in Seq(Seq(S))
    BY <2>1, AppendProperties
  <2> QED
    BY <2>1, <2>2, <2>3, FlattenAppend
<1>3. Good = Seq(Seq(S))
  <2>1. Good \in SUBSET Seq(Seq(S))
    OBVIOUS
  <2> HIDE DEF Good
  <2> QED
    BY <1>1, <1>2, <2>1, SequenceInduction
<1> QED
  BY <1>3

\* an element more behind them,
LEMMA FlattenMore ==
  ASSUME NEW S, NEW ss \in Seq(Seq(S)), NEW s \in Seq(S)
  PROVE  FlattenSeq(Append(ss, s)) = FlattenSeq(ss) \o s
<1>1. CASE ss = <<>>
  BY <1>1, FlattenAppend, FlattenEmpty, ConcatEmptySeq
<1>2. CASE ss # <<>>
  BY <1>2, FlattenAppend
<1> QED
  BY <1>1, <1>2

\* the parts in their order,
LEMMA FlattenConcat ==
  ASSUME NEW S, NEW ss \in Seq(Seq(S)), NEW tt \in Seq(Seq(S))
  PROVE  FlattenSeq(ss \o tt) = FlattenSeq(ss) \o FlattenSeq(tt)
<1> DEFINE Good == {uu \in Seq(Seq(S)) :
                       FlattenSeq(ss \o uu) = FlattenSeq(ss) \o FlattenSeq(uu)}
<1>1. <<>> \in Good
  <2>1. ss \o <<>> = ss /\ FlattenSeq(ss) \o <<>> = FlattenSeq(ss)
    BY ConcatEmptySeq, FlattenTyped
  <2> QED
    BY <2>1, FlattenEmpty, EmptySeq
<1>2. ASSUME NEW uu \in Good, NEW s \in Seq(S) PROVE Append(uu, s) \in Good
  <2>1. uu \in Seq(Seq(S)) /\ FlattenSeq(ss \o uu) = FlattenSeq(ss) \o FlattenSeq(uu)
    OBVIOUS
  <2>2. ss \o Append(uu, s) = Append(ss \o uu, s)
    <3>1. Append(uu, s) = uu \o <<s>> /\ Append(ss \o uu, s) = (ss \o uu) \o <<s>>
      BY <2>1, AppendIsConcat, ConcatProperties
    <3>2. <<s>> \in Seq(Seq(S))
      OBVIOUS
    <3> QED
      BY <2>1, <3>1, <3>2, ConcatAssociative
  <2>3. /\ ss \o uu \in Seq(Seq(S)) /\ Append(uu, s) \in Seq(Seq(S))
        /\ FlattenSeq(ss) \in Seq(S) /\ FlattenSeq(uu) \in Seq(S)
    BY <2>1, ConcatProperties, AppendProperties, FlattenTyped
  <2>4. /\ FlattenSeq(Append(ss \o uu, s)) = FlattenSeq(ss \o uu) \o s
        /\ FlattenSeq(Append(uu, s)) = FlattenSeq(uu) \o s
    BY <2>1, <2>3, FlattenMore
  <2>5. (FlattenSeq(ss) \o FlattenSeq(uu)) \o s = FlattenSeq(ss) \o (FlattenSeq(uu) \o s)
    BY <2>3, ConcatAssociative
  <2> QED
    BY <2>1, <2>2, <2>3, <2>4, <2>5
<1>3. Good = Seq(Seq(S))
  <2>1. Good \in SUBSET Seq(Seq(S))
    OBVIOUS
  <2> HIDE DEF Good
  <2> QED
    BY <1>1, <1>2, <2>1, SequenceInduction
<1> QED
  BY <1>3

\* one of them as it is,
LEMMA FlattenOne ==
  ASSUME NEW S, NEW s \in Seq(S)
  PROVE  FlattenSeq(<<s>>) = s
<1>1. <<s>> = Append(<<>>, s)
  OBVIOUS
<1>2. <<>> \in Seq(Seq(S))
  BY EmptySeq
<1> QED
  BY <1>1, <1>2, FlattenAppend

\* and as many elements as they have together.
LEMMA FlattenLength ==
  ASSUME NEW S, NEW ss \in Seq(Seq(S))
  PROVE  Len(FlattenSeq(ss)) = SumFunction([k \in 1 .. Len(ss) |-> Len(ss[k])])
<1> DEFINE Lengths(tt) == [k \in 1 .. Len(tt) |-> Len(tt[k])]
           Good == {tt \in Seq(Seq(S)) : Len(FlattenSeq(tt)) = SumFunction(Lengths(tt))}
<1>1. <<>> \in Good
  <2>1. Len(<<>>) = 0 /\ <<>> \in Seq(Seq(S)) /\ 1 .. 0 = {}
    BY EmptySeq
  <2>2. DOMAIN Lengths(<<>>) = {} /\ Lengths(<<>>) \in [{} -> Int]
    BY <2>1
  <2>3. SumFunction(Lengths(<<>>)) = 0
    <3> HIDE DEF Lengths
    <3> QED
      BY <2>2, SumRecursion, FS_EmptySet DEF SumFunction
  <2> QED
    BY <2>1, <2>3, FlattenEmpty
<1>2. ASSUME NEW tt \in Good, NEW s \in Seq(S) PROVE Append(tt, s) \in Good
  <2> DEFINE n == Len(tt)
             uu == Append(tt, s)
             f == Lengths(tt)
             g == Lengths(uu)
  <2>1. tt \in Seq(Seq(S)) /\ n \in Nat /\ Len(FlattenSeq(tt)) = SumFunction(f)
    OBVIOUS
  <2>2. /\ uu \in Seq(Seq(S)) /\ Len(uu) = n + 1 /\ uu[n + 1] = s
        /\ \A i \in 1 .. n : uu[i] = tt[i]
    BY <2>1, AppendProperties
  <2>3. FlattenSeq(uu) = FlattenSeq(tt) \o s /\ FlattenSeq(tt) \in Seq(S)
    BY <2>1, FlattenMore, FlattenTyped
  <2>4. Len(FlattenSeq(uu)) = SumFunction(f) + Len(s)
    BY <2>1, <2>3, ConcatProperties
  <2>5. Extends(g, n + 1, f, 1 .. n)
    <3>1. \A i \in 1 .. n : tt[i] \in Seq(S) /\ Len(tt[i]) \in Nat
      BY <2>1, ElementOfSeq
    <3>2. 1 .. n + 1 = (1 .. n) \cup {n + 1} /\ Len(s) \in Nat
      <4> HIDE DEF n
      <4>1. 1 .. n + 1 = (1 .. n) \cup {n + 1}
        BY <2>1
      <4>2. Len(s) \in Nat
        OBVIOUS
      <4> QED
        BY <4>1, <4>2
    <3>3. IsFiniteSet(1 .. n)
      <4>1. 1 \in Int /\ n \in Int
        BY <2>1
      <4> HIDE DEF n
      <4> QED
        BY <4>1, FS_Interval
    <3>4. f \in [1 .. n -> Int]
      <4> HIDE DEF n
      <4>1. f = [k \in 1 .. n |-> Len(tt[k])]
        BY DEF n
      <4> QED
        BY <3>1, <4>1
    <3>5. g = [k \in 1 .. n + 1 |-> Len(uu[k])]
      BY <2>2
    <3> HIDE DEF uu
    <3>6. \A k \in 1 .. n + 1 : Len(uu[k]) \in Int
      BY <2>1, <2>2, <3>1, <3>2
    <3>7. g \in [(1 .. n) \cup {n + 1} -> Int] /\ \A k \in 1 .. n : g[k] = f[k]
      BY <2>1, <2>2, <3>2, <3>5, <3>6
    <3> HIDE DEF f, g, n
    <3> QED
      BY <2>1, <3>3, <3>4, <3>7 DEF Extends
  <2>6. g[n + 1] = Len(s)
    BY <2>1, <2>2
  <2>7. SumFunction(g) = SumFunction(f) + g[n + 1]
    <3> HIDE DEF f, g, n
    <3> QED
      BY <2>5, SumInsert
  <2> QED
    BY <2>2, <2>4, <2>6, <2>7
<1>3. Good = Seq(Seq(S))
  <2>1. Good \in SUBSET Seq(Seq(S))
    OBVIOUS
  <2> HIDE DEF Good
  <2> QED
    BY <1>1, <1>2, <2>1, SequenceInduction
<1> QED
  BY <1>3

-----------------------------------------------------------------------------
(* Integers as bytes.                                                      *)

\* What is left of a number when a byte at a time is taken away.
LeftOf(f, v) == f = [j \in Nat |-> IF j = 0 THEN v ELSE f[j - 1] \div 256]

\* Shifted is such a function's value,
LEMMA ShiftedChosen ==
  ASSUME NEW v, NEW k
  PROVE  Shifted(v, k) = (CHOOSE f : LeftOf(f, v))[k]
BY DEF Shifted, LeftOf

\* and there is one.
LEMMA LeftOfExists ==
  ASSUME NEW v \in Nat
  PROVE  \E f \in [Nat -> Nat] : LeftOf(f, v)
<1> DEFINE Step(f, j) == IF j = 0 THEN v ELSE f[j - 1] \div 256
           m == [j \in Nat |-> j]
           step == [y \in Nat \X [Nat -> Nat] |-> Step(y[2], y[1])]
<1>1. \A j \in Nat : \A f \in [Nat -> Nat] : step[<<j, f>>] = Step(f, j)
  OBVIOUS
<1>2. m \in [Nat -> Nat] /\ \A j \in Nat : m[j] = j
  OBVIOUS
<1>3. \A j \in Nat : \A f \in [Nat -> Nat] : Step(f, j) \in Nat
  <2> TAKE j \in Nat
  <2> TAKE f \in [Nat -> Nat]
  <2>1. CASE j # 0
    <3>1. j - 1 \in Nat
      BY <2>1
    <3>2. f[j - 1] \in Nat
      BY <3>1
    <3> QED
      BY <2>1, <3>2
  <2> QED
    BY <2>1
<1>4. ASSUME NEW j \in Nat, NEW f \in [Nat -> Nat], NEW g \in [Nat -> Nat],
             \A i \in Nat : m[i] < m[j] => f[i] = g[i]
      PROVE  Step(f, j) = Step(g, j)
  <2>1. CASE j # 0
    <3>1. j - 1 \in Nat /\ m[j - 1] < m[j]
      BY <1>2, <2>1
    <3> QED
      BY <1>4, <3>1
  <2> QED
    BY <2>1
<1>5. Recursive(Nat, Nat, m, step)
  <2> HIDE DEF m, step, Step
  <2>1. \A j \in Nat : \A f \in [Nat -> Nat] : step[<<j, f>>] \in Nat
    BY <1>1, <1>3
  <2>2. ASSUME NEW j \in Nat, NEW f \in [Nat -> Nat], NEW g \in [Nat -> Nat],
               \A i \in Nat : m[i] < m[j] => f[i] = g[i]
        PROVE  step[<<j, f>>] = step[<<j, g>>]
    <3>1. step[<<j, f>>] = Step(f, j) /\ step[<<j, g>>] = Step(g, j)
      BY <1>1
    <3>2. Step(f, j) = Step(g, j)
      BY <1>4, <2>2
    <3> QED
      BY <3>1, <3>2
  <2>3. Nat # {}
    OBVIOUS
  <2> QED
    BY <1>2, <2>1, <2>2, <2>3 DEF Recursive
<1>6. PICK f \in [Nat -> Nat] : \A j \in Nat : f[j] = step[<<j, f>>]
  <2> HIDE DEF m, step
  <2> QED
    BY <1>5, RecursionExists
<1>7. \A j \in Nat : f[j] = Step(f, j)
  BY <1>1, <1>6
<1> QED
  BY <1>7 DEF LeftOf

\* Shifted takes away a byte at a time.
LEMMA ShiftedIs ==
  ASSUME NEW v \in Nat
  PROVE  /\ Shifted(v, 0) = v
         /\ \A k \in Nat : /\ Shifted(v, k) \in Nat
                           /\ Shifted(v, k + 1) = Shifted(v, k) \div 256
<1> DEFINE f == CHOOSE g : LeftOf(g, v)
<1>1. LeftOf(f, v)
  BY LeftOfExists
<1>2. \A k : Shifted(v, k) = f[k]
  BY ShiftedChosen
<1> HIDE DEF f
<1>3. \A k \in Nat : f[k] = IF k = 0 THEN v ELSE f[k - 1] \div 256
  BY <1>1 DEF LeftOf
<1>4. f[0] = v
  BY <1>3
<1>5. ASSUME NEW k \in Nat PROVE f[k + 1] = f[k] \div 256
  <2>1. k + 1 \in Nat /\ k + 1 # 0 /\ (k + 1) - 1 = k
    OBVIOUS
  <2> QED
    BY <1>3, <2>1
<1> DEFINE Good == {k \in Nat : f[k] \in Nat}
<1>6. 0 \in Good /\ \A k \in Good : k + 1 \in Good
  BY <1>4, <1>5
<1>7. Good = Nat
  <2>1. Good \in SUBSET Nat
    OBVIOUS
  <2> HIDE DEF Good
  <2> QED
    BY <1>6, <2>1, NaturalInduction
<1> QED
  BY <1>2, <1>4, <1>5, <1>7

\* The same, for one shift.
LEMMA ShiftedNext ==
  ASSUME NEW v \in Nat, NEW k \in Nat
  PROVE  Shifted(v, k) \in Nat /\ Shifted(v, k + 1) = Shifted(v, k) \div 256
BY ShiftedIs

\* The bytes of an integer.
LEMMA UIntTyped ==
  ASSUME NEW v \in Nat, NEW n \in Nat
  PROVE  /\ encodeUInt(v, n) \in Seq(Nat) /\ Len(encodeUInt(v, n)) = n
         /\ \A k \in 1 .. n : encodeUInt(v, n)[k] = Shifted(v, n - k) % 256
<1>1. \A k \in 1 .. n : Shifted(v, n - k) % 256 \in Nat
  <2> TAKE k \in 1 .. n
  <2>1. n - k \in Nat
    OBVIOUS
  <2>2. Shifted(v, n - k) \in Nat
    BY <2>1, ShiftedIs
  <2> QED
    BY <2>2
<1> QED
  BY <1>1 DEF encodeUInt

\* The size of a variable-length integer, by its bounds.
LEMMA SizeOf ==
  ASSUME NEW v \in Nat
  PROVE  /\ v < 63 => EncodeIndex(v) = 1
         /\ 63 <= v /\ v < 16383 => EncodeIndex(v) = 2
         /\ 16383 <= v /\ v < 1073741823 => EncodeIndex(v) = 3
         /\ 1073741823 <= v => EncodeIndex(v) = 4
<1> DEFINE S == {k \in DOMAIN VarIntBounds : VarIntBounds[k] <= v}
<1>0. /\ DOMAIN VarIntBounds = {1, 2, 3}
      /\ VarIntBounds[1] = 63 /\ VarIntBounds[2] = 16383 /\ VarIntBounds[3] = 1073741823
  BY DEF VarIntBounds
<1>1. EncodeIndex(v) = 1 + Cardinality(S)
  BY DEF EncodeIndex
<1>2. /\ IsFiniteSet({}) /\ Cardinality({}) = 0
      /\ IsFiniteSet({1}) /\ Cardinality({1}) = 1
      /\ IsFiniteSet({1, 2}) /\ Cardinality({1, 2}) = 2
      /\ Cardinality({1, 2, 3}) = 3
  <2>1. IsFiniteSet({}) /\ Cardinality({}) = 0
    BY FS_EmptySet
  <2>2. IsFiniteSet({1}) /\ Cardinality({1}) = 1
    BY FS_Singleton
  <2>3. {1, 2} = {1} \cup {2} /\ 2 \notin {1}
    OBVIOUS
  <2>4. IsFiniteSet({1, 2}) /\ Cardinality({1, 2}) = 1 + 1
    BY <2>2, <2>3, FS_AddElement
  <2>5. {1, 2, 3} = {1, 2} \cup {3} /\ 3 \notin {1, 2}
    OBVIOUS
  <2>6. Cardinality({1, 2, 3}) = 2 + 1
    BY <2>4, <2>5, FS_AddElement
  <2> QED
    BY <2>1, <2>2, <2>4, <2>6
<1>3. v < 63 => S = {}
  BY <1>0
<1>4. 63 <= v /\ v < 16383 => S = {1}
  BY <1>0
<1>5. 16383 <= v /\ v < 1073741823 => S = {1, 2}
  BY <1>0
<1>6. 1073741823 <= v => S = {1, 2, 3}
  BY <1>0
<1> HIDE DEF S
<1> QED
  BY <1>1, <1>2, <1>3, <1>4, <1>5, <1>6

\* encodeVarInt fills the bytes that encodeVarIntLen counts.
LEMMA VarIntTyped ==
  ASSUME NEW v \in Nat
  PROVE  /\ encodeVarInt(v) \in Seq(Nat) /\ Len(encodeVarInt(v)) = encodeVarIntLen(v)
         /\ EncodeIndex(v) \in 1 .. 4 /\ encodeVarIntLen(v) = VarIntSizes[EncodeIndex(v)]
         /\ encodeVarIntLen(v) \in {1, 2, 4, 8}
<1> DEFINE i == EncodeIndex(v)
           n == VarIntSizes[i]
           bytes == encodeUInt(v, n)
<1>1. i \in 1 .. 4
  BY SizeOf
<1>2. n \in {1, 2, 4, 8} /\ encodeVarIntLen(v) = n
  BY <1>1 DEF VarIntSizes, encodeVarIntLen
<1>3. bytes \in Seq(Nat) /\ Len(bytes) = n
  <2> HIDE DEF n
  <2>1. n \in Nat
    BY <1>2
  <2> QED
    BY <2>1, UIntTyped
<1>4. encodeVarInt(v) = <<bytes[1] + 64 * (i - 1)>> \o Tail(bytes)
  BY DEF encodeVarInt
<1> HIDE DEF bytes, n, i
<1>5. bytes # <<>> /\ 1 \in DOMAIN bytes
  BY <1>2, <1>3
<1>6. Tail(bytes) \in Seq(Nat) /\ Len(Tail(bytes)) = n - 1
  BY <1>3, <1>5, HeadTailProperties
<1>7. bytes[1] + 64 * (i - 1) \in Nat
  <2>1. bytes[1] \in Nat
    BY <1>3, <1>5, ElementOfSeq
  <2> QED
    BY <1>1, <2>1
<1>8. <<bytes[1] + 64 * (i - 1)>> \in Seq(Nat) /\ Len(<<bytes[1] + 64 * (i - 1)>>) = 1
  BY <1>7
<1>9. encodeVarInt(v) \in Seq(Nat) /\ Len(encodeVarInt(v)) = 1 + (n - 1)
  BY <1>4, <1>6, <1>8, ConcatProperties
<1> QED
  BY <1>1, <1>2, <1>9 DEF n, i

-----------------------------------------------------------------------------
(* Fields and frames, and their lengths.                                   *)

\* The kinds of fields.
Kinds == {"var", "uint64", "block", "rest", "id", "token"}

\* Only the last field of a frame is read to the end of the packet, and only in the STREAM
\* frames without a length.
LEMMA LayoutTyped ==
  ASSUME NEW id \in (1 .. 30) \ {2, 3}
  PROVE  /\ Layout(id) \in Seq(Kinds)
         /\ \A k \in DOMAIN Layout(id) :
              Layout(id)[k] = "rest" => k = Len(Layout(id)) /\ id \in StreamIDs /\ ~Bit(id, 2)
<1> DEFINE Fixed == {<<>>, <<"var">>, <<"var", "var">>, <<"var", "var", "var">>, <<"block">>,
                     <<"var", "block">>, <<"var", "var", "block">>, <<"uint64">>,
                     <<"var", "var", "id", "token">>}
           NoRest(l) == l \in Seq(Kinds) /\ \A k \in DOMAIN l : l[k] # "rest"
<1>1. CASE id \notin StreamIDs
  <2>1. Layout(id) \in Fixed
    BY <1>1 DEF Layout, StreamIDs, PingFrame, ResetStreamFrame, StopSendingFrame, CryptoFrame,
       NewTokenFrame, MaxDataFrame, MaxStreamDataFrame, MaxStreamsFrame, DataBlockedFrame,
       StreamDataBlockedFrame, StreamsBlockedFrame, NewConnectionIDFrame,
       RetireConnectionIDFrame, PathChallengeFrame, PathResponseFrame,
       ConnectionCloseQUICFrame, ConnectionCloseAppFrame, HandshakeDoneFrame
  <2>2. /\ NoRest(<<>>) /\ NoRest(<<"var">>) /\ NoRest(<<"var", "var">>)
        /\ NoRest(<<"var", "var", "var">>)
    BY DEF Kinds
  <2>3. NoRest(<<"block">>) /\ NoRest(<<"var", "block">>) /\ NoRest(<<"var", "var", "block">>)
    BY DEF Kinds
  <2>4. NoRest(<<"uint64">>) /\ NoRest(<<"var", "var", "id", "token">>)
    BY DEF Kinds
  <2> HIDE DEF NoRest
  <2>5. NoRest(Layout(id))
    BY <2>1, <2>2, <2>3, <2>4
  <2> QED
    BY <2>5 DEF NoRest
<1>2. CASE id \in StreamIDs
  <2>1. Layout(id) = StreamFields(id)
    BY <1>2 DEF Layout, StreamIDs
  <2> DEFINE last == IF Bit(id, 2) THEN "block" ELSE "rest"
  <2>2. StreamFields(id) = IF Bit(id, 4) THEN <<"var", "var", last>> ELSE <<"var", last>>
    <3>1. StreamFields(id) = <<"var">> \o (IF Bit(id, 4) THEN <<"var">> ELSE <<>>) \o <<last>>
      BY DEF StreamFields
    <3> HIDE DEF last
    <3>2. <<"var">> \o <<"var">> = <<"var", "var">> /\ <<"var">> \o <<>> = <<"var">>
      BY OneAndOne
    <3>3. <<"var", "var">> \o <<last>> = <<"var", "var", last>> /\ <<"var">> \o <<last>> = <<"var", last>>
      BY OneAndOne, TwoAndOne
    <3>4. CASE Bit(id, 4)
      BY <3>1, <3>2, <3>3, <3>4
    <3>5. CASE ~Bit(id, 4)
      BY <3>1, <3>2, <3>3, <3>5
    <3> QED
      BY <3>4, <3>5
  <2>3. last \in Kinds /\ (last = "rest" => ~Bit(id, 2)) /\ "var" \in Kinds /\ "var" # "rest"
    BY DEF Kinds
  <2> HIDE DEF last
  <2>4. CASE Bit(id, 4)
    BY <1>2, <2>1, <2>2, <2>3, <2>4
  <2>5. CASE ~Bit(id, 4)
    BY <1>2, <2>1, <2>2, <2>3, <2>5
  <2> QED
    BY <2>4, <2>5
<1> QED
  BY <1>1, <1>2

\* Strings of bytes are sequences of numbers.
LEMMA BytesAreNumbers ==
  ASSUME NEW s \in Seq(Byte)
  PROVE  s \in Seq(Nat) /\ Len(s) \in Nat
<1>1. Len(s) \in Nat /\ s = [k \in 1 .. Len(s) |-> s[k]]
  OBVIOUS
<1>2. \A k \in 1 .. Len(s) : s[k] \in Byte
  BY <1>1, ElementOfSeq
<1>3. Byte \subseteq Nat
  BY DEF Byte
<1> QED
  BY <1>1, <1>2, <1>3

\* A field takes the bytes that are counted for it.
LEMMA WrittenTyped ==
  ASSUME NEW kind \in Kinds, NEW v, IsValue(kind, v)
  PROVE  Written(kind, v) \in Seq(Nat) /\ Len(Written(kind, v)) = Length(kind, v)
<1>0. \A s \in Seq(Byte) : s \in Seq(Nat) /\ Len(s) \in Nat
  BY BytesAreNumbers
<1>1. CASE kind = "var"
  <2>1. v \in Nat
    BY <1>1 DEF IsValue, IsVarInt
  <2> QED
    BY <1>1, <2>1, VarIntTyped DEF Written, Length
<1>2. CASE kind = "uint64"
  <2>1. v \in Nat
    BY <1>2 DEF IsValue
  <2>2. encodeUInt(v, 8) \in Seq(Nat) /\ Len(encodeUInt(v, 8)) = 8
    BY <2>1, UIntTyped
  <2> QED
    BY <1>2, <2>2 DEF Written, Length
<1>3. CASE kind = "block"
  <2>1. v \in Seq(Nat) /\ Len(v) \in Nat
    BY <1>0, <1>3 DEF IsValue
  <2>2. encodeVarInt(Len(v)) \in Seq(Nat) /\ Len(encodeVarInt(Len(v))) = encodeVarIntLen(Len(v))
    BY <2>1, VarIntTyped
  <2>3. /\ encodeVarInt(Len(v)) \o v \in Seq(Nat)
        /\ Len(encodeVarInt(Len(v)) \o v) = encodeVarIntLen(Len(v)) + Len(v)
    BY <2>1, <2>2, ConcatProperties
  <2> QED
    BY <1>3, <2>3 DEF Written, Length
<1>4. CASE kind \in {"rest", "token"}
  BY <1>0, <1>4 DEF IsValue, Written, Length
<1>5. CASE kind = "id"
  <2>1. v \in Seq(Nat) /\ Len(v) \in Nat
    BY <1>0, <1>5 DEF IsValue
  <2>2. encodeUInt(Len(v), 1) \in Seq(Nat) /\ Len(encodeUInt(Len(v), 1)) = 1
    BY <2>1, UIntTyped
  <2>3. /\ encodeUInt(Len(v), 1) \o v \in Seq(Nat)
        /\ Len(encodeUInt(Len(v), 1) \o v) = 1 + Len(v)
    BY <2>1, <2>2, ConcatProperties
  <2> QED
    BY <1>5, <2>3 DEF Written, Length
<1> QED
  BY <1>1, <1>2, <1>3, <1>4, <1>5 DEF Kinds

\* The fields of a frame other than PADDING and ACK.
LEMMA FieldsTyped ==
  ASSUME NEW f, IsFrame(f), f.id \notin {0, 2, 3}
  PROVE  /\ f.id \in (1 .. 30) \ {2, 3}
         /\ Layout(f.id) \in Seq(Kinds)
         /\ DOMAIN f.fields = 1 .. Len(Layout(f.id)) /\ Len(f.fields) = Len(Layout(f.id))
         /\ \A k \in 1 .. Len(Layout(f.id)) : /\ Layout(f.id)[k] \in Kinds
                                              /\ IsValue(Layout(f.id)[k], f.fields[k])
<1>1. f.id \in (1 .. 30) \ {2, 3}
  BY DEF IsFrame
<1>2. Layout(f.id) \in Seq(Kinds)
  BY <1>1, LayoutTyped
<1>3. FieldCount(f.id) = Len(Layout(f.id)) /\ FieldCount(f.id) \in Nat
  BY <1>2 DEF FieldCount
<1>4. f.fields = [k \in 1 .. FieldCount(f.id) |-> f.fields[k]]
  BY DEF IsFrame
<1>5. DOMAIN f.fields = 1 .. Len(Layout(f.id)) /\ Len(f.fields) = Len(Layout(f.id))
  BY <1>3, <1>4
<1>6. \A k \in DOMAIN f.fields : IsValue(Layout(f.id)[k], f.fields[k])
  BY DEF IsFrame
<1> QED
  BY <1>1, <1>2, <1>5, <1>6

\* The bytes of all the fields.
FieldBytes(f) == [k \in 1 .. Len(Layout(f.id)) |-> Written(Layout(f.id)[k], f.fields[k])]

\* A frame other than PADDING and ACK is its ID and those bytes, as long as counted.
LEMMA FieldBytesTyped ==
  ASSUME NEW f, IsFrame(f), f.id \notin {0, 2, 3}
  PROVE  /\ FieldBytes(f) \in Seq(Seq(Nat)) /\ Len(FieldBytes(f)) = Len(Layout(f.id))
         /\ [k \in 1 .. Len(FieldBytes(f)) |-> Len(FieldBytes(f)[k])] =
               [k \in DOMAIN f.fields |-> Length(Layout(f.id)[k], f.fields[k])]
         /\ EncodeFrame(f) = encodeVarInt(WrittenID(f.id)) \o FlattenSeq(FieldBytes(f))
<1> DEFINE n == Len(Layout(f.id))
           s == FieldBytes(f)
<1>1. /\ n \in Nat /\ DOMAIN f.fields = 1 .. n
      /\ \A k \in 1 .. n : Layout(f.id)[k] \in Kinds /\ IsValue(Layout(f.id)[k], f.fields[k])
  BY FieldsTyped
<1>2. \A k \in 1 .. n : /\ s[k] = Written(Layout(f.id)[k], f.fields[k])
                        /\ s[k] \in Seq(Nat) /\ Len(s[k]) = Length(Layout(f.id)[k], f.fields[k])
  BY <1>1, WrittenTyped DEF FieldBytes
<1>3. s = [k \in 1 .. n |-> s[k]]
  BY DEF FieldBytes
<1>4. EncodeFrame(f) = encodeVarInt(WrittenID(f.id)) \o FlattenSeq(s)
  BY <1>1 DEF EncodeFrame, FieldBytes
<1> HIDE DEF s, n
<1>5. s \in Seq(Seq(Nat)) /\ Len(s) = n
  BY <1>1, <1>2, <1>3
<1>6. [k \in 1 .. Len(s) |-> Len(s[k])] =
               [k \in DOMAIN f.fields |-> Length(Layout(f.id)[k], f.fields[k])]
  BY <1>1, <1>2, <1>5
<1> QED
  BY <1>4, <1>5, <1>6 DEF s, n

-----------------------------------------------------------------------------
(* The integers of an ACK frame.                                           *)

\* The integers that encodeVarInt takes.
VarInts == {v \in Nat : IsVarInt(v)}

\* A smaller number has no more left.
LEMMA ShiftedMonotone ==
  ASSUME NEW a \in Nat, NEW b \in Nat, a <= b
  PROVE  \A k \in Nat : Shifted(a, k) <= Shifted(b, k)
<1> DEFINE Good == {k \in Nat : Shifted(a, k) <= Shifted(b, k)}
<1>1. 0 \in Good
  BY ShiftedIs
<1>2. ASSUME NEW k \in Good PROVE k + 1 \in Good
  <2>1. k \in Nat /\ Shifted(a, k) <= Shifted(b, k)
    OBVIOUS
  <2>2. /\ Shifted(a, k) \in Nat /\ Shifted(a, k + 1) = Shifted(a, k) \div 256
        /\ Shifted(b, k) \in Nat /\ Shifted(b, k + 1) = Shifted(b, k) \div 256
    BY <2>1, ShiftedIs
  <2>3. \A x, y \in Nat : x <= y => x \div 256 <= y \div 256
    OBVIOUS
  <2>4. Shifted(a, k + 1) <= Shifted(b, k + 1)
    BY <2>1, <2>2, <2>3
  <2> QED
    BY <2>1, <2>4
<1>3. Good = Nat
  <2>1. Good \in SUBSET Nat
    OBVIOUS
  <2> HIDE DEF Good
  <2> QED
    BY <1>1, <1>2, <2>1, NaturalInduction
<1> QED
  BY <1>3

\* What is below an integer that fits fits.
LEMMA VarIntBelow ==
  ASSUME NEW a \in Nat, NEW b \in VarInts, a <= b
  PROVE  a \in VarInts
<1>1. b \in Nat /\ Shifted(b + 1, 7) < 64
  BY DEF VarInts, IsVarInt
<1>2. a + 1 \in Nat /\ b + 1 \in Nat /\ a + 1 <= b + 1
  BY <1>1
<1>3. /\ Shifted(a + 1, 7) <= Shifted(b + 1, 7)
      /\ Shifted(a + 1, 7) \in Nat /\ Shifted(b + 1, 7) \in Nat
  BY <1>2, ShiftedMonotone, ShiftedIs
<1>4. Shifted(a + 1, 7) < 64
  BY <1>1, <1>3
<1> QED
  BY <1>4 DEF VarInts, IsVarInt

\* The intervals of a list in order lie lower and lower, so there are no more than its
\* largest number.
LEMMA RangesFit ==
  ASSUME NEW l, IsRanges(l)
  PROVE  /\ Len(l) \in Nat /\ Len(l) >= 1 /\ l[1].end \in VarInts
         /\ \A k \in 1 .. Len(l) :
              /\ l[k] \in Interval /\ l[k].start \in Nat /\ l[k].end \in Nat
              /\ l[k].start <= l[k].end /\ l[k].end + (k - 1) <= l[1].end
         /\ \A k \in 1 .. Len(l) - 1 : l[k + 1].end + 1 < l[k].start
<1> DEFINE n == Len(l)
           Good == {j \in Nat : j + 1 <= n => l[j + 1].end + j <= l[1].end}
<1>0. /\ l \in Seq(Interval) /\ l # <<>> /\ IsVarInt(l[1].end)
      /\ \A i, j \in DOMAIN l : i < j => l[j].end + 1 < l[i].start
  BY DEF IsRanges
<1>1. n \in Nat /\ n >= 1 /\ DOMAIN l = 1 .. n
  BY <1>0, EmptySeq
<1>2. \A k \in 1 .. n : /\ l[k] \in Interval /\ l[k].start \in Nat /\ l[k].end \in Nat
                        /\ l[k].start <= l[k].end
  <2> TAKE k \in 1 .. n
  <2>1. l[k] \in Interval
    BY <1>0, ElementOfSeq
  <2> QED
    BY <2>1, MembersAre
<1>3. l[1].end \in VarInts
  BY <1>0 DEF VarInts, IsVarInt
<1>4. \A k \in 1 .. n - 1 : l[k + 1].end + 1 < l[k].start
  <2> HIDE DEF n
  <2> TAKE k \in 1 .. n - 1
  <2>1. k \in 1 .. n /\ k + 1 \in 1 .. n /\ k < k + 1
    BY <1>1
  <2> QED
    BY <1>0, <1>1, <2>1
<1> HIDE DEF n
<1>5. 0 \in Good
  BY <1>1, <1>2
<1>6. ASSUME NEW j \in Good PROVE j + 1 \in Good
  <2>1. j \in Nat /\ (j + 1 <= n => l[j + 1].end + j <= l[1].end)
    OBVIOUS
  <2>2. ASSUME (j + 1) + 1 <= n PROVE l[(j + 1) + 1].end + (j + 1) <= l[1].end
    <3>1. j + 1 \in 1 .. n - 1 /\ j + 1 \in 1 .. n /\ (j + 1) + 1 \in 1 .. n /\ 1 \in 1 .. n
      BY <1>1, <2>1, <2>2
    <3>2. l[(j + 1) + 1].end + 1 < l[j + 1].start
      BY <1>4, <3>1
    <3>3. /\ l[(j + 1) + 1].end \in Nat /\ l[j + 1].start \in Nat /\ l[j + 1].end \in Nat
          /\ l[j + 1].start <= l[j + 1].end /\ l[1].end \in Nat
      BY <1>2, <3>1
    <3>4. l[j + 1].end + j <= l[1].end
      BY <1>1, <2>1, <3>1
    <3> QED
      BY <2>1, <3>2, <3>3, <3>4
  <2> QED
    BY <2>1, <2>2
<1>7. Good = Nat
  <2>1. Good \in SUBSET Nat
    OBVIOUS
  <2> HIDE DEF Good
  <2> QED
    BY <1>5, <1>6, <2>1, NaturalInduction
<1>8. \A k \in 1 .. n : l[k].end + (k - 1) <= l[1].end
  <2> TAKE k \in 1 .. n
  <2>1. k - 1 \in Nat /\ (k - 1) + 1 = k /\ k <= n
    BY <1>1
  <2>2. k - 1 \in Good
    <3> HIDE DEF Good
    <3> QED
      BY <1>7, <2>1
  <2>3. (k - 1) + 1 <= n => l[(k - 1) + 1].end + (k - 1) <= l[1].end
    BY <2>2
  <2> QED
    BY <2>1, <2>3
<1> QED
  BY <1>1, <1>2, <1>3, <1>4, <1>8 DEF n

\* What follows the four first integers.
Pairs(l) ==
  [k \in 1 .. Len(l) - 1 |-> <<l[k].start - l[k + 1].end - 2, l[k + 1].end - l[k + 1].start>>]
Firsts(delay, l) == <<l[1].end, delay, Len(l) - 1, l[1].end - l[1].start>>

\* None of the integers is larger than encodeVarInt takes.
LEMMA AckTyped ==
  ASSUME NEW l, IsRanges(l), NEW delay \in VarInts
  PROVE  /\ AckIntegers(delay, l) = Firsts(delay, l) \o FlattenSeq(Pairs(l))
         /\ Firsts(delay, l) \in Seq(VarInts) /\ Len(Firsts(delay, l)) = 4
         /\ Pairs(l) \in Seq(Seq(VarInts)) /\ Len(Pairs(l)) = Len(l) - 1
         /\ \A k \in 1 .. Len(l) - 1 : Pairs(l)[k] \in VarInts \X VarInts
         /\ FlattenSeq(Pairs(l)) \in Seq(VarInts)
         /\ AckIntegers(delay, l) \in Seq(VarInts)
<1> DEFINE n == Len(l)
           top == l[1].end
<1>1. /\ n \in Nat /\ n >= 1 /\ top \in VarInts
      /\ \A k \in 1 .. n : /\ l[k].start \in Nat /\ l[k].end \in Nat
                           /\ l[k].start <= l[k].end /\ l[k].end + (k - 1) <= top
      /\ \A k \in 1 .. n - 1 : l[k + 1].end + 1 < l[k].start
  BY RangesFit
<1>2. top \in Nat
  BY <1>1 DEF VarInts
<1>3. \A a \in Nat : a <= top => a \in VarInts
  BY <1>1, VarIntBelow
<1>4. AckIntegers(delay, l) = Firsts(delay, l) \o FlattenSeq(Pairs(l))
  BY DEF AckIntegers, Firsts, Pairs
<1>5. n - 1 \in VarInts /\ top - l[1].start \in VarInts
  <2> HIDE DEF n, top
  <2>1. 1 \in 1 .. n /\ n \in 1 .. n
    BY <1>1
  <2>2. l[1].start \in Nat /\ l[1].end = top /\ l[1].start <= l[1].end
    BY <1>1, <2>1 DEF top
  <2>3. l[n].end \in Nat /\ l[n].end + (n - 1) <= top
    BY <1>1, <2>1
  <2>4. n - 1 \in Nat /\ n - 1 <= top /\ top - l[1].start \in Nat /\ top - l[1].start <= top
    BY <1>1, <1>2, <2>2, <2>3
  <2> QED
    BY <1>3, <2>4
<1>6. \A k \in 1 .. n - 1 : /\ l[k].start - l[k + 1].end - 2 \in VarInts
                            /\ l[k + 1].end - l[k + 1].start \in VarInts
  <2> HIDE DEF n, top
  <2> TAKE k \in 1 .. n - 1
  <2>1. k \in 1 .. n /\ k + 1 \in 1 .. n
    BY <1>1
  <2>2. /\ l[k].start \in Nat /\ l[k].end \in Nat /\ l[k].start <= l[k].end
        /\ l[k].end + (k - 1) <= top
    BY <1>1, <2>1
  <2>3. /\ l[k + 1].start \in Nat /\ l[k + 1].end \in Nat /\ l[k + 1].start <= l[k + 1].end
        /\ l[k + 1].end + ((k + 1) - 1) <= top
    BY <1>1, <2>1
  <2>4. l[k + 1].end + 1 < l[k].start
    BY <1>1
  <2>5. /\ l[k].start - l[k + 1].end - 2 \in Nat /\ l[k].start - l[k + 1].end - 2 <= top
    BY <1>2, <2>2, <2>3, <2>4
  <2>6. l[k + 1].end - l[k + 1].start \in Nat /\ l[k + 1].end - l[k + 1].start <= top
    BY <1>2, <2>3
  <2> QED
    BY <1>3, <2>5, <2>6
<1>7. Firsts(delay, l) \in Seq(VarInts) /\ Len(Firsts(delay, l)) = 4
  <2>1. Firsts(delay, l) = <<top, delay, n - 1, top - l[1].start>>
    BY DEF Firsts
  <2> HIDE DEF n, top
  <2> QED
    BY <1>1, <1>5, <2>1
<1>8. /\ Pairs(l) \in Seq(Seq(VarInts)) /\ Len(Pairs(l)) = n - 1
      /\ \A k \in 1 .. n - 1 : Pairs(l)[k] \in VarInts \X VarInts
  <2> DEFINE Pair(k) == <<l[k].start - l[k + 1].end - 2, l[k + 1].end - l[k + 1].start>>
  <2>1. Pairs(l) = [k \in 1 .. n - 1 |-> Pair(k)]
    BY DEF Pairs
  <2>2. \A k \in 1 .. n - 1 : Pair(k) \in Seq(VarInts) /\ Pair(k) \in VarInts \X VarInts
    BY <1>6
  <2> HIDE DEF Pair, n
  <2> QED
    BY <1>1, <2>1, <2>2
<1>9. FlattenSeq(Pairs(l)) \in Seq(VarInts)
  BY <1>8, FlattenTyped
<1>10. AckIntegers(delay, l) \in Seq(VarInts)
  BY <1>4, <1>7, <1>9, ConcatProperties
<1> QED
  BY <1>4, <1>7, <1>8, <1>9, <1>10

-----------------------------------------------------------------------------
(* Lengths of frames.                                                      *)

\* Integers, one behind the other.
VarBytes(s) == [k \in DOMAIN s |-> encodeVarInt(s[k])]

\* They are strings of bytes, as long as encodeVarIntLen says.
LEMMA VarBytesTyped ==
  ASSUME NEW s \in Seq(VarInts)
  PROVE  /\ VarBytes(s) \in Seq(Seq(Nat)) /\ Len(VarBytes(s)) = Len(s)
         /\ \A k \in 1 .. Len(s) : s[k] \in VarInts /\ s[k] \in Nat /\ VarBytes(s)[k] = encodeVarInt(s[k])
         /\ [k \in 1 .. Len(VarBytes(s)) |-> Len(VarBytes(s)[k])] =
               [k \in DOMAIN s |-> encodeVarIntLen(s[k])]
<1> DEFINE n == Len(s)
           b == VarBytes(s)
<1>1. n \in Nat /\ DOMAIN s = 1 .. n
  OBVIOUS
<1>2. \A k \in 1 .. n : s[k] \in VarInts /\ s[k] \in Nat
  BY ElementOfSeq DEF VarInts
<1>3. b = [k \in 1 .. n |-> encodeVarInt(s[k])]
  BY <1>1 DEF VarBytes
<1> HIDE DEF b, n
<1>4. \A k \in 1 .. n : /\ b[k] = encodeVarInt(s[k]) /\ b[k] \in Seq(Nat)
                        /\ Len(b[k]) = encodeVarIntLen(s[k])
  BY <1>2, <1>3, VarIntTyped
<1>5. b \in Seq(Seq(Nat)) /\ Len(b) = n
  BY <1>1, <1>3, <1>4
<1>6. [k \in 1 .. Len(b) |-> Len(b[k])] = [k \in DOMAIN s |-> encodeVarIntLen(s[k])]
  BY <1>1, <1>4, <1>5
<1> QED
  BY <1>2, <1>4, <1>5, <1>6 DEF b, n

\* The integers of an ACK frame, the three counts included.
Counts(f) == SubSeq(f.fields, 3, Len(f.fields))

\* Every integer of an ACK frame fits.
LEMMA AllIntegersTyped ==
  ASSUME NEW f, IsFrame(f), f.id \in {2, 3}
  PROVE  /\ AllIntegers(f) = AckIntegers(f.fields[1], f.fields[2]) \o Counts(f)
         /\ IsRanges(f.fields[2]) /\ f.fields[1] \in VarInts
         /\ Len(f.fields) = (IF f.id = 3 THEN 5 ELSE 2)
         /\ f.fields = [k \in 1 .. Len(f.fields) |-> f.fields[k]]
         /\ Counts(f) \in Seq(VarInts) /\ Len(Counts(f)) = (IF f.id = 3 THEN 3 ELSE 0)
         /\ \A k \in 1 .. Len(Counts(f)) : Counts(f)[k] = f.fields[k + 2]
         /\ AckIntegers(f.fields[1], f.fields[2]) \in Seq(VarInts)
         /\ AllIntegers(f) \in Seq(VarInts)
<1> DEFINE n == IF f.id = 3 THEN 5 ELSE 2
<1>1. f.fields = [k \in 1 .. n |-> f.fields[k]] /\ n \in {2, 5}
  BY DEF IsFrame, FieldCount
<1>2. Len(f.fields) = n /\ DOMAIN f.fields = 1 .. n
  <2> HIDE DEF n
  <2>1. n \in Nat
    BY <1>1
  <2> QED
    BY <1>1, <2>1
<1>3. IsRanges(f.fields[2]) /\ \A k \in 1 .. n : k # 2 => f.fields[k] \in VarInts
  BY <1>2 DEF IsFrame, VarInts, IsVarInt
<1>4. f.fields[1] \in VarInts
  BY <1>1, <1>3
<1>5. /\ Counts(f) \in Seq(VarInts) /\ Len(Counts(f)) = (IF 3 <= n THEN n - 3 + 1 ELSE 0)
      /\ \A k \in 1 .. n - 3 + 1 : Counts(f)[k] = f.fields[3 + k - 1]
  <2> HIDE DEF n
  <2>1. 3 \in Int /\ n \in Int /\ \A k \in 3 .. n : f.fields[k] \in VarInts
    BY <1>1, <1>3
  <2>2. Counts(f) = SubSeq(f.fields, 3, n)
    BY <1>2 DEF Counts
  <2> QED
    BY <2>1, <2>2, SubSeqProperties
<1>6. Len(Counts(f)) = (IF f.id = 3 THEN 3 ELSE 0)
  BY <1>5
<1>7. \A k \in 1 .. Len(Counts(f)) : Counts(f)[k] = f.fields[k + 2]
  BY <1>5, <1>6
<1>8. AllIntegers(f) = AckIntegers(f.fields[1], f.fields[2]) \o Counts(f)
  BY DEF AllIntegers, Counts
<1>9. AckIntegers(f.fields[1], f.fields[2]) \in Seq(VarInts)
  BY <1>3, <1>4, AckTyped
<1>10. AllIntegers(f) \in Seq(VarInts)
  BY <1>5, <1>8, <1>9, ConcatProperties
<1> QED
  BY <1>1, <1>2, <1>3, <1>4, <1>5, <1>6, <1>7, <1>8, <1>9, <1>10

\* PADDING is so many zeros.
LEMMA ZerosTyped ==
  ASSUME NEW n \in Int
  PROVE  Zeros(n) \in Seq(Nat) /\ (n \in Nat => Len(Zeros(n)) = n)
<1>1. CASE n \in Nat
  BY <1>1 DEF Zeros
<1>2. CASE n \notin Nat
  <2>1. 1 .. n = 1 .. 0
    BY <1>2
  <2>2. Zeros(n) = [k \in 1 .. 0 |-> 0]
    BY <2>1 DEF Zeros
  <2> QED
    BY <1>2, <2>2
<1> QED
  BY <1>1, <1>2

\* A frame takes the bytes that are counted for it, CRYPTO apart.
LEMMA FrameTyped ==
  ASSUME NEW f, IsFrame(f)
  PROVE  /\ EncodeFrame(f) \in Seq(Nat) /\ FrameEncodeLen(f) \in Int
         /\ f.id # 6 => Len(EncodeFrame(f)) = FrameEncodeLen(f)
<1>0. f.id \in 0 .. 30
  BY DEF IsFrame
<1>1. CASE f.id = 0
  <2>1. f.fields[1] \in Nat
    BY <1>1 DEF IsFrame
  <2>2. EncodeFrame(f) = Zeros(f.fields[1]) /\ FrameEncodeLen(f) = f.fields[1]
    BY <1>1 DEF EncodeFrame, FrameEncodeLen
  <2> QED
    BY <2>1, <2>2, ZerosTyped
<1>2. CASE f.id \in {2, 3}
  <2> DEFINE s == AllIntegers(f)
             b == VarBytes(s)
  <2>1. s \in Seq(VarInts)
    BY <1>2, AllIntegersTyped
  <2>2. EncodeFrame(f) = encodeVarInt(f.id) \o FlattenSeq(b)
    BY <1>2 DEF EncodeFrame, VarBytes
  <2>3. FrameEncodeLen(f) = encodeVarIntLen(f.id) + SumFunction([k \in DOMAIN s |-> encodeVarIntLen(s[k])])
    BY <1>2 DEF FrameEncodeLen, Total
  <2> HIDE DEF s
  <2>4. b \in Seq(Seq(Nat)) /\ [k \in 1 .. Len(b) |-> Len(b[k])] = [k \in DOMAIN s |-> encodeVarIntLen(s[k])]
    BY <2>1, VarBytesTyped
  <2> HIDE DEF b
  <2>5. FlattenSeq(b) \in Seq(Nat) /\ Len(FlattenSeq(b)) = SumFunction([k \in 1 .. Len(b) |-> Len(b[k])])
    BY <2>4, FlattenTyped, FlattenLength
  <2>6. encodeVarInt(f.id) \in Seq(Nat) /\ Len(encodeVarInt(f.id)) = encodeVarIntLen(f.id)
    BY <1>2, VarIntTyped
  <2>7. EncodeFrame(f) \in Seq(Nat) /\ Len(EncodeFrame(f)) = encodeVarIntLen(f.id) + Len(FlattenSeq(b))
    BY <2>2, <2>5, <2>6, ConcatProperties
  <2>8. Len(EncodeFrame(f)) = FrameEncodeLen(f)
    BY <2>3, <2>4, <2>5, <2>7
  <2>9. Len(EncodeFrame(f)) \in Nat
    BY <2>7
  <2> QED
    BY <2>7, <2>8, <2>9
<1>3. CASE f.id \notin {0, 2, 3}
  <2> DEFINE b == FieldBytes(f)
             w == WrittenID(f.id)
  <2>1. /\ b \in Seq(Seq(Nat))
        /\ [k \in 1 .. Len(b) |-> Len(b[k])] =
               [k \in DOMAIN f.fields |-> Length(Layout(f.id)[k], f.fields[k])]
        /\ EncodeFrame(f) = encodeVarInt(w) \o FlattenSeq(b)
    BY <1>3, FieldBytesTyped
  <2>2. w \in Nat
    BY <1>0 DEF WrittenID
  <2> HIDE DEF b, w
  <2>3. FlattenSeq(b) \in Seq(Nat) /\ Len(FlattenSeq(b)) = SumFunction([k \in 1 .. Len(b) |-> Len(b[k])])
    BY <2>1, FlattenTyped, FlattenLength
  <2>4. encodeVarInt(w) \in Seq(Nat) /\ Len(encodeVarInt(w)) = encodeVarIntLen(w)
    BY <2>2, VarIntTyped
  <2>5. EncodeFrame(f) \in Seq(Nat) /\ Len(EncodeFrame(f)) = encodeVarIntLen(w) + Len(FlattenSeq(b))
    BY <2>1, <2>3, <2>4, ConcatProperties
  <2>6. CASE f.id # 6
    <3>1. FrameEncodeLen(f) =
             encodeVarIntLen(w) + SumFunction([k \in DOMAIN f.fields |-> Length(Layout(f.id)[k], f.fields[k])])
      BY <1>3, <2>6 DEF FrameEncodeLen, Total, w
    <3>2. Len(EncodeFrame(f)) = FrameEncodeLen(f)
      BY <2>1, <2>3, <2>5, <3>1
    <3>3. Len(EncodeFrame(f)) \in Nat
      BY <2>5
    <3> QED
      BY <2>5, <3>2, <3>3
  <2>7. CASE f.id = 6
    <3>1. Layout(f.id) = <<"var", "block">>
      BY <2>7 DEF Layout, CryptoFrame, StreamIDs
    <3>2. f.fields[1] \in Nat /\ f.fields[2] \in Seq(Byte)
      <4>1. IsValue("var", f.fields[1]) /\ IsValue("block", f.fields[2])
        BY <1>3, <3>1, FieldsTyped
      <4> QED
        BY <4>1 DEF IsValue, IsVarInt
    <3>3. FrameEncodeLen(f) = encodeVarIntLen(6) + 2 * encodeVarIntLen(f.fields[1]) + Len(f.fields[2])
      BY <2>7 DEF FrameEncodeLen
    <3>4. encodeVarIntLen(6) \in {1, 2, 4, 8} /\ encodeVarIntLen(f.fields[1]) \in {1, 2, 4, 8}
      BY <3>2, VarIntTyped
    <3>5. Len(f.fields[2]) \in Nat
      BY <3>2
    <3>6. FrameEncodeLen(f) \in Int
      <4>1. encodeVarIntLen(6) \in Int /\ encodeVarIntLen(f.fields[1]) \in Int
        BY <3>4
      <4>2. \A x, y, z \in Int : x + 2 * y + z \in Int
        OBVIOUS
      <4> QED
        BY <3>3, <3>5, <4>1, <4>2
    <3> QED
      BY <2>5, <2>7, <3>6
  <2> QED
    BY <2>6, <2>7
<1> QED
  BY <1>0, <1>1, <1>2, <1>3

-----------------------------------------------------------------------------
(* Packets, and their lengths.                                             *)

\* The frames that AttachFrame is called with.
Attached ==
  Frames \cup {AckFrame(delay, l) : delay \in Delays, l \in {m \in Seq(Interval) : IsRanges(m)}}

\* A payload: nothing follows a frame that is read up to the end.
IsPayload(fs) ==
  fs \in Seq(Attached) /\ \A i, j \in DOMAIN fs : i < j => ~ReadsOn(fs[i])

\* A packet that SendPacket makes.
IsPacket(p) ==
  /\ p.type \in {"ONE_RTT", "INITIAL"} /\ p.pktNum \in PktNums
  /\ p.type = "INITIAL" => p.pktNum < 63
  /\ IsPayload(p.frames)

\* They are frames.
LEMMA AttachedAreFrames ==
  ASSUME NEW f \in Attached
  PROVE  IsFrame(f)
<1>1. CASE f \in Frames
  BY <1>1, WireAssumption
<1>2. ASSUME NEW delay \in Delays, NEW l \in Seq(Interval), IsRanges(l), f = AckFrame(delay, l)
      PROVE  IsFrame(f)
  <2>1. f.id = 2 /\ f.fields = <<delay, l>>
    BY <1>2 DEF AckFrame
  <2>2. FieldCount(f.id) = 2 /\ f.id \in 0 .. 30
    BY <2>1 DEF FieldCount
  <2>3. f.fields = [k \in 1 .. 2 |-> f.fields[k]] /\ DOMAIN f.fields = {1, 2}
    BY <2>1
  <2>4. f.fields[1] = delay /\ f.fields[2] = l
    BY <2>1
  <2>5. IsVarInt(delay)
    BY WireAssumption
  <2>6. \A k \in DOMAIN f.fields \ {2} : IsVarInt(f.fields[k])
    BY <2>3, <2>4, <2>5
  <2> QED
    BY <1>2, <2>1, <2>2, <2>3, <2>4, <2>6 DEF IsFrame
<1> QED
  BY <1>1, <1>2 DEF Attached

\* The bytes of all the frames.
FrameBytes(fs) == [k \in DOMAIN fs |-> EncodeFrame(fs[k])]

\* They are strings of bytes, together as long as counted unless there is a CRYPTO frame.
LEMMA FrameBytesTyped ==
  ASSUME NEW fs \in Seq(Attached)
  PROVE  /\ FrameBytes(fs) \in Seq(Seq(Nat)) /\ Len(FrameBytes(fs)) = Len(fs)
         /\ FlattenSeq(FrameBytes(fs)) \in Seq(Nat)
         /\ Total([k \in DOMAIN fs |-> FrameEncodeLen(fs[k])]) \in Int
         /\ (\A k \in DOMAIN fs : fs[k].id # 6) =>
               Total([k \in DOMAIN fs |-> FrameEncodeLen(fs[k])]) = Len(FlattenSeq(FrameBytes(fs)))
<1> DEFINE n == Len(fs)
           b == FrameBytes(fs)
           lengths == [k \in DOMAIN fs |-> FrameEncodeLen(fs[k])]
<1>1. n \in Nat /\ DOMAIN fs = 1 .. n
  OBVIOUS
<1>2. \A k \in 1 .. n : IsFrame(fs[k])
  BY ElementOfSeq, AttachedAreFrames
<1>3. b = [k \in 1 .. n |-> EncodeFrame(fs[k])]
  BY <1>1 DEF FrameBytes
<1>4. lengths = [k \in 1 .. n |-> FrameEncodeLen(fs[k])]
  BY <1>1
<1> HIDE DEF n, b, lengths
<1>5. \A k \in 1 .. n : b[k] = EncodeFrame(fs[k]) /\ b[k] \in Seq(Nat)
  BY <1>2, <1>3, FrameTyped
<1>6. b \in Seq(Seq(Nat)) /\ Len(b) = n
  BY <1>1, <1>3, <1>5
<1>7. FlattenSeq(b) \in Seq(Nat)
  BY <1>6, FlattenTyped
<1>8. lengths \in [1 .. n -> Int]
  BY <1>2, <1>4, FrameTyped
<1>9. Total(lengths) \in Int
  <2>1. IsFiniteSet(1 .. n) /\ 1 .. n \in SUBSET (1 .. n) /\ DOMAIN lengths = 1 .. n
    BY <1>1, <1>8, FS_Interval
  <2>2. SumFunctionOnSet(lengths, 1 .. n) \in Int
    BY <1>8, <2>1, SumRecursion
  <2> QED
    BY <2>1, <2>2 DEF Total, SumFunction
<1>10. ASSUME \A k \in DOMAIN fs : fs[k].id # 6
       PROVE  Total(lengths) = Len(FlattenSeq(b))
  <2>1. \A k \in 1 .. n : Len(b[k]) = lengths[k]
    BY <1>1, <1>2, <1>4, <1>5, <1>10, FrameTyped
  <2>2. [k \in 1 .. Len(b) |-> Len(b[k])] = lengths
    BY <1>4, <1>6, <2>1
  <2> QED
    BY <1>6, <2>2, FlattenLength DEF Total
<1> QED
  BY <1>6, <1>7, <1>9, <1>10 DEF b, n, lengths

\* The identifiers are eight bytes.
LEMMA IdentifiersTyped ==
  /\ RemoteID \in Seq(Byte) /\ RemoteID \in Seq(Nat) /\ Len(RemoteID) = 8
  /\ LocalID \in Seq(Byte) /\ LocalID \in Seq(Nat) /\ Len(LocalID) = 8
  /\ IsValue("id", RemoteID) /\ IsValue("id", LocalID)
<1>1. RemoteID \in Seq(Byte) /\ Len(RemoteID) = 8
  BY DEF RemoteID, Byte
<1>2. LocalID \in Seq(Byte) /\ Len(LocalID) = 8
  BY DEF LocalID, Byte
<1>3. IsValue("id", RemoteID)
  BY <1>1 DEF IsValue, Byte
<1>4. IsValue("id", LocalID)
  BY <1>2 DEF IsValue, Byte
<1> QED
  BY <1>1, <1>2, <1>3, <1>4, BytesAreNumbers

\* The number of a packet.
LEMMA NumberTyped ==
  ASSUME NEW p, IsPacket(p)
  PROVE  /\ p.pktNum \in VarInts /\ p.pktNum \in Nat /\ LenBits(p) \in 0 .. 3
         /\ Number(p) \in Seq(Nat) /\ Len(Number(p)) = LenBits(p) + 1
<1>1. p.pktNum \in Nat /\ p.pktNum \in VarInts
  BY WireAssumption DEF IsPacket, IsVarInt, VarInts
<1>2. PktNumLen(p.type, p.pktNum) \in {1, 2, 4, 8}
  BY <1>1, VarIntTyped DEF PktNumLen
<1>3. LenBits(p) \in 0 .. 3
  <2>1. \A n \in {1, 2, 4, 8} : (n - 1) % 4 \in 0 .. 3
    OBVIOUS
  <2> QED
    BY <1>2, <2>1 DEF LenBits
<1>4. LenBits(p) + 1 \in Nat
  BY <1>3
<1> QED
  BY <1>1, <1>3, <1>4, UIntTyped DEF Number

\* The parts of the headers, and how long they are.
LEMMA HeaderParts ==
  ASSUME NEW p, IsPacket(p)
  PROVE  /\ <<64 + LenBits(p)>> \in Seq(Nat) /\ <<192 + LenBits(p)>> \in Seq(Nat)
         /\ encodeUInt(Version, 4) \in Seq(Nat) /\ Len(encodeUInt(Version, 4)) = 4
         /\ Written("id", RemoteID) \in Seq(Nat)
         /\ Len(Written("id", RemoteID)) = Length("id", RemoteID) /\ Length("id", RemoteID) = 9
         /\ Written("id", LocalID) \in Seq(Nat)
         /\ Len(Written("id", LocalID)) = Length("id", LocalID) /\ Length("id", LocalID) = 9
         /\ Written("block", <<>>) \in Seq(Nat)
         /\ Len(Written("block", <<>>)) = encodeVarIntLen(0) /\ encodeVarIntLen(0) \in Nat
         /\ IsValue("block", <<>>) /\ IsValue("var", encodeVarIntLen(p.pktNum))
         /\ encodeVarIntLen(p.pktNum) \in VarInts
         /\ encodeVarInt(encodeVarIntLen(p.pktNum)) \in Seq(Nat)
         /\ Len(encodeVarInt(encodeVarIntLen(p.pktNum))) = encodeVarIntLen(encodeVarIntLen(p.pktNum))
         /\ encodeVarIntLen(encodeVarIntLen(p.pktNum)) \in Nat
<1>1. <<64 + LenBits(p)>> \in Seq(Nat) /\ <<192 + LenBits(p)>> \in Seq(Nat)
  <2>1. LenBits(p) \in 0 .. 3
    BY NumberTyped
  <2> QED
    BY <2>1
<1>2. encodeUInt(Version, 4) \in Seq(Nat) /\ Len(encodeUInt(Version, 4)) = 4
  BY UIntTyped DEF Version
<1>3. Length("id", RemoteID) = 9 /\ Length("id", LocalID) = 9
  BY IdentifiersTyped DEF Length
<1>4. /\ Written("id", RemoteID) \in Seq(Nat) /\ Len(Written("id", RemoteID)) = Length("id", RemoteID)
      /\ Written("id", LocalID) \in Seq(Nat) /\ Len(Written("id", LocalID)) = Length("id", LocalID)
  BY IdentifiersTyped, WrittenTyped DEF Kinds
<1>5. \A n \in {0, 1, 2, 4, 8} : n \in VarInts
  <2> TAKE n \in {0, 1, 2, 4, 8}
  <2>1. n + 1 \in Nat /\ n + 1 <= 9 /\ 9 \in Nat /\ 8 \in Nat
    OBVIOUS
  <2>2. Shifted(9, 7) < 64
    <3>1. /\ Shifted(9, 0 + 1) = 9 \div 256 /\ 9 \div 256 = 0 /\ 0 \div 256 = 0
      BY ShiftedIs
    <3>2. Shifted(9, 1) = 0
      BY <3>1
    <3>3. \A k \in Nat : Shifted(9, k + 1) = Shifted(9, k) \div 256
      BY ShiftedIs
    <3>4. Shifted(9, 1 + 1) = 0
      BY <3>1, <3>2, <3>3
    <3>5. Shifted(9, 2 + 1) = 0
      BY <3>1, <3>4, <3>3
    <3>6. Shifted(9, 3 + 1) = 0
      BY <3>1, <3>5, <3>3
    <3>7. Shifted(9, 4 + 1) = 0
      BY <3>1, <3>6, <3>3
    <3>8. Shifted(9, 5 + 1) = 0
      BY <3>1, <3>7, <3>3
    <3>9. Shifted(9, 6 + 1) = 0
      BY <3>1, <3>8, <3>3
    <3> QED
      BY <3>9
  <2>3. 8 \in VarInts
    BY <2>2 DEF VarInts, IsVarInt
  <2> QED
    BY <2>3, VarIntBelow
<1>6. IsValue("block", <<>>)
  <2>1. <<>> \in Seq(Byte) /\ Len(<<>>) = 0
    BY EmptySeq
  <2>2. IsVarInt(0)
    BY <1>5 DEF VarInts
  <2> QED
    BY <2>1, <2>2 DEF IsValue
<1>7. /\ Written("block", <<>>) \in Seq(Nat) /\ Len(Written("block", <<>>)) = encodeVarIntLen(0)
      /\ encodeVarIntLen(0) \in Nat
  <2>1. Length("block", <<>>) = encodeVarIntLen(0) + 0 /\ encodeVarIntLen(0) \in Nat
    <3>1. Len(<<>>) = 0
      BY EmptySeq
    <3>2. encodeVarIntLen(0) \in Nat
      BY VarIntTyped
    <3> QED
      BY <3>1, <3>2 DEF Length
  <2> QED
    BY <1>6, <2>1, WrittenTyped DEF Kinds
<1>8. encodeVarIntLen(p.pktNum) \in VarInts /\ encodeVarIntLen(p.pktNum) \in Nat
  <2>1. encodeVarIntLen(p.pktNum) \in {1, 2, 4, 8}
    BY NumberTyped, VarIntTyped
  <2> QED
    BY <1>5, <2>1
<1>9. IsValue("var", encodeVarIntLen(p.pktNum))
  BY <1>8 DEF IsValue, VarInts
<1>10. /\ encodeVarInt(encodeVarIntLen(p.pktNum)) \in Seq(Nat)
       /\ Len(encodeVarInt(encodeVarIntLen(p.pktNum))) = encodeVarIntLen(encodeVarIntLen(p.pktNum))
       /\ encodeVarIntLen(encodeVarIntLen(p.pktNum)) \in Nat
  BY <1>8, VarIntTyped
<1> QED
  BY <1>1, <1>2, <1>3, <1>4, <1>6, <1>7, <1>8, <1>9, <1>10

\* Strings of bytes put together.
LEMMA Joined ==
  ASSUME NEW s \in Seq(Nat), NEW t \in Seq(Nat)
  PROVE  s \o t \in Seq(Nat) /\ Len(s \o t) = Len(s) + Len(t)
BY ConcatProperties

\* The header takes the bytes that are counted for it.
LEMMA HeaderTyped ==
  ASSUME NEW p, IsPacket(p)
  PROVE  /\ EncodeHeader(p) \in Seq(Nat)
         /\ Len(EncodeHeader(p)) = HeaderEncodeLen(p)
<1> DEFINE n == LenBits(p) + 1
           m == encodeVarInt(encodeVarIntLen(p.pktNum))
           a == <<192 + LenBits(p)>>
           v == encodeUInt(Version, 4)
           r == Written("id", RemoteID)
           l == Written("id", LocalID)
           b == Written("block", <<>>)
           short == <<64 + LenBits(p)>>
<1>1. n \in Nat /\ Number(p) \in Seq(Nat) /\ Len(Number(p)) = n
  BY NumberTyped
<1>2. /\ short \in Seq(Nat) /\ a \in Seq(Nat) /\ v \in Seq(Nat) /\ Len(v) = 4
      /\ r \in Seq(Nat) /\ Len(r) = 9 /\ l \in Seq(Nat) /\ Len(l) = 9
      /\ b \in Seq(Nat) /\ Len(b) = encodeVarIntLen(0) /\ encodeVarIntLen(0) \in Nat
      /\ m \in Seq(Nat) /\ Len(m) = encodeVarIntLen(encodeVarIntLen(p.pktNum))
      /\ encodeVarIntLen(encodeVarIntLen(p.pktNum)) \in Nat
  BY HeaderParts
<1>3. Len(short) = 1 /\ Len(a) = 1
  OBVIOUS
<1>4. EncodeHeader(p) = IF p.type = "ONE_RTT" THEN short \o RemoteID \o Number(p)
                        ELSE (a \o v \o r \o l) \o b \o m \o Number(p)
  BY DEF EncodeHeader, ShortHeader, Initial, LongHeader
<1>5. HeaderEncodeLen(p) = IF p.type = "ONE_RTT" THEN 1 + 8 + n
                           ELSE 5 + 9 + 9 + encodeVarIntLen(0)
                                + encodeVarIntLen(encodeVarIntLen(p.pktNum)) + n
  BY HeaderParts, IdentifiersTyped DEF HeaderEncodeLen
<1>6. RemoteID \in Seq(Nat) /\ Len(RemoteID) = 8
  BY IdentifiersTyped
<1> HIDE DEF n, m, a, v, r, l, b, short
<1>7. /\ short \o RemoteID \in Seq(Nat) /\ Len(short \o RemoteID) = 1 + 8
      /\ a \o v \in Seq(Nat) /\ Len(a \o v) = 5
  <2>1. short \o RemoteID \in Seq(Nat) /\ Len(short \o RemoteID) = Len(short) + Len(RemoteID)
    BY <1>2, <1>6, Joined
  <2>2. a \o v \in Seq(Nat) /\ Len(a \o v) = Len(a) + Len(v)
    BY <1>2, Joined
  <2> QED
    BY <1>2, <1>3, <1>6, <2>1, <2>2
<1>8. /\ short \o RemoteID \o Number(p) \in Seq(Nat)
      /\ Len(short \o RemoteID \o Number(p)) = 1 + 8 + n
  BY <1>1, <1>7, Joined
<1>9. a \o v \o r \in Seq(Nat) /\ Len(a \o v \o r) = 5 + 9
  <2>1. a \o v \o r \in Seq(Nat) /\ Len(a \o v \o r) = Len(a \o v) + Len(r)
    BY <1>2, <1>7, Joined
  <2> QED
    BY <1>2, <1>7, <2>1
<1>10. a \o v \o r \o l \in Seq(Nat) /\ Len(a \o v \o r \o l) = 5 + 9 + 9
  BY <1>2, <1>9, Joined
<1>11. /\ (a \o v \o r \o l) \o b \in Seq(Nat)
       /\ Len((a \o v \o r \o l) \o b) = 5 + 9 + 9 + encodeVarIntLen(0)
  BY <1>2, <1>10, Joined
<1>12. /\ (a \o v \o r \o l) \o b \o m \in Seq(Nat)
       /\ Len((a \o v \o r \o l) \o b \o m) =
             5 + 9 + 9 + encodeVarIntLen(0) + encodeVarIntLen(encodeVarIntLen(p.pktNum))
  BY <1>2, <1>11, Joined
<1>13. /\ (a \o v \o r \o l) \o b \o m \o Number(p) \in Seq(Nat)
       /\ Len((a \o v \o r \o l) \o b \o m \o Number(p)) =
             5 + 9 + 9 + encodeVarIntLen(0) + encodeVarIntLen(encodeVarIntLen(p.pktNum)) + n
  BY <1>1, <1>12, Joined
<1>14. CASE p.type = "ONE_RTT"
  BY <1>4, <1>5, <1>8, <1>14
<1>15. CASE p.type # "ONE_RTT"
  BY <1>4, <1>5, <1>13, <1>15
<1> QED
  BY <1>14, <1>15

\* A packet takes the bytes that it announces, unless it holds a CRYPTO frame.
LEMMA PacketTyped ==
  ASSUME NEW p, IsPacket(p)
  PROVE  /\ PacketBytes(p) = EncodeHeader(p) \o FlattenSeq(FrameBytes(p.frames))
         /\ EncodeHeader(p) \in Seq(Nat) /\ FlattenSeq(FrameBytes(p.frames)) \in Seq(Nat)
         /\ PacketBytes(p) \in Seq(Nat) /\ PacketEncodeLen(p) \in Int
         /\ Intact(p) => PacketEncodeLen(p) = Len(PacketBytes(p))
<1> DEFINE fs == p.frames
           body == FlattenSeq(FrameBytes(fs))
           total == Total([k \in DOMAIN fs |-> FrameEncodeLen(fs[k])])
<1>1. fs \in Seq(Attached)
  BY DEF IsPacket, IsPayload
<1>2. /\ body \in Seq(Nat) /\ total \in Int
      /\ (\A k \in DOMAIN fs : fs[k].id # 6) => total = Len(body)
  <2> HIDE DEF fs
  <2> QED
    BY <1>1, FrameBytesTyped
<1>3. EncodeHeader(p) \in Seq(Nat) /\ Len(EncodeHeader(p)) = HeaderEncodeLen(p)
  BY HeaderTyped
<1>4. PacketEncodeLen(p) = HeaderEncodeLen(p) + total /\ PacketBytes(p) = EncodeHeader(p) \o body
  BY DEF PacketEncodeLen, PacketBytes, FrameBytes
<1>5. Intact(p) => \A k \in DOMAIN fs : fs[k].id # 6
  BY DEF Intact
<1> HIDE DEF body, total, fs
<1>6. PacketBytes(p) \in Seq(Nat) /\ Len(PacketBytes(p)) = Len(EncodeHeader(p)) + Len(body)
  BY <1>2, <1>3, <1>4, ConcatProperties
<1>7. HeaderEncodeLen(p) \in Int
  <2>1. Len(EncodeHeader(p)) \in Nat
    BY <1>3
  <2> QED
    BY <1>3, <2>1
<1>8. PacketEncodeLen(p) \in Int
  BY <1>2, <1>4, <1>7
<1>9. Intact(p) => PacketEncodeLen(p) = Len(PacketBytes(p))
  BY <1>2, <1>3, <1>4, <1>5, <1>6
<1> QED
  BY <1>2, <1>3, <1>4, <1>6, <1>8, <1>9 DEF body, fs

-----------------------------------------------------------------------------
(* What is attached, on its way and received.                              *)

\* The packets on their way hold frames that AttachFrame accepted, and what is received was
\* parsed from their buffers.
WireInv ==
  /\ IntervalInv
  /\ IsPayload(payload)
  /\ datagram # NoPacket => IsPacket(datagram.packet) /\ datagram.bytes = Buffer(datagram.packet)
  /\ received # NoPacket =>
       /\ IsPacket(received.sent)
       /\ Len(PacketBytes(received.sent)) <= PacketEncodeLen(received.sent)
       /\ received.parsed = ParsePacket(Buffer(received.sent))

\* The list of a set, in order, is what the constructor of an ACK frame is given.
LEMMA IntervalsAreRanges ==
  ASSUME IntervalInv, intervals # <<>>
  PROVE  intervals \in Seq(Interval) /\ IsRanges(intervals)
<1>1. /\ intervals \in Seq(Interval) /\ Normal(intervals)
      /\ numbers = Numbers(intervals) /\ numbers \in SUBSET (0 .. MaxNumber)
  BY DEF IntervalInv, List
<1>2. 1 \in DOMAIN intervals /\ intervals[1] \in Interval
  <2>1. Len(intervals) \in Nat \ {0} /\ DOMAIN intervals = 1 .. Len(intervals)
    BY <1>1, EmptySeq
  <2>2. 1 \in 1 .. Len(intervals)
    BY <2>1
  <2> QED
    BY <1>1, <2>1, <2>2, ElementOfSeq
<1>3. intervals[1].end \in 0 .. MaxNumber
  <2>1. intervals[1].end \in Members(intervals[1]) /\ intervals[1].end \in Nat
    BY <1>2, MembersAre
  <2> QED
    BY <1>1, <1>2, <2>1 DEF Numbers
<1>4. intervals[1].end \in VarInts
  <2>1. MaxNumber \in VarInts
    BY WireAssumption, MaxNumberAssumption DEF VarInts
  <2>2. intervals[1].end \in Nat /\ intervals[1].end <= MaxNumber
    BY <1>3, MaxNumberAssumption
  <2> QED
    BY <2>1, <2>2, VarIntBelow
<1> QED
  BY <1>1, <1>4 DEF IsRanges, Normal, VarInts

\* A frame more, behind frames that are not read to the end.
LEMMA PayloadGrows ==
  ASSUME NEW fs, IsPayload(fs), NEW f \in Attached, \A k \in DOMAIN fs : ~ReadsOn(fs[k])
  PROVE  IsPayload(Append(fs, f))
<1> DEFINE g == Append(fs, f)
           n == Len(fs)
<1>1. fs \in Seq(Attached)
  BY DEF IsPayload
<1>2. n \in Nat /\ DOMAIN fs = 1 .. n
  BY <1>1
<1>3. g \in Seq(Attached) /\ Len(g) = n + 1 /\ \A k \in 1 .. n : g[k] = fs[k]
  BY <1>1, AppendProperties
<1>4. DOMAIN g = 1 .. n + 1
  BY <1>3
<1> HIDE DEF g, n
<1>5. ASSUME NEW i \in DOMAIN g, NEW j \in DOMAIN g, i < j PROVE ~ReadsOn(g[i])
  <2>1. i \in 1 .. n
    BY <1>2, <1>4, <1>5
  <2> QED
    BY <1>2, <1>3, <2>1
<1> QED
  BY <1>3, <1>5 DEF IsPayload, g

\* It holds at the start,
LEMMA WireInvInit ==
  ASSUME WireInit
  PROVE  WireInv
<1>1. IntervalInv
  BY NumbersOfNothing, EmptyList DEF WireInit, IntervalInit, IntervalInv
<1>2. IsPayload(<<>>)
  <2>1. <<>> \in Seq(Attached) /\ DOMAIN <<>> = {}
    BY EmptySeq
  <2> QED
    BY <2>1 DEF IsPayload
<1> QED
  BY <1>1, <1>2 DEF WireInit, WireInv

\* every step keeps it,
LEMMA WireInvStep ==
  ASSUME WireInv, [WireNext]_wireVars
  PROVE  WireInv'
<1> USE DEF WireInv
<1>1. ASSUME IntervalNext, UNCHANGED packetVars
      PROVE  WireInv'
  <2>1. IntervalInv'
    BY <1>1, IntervalInvStep
  <2> QED
    BY <1>1, <2>1 DEF packetVars
<1>2. ASSUME NEW f \in Attached, AttachFrame(f)
      PROVE  WireInv'
  <2>1. IsPayload(payload')
    BY <1>2, PayloadGrows DEF AttachFrame
  <2>2. IntervalInv'
    BY <1>2 DEF AttachFrame, IntervalInv
  <2> QED
    BY <1>2, <2>1, <2>2 DEF AttachFrame
<1>3. ASSUME NEW type \in {"ONE_RTT", "INITIAL"}, NEW pktNum \in PktNums, SendPacket(type, pktNum)
      PROVE  WireInv'
  <2> DEFINE p == [type |-> type, pktNum |-> pktNum, frames |-> payload]
  <2>1. datagram' = [packet |-> p, bytes |-> Buffer(p)] /\ (type = "INITIAL" => pktNum < 63)
    BY <1>3 DEF SendPacket
  <2>2. IsPacket(p)
    BY <2>1 DEF IsPacket
  <2>3. datagram'.packet = p /\ datagram'.bytes = Buffer(p)
    BY <2>1
  <2>4. IsPayload(payload')
    BY <1>3, WireInvInit, EmptySeq DEF SendPacket, IsPayload
  <2>5. IntervalInv'
    BY <1>3 DEF SendPacket, IntervalInv
  <2>6. received' = received
    BY <1>3 DEF SendPacket
  <2> HIDE DEF p
  <2> QED
    BY <2>2, <2>3, <2>4, <2>5, <2>6
<1>4. CASE ReceivePacket
  <2>1. /\ datagram # NoPacket /\ datagram' = NoPacket /\ payload' = payload
        /\ Len(PacketBytes(datagram.packet)) <= PacketEncodeLen(datagram.packet)
        /\ received' = [sent |-> datagram.packet, parsed |-> ParsePacket(datagram.bytes)]
    BY <1>4 DEF ReceivePacket
  <2>2. received'.sent = datagram.packet /\ received'.parsed = ParsePacket(datagram.bytes)
    BY <2>1
  <2>3. IsPacket(datagram.packet) /\ datagram.bytes = Buffer(datagram.packet)
    BY <2>1
  <2>4. IntervalInv'
    BY <1>4 DEF ReceivePacket, IntervalInv
  <2> QED
    BY <2>1, <2>2, <2>3, <2>4
<1>5. CASE FinishPacket
  <2>1. IntervalInv'
    BY <1>5 DEF FinishPacket, IntervalInv
  <2> QED
    BY <1>5, <2>1 DEF FinishPacket
<1>6. CASE UNCHANGED wireVars
  <2>1. IntervalInv'
    BY <1>6 DEF wireVars, IntervalInv
  <2> QED
    BY <1>6, <2>1 DEF wireVars
<1>7. ASSUME NEW f \in Frames, AttachFrame(f) PROVE WireInv'
  <2>1. f \in Attached
    BY DEF Attached
  <2> QED
    BY <1>2, <1>7, <2>1
<1>8. ASSUME NEW delay \in Delays, intervals # <<>>, AttachFrame(AckFrame(delay, intervals))
      PROVE  WireInv'
  <2>1. AckFrame(delay, intervals) \in Attached
    BY <1>8, IntervalsAreRanges DEF Attached
  <2> QED
    BY <1>2, <1>8, <2>1
<1>9. CASE WireNext
  BY <1>1, <1>3, <1>4, <1>5, <1>7, <1>8, <1>9 DEF WireNext
<1> QED
  BY <1>6, <1>9

\* and so it always holds.
LEMMA WireInvAlways == WireSpec => []WireInv
<1>1. WireInit => WireInv
  BY WireInvInit
<1>2. WireInv /\ [WireNext]_wireVars => WireInv'
  BY WireInvStep
<1> QED
  BY <1>1, <1>2, PTL DEF WireSpec

\* The buffer of a packet is filled to its last byte: what EncodeLen announces is what
\* Encode writes, whatever the frames, the numbers and the set of numbers acknowledged.
THEOREM BufferIsFilled == WireSpec => []LengthsAgree
<1>1. WireInv => LengthsAgree
  BY PacketTyped DEF WireInv, LengthsAgree
<1> QED
  BY <1>1, WireInvAlways, PTL

-----------------------------------------------------------------------------
(* Reading what was written.                                               *)

\* A cursor that has not been past the end.
At(left, got) == Reading(left, got, TRUE)

\* Its parts,
LEMMA AtIs ==
  ASSUME NEW left, NEW got
  PROVE  /\ At(left, got).left = left /\ At(left, got).got = got
         /\ At(left, got).ok /\ At(left, got).ok = TRUE
BY DEF At, Reading

\* with other values in its hand,
LEMMA HoldingIs ==
  ASSUME NEW left, NEW got, NEW g
  PROVE  Holding(At(left, got), g) = At(left, g)
BY DEF At, Reading, Holding

\* What is in front, and what is behind it.
LEMMA InFrontOf ==
  ASSUME NEW v \in Seq(Nat), NEW r \in Seq(Nat)
  PROVE  /\ v \o r \in Seq(Nat) /\ Len(v \o r) \in Nat /\ Len(v) \in Nat /\ Len(v) <= Len(v \o r)
         /\ SubSeq(v \o r, 1, Len(v)) = v
         /\ SubSeq(v \o r, Len(v) + 1, Len(v \o r)) = r
<1> DEFINE n == Len(v)
           m == Len(r)
           s == v \o r
<1>1. n \in Nat /\ m \in Nat
  OBVIOUS
<1>2. /\ s \in Seq(Nat) /\ Len(s) = n + m
      /\ \A i \in 1 .. n + m : s[i] = IF i <= n THEN v[i] ELSE r[i - n]
  BY ConcatProperties
<1>3. \A i \in 1 .. n + m : s[i] \in Nat
  BY <1>2, ElementOfSeq
<1> HIDE DEF n, m, s
<1>4. SubSeq(s, 1, n) = v
  <2>1. \A i \in 1 .. n : s[i] \in Nat
    BY <1>1, <1>3
  <2>2. /\ SubSeq(s, 1, n) \in Seq(Nat) /\ Len(SubSeq(s, 1, n)) = (IF 1 <= n THEN n - 1 + 1 ELSE 0)
        /\ \A i \in 1 .. n - 1 + 1 : SubSeq(s, 1, n)[i] = s[1 + i - 1]
    BY <1>1, <2>1, SubSeqProperties
  <2>3. Len(SubSeq(s, 1, n)) = Len(v) /\ Len(v) = n
    BY <1>1, <2>2 DEF n
  <2>4. \A i \in 1 .. n : SubSeq(s, 1, n)[i] = v[i]
    BY <1>1, <1>2, <2>2
  <2> QED
    BY <2>2, <2>3, <2>4, SeqEqual
<1>5. SubSeq(s, n + 1, n + m) = r
  <2>1. \A i \in n + 1 .. n + m : s[i] \in Nat
    BY <1>1, <1>3
  <2>2. n + 1 \in Int /\ n + m \in Int
    BY <1>1
  <2> DEFINE t == SubSeq(s, n + 1, n + m)
  <2>3. /\ t \in Seq(Nat)
        /\ Len(t) = (IF n + 1 <= n + m THEN (n + m) - (n + 1) + 1 ELSE 0)
        /\ \A i \in 1 .. (n + m) - (n + 1) + 1 : t[i] = s[(n + 1) + i - 1]
    BY <2>1, <2>2, SubSeqProperties
  <2> HIDE DEF t
  <2>4. Len(t) = Len(r) /\ Len(r) = m
    BY <1>1, <2>3 DEF m
  <2>5. ASSUME NEW i \in 1 .. m PROVE t[i] = r[i]
    <3>1. i \in 1 .. (n + m) - (n + 1) + 1 /\ (n + 1) + i - 1 = n + i
      BY <1>1
    <3>2. n + i \in 1 .. n + m /\ ~(n + i <= n) /\ (n + i) - n = i
      BY <1>1
    <3>3. s[n + i] = r[i]
      BY <1>2, <3>2
    <3> QED
      BY <2>3, <3>1, <3>3
  <2>6. t = r
    BY <2>3, <2>4, <2>5, SeqEqual
  <2> QED
    BY <2>6 DEF t
<1>6. n <= n + m /\ n + m \in Nat
  BY <1>1
<1> QED
  BY <1>1, <1>2, <1>4, <1>5, <1>6 DEF n, s

\* Taking what is in front.
LEMMA ConsumeFront ==
  ASSUME NEW v \in Seq(Nat), NEW r \in Seq(Nat), NEW g
  PROVE  Consume(At(v \o r, g), Len(v)) = At(r, g)
<1> DEFINE s == v \o r
<1>1. Len(v) <= Len(s) /\ SubSeq(s, Len(v) + 1, Len(s)) = r
  BY InFrontOf
<1> HIDE DEF s
<1>2. Consume(At(s, g), Len(v)) = Reading(r, g, At(s, g).ok /\ Len(v) <= Len(s))
  BY <1>1, AtIs DEF Consume
<1>3. (At(s, g).ok /\ Len(v) <= Len(s)) = TRUE
  BY <1>1, AtIs, Zenon
<1>4. Consume(At(s, g), Len(v)) = At(r, g)
  BY <1>2, <1>3, Zenon DEF At
<1> QED
  BY <1>4 DEF s

\* A value is put behind those that were read.
LEMMA GotIs ==
  ASSUME NEW left, NEW g, NEW v
  PROVE  Got(At(left, g), v) = At(left, Append(g, v))
<1>1. At(left, g).got = g
  BY AtIs
<1>2. Got(At(left, g), v) = Holding(At(left, g), Append(g, v))
  BY <1>1 DEF Got
<1> QED
  BY <1>2, HoldingIs

\* Joining strings of bytes is associative.
LEMMA JoinedInOrder ==
  ASSUME NEW s \in Seq(Nat), NEW t \in Seq(Nat), NEW u \in Seq(Nat)
  PROVE  (s \o t) \o u = s \o (t \o u)
BY ConcatAssociative

\* As many bytes as were written are read as they were.
LEMMA ReadBytesReads ==
  ASSUME NEW v \in Seq(Nat), NEW r \in Seq(Nat), NEW g
  PROVE  ReadBytes(At(v \o r, g), Len(v)) = At(r, Append(g, v))
<1> DEFINE c == At(v \o r, g)
<1>1. c.left = v \o r
  BY AtIs
<1>2. SubSeq(v \o r, 1, Len(v)) = v
  BY InFrontOf
<1>3. Consume(c, Len(v)) = At(r, g)
  BY ConsumeFront
<1> HIDE DEF c
<1>4. ReadBytes(c, Len(v)) = Got(At(r, g), v)
  BY <1>1, <1>2, <1>3 DEF ReadBytes
<1> QED
  BY <1>4, GotIs DEF c

\* The bytes of an integer have its value.
Values(f, b) == f = [k \in 0 .. Len(b) |-> IF k = 0 THEN 0 ELSE 256 * f[k - 1] + b[k]]

\* decodeUint is what some such function ends with.
LEMMA DecodeChosen ==
  ASSUME NEW b
  PROVE  decodeUint(b) = (CHOOSE f : Values(f, b))[Len(b)]
BY DEF decodeUint, Values

\* The bytes of an integer that fits in them are decoded to that integer,
LEMMA DecodeUInt ==
  ASSUME NEW v \in Nat, NEW n \in Nat, Shifted(v, n) = 0
  PROVE  decodeUint(encodeUInt(v, n)) = v
<1>0. \A j \in Nat : Shifted(v, j) \in Nat /\ Shifted(v, j + 1) = Shifted(v, j) \div 256
  BY ShiftedIs
<1> DEFINE b == encodeUInt(v, n)
           g == [k \in 0 .. n |-> Shifted(v, n - k)]
           f == CHOOSE h : Values(h, b)
<1>1. Len(b) = n /\ \A k \in 1 .. n : b[k] = Shifted(v, n - k) % 256
  BY UIntTyped
<1> HIDE DEF b
<1>2. ASSUME NEW k \in 0 .. n
      PROVE  g[k] = IF k = 0 THEN 0 ELSE 256 * g[k - 1] + b[k]
  <2>1. CASE k = 0
    BY <2>1
  <2>2. CASE k # 0
    <3> PICK j \in Nat : j = n - k
      OBVIOUS
    <3>1. k - 1 \in 0 .. n /\ n - (k - 1) = j + 1 /\ k \in 1 .. n
      BY <2>2
    <3>2. Shifted(v, j) \in Nat /\ Shifted(v, j + 1) = Shifted(v, j) \div 256
      BY <1>0
    <3>3. g[k] = Shifted(v, j) /\ g[k - 1] = Shifted(v, j + 1)
      BY <3>1
    <3>4. b[k] = Shifted(v, j) % 256
      BY <1>1, <3>1
    <3> HIDE DEF g
    <3>5. \A x \in Nat : x = 256 * (x \div 256) + (x % 256)
      OBVIOUS
    <3> QED
      BY <2>2, <3>2, <3>3, <3>4, <3>5
  <2> QED
    BY <2>1, <2>2
<1>3. Values(g, b)
  BY <1>1, <1>2 DEF Values
<1>4. Values(f, b)
  BY <1>3
<1>5. decodeUint(b) = f[n]
  BY <1>1, DecodeChosen
<1>6. g[n] = v /\ g[0] = 0
  <2>1. g[n] = Shifted(v, n - n) /\ n - n = 0 /\ g[0] = Shifted(v, n - 0) /\ n - 0 = n
    OBVIOUS
  <2> QED
    BY <2>1, ShiftedIs
<1> HIDE DEF f, g
<1>7. \A k \in 0 .. n : f[k] = IF k = 0 THEN 0 ELSE 256 * f[k - 1] + b[k]
  BY <1>1, <1>4 DEF Values
<1>8. ASSUME NEW k \in 0 .. n - 1, f[k] = g[k] PROVE f[k + 1] = g[k + 1]
  <2>1. k + 1 \in 0 .. n /\ k + 1 # 0 /\ (k + 1) - 1 = k
    OBVIOUS
  <2> QED
    BY <1>2, <1>7, <1>8, <2>1
<1>9. Alike(f, g, 0, n)
  <2>1. f[0] = g[0]
    BY <1>6, <1>7
  <2> QED
    BY <1>8, <2>1 DEF Alike
<1>10. f[n] = g[n]
  <2>1. 0 \in Nat /\ n \in 0 .. n
    OBVIOUS
  <2> QED
    BY <1>9, <2>1, LoopsAgree
<1> QED
  BY <1>5, <1>6, <1>10 DEF b

\* also by a cursor.
LEMMA ReadUintReads ==
  ASSUME NEW v \in Nat, NEW n \in Nat, Shifted(v, n) = 0, NEW r \in Seq(Nat), NEW g
  PROVE  ReadUint(At(encodeUInt(v, n) \o r, g), n) = At(r, Append(g, v))
<1> DEFINE b == encodeUInt(v, n)
<1>1. b \in Seq(Nat) /\ Len(b) = n
  BY UIntTyped
<1>2. decodeUint(b) = v
  BY DecodeUInt
<1> HIDE DEF b
<1>3. At(b \o r, g).left = b \o r
  BY AtIs
<1>4. SubSeq(b \o r, 1, n) = b /\ Consume(At(b \o r, g), n) = At(r, g)
  BY <1>1, InFrontOf, ConsumeFront
<1>5. ReadUint(At(b \o r, g), n) = Got(Consume(At(b \o r, g), n), decodeUint(SubSeq(At(b \o r, g).left, 1, n)))
  BY DEF ReadUint
<1>6. ReadUint(At(b \o r, g), n) = Got(At(r, g), v)
  BY <1>2, <1>3, <1>4, <1>5
<1> QED
  BY <1>6, GotIs DEF b

\* The bytes that a variable-length integer is written in hold it, and leave the two
\* highest bits free.
LEMMA TopByte ==
  ASSUME NEW v \in VarInts
  PROVE  /\ Shifted(v, encodeVarIntLen(v) - 1) < 64 /\ Shifted(v, encodeVarIntLen(v) - 1) \in Nat
         /\ Shifted(v, encodeVarIntLen(v)) = 0
<1> DEFINE n == encodeVarIntLen(v)
<1>0. v \in Nat /\ Shifted(v + 1, 7) < 64 /\ v + 1 \in Nat /\ v <= v + 1
  BY DEF VarInts, IsVarInt
<1>1. /\ EncodeIndex(v) \in 1 .. 4 /\ n = VarIntSizes[EncodeIndex(v)] /\ n \in {1, 2, 4, 8}
  BY <1>0, VarIntTyped
<1>2. \A k \in Nat : Shifted(v, k) \in Nat /\ Shifted(v, k + 1) = Shifted(v, k) \div 256
  BY <1>0, ShiftedIs
<1>3. Shifted(v, 0) = v
  BY <1>0, ShiftedIs
<1> HIDE DEF n
<1>4. Shifted(v, n - 1) < 64
  <2>1. CASE v < 63
    <3>1. n - 1 = 0
      BY <1>0, <1>1, <2>1, SizeOf DEF VarIntSizes
    <3>2. Shifted(v, n - 1) = v
      BY <1>3, <3>1
    <3> QED
      BY <1>0, <2>1, <3>2
  <2>2. CASE 63 <= v /\ v < 16383
    <3>1. n - 1 = 0 + 1
      BY <1>0, <1>1, <2>2, SizeOf DEF VarIntSizes
    <3>2. Shifted(v, 0 + 1) = v \div 256
      BY <1>2, <1>3
    <3> QED
      BY <1>0, <2>2, <3>1, <3>2
  <2>3. CASE 16383 <= v /\ v < 1073741823
    <3>1. n - 1 = 2 + 1
      BY <1>0, <1>1, <2>3, SizeOf DEF VarIntSizes
    <3> DEFINE x == Shifted(v, 1)
               y == Shifted(v, 2)
               z == Shifted(v, 3)
    <3>2. /\ x = v \div 256 /\ y = x \div 256 /\ z = y \div 256
          /\ x \in Nat /\ y \in Nat /\ z \in Nat
      <4>1. Shifted(v, 0 + 1) = Shifted(v, 0) \div 256 /\ Shifted(v, 1 + 1) = Shifted(v, 1) \div 256
        BY <1>2
      <4>2. Shifted(v, 2 + 1) = Shifted(v, 2) \div 256
        BY <1>2
      <4>3. x \in Nat /\ y \in Nat /\ z \in Nat
        BY <1>2
      <4> QED
        BY <1>3, <4>1, <4>2, <4>3
    <3> HIDE DEF x, y, z
    <3>3. x < 4194304
      BY <1>0, <2>3, <3>2
    <3>4. y < 16384
      BY <3>2, <3>3
    <3>5. z < 64
      BY <3>2, <3>4
    <3> QED
      BY <3>1, <3>5 DEF z
  <2>4. CASE 1073741823 <= v
    <3>1. n - 1 = 7
      BY <1>0, <1>1, <2>4, SizeOf DEF VarIntSizes
    <3>2. Shifted(v, 7) <= Shifted(v + 1, 7) /\ Shifted(v + 1, 7) \in Nat /\ Shifted(v, 7) \in Nat
      BY <1>0, <1>2, ShiftedMonotone, ShiftedIs
    <3> QED
      BY <1>0, <3>1, <3>2
  <2> QED
    BY <1>0, <2>1, <2>2, <2>3, <2>4
<1>5. Shifted(v, n) = 0 /\ Shifted(v, n - 1) \in Nat
  <2>1. n - 1 \in Nat /\ (n - 1) + 1 = n
    BY <1>1
  <2>2. Shifted(v, n - 1) \in Nat
    BY <1>2, <2>1
  <2>3. Shifted(v, (n - 1) + 1) = Shifted(v, n - 1) \div 256
    BY <1>2, <2>1
  <2>4. \A a \in Nat : a < 64 => a \div 256 = 0
    OBVIOUS
  <2> QED
    BY <1>4, <2>1, <2>2, <2>3, <2>4
<1> QED
  BY <1>4, <1>5 DEF n

\* A sequence is its first element and the others.
LEMMA FirstAndRest ==
  ASSUME NEW S, NEW s \in Seq(S), s # <<>>
  PROVE  s = <<s[1]>> \o Tail(s) /\ s[1] \in S /\ Tail(s) \in Seq(S) /\ Len(Tail(s)) = Len(s) - 1
<1>1. Len(s) \in Nat \ {0}
  BY EmptySeq
<1>2. 1 \in 1 .. Len(s) /\ Len(s) \in 1 .. Len(s)
  BY <1>1
<1>3. s[1] \in S
  BY <1>2, ElementOfSeq
<1>4. Tail(s) \in Seq(S) /\ Len(Tail(s)) = Len(s) - 1
  BY HeadTailProperties
<1>5. SubSeq(s, 1, Len(s)) = <<s[1]>> \o SubSeq(s, 2, Len(s))
  <2>1. SubSeq(s, 1, Len(s)) = <<s[1]>> \o SubSeq(s, 1 + 1, Len(s))
    BY <1>2, SubSeqRecursiveFirst
  <2> QED
    BY <2>1
<1> QED
  BY <1>3, <1>4, <1>5, SubSeqFull, TailIsSubSeq

\* What encodeVarInt wrote decodeVarInt reads, and no byte more.
LEMMA DecodeVarIntReads ==
  ASSUME NEW v \in VarInts, NEW r \in Seq(Nat), NEW g
  PROVE  decodeVarInt(At(encodeVarInt(v) \o r, g)) = At(r, Append(g, v))
<1> DEFINE i == EncodeIndex(v)
           n == encodeVarIntLen(v)
           b == encodeUInt(v, n)
           w == encodeVarInt(v)
           s == w \o r
           y == b[1] + 64 * (i - 1)
<1>0. v \in Nat
  BY DEF VarInts
<1>1. /\ i \in 1 .. 4 /\ n = VarIntSizes[i] /\ n \in {1, 2, 4, 8} /\ n \in Nat
      /\ w \in Seq(Nat) /\ Len(w) = n
  BY <1>0, VarIntTyped
<1>2. b \in Seq(Nat) /\ Len(b) = n /\ \A k \in 1 .. n : b[k] = Shifted(v, n - k) % 256
  <2> HIDE DEF n
  <2> QED
    BY <1>0, <1>1, UIntTyped
<1>3. w = <<y>> \o Tail(b)
  BY DEF encodeVarInt, encodeVarIntLen
<1>4. Shifted(v, n - 1) < 64 /\ Shifted(v, n - 1) \in Nat /\ Shifted(v, n) = 0
  BY TopByte
<1>5. decodeUint(b) = v
  <2> HIDE DEF n
  <2> QED
    BY <1>0, <1>1, <1>4, DecodeUInt
<1> HIDE DEF i, n, b, w
<1>6. b # <<>> /\ 1 \in 1 .. n
  BY <1>1, <1>2
<1>7. b[1] \in 0 .. 63
  <2>1. b[1] = Shifted(v, n - 1) % 256
    BY <1>2, <1>6
  <2>2. PICK x \in Nat : x = Shifted(v, n - 1) /\ x < 64
    BY <1>4, Zenon
  <2>3. b[1] = x % 256
    BY <2>1, <2>2, Zenon
  <2>4. \A a \in Nat : a < 64 => a % 256 \in 0 .. 63
    OBVIOUS
  <2>5. x % 256 \in 0 .. 63
    BY <2>2, <2>4, Zenon
  <2> QED
    BY <2>3, <2>5, Zenon
<1>8. b = <<b[1]>> \o Tail(b) /\ Tail(b) \in Seq(Nat) /\ Len(Tail(b)) = n - 1
  BY <1>2, <1>6, FirstAndRest
<1>9. y \in Nat /\ y \div 64 = i - 1 /\ y % 64 = b[1]
  <2>1. \A a \in 0 .. 63 : \A j \in 1 .. 4 :
          a + 64 * (j - 1) \in Nat /\ (a + 64 * (j - 1)) \div 64 = j - 1 /\ (a + 64 * (j - 1)) % 64 = a
    OBVIOUS
  <2> QED
    BY <1>1, <1>7, <2>1
<1> HIDE DEF y
<1>10. w[1] = y /\ \A k \in 1 .. n - 1 : w[k + 1] = Tail(b)[k]
  <2>1. <<y>> \in Seq(Nat) /\ Len(<<y>>) = 1 /\ <<y>>[1] = y
    BY <1>9
  <2>2. \A k \in 1 .. 1 + (n - 1) : w[k] = IF k <= 1 THEN <<y>>[k] ELSE Tail(b)[k - 1]
    BY <1>3, <1>8, <2>1, ConcatProperties
  <2>3. w[1] = y
    <3>1. 1 \in 1 .. 1 + (n - 1) /\ 1 <= 1
      BY <1>1
    <3> QED
      BY <2>1, <2>2, <3>1
  <2>4. ASSUME NEW k \in 1 .. n - 1 PROVE w[k + 1] = Tail(b)[k]
    <3>1. k + 1 \in 1 .. 1 + (n - 1) /\ ~(k + 1 <= 1) /\ (k + 1) - 1 = k
      BY <1>1
    <3> QED
      BY <2>2, <3>1
  <2> QED
    BY <2>3, <2>4
<1>11. /\ s \in Seq(Nat) /\ Len(s) \in Nat /\ n <= Len(s)
       /\ \A k \in 1 .. n : s[k] = w[k] /\ s[k] \in Nat
  <2>1. /\ s \in Seq(Nat) /\ Len(s) = Len(w) + Len(r)
        /\ \A k \in 1 .. Len(w) + Len(r) : s[k] = IF k <= Len(w) THEN w[k] ELSE r[k - Len(w)]
    BY <1>1, ConcatProperties
  <2>2. \A k \in 1 .. n : w[k] \in Nat
    BY <1>1, ElementOfSeq
  <2>3. Len(r) \in Nat
    OBVIOUS
  <2> HIDE DEF s
  <2>4. Len(s) = n + Len(r) /\ \A k \in 1 .. n + Len(r) : s[k] = IF k <= n THEN w[k] ELSE r[k - n]
    BY <1>1, <2>1
  <2>5. Len(s) \in Nat /\ n <= Len(s)
    BY <1>1, <2>3, <2>4
  <2>6. \A k \in 1 .. n : k \in 1 .. n + Len(r) /\ k <= n
    BY <1>1, <2>3
  <2> QED
    BY <2>1, <2>2, <2>4, <2>5, <2>6
<1>12. Consume(At(s, g), n) = At(r, g)
  BY <1>1, ConsumeFront
<1> HIDE DEF s
<1>13. s # <<>> /\ s[1] = y
  BY <1>1, <1>6, <1>10, <1>11
<1>14. SubSeq(s, 2, n) = Tail(b)
  <2>1. 2 \in Int /\ n \in Int /\ \A k \in 2 .. n : s[k] \in Nat
    BY <1>1, <1>11
  <2> DEFINE t == SubSeq(s, 2, n)
  <2>2. /\ t \in Seq(Nat) /\ Len(t) = (IF 2 <= n THEN n - 2 + 1 ELSE 0)
        /\ \A k \in 1 .. n - 2 + 1 : t[k] = s[2 + k - 1]
    BY <2>1, SubSeqProperties
  <2> HIDE DEF t
  <2>3. Len(t) = n - 1
    BY <1>1, <2>2
  <2>4. ASSUME NEW k \in 1 .. n - 1 PROVE t[k] = Tail(b)[k]
    <3>1. k \in 1 .. n - 2 + 1 /\ 2 + k - 1 = k + 1 /\ k + 1 \in 1 .. n
      BY <1>1
    <3> QED
      BY <1>10, <1>11, <2>2, <3>1
  <2>5. t = Tail(b)
    BY <1>8, <2>2, <2>3, <2>4, SeqEqual
  <2> QED
    BY <2>5 DEF t
<1>15. At(s, g).left = s
  BY AtIs
<1>16. VarIntSizes[1 + s[1] \div 64] = n
  BY <1>1, <1>9, <1>13
<1>17. <<s[1] % 64>> \o SubSeq(s, 2, n) = b
  BY <1>8, <1>9, <1>13, <1>14
<1>18. decodeVarInt(At(s, g)) = Got(At(r, g), v)
  BY <1>5, <1>12, <1>13, <1>15, <1>16, <1>17 DEF decodeVarInt
<1> QED
  BY <1>18, GotIs DEF s, w

\* The number of bytes that was read last is taken away again.
LEMMA LastAway ==
  ASSUME NEW S, NEW g \in Seq(S), NEW e
  PROVE  /\ SubSeq(Append(g, e), 1, Len(Append(g, e)) - 1) = g
         /\ Append(g, e)[Len(Append(g, e))] = e
<1> DEFINE T == S \cup {e}
           n == Len(g)
           h == Append(g, e)
<1>1. g \in Seq(T) /\ e \in T /\ n \in Nat
  <2>1. S \subseteq T
    OBVIOUS
  <2> QED
    BY <2>1, SeqMonotonic
<1>2. h \in Seq(T) /\ Len(h) = n + 1 /\ h[n + 1] = e /\ \A i \in 1 .. n : h[i] = g[i]
  <2> HIDE DEF T
  <2> QED
    BY <1>1, AppendProperties
<1> DEFINE t == SubSeq(h, 1, n)
<1> HIDE DEF T, h
<1>3. \A i \in 1 .. n : h[i] \in T
  BY <1>1, <1>2, ElementOfSeq
<1>4. /\ t \in Seq(T) /\ Len(t) = (IF 1 <= n THEN n - 1 + 1 ELSE 0)
      /\ \A i \in 1 .. n - 1 + 1 : t[i] = h[1 + i - 1]
  <2>1. 1 \in Int /\ n \in Int
    BY <1>1
  <2> QED
    BY <1>3, <2>1, SubSeqProperties
<1> HIDE DEF t, n
<1>5. Len(t) = n /\ \A i \in 1 .. n : t[i] = g[i]
  BY <1>1, <1>2, <1>4
<1>6. t = g
  BY <1>1, <1>4, <1>5, SeqEqual DEF n
<1>7. Len(h) - 1 = n
  BY <1>1, <1>2
<1> QED
  BY <1>2, <1>6, <1>7 DEF t, h

\* Bytes after their number are read as they were.
LEMMA ReadCountedReads ==
  ASSUME NEW v \in Seq(Nat), NEW r \in Seq(Nat), NEW S, NEW g \in Seq(S)
  PROVE  ReadCounted(At(v \o r, Append(g, Len(v)))) = At(r, Append(g, v))
<1> DEFINE h == Append(g, Len(v))
           c == At(v \o r, h)
<1>1. c.got = h /\ c.ok
  BY AtIs
<1>2. SubSeq(h, 1, Len(h) - 1) = g /\ h[Len(h)] = Len(v)
  BY LastAway
<1>3. Holding(c, g) = At(v \o r, g)
  BY HoldingIs
<1> HIDE DEF c, h
<1>4. ReadCounted(c) = ReadBytes(Holding(c, g), Len(v))
  BY <1>1, <1>2 DEF ReadCounted, LastGot
<1> QED
  BY <1>3, <1>4, ReadBytesReads DEF c, h

\* A field is read as it was written.
LEMMA ReadFieldReads ==
  ASSUME NEW kind \in Kinds, NEW v, IsValue(kind, v), NEW r \in Seq(Nat),
         kind = "rest" => r = <<>>, NEW S, NEW g \in Seq(S)
  PROVE  ReadField(At(Written(kind, v) \o r, g), kind) = At(r, Append(g, v))
<1> DEFINE c == At(Written(kind, v) \o r, g)
<1>0. c.ok
  BY AtIs
<1>1. CASE kind = "var"
  <2>1. v \in VarInts /\ Written(kind, v) = encodeVarInt(v)
    BY <1>1 DEF IsValue, VarInts, IsVarInt, Written
  <2>2. ReadField(c, kind) = decodeVarInt(c)
    BY <1>0, <1>1 DEF ReadField
  <2> QED
    BY <2>1, <2>2, DecodeVarIntReads
<1>2. CASE kind = "uint64"
  <2>1. v \in Nat /\ Shifted(v, 8) = 0 /\ Written(kind, v) = encodeUInt(v, 8)
    BY <1>2 DEF IsValue, Written
  <2>2. ReadField(c, kind) = ReadUint(c, 8)
    BY <1>0, <1>2 DEF ReadField
  <2>3. ReadUint(At(encodeUInt(v, 8) \o r, g), 8) = At(r, Append(g, v))
    BY <2>1, ReadUintReads
  <2> QED
    BY <2>1, <2>2, <2>3
<1>3. CASE kind = "block"
  <2>1. v \in Seq(Nat) /\ Len(v) \in VarInts /\ Written(kind, v) = encodeVarInt(Len(v)) \o v
    BY <1>3, BytesAreNumbers DEF IsValue, VarInts, IsVarInt, Written
  <2>2. ReadField(c, kind) = ReadCounted(decodeVarInt(c))
    BY <1>0, <1>3 DEF ReadField
  <2>3. (encodeVarInt(Len(v)) \o v) \o r = encodeVarInt(Len(v)) \o (v \o r) /\ v \o r \in Seq(Nat)
    <3>1. encodeVarInt(Len(v)) \in Seq(Nat)
      BY <2>1, VarIntTyped
    <3> QED
      BY <2>1, <3>1, ConcatAssociative, Joined
  <2>4. decodeVarInt(c) = At(v \o r, Append(g, Len(v)))
    BY <2>1, <2>3, DecodeVarIntReads
  <2> QED
    BY <2>1, <2>2, <2>4, ReadCountedReads
<1>4. CASE kind = "rest"
  <2>1. v \in Seq(Nat) /\ Written(kind, v) = v /\ r = <<>>
    BY <1>4, BytesAreNumbers DEF IsValue, Written
  <2>2. ReadField(c, kind) = ReadBytes(c, Len(c.left))
    BY <1>0, <1>4 DEF ReadField
  <2>3. c.left = v \o r
    <3>1. c.left = Written(kind, v) \o r
      BY AtIs
    <3> HIDE DEF c
    <3> QED
      BY <2>1, <3>1
  <2>4. v \o r = v
    BY <2>1, ConcatEmptySeq
  <2>5. ReadBytes(At(v \o r, g), Len(v)) = At(r, Append(g, v))
    BY <2>1, ReadBytesReads
  <2>6. ReadField(c, kind) = ReadBytes(c, Len(v))
    BY <2>2, <2>3, <2>4
  <2> QED
    BY <2>1, <2>5, <2>6
<1>5. CASE kind = "id"
  <2>1. v \in Seq(Nat) /\ Len(v) \in 0 .. 255 /\ Written(kind, v) = encodeUInt(Len(v), 1) \o v
    BY <1>5, BytesAreNumbers DEF IsValue, Written, Byte
  <2>2. ReadField(c, kind) = ReadCounted(ReadUint(c, 1))
    BY <1>0, <1>5 DEF ReadField
  <2>3. (encodeUInt(Len(v), 1) \o v) \o r = encodeUInt(Len(v), 1) \o (v \o r) /\ v \o r \in Seq(Nat)
    <3>1. encodeUInt(Len(v), 1) \in Seq(Nat)
      BY <2>1, UIntTyped
    <3>3. (encodeUInt(Len(v), 1) \o v) \o r = encodeUInt(Len(v), 1) \o (v \o r)
      <4> DEFINE e == encodeUInt(Len(v), 1)
      <4>1. e \in Seq(Nat) /\ v \in Seq(Nat) /\ r \in Seq(Nat)
        BY <2>1, <3>1
      <4> HIDE DEF e
      <4>2. (e \o v) \o r = e \o (v \o r)
        BY <4>1, JoinedInOrder, Zenon
      <4> QED
        BY <4>2 DEF e
    <3> QED
      BY <2>1, <3>3, Joined
  <2>4. Shifted(Len(v), 1) = 0
    <3> PICK x \in 0 .. 255 : x = Len(v)
      BY <2>1
    <3>1. x \in Nat /\ 0 \in Nat
      OBVIOUS
    <3>2. Shifted(x, 0) = x
      BY <3>1, ShiftedIs
    <3>3. Shifted(x, 0 + 1) = Shifted(x, 0) \div 256
      BY <3>1, ShiftedNext
    <3>4. \A a \in 0 .. 255 : a \div 256 = 0
      OBVIOUS
    <3>5. Shifted(x, 0 + 1) = 0
      BY <3>2, <3>3, <3>4, Zenon
    <3>6. 0 + 1 = 1
      OBVIOUS
    <3>7. Shifted(x, 1) = 0
      BY <3>5, <3>6
    <3> QED
      BY <3>7
  <2>5. ReadUint(c, 1) = At(v \o r, Append(g, Len(v)))
    <3>1. Len(v) \in Nat /\ 1 \in Nat
      BY <2>1
    <3>2. ReadUint(At(encodeUInt(Len(v), 1) \o (v \o r), g), 1) = At(v \o r, Append(g, Len(v)))
      BY <2>3, <2>4, <3>1, ReadUintReads
    <3> QED
      BY <2>1, <2>3, <3>2
  <2> QED
    BY <2>1, <2>2, <2>5, ReadCountedReads
<1>6. CASE kind = "token"
  <2>1. v \in Seq(Nat) /\ Written(kind, v) = v /\ Len(v) = 16
    BY <1>6, BytesAreNumbers DEF IsValue, Written
  <2>2. ReadField(c, kind) = ReadBytes(c, 16)
    BY <1>0, <1>6 DEF ReadField
  <2> QED
    BY <2>1, <2>2, ReadBytesReads
<1> QED
  BY <1>1, <1>2, <1>3, <1>4, <1>5, <1>6 DEF Kinds

\* What lies behind the first k parts.
Behind(ss, k) == FlattenSeq(SubSeq(ss, k + 1, Len(ss)))

\* Behind none there are all, behind all there is nothing, and each part is in front of
\* what lies behind it.
LEMMA BehindIs ==
  ASSUME NEW ss \in Seq(Seq(Nat))
  PROVE  /\ Behind(ss, 0) = FlattenSeq(ss) /\ Behind(ss, Len(ss)) = <<>>
         /\ \A k \in 0 .. Len(ss) : Behind(ss, k) \in Seq(Nat)
         /\ \A k \in 1 .. Len(ss) : ss[k] \in Seq(Nat) /\ Behind(ss, k - 1) = ss[k] \o Behind(ss, k)
<1> DEFINE n == Len(ss)
<1>1. n \in Nat
  OBVIOUS
<1>2. \A k \in 1 .. n : ss[k] \in Seq(Nat)
  BY ElementOfSeq
<1>3. \A k \in 0 .. n : SubSeq(ss, k + 1, n) \in Seq(Seq(Nat))
  <2> HIDE DEF n
  <2> TAKE k \in 0 .. n
  <2>1. k + 1 \in Int /\ n \in Int /\ \A i \in k + 1 .. n : ss[i] \in Seq(Nat)
    BY <1>1, <1>2
  <2> QED
    BY <2>1, SubSeqProperties
<1>4. \A k \in 0 .. n : Behind(ss, k) \in Seq(Nat)
  BY <1>3, FlattenTyped DEF Behind
<1>5. Behind(ss, 0) = FlattenSeq(ss)
  <2>1. 0 + 1 = 1 /\ SubSeq(ss, 1, Len(ss)) = ss
    BY SubSeqFull
  <2> QED
    BY <2>1 DEF Behind
<1>6. Behind(ss, n) = <<>>
  <2>1. SubSeq(ss, n + 1, n) = <<>>
    <3> HIDE DEF n
    <3>1. n + 1 \in Int /\ n \in Int /\ n + 1 > n
      BY <1>1
    <3> QED
      BY <3>1, SubSeqEmpty
  <2> QED
    BY <2>1, FlattenEmpty DEF Behind
<1>7. ASSUME NEW k \in 1 .. n PROVE Behind(ss, k - 1) = ss[k] \o Behind(ss, k)
  <2>1. SubSeq(ss, k, n) = <<ss[k]>> \o SubSeq(ss, k + 1, n)
    <3>1. k \in 1 .. Len(ss) /\ n \in k .. Len(ss)
      BY <1>1
    <3> QED
      BY <3>1, SubSeqRecursiveFirst
  <2>2. <<ss[k]>> \in Seq(Seq(Nat)) /\ SubSeq(ss, k + 1, n) \in Seq(Seq(Nat)) /\ FlattenSeq(<<ss[k]>>) = ss[k]
    <3>1. ss[k] \in Seq(Nat) /\ k \in 0 .. n
      BY <1>1, <1>2
    <3> HIDE DEF n
    <3>2. FlattenSeq(<<ss[k]>>) = ss[k]
      BY <3>1, FlattenOne
    <3>3. <<ss[k]>> \in Seq(Seq(Nat))
      BY <3>1
    <3> QED
      BY <1>3, <3>1, <3>2, <3>3
  <2>3. FlattenSeq(SubSeq(ss, k, n)) = ss[k] \o FlattenSeq(SubSeq(ss, k + 1, n))
    BY <2>1, <2>2, FlattenConcat
  <2>4. (k - 1) + 1 = k
    OBVIOUS
  <2> QED
    BY <2>3, <2>4 DEF Behind
<1> QED
  BY <1>2, <1>4, <1>5, <1>6, <1>7

\* The first k of them, after what was there before.
Taken(g, fs, k) == g \o [i \in 1 .. k |-> fs[i]]

\* They grow from nothing to all, one element at a time.
LEMMA TakenIs ==
  ASSUME NEW S, NEW g \in Seq(S), NEW fs \in Seq(S)
  PROVE  /\ Taken(g, fs, 0) = g /\ Taken(g, fs, Len(fs)) = g \o fs
         /\ \A k \in 0 .. Len(fs) : Taken(g, fs, k) \in Seq(S)
         /\ \A k \in 1 .. Len(fs) : Taken(g, fs, k) = Append(Taken(g, fs, k - 1), fs[k])
<1> DEFINE n == Len(fs)
           p == [k \in 0 .. n |-> [i \in 1 .. k |-> fs[i]]]
<1>1. n \in Nat /\ fs = [i \in 1 .. n |-> fs[i]] /\ \A k \in 1 .. n : fs[k] \in S
  BY ElementOfSeq
<1>2. \A k \in 0 .. n : p[k] = [i \in 1 .. k |-> fs[i]] /\ Taken(g, fs, k) = g \o p[k]
  BY DEF Taken
<1> HIDE DEF n, p
<1>3. \A k \in 0 .. n : p[k] \in Seq(S) /\ Len(p[k]) = k
  <2> TAKE k \in 0 .. n
  <2>1. k \in Nat /\ \A i \in 1 .. k : i \in 1 .. n
    BY <1>1
  <2>2. [i \in 1 .. k |-> fs[i]] \in [1 .. k -> S]
    BY <1>1, <2>1
  <2>3. p[k] \in [1 .. k -> S]
    BY <1>2, <2>2
  <2> QED
    BY <2>1, <2>3
<1>4. p[0] = <<>> /\ p[n] = fs
  <2>1. p[0] \in Seq(S) /\ Len(p[0]) = 0
    BY <1>1, <1>3
  <2>2. p[n] = [i \in 1 .. n |-> fs[i]]
    <3>1. n \in 0 .. n
      BY <1>1
    <3> QED
      BY <1>2, <3>1
  <2> QED
    BY <1>1, <2>1, <2>2, EmptySeq
<1>5. Taken(g, fs, 0) = g
  <2>1. Taken(g, fs, 0) = g \o <<>>
    <3>1. 0 \in 0 .. n
      BY <1>1
    <3> QED
      BY <1>2, <1>4, <3>1
  <2> QED
    BY <2>1, ConcatEmptySeq
<1>6. Taken(g, fs, n) = g \o fs
  <2>1. n \in 0 .. n
    BY <1>1
  <2> QED
    BY <1>2, <1>4, <2>1
<1>7. \A k \in 0 .. n : Taken(g, fs, k) \in Seq(S)
  <2> TAKE k \in 0 .. n
  <2>1. p[k] \in Seq(S) /\ Taken(g, fs, k) = g \o p[k]
    BY <1>2, <1>3
  <2> DEFINE q == p[k]
  <2> HIDE DEF q
  <2>2. q \in Seq(S) => g \o q \in Seq(S)
    BY ConcatProperties
  <2> QED
    BY <2>1, <2>2 DEF q
<1>8. ASSUME NEW k \in 1 .. n PROVE Taken(g, fs, k) = Append(Taken(g, fs, k - 1), fs[k])
  <2>1. k \in 0 .. n /\ k - 1 \in 0 .. n /\ (k - 1) + 1 = k /\ fs[k] \in S
    BY <1>1
  <2>2. /\ p[k - 1] \in Seq(S) /\ Len(p[k - 1]) = k - 1
        /\ p[k] \in Seq(S) /\ Len(p[k]) = k
    BY <1>3, <2>1
  <2>3. /\ Append(p[k - 1], fs[k]) \in Seq(S) /\ Len(Append(p[k - 1], fs[k])) = k
        /\ \A i \in 1 .. k - 1 : Append(p[k - 1], fs[k])[i] = p[k - 1][i]
        /\ Append(p[k - 1], fs[k])[k] = fs[k]
    <3> DEFINE q == p[k - 1]
               e == fs[k]
    <3>1. q \in Seq(S) /\ e \in S /\ Len(q) = k - 1
      BY <2>1, <2>2
    <3> HIDE DEF q, e
    <3>2. /\ Append(q, e) \in Seq(S) /\ Len(Append(q, e)) = Len(q) + 1
          /\ \A i \in 1 .. Len(q) : Append(q, e)[i] = q[i]
          /\ Append(q, e)[Len(q) + 1] = e
      BY <3>1, AppendProperties
    <3> QED
      BY <2>1, <3>1, <3>2 DEF q, e
  <2>4. \A i \in 1 .. k : p[k][i] = Append(p[k - 1], fs[k])[i]
    <3>1. \A i \in 1 .. k : p[k][i] = fs[i]
      BY <1>2, <2>1
    <3>2. \A i \in 1 .. k - 1 : p[k - 1][i] = fs[i]
      BY <1>2, <2>1
    <3> QED
      BY <2>3, <3>1, <3>2
  <2>5. p[k] = Append(p[k - 1], fs[k])
    BY <2>2, <2>3, <2>4, SeqEqual
  <2>6. Append(p[k - 1], fs[k]) = p[k - 1] \o <<fs[k]>> /\ <<fs[k]>> \in Seq(S)
    BY <2>1, <2>2, AppendIsConcat
  <2>7. g \o (p[k - 1] \o <<fs[k]>>) = (g \o p[k - 1]) \o <<fs[k]>>
    <3> DEFINE q == p[k - 1]
               e == <<fs[k]>>
    <3>1. q \in Seq(S) /\ e \in Seq(S)
      BY <2>2, <2>6
    <3> HIDE DEF q, e
    <3>2. (g \o q) \o e = g \o (q \o e)
      BY <3>1, ConcatAssociative
    <3> QED
      BY <3>2 DEF q, e
  <2>8. Append(g \o p[k - 1], fs[k]) = (g \o p[k - 1]) \o <<fs[k]>>
    <3>1. g \o p[k - 1] \in Seq(S)
      BY <2>2, ConcatProperties
    <3> QED
      BY <2>1, <3>1, AppendIsConcat
  <2> QED
    BY <1>2, <2>1, <2>5, <2>6, <2>7, <2>8
<1> QED
  BY <1>5, <1>6, <1>7, <1>8 DEF n

\* The fields as they are written, and what may be read of them with r behind them.
AllWritten(kinds, fs) == [k \in 1 .. Len(kinds) |-> Written(kinds[k], fs[k])]

\* The fields are of their kinds, and only what ends the packet is read to its end.
Fits(kinds, fs, r) ==
  /\ Len(fs) = Len(kinds)
  /\ \A k \in 1 .. Len(kinds) : /\ IsValue(kinds[k], fs[k])
                                /\ kinds[k] = "rest" => k = Len(kinds) /\ r = <<>>

\* The loop of ReadFields.
ReadsAll(f, c, kinds) ==
  f = [k \in 0 .. Len(kinds) |-> IF k = 0 THEN c ELSE ReadField(f[k - 1], kinds[k])]

\* ReadFields is what some such loop ends with.
LEMMA ReadFieldsChosen ==
  ASSUME NEW c, NEW kinds
  PROVE  ReadFields(c, kinds) = (CHOOSE f : ReadsAll(f, c, kinds))[Len(kinds)]
BY DEF ReadFields, ReadsAll

\* The fields of a frame are read one after the other, each as it was written.
LEMMA ReadFieldsReads ==
  ASSUME NEW kinds \in Seq(Kinds), NEW S, NEW fs \in Seq(S), NEW g \in Seq(S), NEW r \in Seq(Nat),
         Fits(kinds, fs, r)
  PROVE  ReadFields(At(FlattenSeq(AllWritten(kinds, fs)) \o r, g), kinds) = At(r, g \o fs)
<1> DEFINE n == Len(kinds)
           ws == AllWritten(kinds, fs)
           c == At(FlattenSeq(ws) \o r, g)
           h == [k \in 0 .. n |-> At(Behind(ws, k) \o r, Taken(g, fs, k))]
           f == CHOOSE e : ReadsAll(e, c, kinds)
<1>1. n \in Nat /\ Len(fs) = n /\ \A k \in 1 .. n : kinds[k] \in Kinds
  BY ElementOfSeq DEF Fits
<1>2. \A k \in 1 .. n : IsValue(kinds[k], fs[k]) /\ (kinds[k] = "rest" => k = n /\ r = <<>>)
  BY DEF Fits
<1>3. \A k \in 1 .. n : ws[k] = Written(kinds[k], fs[k]) /\ ws[k] \in Seq(Nat)
  BY <1>1, <1>2, WrittenTyped DEF AllWritten
<1>4. ws \in Seq(Seq(Nat)) /\ Len(ws) = n
  <2>1. ws = [k \in 1 .. n |-> ws[k]]
    BY DEF AllWritten
  <2> HIDE DEF ws, n
  <2>2. ws \in [1 .. n -> Seq(Nat)]
    BY <1>3, <2>1
  <2> QED
    BY <1>1, <2>2
<1> HIDE DEF ws, n
<1>5. /\ Behind(ws, 0) = FlattenSeq(ws) /\ Behind(ws, n) = <<>>
      /\ \A k \in 0 .. n : Behind(ws, k) \in Seq(Nat)
      /\ \A k \in 1 .. n : Behind(ws, k - 1) = ws[k] \o Behind(ws, k)
  BY <1>4, BehindIs
<1>6. /\ Taken(g, fs, 0) = g /\ Taken(g, fs, n) = g \o fs
      /\ \A k \in 0 .. n : Taken(g, fs, k) \in Seq(S)
      /\ \A k \in 1 .. n : Taken(g, fs, k) = Append(Taken(g, fs, k - 1), fs[k])
  <2>1. /\ Taken(g, fs, 0) = g /\ Taken(g, fs, Len(fs)) = g \o fs
        /\ \A k \in 0 .. Len(fs) : Taken(g, fs, k) \in Seq(S)
        /\ \A k \in 1 .. Len(fs) : Taken(g, fs, k) = Append(Taken(g, fs, k - 1), fs[k])
    <3>1. Taken(g, fs, 0) = g
      BY TakenIs
    <3>2. Taken(g, fs, Len(fs)) = g \o fs
      BY TakenIs
    <3>3. \A k \in 0 .. Len(fs) : Taken(g, fs, k) \in Seq(S)
      BY TakenIs
    <3>4. \A k \in 1 .. Len(fs) : Taken(g, fs, k) = Append(Taken(g, fs, k - 1), fs[k])
      BY TakenIs
    <3> QED
      BY <3>1, <3>2, <3>3, <3>4
  <2>2. Len(fs) = n
    BY <1>1
  <2> QED
    BY <2>1, <2>2, Zenon
<1>7. ASSUME NEW k \in 1 .. n PROVE h[k] = ReadField(h[k - 1], kinds[k])
  <2>1. k \in 0 .. n /\ k - 1 \in 0 .. n
    BY <1>1
  <2> DEFINE b == Behind(ws, k)
             w == Written(kinds[k], fs[k])
             q == Taken(g, fs, k - 1)
  <2>2. h[k - 1] = At((w \o b) \o r, q) /\ h[k] = At(b \o r, Append(q, fs[k]))
    BY <1>3, <1>5, <1>6, <2>1
  <2>3. b \in Seq(Nat) /\ w \in Seq(Nat) /\ q \in Seq(S)
    BY <1>3, <1>5, <1>6, <2>1
  <2>4. kinds[k] \in Kinds /\ IsValue(kinds[k], fs[k])
    BY <1>1, <1>2
  <2>5. kinds[k] = "rest" => b = <<>> /\ r = <<>>
    BY <1>2, <1>5
  <2> HIDE DEF b, q, h
  <2>6. (w \o b) \o r = w \o (b \o r) /\ b \o r \in Seq(Nat)
    <3> HIDE DEF w
    <3>1. (w \o b) \o r = w \o (b \o r)
      <4>1. w \in Seq(Nat) /\ b \in Seq(Nat)
        BY <2>3
      <4> QED
        BY <4>1, JoinedInOrder, Zenon
    <3> QED
      BY <2>3, <3>1, Joined
  <2>7. kinds[k] = "rest" => b \o r = <<>>
    <3>1. ASSUME kinds[k] = "rest" PROVE b \o r = <<>>
      <4>1. b = <<>> /\ r = <<>>
        BY <2>5, <3>1
      <4>2. <<>> \o r = r
        BY ConcatEmptySeq
      <4> QED
        BY <4>1, <4>2
    <3> QED
      BY <3>1
  <2>8. ReadField(At(w \o (b \o r), q), kinds[k]) = At(b \o r, Append(q, fs[k]))
    BY <2>3, <2>4, <2>6, <2>7, ReadFieldReads
  <2> QED
    BY <2>2, <2>6, <2>8
<1>8. h[0] = c
  <2>1. 0 \in 0 .. n
    BY <1>1
  <2> QED
    BY <1>5, <1>6, <2>1
<1>9. ReadsAll(h, c, kinds)
  <2>1. \A k \in 0 .. n : h[k] = IF k = 0 THEN c ELSE ReadField(h[k - 1], kinds[k])
    <3> TAKE k \in 0 .. n
    <3>1. CASE k = 0
      BY <1>8, <3>1
    <3>2. CASE k # 0
      <4>1. k \in 1 .. n
        BY <1>1, <3>2
      <4> HIDE DEF h
      <4> QED
        BY <1>7, <3>2, <4>1
    <3> QED
      BY <3>1, <3>2
  <2>2. h = [k \in 0 .. n |-> h[k]]
    OBVIOUS
  <2> HIDE DEF h, c
  <2> QED
    BY <2>1, <2>2 DEF ReadsAll, n
<1>10. ReadsAll(f, c, kinds)
  BY <1>9
<1>11. ReadFields(c, kinds) = f[n]
  BY ReadFieldsChosen DEF n
<1> HIDE DEF f, h, c
<1>12. f[n] = h[n]
  <2>1. \A k \in 0 .. n : f[k] = IF k = 0 THEN c ELSE ReadField(f[k - 1], kinds[k])
    BY <1>10 DEF ReadsAll, n
  <2>2. ASSUME NEW k \in 0 .. n - 1, f[k] = h[k] PROVE f[k + 1] = h[k + 1]
    <3>1. k + 1 \in 1 .. n /\ k + 1 \in 0 .. n /\ k + 1 # 0 /\ (k + 1) - 1 = k
      BY <1>1
    <3> QED
      BY <1>7, <2>1, <2>2, <3>1
  <2>3. f[0] = h[0]
    <3>1. 0 \in 0 .. n
      BY <1>1
    <3> QED
      BY <1>8, <2>1, <3>1
  <2>4. Alike(f, h, 0, n)
    BY <2>2, <2>3 DEF Alike
  <2>5. 0 \in Nat /\ n \in 0 .. n
    BY <1>1
  <2> QED
    BY <1>1, <2>4, <2>5, LoopsAgree
<1>13. h[n] = At(r, g \o fs)
  <2>1. n \in 0 .. n
    BY <1>1
  <2>2. <<>> \o r = r
    BY ConcatEmptySeq
  <2>3. h[n] = At(Behind(ws, n) \o r, Taken(g, fs, n))
    BY <2>1 DEF h
  <2> QED
    BY <1>5, <1>6, <2>2, <2>3
<1> QED
  BY <1>11, <1>12, <1>13 DEF c, ws

\* In particular integers.
LEMMA VarsRead ==
  ASSUME NEW s \in Seq(VarInts), NEW S, s \in Seq(S), NEW g \in Seq(S), NEW r \in Seq(Nat)
  PROVE  ReadFields(At(FlattenSeq(VarBytes(s)) \o r, g), Vars(Len(s))) = At(r, g \o s)
<1> DEFINE kinds == Vars(Len(s))
<1>1. /\ kinds \in Seq(Kinds) /\ Len(kinds) = Len(s) /\ \A k \in 1 .. Len(s) : kinds[k] = "var"
  BY DEF Vars, Kinds
<1>2. \A k \in 1 .. Len(s) : s[k] \in VarInts /\ IsValue("var", s[k])
  BY ElementOfSeq DEF IsValue, VarInts
<1>3. \A k \in 1 .. Len(s) : Written("var", s[k]) = encodeVarInt(s[k])
  BY DEF Written
<1> HIDE DEF kinds
<1>4. AllWritten(kinds, s) = VarBytes(s)
  BY <1>1, <1>3 DEF AllWritten, VarBytes
<1>5. Fits(kinds, s, r)
  BY <1>1, <1>2 DEF Fits
<1> QED
  BY <1>1, <1>4, <1>5, ReadFieldsReads DEF kinds

-----------------------------------------------------------------------------
(* Reading an ACK frame.                                                   *)

\* Pairs one behind the other.
Two(S) == {s \in Seq(S) : Len(s) = 2}
PairsAt(t, ss) ==
  \A k \in 1 .. Len(ss) : t[2 * k - 1] = ss[k][1] /\ t[2 * k] = ss[k][2]

\* Pairs put together are found at the odd and the even places.
LEMMA FlattenPairs ==
  ASSUME NEW S, NEW ss \in Seq(Two(S))
  PROVE  /\ ss \in Seq(Seq(S)) /\ FlattenSeq(ss) \in Seq(S)
         /\ Len(FlattenSeq(ss)) = 2 * Len(ss) /\ PairsAt(FlattenSeq(ss), ss)
<1> DEFINE P == Two(S)
           Right(tt) == /\ FlattenSeq(tt) \in Seq(S)
                        /\ Len(FlattenSeq(tt)) = 2 * Len(tt) /\ PairsAt(FlattenSeq(tt), tt)
           Good == {tt \in Seq(P) : tt \in Seq(Seq(S)) /\ Right(tt)}
<1>0. \A s \in P : s \in Seq(S) /\ Len(s) = 2
  BY DEF Two
<1> HIDE DEF P
<1>1. <<>> \in Good
  <2>1. <<>> \in Seq(P) /\ <<>> \in Seq(Seq(S)) /\ <<>> \in Seq(S) /\ Len(<<>>) = 0
    BY EmptySeq
  <2>2. PairsAt(<<>>, <<>>)
    BY <2>1 DEF PairsAt
  <2>3. Right(<<>>)
    <3>1. Len(<<>>) = 2 * Len(<<>>)
      BY <2>1
    <3>2. FlattenSeq(<<>>) = <<>>
      BY FlattenEmpty
    <3> QED
      BY <2>1, <2>2, <3>1, <3>2
  <2> HIDE DEF Right
  <2> QED
    BY <2>1, <2>3
<1>2. ASSUME NEW tt \in Good, NEW s \in P PROVE Append(tt, s) \in Good
  <2> DEFINE n == Len(tt)
             uu == Append(tt, s)
             a == FlattenSeq(tt)
             b == FlattenSeq(uu)
  <2>1. /\ tt \in Seq(P) /\ tt \in Seq(Seq(S)) /\ n \in Nat
        /\ a \in Seq(S) /\ Len(a) = 2 * n /\ PairsAt(a, tt)
    OBVIOUS
  <2>2. s \in Seq(S) /\ Len(s) = 2
    BY <1>0
  <2>3. /\ uu \in Seq(P) /\ uu \in Seq(Seq(S)) /\ Len(uu) = n + 1 /\ uu[n + 1] = s
        /\ \A i \in 1 .. n : uu[i] = tt[i]
    BY <2>1, <2>2, AppendProperties
  <2>4. b = a \o s
    BY <2>1, <2>2, FlattenMore
  <2> HIDE DEF a, b, uu, n
  <2>5. /\ b \in Seq(S) /\ Len(b) = 2 * n + 2
        /\ \A i \in 1 .. 2 * n + 2 : b[i] = IF i <= 2 * n THEN a[i] ELSE s[i - 2 * n]
    <3> PICK m \in Nat : m = 2 * n
      BY <2>1
    <3>1. /\ a \o s \in Seq(S) /\ Len(a \o s) = Len(a) + Len(s)
          /\ \A i \in 1 .. Len(a) + Len(s) : (a \o s)[i] = IF i <= Len(a) THEN a[i] ELSE s[i - Len(a)]
      BY <2>1, <2>2, ConcatProperties
    <3>2. Len(a) = m /\ Len(s) = 2
      BY <2>1, <2>2
    <3> QED
      BY <2>4, <3>1, <3>2
  <2>6. ASSUME NEW k \in 1 .. n + 1 PROVE b[2 * k - 1] = uu[k][1] /\ b[2 * k] = uu[k][2]
    <3>1. CASE k <= n
      <4>1. /\ 2 * k - 1 \in 1 .. 2 * n + 2 /\ 2 * k \in 1 .. 2 * n + 2
            /\ 2 * k - 1 <= 2 * n /\ 2 * k <= 2 * n /\ k \in 1 .. n
        BY <2>1, <3>1
      <4>2. b[2 * k - 1] = a[2 * k - 1] /\ b[2 * k] = a[2 * k]
        BY <2>5, <4>1
      <4>3. a[2 * k - 1] = tt[k][1] /\ a[2 * k] = tt[k][2]
        BY <2>1, <4>1 DEF PairsAt, n
      <4> QED
        BY <2>3, <4>1, <4>2, <4>3
    <3>2. CASE k = n + 1
      <4>1. /\ 2 * n + 1 \in 1 .. 2 * n + 2 /\ 2 * n + 2 \in 1 .. 2 * n + 2
            /\ ~(2 * n + 1 <= 2 * n) /\ ~(2 * n + 2 <= 2 * n)
            /\ (2 * n + 1) - 2 * n = 1 /\ (2 * n + 2) - 2 * n = 2
            /\ 2 * k - 1 = 2 * n + 1 /\ 2 * k = 2 * n + 2
        BY <2>1, <3>2
      <4>2. b[2 * n + 1] = s[1] /\ b[2 * n + 2] = s[2]
        BY <2>5, <4>1
      <4> QED
        BY <2>3, <3>2, <4>1, <4>2
    <3> QED
      BY <2>1, <3>1, <3>2
  <2>7. PairsAt(b, uu)
    BY <2>3, <2>6 DEF PairsAt
  <2>8. Len(b) = 2 * Len(uu)
    BY <2>1, <2>3, <2>5
  <2> QED
    BY <2>3, <2>5, <2>7, <2>8 DEF b, uu
<1>3. Good = Seq(P)
  <2>1. Good \in SUBSET Seq(P)
    OBVIOUS
  <2> HIDE DEF Good
  <2> QED
    BY <1>1, <1>2, <2>1, SequenceInduction
<1>4. ss \in Good
  <2> HIDE DEF Good
  <2> QED
    BY <1>3 DEF P
<1> QED
  BY <1>4

\* The first k intervals of a list.
Part(l, k) == [i \in 1 .. k |-> l[i]]

\* They are in order as the whole list is.
LEMMA PartsAre ==
  ASSUME NEW l \in List, Normal(l), NEW k \in 0 .. Len(l)
  PROVE  /\ Part(l, k) \in List /\ Normal(Part(l, k)) /\ DOMAIN Part(l, k) = 1 .. k
         /\ \A i \in 1 .. k : Part(l, k)[i] = l[i]
<1>1. /\ DOMAIN l = 1 .. Len(l) /\ Len(l) \in Nat
      /\ \A i \in DOMAIN l : l[i] \in Interval
      /\ \A i, j \in DOMAIN l : i < j => l[j].end + 1 < l[i].start
  BY Places
<1>2. k \in Nat /\ \A i \in 1 .. k : i \in DOMAIN l
  BY <1>1
<1> DEFINE p == Part(l, k)
<1>3. p = [i \in 1 .. k |-> l[i]]
  BY DEF Part
<1> HIDE DEF p
<1>4. p \in [1 .. k -> Interval]
  BY <1>1, <1>2, <1>3
<1>5. p \in List
  BY <1>2, <1>4 DEF List
<1>6. DOMAIN p = 1 .. k /\ \A i \in 1 .. k : p[i] = l[i]
  BY <1>3
<1>7. ASSUME NEW i \in DOMAIN p, NEW j \in DOMAIN p, i < j PROVE p[j].end + 1 < p[i].start
  BY <1>1, <1>2, <1>6, <1>7
<1>8. Normal(p)
  BY <1>7 DEF Normal
<1> QED
  BY <1>5, <1>6, <1>8 DEF p

\* An interval below the others is put behind them.
LEMMA AddsNext ==
  ASSUME NEW l \in List, Normal(l), NEW k \in 0 .. Len(l) - 1
  PROVE  AddInterval(Part(l, k), l[k + 1]) = Part(l, k + 1)
<1> DEFINE p == Part(l, k)
           q == Part(l, k + 1)
           x == l[k + 1]
           a == AddInterval(p, x)
<1>1. Len(l) \in Nat /\ DOMAIN l = 1 .. Len(l) /\ \A i \in DOMAIN l : l[i] \in Interval
  BY Places
<1>2. k \in 0 .. Len(l) /\ k + 1 \in 0 .. Len(l) /\ k + 1 \in DOMAIN l
  BY <1>1
<1>3. /\ p \in List /\ Normal(p) /\ DOMAIN p = 1 .. k /\ \A i \in 1 .. k : p[i] = l[i]
      /\ q \in List /\ Normal(q) /\ DOMAIN q = 1 .. k + 1 /\ \A i \in 1 .. k + 1 : q[i] = l[i]
      /\ x \in Interval
  BY <1>1, <1>2, PartsAre
<1> HIDE DEF p, q, x
<1>4. a \in List /\ Normal(a) /\ Numbers(a) = Numbers(p) \cup Members(x)
  BY <1>3, AddIntervalAdds
<1>5. Numbers(q) = Numbers(p) \cup Members(x)
  <2>1. 1 .. k + 1 = (1 .. k) \cup {k + 1} /\ k + 1 \in 1 .. k + 1
    BY <1>2
  <2>2. q[k + 1] = x /\ \A i \in 1 .. k : q[i] = p[i]
    BY <1>3, <2>1 DEF x
  <2>3. \A n : (\E i \in 1 .. k + 1 : n \in Members(q[i])) <=>
               (\E i \in 1 .. k : n \in Members(p[i])) \/ n \in Members(x)
    BY <2>1, <2>2
  <2>4. \A n : n \in Members(x) => n \in Nat
    BY <1>3, MembersAre
  <2>5. \A n : n \in Numbers(q) <=> n \in Nat /\ \E i \in 1 .. k + 1 : n \in Members(q[i])
    BY <1>3 DEF Numbers
  <2>6. \A n : n \in Numbers(p) <=> n \in Nat /\ \E i \in 1 .. k : n \in Members(p[i])
    BY <1>3 DEF Numbers
  <2>7. \A n : n \in Numbers(q) <=> n \in Numbers(p) \/ n \in Members(x)
    BY <2>3, <2>4, <2>5, <2>6
  <2> QED
    BY <2>7
<1>6. Runs(Numbers(a)) = a /\ Runs(Numbers(q)) = q
  <2> HIDE DEF a
  <2> QED
    BY <1>3, <1>4, RunsFindsList
<1> QED
  BY <1>4, <1>5, <1>6 DEF a, p, q, x

\* The loop over the ranges.
Ranging(loop, largest, integers, last) ==
  loop = [k \in 0 .. last |->
            LET top == IF k = 0 THEN largest ELSE loop[k - 1].smallest - integers[2 * k] - 2
                smallest == top - integers[2 * k + 1]
            IN  [smallest |-> smallest,
                 ranges |-> AddInterval(IF k = 0 THEN <<>> ELSE loop[k - 1].ranges, From(smallest, top))]]

\* RangesFrom is what some such loop ends with.
LEMMA RangesChosen ==
  ASSUME NEW largest, NEW integers
  PROVE  RangesFrom(largest, integers) =
           LET last == (Len(integers) - 1) \div 2
           IN  (CHOOSE f : Ranging(f, largest, integers, last))[last].ranges
BY DEF RangesFrom, Ranging

\* From the largest number, the lengths and the gaps the intervals are found again.
IntegersOf(l, t) ==
  /\ Len(t) = 2 * Len(l) - 1
  /\ t[1] = l[1].end - l[1].start
  /\ \A k \in 1 .. Len(l) - 1 : /\ t[2 * k] = l[k].start - l[k + 1].end - 2
                                /\ t[2 * k + 1] = l[k + 1].end - l[k + 1].start

\* They are the list that they were made from.
LEMMA RangesRead ==
  ASSUME NEW l, IsRanges(l), NEW t, IntegersOf(l, t)
  PROVE  RangesFrom(l[1].end, t) = l
<1> DEFINE n == Len(l)
           last == n - 1
           largest == l[1].end
           h == [k \in 0 .. last |-> [smallest |-> l[k + 1].start, ranges |-> Part(l, k + 1)]]
           f == CHOOSE e : Ranging(e, largest, t, last)
<1>1. /\ l \in List /\ Normal(l) /\ n \in Nat /\ n >= 1
      /\ \A k \in 1 .. n : /\ l[k] \in Interval /\ l[k].start \in Nat /\ l[k].end \in Nat
                           /\ l[k] = From(l[k].start, l[k].end)
  <2>1. l \in List /\ Normal(l)
    BY DEF IsRanges, List, Normal
  <2>2. n \in Nat /\ n >= 1 /\ DOMAIN l = 1 .. n
    BY <2>1, RangesFit DEF List
  <2>3. \A k \in DOMAIN l : l[k] = From(l[k].start, l[k].end)
    BY <2>1, Places
  <2> QED
    BY <2>1, <2>2, <2>3, RangesFit
<1>2. /\ Len(t) = 2 * n - 1 /\ t[1] = l[1].end - l[1].start
      /\ \A k \in 1 .. n - 1 : /\ t[2 * k] = l[k].start - l[k + 1].end - 2
                               /\ t[2 * k + 1] = l[k + 1].end - l[k + 1].start
  BY DEF IntegersOf
<1>3. \A k \in 0 .. n - 1 : AddInterval(Part(l, k), l[k + 1]) = Part(l, k + 1)
  BY <1>1, AddsNext
<1>4. Part(l, 0) = <<>> /\ Part(l, n) = l
  <2>1. Part(l, 0) \in List /\ Len(Part(l, 0)) = 0
    BY DEF Part, List
  <2>2. l = [i \in 1 .. n |-> l[i]]
    BY <1>1 DEF List
  <2> QED
    BY <2>1, <2>2, EmptySeq DEF Part, List
<1>5. (Len(t) - 1) \div 2 = last /\ last \in Nat
  <2> HIDE DEF n
  <2>1. \A m \in Nat : ((2 * m - 1) - 1) \div 2 = m - 1
    OBVIOUS
  <2> QED
    BY <1>1, <1>2, <2>1
<1>6. RangesFrom(largest, t) = f[last].ranges
  <2>1. RangesFrom(largest, t) =
           LET m == (Len(t) - 1) \div 2
           IN  (CHOOSE e : Ranging(e, largest, t, m))[m].ranges
    BY RangesChosen
  <2> QED
    BY <1>5, <2>1
<1> HIDE DEF n, h, f
<1> DEFINE Next(e, k) ==
      LET top == IF k = 0 THEN largest ELSE e[k - 1].smallest - t[2 * k] - 2
          smallest == top - t[2 * k + 1]
      IN  [smallest |-> smallest,
           ranges |-> AddInterval(IF k = 0 THEN <<>> ELSE e[k - 1].ranges, From(smallest, top))]
<1>7. \A k \in 0 .. last : h[k].smallest = l[k + 1].start /\ h[k].ranges = Part(l, k + 1)
  BY DEF h
<1>8. ASSUME NEW k \in 0 .. last PROVE h[k] = Next(h, k)
  <2> DEFINE top == IF k = 0 THEN largest ELSE h[k - 1].smallest - t[2 * k] - 2
             smallest == top - t[2 * k + 1]
  <2>1. k + 1 \in 1 .. n /\ k \in 0 .. n - 1
    BY <1>1
  <2>2. top = l[k + 1].end /\ smallest = l[k + 1].start
    <3>1. CASE k = 0
      <4>1. 2 * k + 1 = 1 /\ k + 1 = 1
        BY <3>1
      <4>2. top = l[1].end
        BY <3>1
      <4>3. smallest = l[1].end - (l[1].end - l[1].start)
        BY <1>2, <4>1, <4>2
      <4>4. l[1].end \in Nat /\ l[1].start \in Nat
        BY <1>1, <2>1, <4>1
      <4>5. l[1].end - (l[1].end - l[1].start) = l[1].start
        BY <4>4
      <4> QED
        BY <4>1, <4>2, <4>3, <4>5
    <3>2. CASE k # 0
      <4>1. k \in 1 .. n - 1 /\ k \in 1 .. n /\ k - 1 \in 0 .. last /\ (k - 1) + 1 = k
        BY <1>1, <3>2
      <4>2. /\ l[k].start \in Nat /\ l[k + 1].end \in Nat /\ l[k + 1].start \in Nat
        BY <1>1, <2>1, <4>1
      <4>3. top = l[k].start - (l[k].start - l[k + 1].end - 2) - 2
        BY <1>2, <1>7, <3>2, <4>1
      <4>4. top = l[k + 1].end
        BY <4>2, <4>3
      <4>5. smallest = l[k + 1].end - (l[k + 1].end - l[k + 1].start)
        BY <1>2, <4>1, <4>4
      <4> HIDE DEF top, smallest
      <4>6. smallest = l[k + 1].start
        BY <4>2, <4>5
      <4> QED
        BY <4>4, <4>6
    <3> QED
      BY <3>1, <3>2
  <2>3. (IF k = 0 THEN <<>> ELSE h[k - 1].ranges) = Part(l, k)
    <3>1. CASE k = 0
      BY <1>4, <3>1
    <3>2. CASE k # 0
      <4>1. k - 1 \in 0 .. last /\ (k - 1) + 1 = k
        BY <1>1, <3>2
      <4> QED
        BY <1>7, <3>2, <4>1
    <3> QED
      BY <3>1, <3>2
  <2>4. Next(h, k) = [smallest |-> smallest,
                      ranges |-> AddInterval(IF k = 0 THEN <<>> ELSE h[k - 1].ranges, From(smallest, top))]
    OBVIOUS
  <2> HIDE DEF Next, top, smallest
  <2>5. From(smallest, top) = l[k + 1]
    BY <1>1, <2>1, <2>2
  <2>6. Next(h, k) = [smallest |-> l[k + 1].start, ranges |-> Part(l, k + 1)]
    BY <1>3, <2>1, <2>2, <2>3, <2>4, <2>5
  <2>7. h[k] = [smallest |-> l[k + 1].start, ranges |-> Part(l, k + 1)]
    BY DEF h
  <2> QED
    BY <2>6, <2>7
<1>9. Ranging(h, largest, t, last)
  <2>1. h = [k \in 0 .. last |-> h[k]]
    BY DEF h
  <2>2. h = [k \in 0 .. last |-> Next(h, k)]
    <3> HIDE DEF Next
    <3> QED
      BY <1>8, <2>1
  <2> QED
    BY <2>2 DEF Ranging
<1>10. Ranging(f, largest, t, last)
  BY <1>9 DEF f
<1>11. \A k \in 0 .. last : f[k] = Next(f, k)
  <2>1. f = [k \in 0 .. last |-> Next(f, k)]
    BY <1>10 DEF Ranging
  <2> HIDE DEF Next
  <2> QED
    BY <2>1
<1>12. f[last] = h[last]
  <2>1. ASSUME NEW k \in 0 .. last - 1, f[k] = h[k] PROVE f[k + 1] = h[k + 1]
    <3>1. k + 1 \in 0 .. last /\ k + 1 # 0 /\ (k + 1) - 1 = k
      BY <1>5
    <3>2. Next(f, k + 1) = Next(h, k + 1)
      BY <2>1, <3>1
    <3> HIDE DEF Next
    <3> QED
      BY <1>8, <1>11, <3>1, <3>2
  <2>2. f[0] = h[0]
    <3>1. 0 \in 0 .. last
      BY <1>5
    <3>2. Next(f, 0) = Next(h, 0)
      OBVIOUS
    <3> HIDE DEF Next
    <3> QED
      BY <1>8, <1>11, <3>1, <3>2
  <2>3. Alike(f, h, 0, last)
    BY <2>1, <2>2 DEF Alike
  <2>4. 0 \in Nat /\ last \in 0 .. last
    BY <1>5
  <2> QED
    BY <1>5, <2>3, <2>4, LoopsAgree
<1>13. h[last].ranges = l
  <2>1. last \in 0 .. last /\ last + 1 = n
    BY <1>1, <1>5
  <2> QED
    BY <1>4, <1>7, <2>1
<1> QED
  BY <1>6, <1>12, <1>13

\* The bytes of integers one behind the other.
Bytes(s) == FlattenSeq(VarBytes(s))

\* Those of two sequences, one behind the other, are those of both.
LEMMA BytesJoined ==
  ASSUME NEW s \in Seq(VarInts), NEW t \in Seq(VarInts)
  PROVE  Bytes(s) \in Seq(Nat) /\ Bytes(t) \in Seq(Nat) /\ Bytes(s \o t) = Bytes(s) \o Bytes(t)
<1> DEFINE n == Len(s)
           m == Len(t)
           u == s \o t
<1>1. /\ VarBytes(s) \in Seq(Seq(Nat)) /\ Len(VarBytes(s)) = n /\ n \in Nat
      /\ \A k \in 1 .. n : VarBytes(s)[k] = encodeVarInt(s[k])
  BY VarBytesTyped
<1>2. /\ VarBytes(t) \in Seq(Seq(Nat)) /\ Len(VarBytes(t)) = m /\ m \in Nat
      /\ \A k \in 1 .. m : VarBytes(t)[k] = encodeVarInt(t[k])
  BY VarBytesTyped
<1>3. /\ u \in Seq(VarInts) /\ Len(u) = n + m
      /\ \A i \in 1 .. n + m : u[i] = IF i <= n THEN s[i] ELSE t[i - n]
  BY ConcatProperties
<1> HIDE DEF n, m, u
<1>4. /\ VarBytes(u) \in Seq(Seq(Nat)) /\ Len(VarBytes(u)) = n + m
      /\ \A k \in 1 .. n + m : VarBytes(u)[k] = encodeVarInt(u[k])
  <2>1. /\ VarBytes(u) \in Seq(Seq(Nat)) /\ Len(VarBytes(u)) = Len(u)
        /\ \A k \in 1 .. Len(u) : VarBytes(u)[k] = encodeVarInt(u[k])
    BY <1>3, VarBytesTyped
  <2> QED
    BY <1>3, <2>1
<1> DEFINE a == VarBytes(s)
           b == VarBytes(t)
           c == VarBytes(u)
<1>5. /\ a \o b \in Seq(Seq(Nat)) /\ Len(a \o b) = n + m
      /\ \A i \in 1 .. n + m : (a \o b)[i] = IF i <= n THEN a[i] ELSE b[i - n]
  <2>1. a \in Seq(Seq(Nat)) /\ b \in Seq(Seq(Nat)) /\ Len(a) = n /\ Len(b) = m
    BY <1>1, <1>2
  <2> HIDE DEF a, b
  <2>2. /\ a \o b \in Seq(Seq(Nat)) /\ Len(a \o b) = Len(a) + Len(b)
        /\ \A i \in 1 .. Len(a) + Len(b) : (a \o b)[i] = IF i <= Len(a) THEN a[i] ELSE b[i - Len(a)]
    BY <2>1, ConcatProperties
  <2> QED
    BY <2>1, <2>2
<1>6. \A i \in 1 .. n + m : c[i] = (a \o b)[i]
  <2> TAKE i \in 1 .. n + m
  <2>1. CASE i <= n
    <3>1. i \in 1 .. n
      BY <1>1, <2>1
    <3> QED
      BY <1>1, <1>3, <1>4, <1>5, <2>1, <3>1
  <2>2. CASE ~(i <= n)
    <3>1. i - n \in 1 .. m
      BY <1>1, <1>2, <2>2
    <3> QED
      BY <1>2, <1>3, <1>4, <1>5, <2>2, <3>1
  <2> QED
    BY <2>1, <2>2
<1>7. c = a \o b
  <2>1. c \in Seq(Seq(Nat)) /\ Len(c) = n + m
    BY <1>4
  <2> HIDE DEF a, b, c
  <2>2. Len(c) = Len(a \o b) /\ \A i \in 1 .. Len(c) : c[i] = (a \o b)[i]
    BY <1>5, <1>6, <2>1
  <2> QED
    BY <1>5, <2>1, <2>2, SeqEqual
<1>8. Bytes(s) \in Seq(Nat) /\ Bytes(t) \in Seq(Nat)
  BY <1>1, <1>2, FlattenTyped DEF Bytes
<1>9. FlattenSeq(c) = FlattenSeq(a) \o FlattenSeq(b)
  BY <1>1, <1>2, <1>7, FlattenConcat
<1> QED
  BY <1>8, <1>9 DEF Bytes, u

\* What follows the number of ranges.
LEMMA IntegersAre ==
  ASSUME NEW l, IsRanges(l), NEW delay \in VarInts
  PROVE  LET a == AckIntegers(delay, l)
         IN  /\ a[1] = l[1].end /\ a[2] = delay /\ a[3] = Len(l) - 1
             /\ IntegersOf(l, SubSeq(a, 4, Len(a)))
             /\ Len(FlattenSeq(Pairs(l))) = 2 * (Len(l) - 1)
             /\ Firsts(delay, l)[3] = Len(l) - 1
<1> DEFINE n == Len(l)
           a == AckIntegers(delay, l)
           p == Firsts(delay, l)
           ps == Pairs(l)
           q == FlattenSeq(ps)
           t == SubSeq(a, 4, Len(a))
<1>1. n \in Nat /\ n >= 1
  BY RangesFit
<1>2. /\ a = p \o q /\ p \in Seq(VarInts) /\ Len(p) = 4
      /\ ps \in Seq(Seq(VarInts)) /\ Len(ps) = n - 1
      /\ \A k \in 1 .. n - 1 : ps[k] \in VarInts \X VarInts
      /\ q \in Seq(VarInts) /\ a \in Seq(VarInts)
  BY AckTyped
<1>3. /\ p[1] = l[1].end /\ p[2] = delay /\ p[3] = n - 1 /\ p[4] = l[1].end - l[1].start
  BY DEF Firsts
<1>4. \A k \in 1 .. n - 1 : /\ ps[k][1] = l[k].start - l[k + 1].end - 2
                            /\ ps[k][2] = l[k + 1].end - l[k + 1].start
  BY DEF Pairs
<1> HIDE DEF n, a, p, ps
<1>5. ps \in Seq(Two(VarInts))
  <2>1. \A k \in 1 .. n - 1 : ps[k] \in Seq(VarInts) /\ Len(ps[k]) = 2
    <3> TAKE k \in 1 .. n - 1
    <3>1. ps[k] \in Seq(VarInts)
      BY <1>2, ElementOfSeq
    <3>2. ps[k] \in VarInts \X VarInts
      BY <1>2
    <3> QED
      BY <3>1, <3>2
  <2>2. \A k \in 1 .. n - 1 : ps[k] \in Two(VarInts)
    BY <2>1 DEF Two
  <2>3. ps = [k \in 1 .. n - 1 |-> ps[k]]
    BY <1>2
  <2>4. ps \in [1 .. n - 1 -> Two(VarInts)]
    BY <2>2, <2>3
  <2>5. n - 1 \in Nat
    BY <1>1
  <2> QED
    BY <2>4, <2>5
<1>6. Len(q) = 2 * (n - 1) /\ PairsAt(q, ps)
  BY <1>2, <1>5, FlattenPairs
<1>7. \A k \in 1 .. n - 1 : q[2 * k - 1] = ps[k][1] /\ q[2 * k] = ps[k][2]
  BY <1>2, <1>6 DEF PairsAt
<1> HIDE DEF q
<1> PICK m \in Nat : m = n - 1
  BY <1>1
<1>8. /\ Len(a) = 4 + 2 * m
      /\ \A i \in 1 .. 4 + 2 * m : a[i] = IF i <= 4 THEN p[i] ELSE q[i - 4]
  <2>1. /\ Len(a) = Len(p) + Len(q)
        /\ \A i \in 1 .. Len(p) + Len(q) : a[i] = IF i <= Len(p) THEN p[i] ELSE q[i - Len(p)]
    BY <1>2, ConcatProperties
  <2>2. Len(p) = 4 /\ Len(q) = 2 * m
    BY <1>2, <1>6
  <2> QED
    BY <2>1, <2>2
<1>9. a[1] = l[1].end /\ a[2] = delay /\ a[3] = n - 1 /\ a[4] = l[1].end - l[1].start
  <2>1. \A i \in 1 .. 4 : i \in 1 .. 4 + 2 * m /\ i <= 4
    OBVIOUS
  <2>2. \A i \in 1 .. 4 : a[i] = p[i]
    BY <1>8, <2>1
  <2> QED
    BY <1>3, <2>2
<1>10. /\ Len(t) = 2 * m + 1
       /\ \A i \in 1 .. 2 * m + 1 : t[i] = a[i + 3]
  <2>1. \A i \in 4 .. 4 + 2 * m : a[i] \in VarInts
    <3>1. \A i \in 1 .. Len(a) : a[i] \in VarInts
      BY <1>2, ElementOfSeq
    <3> QED
      BY <1>8, <3>1
  <2>2. t = SubSeq(a, 4, 4 + 2 * m) /\ 4 \in Int /\ 4 + 2 * m \in Int
    BY <1>8
  <2> DEFINE u == SubSeq(a, 4, 4 + 2 * m)
  <2>3. /\ Len(u) = (IF 4 <= 4 + 2 * m THEN (4 + 2 * m) - 4 + 1 ELSE 0)
        /\ \A i \in 1 .. (4 + 2 * m) - 4 + 1 : u[i] = a[4 + i - 1]
    <3> PICK e \in Int : e = 4 + 2 * m
      OBVIOUS
    <3>1. \A i \in 4 .. e : a[i] \in VarInts
      BY <2>1
    <3>2. /\ Len(SubSeq(a, 4, e)) = (IF 4 <= e THEN e - 4 + 1 ELSE 0)
          /\ \A i \in 1 .. e - 4 + 1 : SubSeq(a, 4, e)[i] = a[4 + i - 1]
      BY <3>1, SubSeqProperties
    <3> QED
      BY <3>2
  <2> HIDE DEF u, t
  <2>4. Len(u) = 2 * m + 1
    BY <2>3
  <2>5. ASSUME NEW i \in 1 .. 2 * m + 1 PROVE u[i] = a[i + 3]
    <3>1. i \in 1 .. (4 + 2 * m) - 4 + 1 /\ 4 + i - 1 = i + 3
      OBVIOUS
    <3> QED
      BY <2>3, <3>1
  <2> QED
    BY <2>2, <2>4, <2>5 DEF u
<1> HIDE DEF t
<1>11. ASSUME NEW k \in 1 .. n - 1
       PROVE  /\ t[2 * k] = l[k].start - l[k + 1].end - 2
              /\ t[2 * k + 1] = l[k + 1].end - l[k + 1].start
  <2> PICK j \in Nat : j = k
    OBVIOUS
  <2>1. /\ 2 * j \in 1 .. 2 * m + 1 /\ 2 * j + 1 \in 1 .. 2 * m + 1
        /\ 2 * j + 3 \in 1 .. 4 + 2 * m /\ 2 * j + 4 \in 1 .. 4 + 2 * m
        /\ ~(2 * j + 3 <= 4) /\ ~(2 * j + 4 <= 4)
        /\ (2 * j + 3) - 4 = 2 * j - 1 /\ (2 * j + 4) - 4 = 2 * j
        /\ (2 * j + 1) + 3 = 2 * j + 4
    OBVIOUS
  <2>2. t[2 * j] = a[2 * j + 3] /\ t[2 * j + 1] = a[2 * j + 4]
    BY <1>10, <2>1
  <2>3. a[2 * j + 3] = q[2 * j - 1] /\ a[2 * j + 4] = q[2 * j]
    BY <1>8, <2>1
  <2> QED
    BY <1>4, <1>7, <2>2, <2>3
<1>12. t[1] = l[1].end - l[1].start
  <2>1. 1 \in 1 .. 2 * m + 1 /\ 1 + 3 = 4
    OBVIOUS
  <2> QED
    BY <1>9, <1>10, <2>1
<1>13. IntegersOf(l, t)
  <2>1. Len(t) = 2 * n - 1
    BY <1>1, <1>10
  <2> QED
    BY <1>11, <1>12, <2>1 DEF IntegersOf, n
<1> QED
  BY <1>3, <1>6, <1>9, <1>13 DEF a, n, p, q, ps, t

\* An ACK frame is read as it was written.
LEMMA ParseAckReads ==
  ASSUME NEW l, IsRanges(l), NEW delay \in VarInts, NEW id,
         NEW counts \in Seq(VarInts), Len(counts) = (IF id = 3 THEN 3 ELSE 0), NEW r \in Seq(Nat)
  PROVE  ParseAck(At(Bytes(AckIntegers(delay, l) \o counts) \o r, <<>>), id) =
            At(r, <<delay, l>> \o counts)
<1> DEFINE a == AckIntegers(delay, l)
           p == Firsts(delay, l)
           q == FlattenSeq(Pairs(l))
           n == Len(l)
           c == At(Bytes(a \o counts) \o r, <<>>)
           head == ReadFields(c, Vars(4))
           all == ReadFields(head, Vars(2 * head.got[3]))
           last == ReadFields(Holding(all, <<>>), Vars(IF id = 3 THEN 3 ELSE 0))
           ranges == RangesFrom(all.got[1], SubSeq(all.got, 4, Len(all.got)))
<1>1. /\ a = p \o q /\ p \in Seq(VarInts) /\ Len(p) = 4
      /\ q \in Seq(VarInts) /\ a \in Seq(VarInts)
  BY AckTyped
<1>2. /\ a[1] = l[1].end /\ a[2] = delay /\ p[3] = n - 1 /\ Len(q) = 2 * (n - 1)
      /\ IntegersOf(l, SubSeq(a, 4, Len(a)))
  BY IntegersAre
<1>3. ParseAck(c, id) = Holding(last, <<all.got[2], ranges>> \o last.got)
  BY DEF ParseAck
<1>0. <<>> \in Seq(VarInts) /\ <<>> \o p = p /\ <<>> \o counts = counts
  BY <1>1, EmptySeq, ConcatEmptySeq
<1> HIDE DEF a, p, q, n
<1>4. /\ Bytes(p) \in Seq(Nat) /\ Bytes(q) \in Seq(Nat) /\ Bytes(counts) \in Seq(Nat)
      /\ Bytes(a \o counts) = (Bytes(p) \o Bytes(q)) \o Bytes(counts)
  <2>1. Bytes(a \o counts) = Bytes(a) \o Bytes(counts) /\ Bytes(counts) \in Seq(Nat)
    BY <1>1, BytesJoined
  <2>2. Bytes(p) \in Seq(Nat) /\ Bytes(q) \in Seq(Nat) /\ Bytes(p \o q) = Bytes(p) \o Bytes(q)
    BY <1>1, BytesJoined
  <2> QED
    BY <1>1, <2>1, <2>2
<1> DEFINE s == Bytes(counts) \o r
<1>5. s \in Seq(Nat) /\ Bytes(q) \o s \in Seq(Nat)
  <2>1. s \in Seq(Nat)
    BY <1>4, Joined
  <2> HIDE DEF s
  <2> QED
    BY <1>4, <2>1, Joined
<1>6. Bytes(a \o counts) \o r = Bytes(p) \o (Bytes(q) \o s)
  <2>1. Bytes(p) \o Bytes(q) \in Seq(Nat)
    BY <1>4, Joined
  <2>2. ((Bytes(p) \o Bytes(q)) \o Bytes(counts)) \o r = (Bytes(p) \o Bytes(q)) \o s
    BY <1>4, <2>1, JoinedInOrder
  <2>3. (Bytes(p) \o Bytes(q)) \o s = Bytes(p) \o (Bytes(q) \o s)
    <3> HIDE DEF s
    <3> QED
      BY <1>4, <1>5, JoinedInOrder
  <2> QED
    BY <1>4, <2>2, <2>3
<1> HIDE DEF s
<1>7. head = At(Bytes(q) \o s, p)
  <2>1. c = At(Bytes(p) \o (Bytes(q) \o s), <<>>)
    BY <1>6
  <2> HIDE DEF c
  <2>2. ReadFields(At(Bytes(p) \o (Bytes(q) \o s), <<>>), Vars(Len(p))) = At(Bytes(q) \o s, <<>> \o p)
    BY <1>0, <1>1, <1>5, VarsRead DEF Bytes
  <2> QED
    BY <1>0, <1>1, <2>1, <2>2
<1> HIDE DEF c, head
<1>8. all = At(s, a)
  <2>1. head.got = p
    BY <1>7, AtIs
  <2>2. 2 * head.got[3] = Len(q)
    BY <1>2, <2>1
  <2>3. ReadFields(At(Bytes(q) \o s, p), Vars(Len(q))) = At(s, p \o q)
    BY <1>1, <1>5, VarsRead DEF Bytes
  <2> QED
    BY <1>1, <1>7, <2>2, <2>3
<1> HIDE DEF all
<1>9. last = At(r, counts)
  <2>1. Holding(all, <<>>) = At(s, <<>>)
    BY <1>8, HoldingIs
  <2>2. ReadFields(At(Bytes(counts) \o r, <<>>), Vars(Len(counts))) = At(r, <<>> \o counts)
    BY <1>0, VarsRead DEF Bytes
  <2> QED
    BY <1>0, <2>1, <2>2 DEF s
<1> HIDE DEF last
<1>10. all.got = a
  BY <1>8, AtIs
<1>11. ranges = l
  <2>1. RangesFrom(l[1].end, SubSeq(a, 4, Len(a))) = l
    BY <1>2, RangesRead
  <2> QED
    BY <1>2, <1>10, <2>1
<1> HIDE DEF ranges
<1>12. last.got = counts
  BY <1>9, AtIs
<1>13. ParseAck(c, id) = Holding(At(r, counts), <<delay, l>> \o counts)
  BY <1>2, <1>3, <1>9, <1>10, <1>11, <1>12
<1>14. ParseAck(c, id) = At(r, <<delay, l>> \o counts)
  BY <1>13, HoldingIs
<1> QED
  BY <1>14 DEF c, a

-----------------------------------------------------------------------------
(* Reading frames.                                                         *)

\* Small integers take one byte, which is their value.
LEMMA OneByte ==
  ASSUME NEW v \in 0 .. 62
  PROVE  /\ v \in VarInts /\ encodeVarIntLen(v) = 1
         /\ encodeVarInt(v) \in Seq(Nat) /\ Len(encodeVarInt(v)) = 1 /\ encodeVarInt(v)[1] = v
<1>1. v \in VarInts
  <2>1. Shifted(63, 0) = 63 /\ \A k \in Nat : Shifted(63, k + 1) = Shifted(63, k) \div 256
    BY ShiftedIs
  <2>2. 63 \div 256 = 0 /\ 0 \div 256 = 0
    OBVIOUS
  <2>3. Shifted(63, 0 + 1) = 0
    BY <2>1, <2>2
  <2>4. Shifted(63, 1 + 1) = 0
    BY <2>1, <2>2, <2>3
  <2>5. Shifted(63, 2 + 1) = 0
    BY <2>1, <2>2, <2>4
  <2>6. Shifted(63, 3 + 1) = 0
    BY <2>1, <2>2, <2>5
  <2>7. Shifted(63, 4 + 1) = 0
    BY <2>1, <2>2, <2>6
  <2>8. Shifted(63, 5 + 1) = 0
    BY <2>1, <2>2, <2>7
  <2>9. Shifted(63, 6 + 1) = 0
    BY <2>1, <2>2, <2>8
  <2>10. 62 \in VarInts
    BY <2>9 DEF VarInts, IsVarInt
  <2> QED
    BY <2>10, VarIntBelow
<1>2. encodeVarIntLen(v) = 1 /\ EncodeIndex(v) = 1
  <2>1. v \in Nat /\ v < 63
    OBVIOUS
  <2>2. EncodeIndex(v) = 1
    BY <2>1, SizeOf
  <2> QED
    BY <2>2 DEF encodeVarIntLen, VarIntSizes
<1>3. encodeVarInt(v) \in Seq(Nat) /\ Len(encodeVarInt(v)) = 1
  <2>1. v \in Nat
    OBVIOUS
  <2> QED
    BY <1>2, <2>1, VarIntTyped
<1>4. encodeVarInt(v)[1] = v
  <2> DEFINE b == encodeUInt(v, 1)
  <2>1. b \in Seq(Nat) /\ Len(b) = 1 /\ b[1] = Shifted(v, 1 - 1) % 256
    <3>1. v \in Nat /\ 1 \in Nat /\ 1 \in 1 .. 1
      OBVIOUS
    <3>2. b \in Seq(Nat) /\ Len(b) = 1
      BY <3>1, UIntTyped
    <3>3. \A k \in 1 .. 1 : b[k] = Shifted(v, 1 - k) % 256
      BY <3>1, UIntTyped
    <3> HIDE DEF b
    <3>4. b[1] = Shifted(v, 1 - 1) % 256
      BY <3>1, <3>3, Zenon
    <3> QED
      BY <3>2, <3>4
  <2>2. encodeVarInt(v) = <<b[1] + 64 * (1 - 1)>> \o Tail(b)
    BY <1>2 DEF encodeVarInt, VarIntSizes
  <2>3. Shifted(v, 1 - 1) = v /\ v % 256 = v
    <3>1. Shifted(v, 0) = v
      <4>1. v \in Nat
        OBVIOUS
      <4> QED
        BY <4>1, ShiftedIs
    <3>3. 1 - 1 = 0
      OBVIOUS
    <3>2. \A a \in 0 .. 62 : a % 256 = a
      OBVIOUS
    <3> QED
      BY <3>1, <3>2, <3>3
  <2>4. b[1] = v
    BY <2>1, <2>3
  <2> HIDE DEF b
  <2>5. Tail(b) = <<>>
    <3>1. b # <<>>
      BY <2>1, EmptySeq
    <3>2. Tail(b) \in Seq(Nat) /\ Len(Tail(b)) = 0
      BY <2>1, <3>1, HeadTailProperties
    <3> QED
      BY <3>2, EmptySeq
  <2>6. v + 64 * (1 - 1) = v
    OBVIOUS
  <2>7. encodeVarInt(v) = <<v>> \o <<>>
    BY <2>2, <2>4, <2>5, <2>6
  <2>8. <<v>> \o <<>> = <<v>>
    BY OneAndOne
  <2> QED
    BY <2>7, <2>8
<1> QED
  BY <1>1, <1>2, <1>3, <1>4

\* The first of what is in front.
LEMMA FirstOf ==
  ASSUME NEW s \in Seq(Nat), Len(s) >= 1, NEW r \in Seq(Nat)
  PROVE  (s \o r)[1] = s[1] /\ Len(s \o r) >= 1 /\ s \o r # <<>>
<1>1. /\ s \o r \in Seq(Nat) /\ Len(s \o r) = Len(s) + Len(r) /\ Len(s) \in Nat /\ Len(r) \in Nat
      /\ \A i \in 1 .. Len(s) + Len(r) : (s \o r)[i] = IF i <= Len(s) THEN s[i] ELSE r[i - Len(s)]
  BY ConcatProperties
<1>2. 1 \in 1 .. Len(s) + Len(r) /\ 1 <= Len(s)
  BY <1>1
<1>3. (s \o r)[1] = s[1]
  BY <1>1, <1>2
<1>4. Len(s \o r) >= 1
  BY <1>1
<1> QED
  BY <1>1, <1>3, <1>4, EmptySeq

\* The fields of an ACK frame are the delay, the ranges and the counts.
LEMMA AckFields ==
  ASSUME NEW f, IsFrame(f), f.id \in {2, 3}
  PROVE  <<f.fields[1], f.fields[2]>> \o Counts(f) = f.fields
<1> DEFINE fs == f.fields
           n == Len(fs)
           S == {fs[k] : k \in 1 .. n}
           two == <<fs[1], fs[2]>>
           c == Counts(f)
           m == Len(c)
<1>1. /\ n = (IF f.id = 3 THEN 5 ELSE 2) /\ fs = [k \in 1 .. n |-> fs[k]]
      /\ c \in Seq(VarInts) /\ m = (IF f.id = 3 THEN 3 ELSE 0)
      /\ \A k \in 1 .. m : c[k] = fs[k + 2]
  BY AllIntegersTyped
<1>2. n \in Nat /\ n >= 2 /\ n = 2 + m /\ m \in Nat
  BY <1>1
<1> HIDE DEF fs, n, c, m
<1>3. \A k \in 1 .. n : fs[k] \in S
  OBVIOUS
<1>4. fs \in Seq(S) /\ Len(fs) = n
  <2> HIDE DEF S
  <2>1. fs \in [1 .. n -> S]
    BY <1>1, <1>3
  <2> QED
    BY <1>2, <2>1
<1>5. two \in Seq(S) /\ Len(two) = 2 /\ two[1] = fs[1] /\ two[2] = fs[2]
  <2>1. fs[1] \in S /\ fs[2] \in S
    BY <1>2, <1>3
  <2> HIDE DEF S
  <2> QED
    BY <2>1
<1>6. c \in Seq(S)
  <2>1. \A k \in 1 .. m : c[k] \in S
    <3> TAKE k \in 1 .. m
    <3>1. k + 2 \in 1 .. n
      BY <1>2
    <3> QED
      BY <1>1, <1>3, <3>1
  <2>2. c = [k \in 1 .. m |-> c[k]]
    <3>1. c = [k \in 1 .. Len(c) |-> c[k]]
      BY <1>1
    <3> QED
      BY <3>1 DEF m
  <2> HIDE DEF S
  <2>3. c \in [1 .. m -> S]
    BY <2>1, <2>2
  <2> QED
    BY <1>2, <2>3
<1> HIDE DEF S, two
<1>7. /\ two \o c \in Seq(S) /\ Len(two \o c) = 2 + m
      /\ \A i \in 1 .. 2 + m : (two \o c)[i] = IF i <= 2 THEN two[i] ELSE c[i - 2]
  <2>1. /\ two \o c \in Seq(S) /\ Len(two \o c) = Len(two) + Len(c)
        /\ \A i \in 1 .. Len(two) + Len(c) :
             (two \o c)[i] = IF i <= Len(two) THEN two[i] ELSE c[i - Len(two)]
    BY <1>5, <1>6, ConcatProperties
  <2> QED
    BY <1>5, <2>1 DEF m
<1>8. \A i \in 1 .. n : (two \o c)[i] = fs[i]
  <2> TAKE i \in 1 .. n
  <2>1. CASE i <= 2
    <3>1. i \in {1, 2} /\ i \in 1 .. 2 + m
      BY <1>2, <2>1
    <3>2. (two \o c)[i] = two[i]
      BY <1>7, <2>1, <3>1
    <3> QED
      BY <1>5, <3>1, <3>2
  <2>2. CASE ~(i <= 2)
    <3>1. i - 2 \in 1 .. m /\ (i - 2) + 2 = i /\ i \in 1 .. 2 + m
      BY <1>2, <2>2
    <3>2. (two \o c)[i] = c[i - 2]
      BY <1>7, <2>2, <3>1
    <3>3. c[i - 2] = fs[(i - 2) + 2]
      BY <1>1, <3>1
    <3> QED
      BY <3>1, <3>2, <3>3
  <2> QED
    BY <2>1, <2>2
<1>9. two \o c = fs
  BY <1>2, <1>4, <1>7, <1>8, SeqEqual
<1> QED
  BY <1>9 DEF two, c, fs

\* What the first byte decides.
LEMMA ParseChooses ==
  ASSUME NEW bytes
  PROVE  /\ bytes[1] \in {2, 3} =>
              Parse(bytes) = ParseAck(Holding(decodeVarInt(Cursor(bytes)), <<>>), bytes[1])
         /\ bytes[1] \in (1 .. 30) \ {2, 3} =>
              Parse(bytes) = ReadFields(Holding(decodeVarInt(Cursor(bytes)), <<>>), Layout(bytes[1]))
<1>1. CASE bytes[1] = 2
  BY <1>1 DEF Parse
<1>2. CASE bytes[1] = 3
  BY <1>2 DEF Parse
<1>3. ASSUME NEW id \in (1 .. 30) \ {2, 3}, bytes[1] = id
      PROVE  Parse(bytes) = ReadFields(Holding(decodeVarInt(Cursor(bytes)), <<>>), Layout(bytes[1]))
  <2>1. id # 0 /\ id \notin {2, 3} /\ ~(id > 30)
    OBVIOUS
  <2> QED
    BY <1>3, <2>1 DEF Parse
<1>4. bytes[1] \in {2, 3} =>
         Parse(bytes) = ParseAck(Holding(decodeVarInt(Cursor(bytes)), <<>>), bytes[1])
  BY <1>1, <1>2
<1>5. bytes[1] \in (1 .. 30) \ {2, 3} =>
         Parse(bytes) = ReadFields(Holding(decodeVarInt(Cursor(bytes)), <<>>), Layout(bytes[1]))
  BY <1>3
<1> QED
  BY <1>4, <1>5

\* The frames that are read as themselves.
Plain(f) == f.id \notin {0, 6, 18, 19, 22, 23}

\* What Encode wrote of such a frame Parse reads.
LEMMA ParseReads ==
  ASSUME NEW f, IsFrame(f), Plain(f), NEW r \in Seq(Nat), ReadsOn(f) => r = <<>>
  PROVE  /\ Parse(EncodeFrame(f) \o r) = At(r, f.fields)
         /\ EncodeFrame(f) \in Seq(Nat) /\ Len(EncodeFrame(f)) >= 1
         /\ (EncodeFrame(f) \o r)[1] = f.id
<1> DEFINE id == f.id
           w == encodeVarInt(id)
           b == IF id \in {2, 3} THEN Bytes(AllIntegers(f)) ELSE FlattenSeq(FieldBytes(f))
           bytes == EncodeFrame(f) \o r
<1>1. /\ id # 0 /\ id \notin {18, 19, 22, 23} /\ id \in 0 .. 62
      /\ (id \notin {2, 3} => id \notin {0, 2, 3} /\ id \in (1 .. 30) \ {2, 3})
  <2>1. id \in 0 .. 30
    BY DEF IsFrame
  <2>2. id # 0 /\ id \notin {18, 19, 22, 23}
    BY DEF Plain
  <2> HIDE DEF id
  <2>3. id \in 0 .. 62 /\ id \in 1 .. 30
    BY <2>1, <2>2
  <2> QED
    BY <2>2, <2>3
<1>2. /\ id \in VarInts /\ w \in Seq(Nat) /\ Len(w) = 1 /\ w[1] = id
  BY <1>1, OneByte
<1>3. EncodeFrame(f) = w \o b /\ b \in Seq(Nat)
  <2>1. CASE id \in {2, 3}
    <3>1. AllIntegers(f) \in Seq(VarInts)
      BY <2>1, AllIntegersTyped
    <3>2. Bytes(AllIntegers(f)) \in Seq(Nat)
      <4>1. VarBytes(AllIntegers(f)) \in Seq(Seq(Nat))
        BY <3>1, VarBytesTyped
      <4> QED
        BY <4>1, FlattenTyped DEF Bytes
    <3> QED
      BY <2>1, <3>2 DEF EncodeFrame, Bytes, VarBytes
  <2>2. CASE id \notin {2, 3}
    <3>1. id \notin {0, 2, 3}
      BY <1>1, <2>2, Zenon
    <3>2. /\ FieldBytes(f) \in Seq(Seq(Nat))
          /\ EncodeFrame(f) = encodeVarInt(WrittenID(id)) \o FlattenSeq(FieldBytes(f))
      BY <3>1, FieldBytesTyped
    <3>3. WrittenID(id) = id
      BY <1>1 DEF WrittenID
    <3> QED
      BY <2>2, <3>2, <3>3, FlattenTyped
  <2> QED
    BY <2>1, <2>2
<1> HIDE DEF w, b
<1>4. bytes = w \o (b \o r) /\ b \o r \in Seq(Nat)
  <2>1. (w \o b) \o r = w \o (b \o r)
    BY <1>2, <1>3, JoinedInOrder
  <2>2. b \o r \in Seq(Nat)
    BY <1>3, Joined
  <2> QED
    BY <1>3, <2>1, <2>2
<1>5. bytes[1] = id /\ Len(EncodeFrame(f)) >= 1 /\ EncodeFrame(f) \in Seq(Nat)
  <2>0. Len(w) >= 1
    BY <1>2
  <2>1. (w \o (b \o r))[1] = w[1]
    BY <1>2, <1>4, <2>0, FirstOf
  <2>2. Len(w \o b) >= 1 /\ w \o b \in Seq(Nat)
    BY <1>2, <1>3, <2>0, FirstOf, Joined
  <2> QED
    BY <1>2, <1>3, <1>4, <2>1, <2>2
<1> DEFINE c == decodeVarInt(Cursor(bytes))
           start == Holding(c, <<>>)
<1>6. start = At(b \o r, <<>>)
  <2>1. Cursor(bytes) = At(w \o (b \o r), <<>>)
    BY <1>4 DEF Cursor, At
  <2>2. decodeVarInt(At(w \o (b \o r), <<>>)) = At(b \o r, Append(<<>>, id))
    BY <1>2, <1>4, DecodeVarIntReads DEF w
  <2>3. Holding(At(b \o r, Append(<<>>, id)), <<>>) = At(b \o r, <<>>)
    BY HoldingIs
  <2> QED
    BY <2>1, <2>2, <2>3
<1> HIDE DEF bytes
<1>7. CASE id \in {2, 3}
  <2>1. Parse(bytes) = ParseAck(start, id)
    <3>1. bytes[1] \in {2, 3}
      BY <1>5, <1>7
    <3> QED
      BY <1>5, <3>1, ParseChooses
  <2> DEFINE l == f.fields[2]
             delay == f.fields[1]
             counts == Counts(f)
  <2>2. /\ IsRanges(l) /\ delay \in VarInts /\ counts \in Seq(VarInts)
        /\ Len(counts) = (IF id = 3 THEN 3 ELSE 0)
        /\ AllIntegers(f) = AckIntegers(delay, l) \o counts
    BY <1>7, AllIntegersTyped
  <2>3. <<delay, l>> \o counts = f.fields
    BY <1>7, AckFields
  <2>4. b = Bytes(AckIntegers(delay, l) \o counts)
    BY <1>7, <2>2 DEF b
  <2> HIDE DEF start, l, delay, counts, id
  <2>5. ParseAck(At(Bytes(AckIntegers(delay, l) \o counts) \o r, <<>>), id) = At(r, <<delay, l>> \o counts)
    BY <2>2, ParseAckReads
  <2>6. Parse(bytes) = At(r, f.fields)
    BY <1>6, <2>1, <2>3, <2>4, <2>5
  <2> QED
    BY <1>5, <2>6 DEF bytes, id
<1>8. CASE id \notin {2, 3}
  <2> DEFINE kinds == Layout(id)
             fs == f.fields
             n == Len(kinds)
             S == {fs[k] : k \in 1 .. n}
  <2>1. Parse(bytes) = ReadFields(start, kinds)
    <3>1. id # 0 /\ id \in (1 .. 30) \ {2, 3}
      BY <1>1, <1>8, Zenon
    <3>2. bytes[1] \in (1 .. 30) \ {2, 3}
      BY <1>5, <3>1
    <3> QED
      BY <1>5, <3>2, ParseChooses
  <2>2. /\ kinds \in Seq(Kinds) /\ Len(fs) = n /\ DOMAIN fs = 1 .. n
        /\ \A k \in 1 .. n : IsValue(kinds[k], fs[k])
        /\ fs = [k \in 1 .. n |-> fs[k]] /\ id \in (1 .. 30) \ {2, 3}
    <3>1. id \notin {0, 2, 3}
      BY <1>1, <1>8, Zenon
    <3>2. f.fields = [k \in 1 .. FieldCount(id) |-> f.fields[k]] /\ FieldCount(id) = n
      BY <3>1 DEF IsFrame, FieldCount
    <3> QED
      BY <1>1, <3>1, <3>2, FieldsTyped
  <2>3. n \in Nat /\ DOMAIN kinds = 1 .. n
    BY <2>2
  <2>4. fs \in Seq(S) /\ <<>> \in Seq(S)
    <3>1. \A k \in 1 .. n : fs[k] \in S
      OBVIOUS
    <3> HIDE DEF S, n, fs, kinds
    <3>2. fs \in [1 .. n -> S]
      BY <2>2, <3>1
    <3> QED
      BY <2>3, <3>2, EmptySeq
  <2>5. \A k \in 1 .. n : kinds[k] = "rest" => k = n /\ r = <<>>
    <3> TAKE k \in 1 .. n
    <3>1. kinds[k] = "rest" => k = n /\ id \in StreamIDs /\ ~Bit(id, 2)
      <4>1. \A i \in DOMAIN Layout(id) :
              Layout(id)[i] = "rest" => i = Len(Layout(id)) /\ id \in StreamIDs /\ ~Bit(id, 2)
        BY <2>2, LayoutTyped
      <4> QED
        BY <2>3, <4>1
    <3>2. id \in StreamIDs /\ ~Bit(id, 2) => ReadsOn(f)
      BY DEF ReadsOn
    <3> QED
      BY <3>1, <3>2
  <2>6. Fits(kinds, fs, r)
    BY <2>2, <2>5 DEF Fits
  <2>7. b = FlattenSeq(AllWritten(kinds, fs))
    BY <1>8 DEF b, FieldBytes, AllWritten
  <2>8. ReadFields(At(FlattenSeq(AllWritten(kinds, fs)) \o r, <<>>), kinds) = At(r, <<>> \o fs)
    <3> HIDE DEF S, fs, kinds, n
    <3> QED
      BY <2>2, <2>4, <2>6, ReadFieldsReads
  <2>9. <<>> \o fs = fs
    <3> HIDE DEF S, fs
    <3> QED
      BY <2>4, ConcatEmptySeq
  <2> HIDE DEF start, kinds
  <2>10. Parse(bytes) = At(r, fs)
    BY <1>6, <2>1, <2>7, <2>8, <2>9
  <2> QED
    BY <1>5, <2>10 DEF bytes
<1> QED
  BY <1>7, <1>8

\* Parts that are not empty: there are at least as many bytes as parts.
LEMMA FlattenAtLeast ==
  ASSUME NEW ss \in Seq({s \in Seq(Nat) : Len(s) >= 1})
  PROVE  ss \in Seq(Seq(Nat)) /\ Len(FlattenSeq(ss)) >= Len(ss)
<1> DEFINE P == {s \in Seq(Nat) : Len(s) >= 1}
           Good == {tt \in Seq(P) : tt \in Seq(Seq(Nat)) /\ Len(FlattenSeq(tt)) >= Len(tt)}
<1>0. \A s \in P : s \in Seq(Nat) /\ Len(s) >= 1
  OBVIOUS
<1> HIDE DEF P
<1>1. <<>> \in Good
  <2>1. <<>> \in Seq(P) /\ <<>> \in Seq(Seq(Nat)) /\ Len(<<>>) >= Len(<<>>)
    BY EmptySeq
  <2> QED
    BY <2>1, FlattenEmpty
<1>2. ASSUME NEW tt \in Good, NEW s \in P PROVE Append(tt, s) \in Good
  <2> DEFINE a == FlattenSeq(tt)
             uu == Append(tt, s)
  <2>1. tt \in Seq(P) /\ tt \in Seq(Seq(Nat)) /\ Len(a) >= Len(tt)
    OBVIOUS
  <2>2. s \in Seq(Nat) /\ Len(s) >= 1
    BY <1>0
  <2>3. uu \in Seq(P) /\ uu \in Seq(Seq(Nat)) /\ Len(uu) = Len(tt) + 1
    BY <2>1, <2>2, AppendProperties
  <2>4. FlattenSeq(uu) = a \o s /\ a \in Seq(Nat)
    BY <2>1, <2>2, FlattenMore, FlattenTyped
  <2> HIDE DEF a, uu
  <2>5. Len(FlattenSeq(uu)) = Len(a) + Len(s)
    BY <2>2, <2>4, ConcatProperties
  <2>6. Len(a) \in Nat /\ Len(s) \in Nat /\ Len(tt) \in Nat
    BY <2>1, <2>2, <2>4
  <2>7. Len(FlattenSeq(uu)) >= Len(uu)
    BY <2>1, <2>2, <2>3, <2>5, <2>6
  <2> QED
    BY <2>3, <2>7 DEF uu
<1>3. Good = Seq(P)
  <2>1. Good \in SUBSET Seq(P)
    OBVIOUS
  <2> HIDE DEF Good
  <2> QED
    BY <1>1, <1>2, <2>1, SequenceInduction
<1>4. ss \in Good
  <2> HIDE DEF Good
  <2> QED
    BY <1>3 DEF P
<1> QED
  BY <1>4

\* The loop over the frames.
FramesFrom(f, bytes, stop) ==
  f = [k \in 0 .. Len(bytes) |->
            IF k = 0 THEN [left |-> bytes, ok |-> TRUE, frames |-> <<>>]
            ELSE LET s == f[k - 1]
                 IN  IF ~s.ok \/ Len(s.left) <= stop THEN s
                     ELSE WithFrame(s, Parse(s.left))]

\* ParseFrames is what some such loop ends with.
LEMMA FramesChosen ==
  ASSUME NEW bytes, NEW stop
  PROVE  ParseFrames(bytes, stop) = (CHOOSE f : FramesFrom(f, bytes, stop))[Len(bytes)]
BY DEF ParseFrames, FramesFrom

\* A loop that goes like h ends like h.
Going(h, bytes, stop) ==
  /\ h = [k \in 0 .. Len(bytes) |-> h[k]]
  /\ h[0] = [left |-> bytes, ok |-> TRUE, frames |-> <<>>]
  /\ \A k \in 1 .. Len(bytes) :
       h[k] = LET s == h[k - 1]
              IN  IF ~s.ok \/ Len(s.left) <= stop THEN s
                  ELSE WithFrame(s, Parse(s.left))

\* There is one function that goes so, and ParseFrames ends where it does.
LEMMA FramesGo ==
  ASSUME NEW bytes \in Seq(Nat), NEW stop, NEW h, Going(h, bytes, stop)
  PROVE  ParseFrames(bytes, stop) = h[Len(bytes)]
<1> DEFINE n == Len(bytes)
           Next(e, k) == LET s == e[k - 1]
                         IN  IF ~s.ok \/ Len(s.left) <= stop THEN s
                             ELSE WithFrame(s, Parse(s.left))
           start == [left |-> bytes, ok |-> TRUE, frames |-> <<>>]
           f == CHOOSE e : FramesFrom(e, bytes, stop)
<1>1. n \in Nat
  OBVIOUS
<1>2. h = [k \in 0 .. n |-> h[k]] /\ h[0] = start /\ \A k \in 1 .. n : h[k] = Next(h, k)
  BY DEF Going
<1>3. ASSUME NEW e, e = [k \in 0 .. n |-> IF k = 0 THEN start ELSE Next(e, k)]
      PROVE  FramesFrom(e, bytes, stop)
  BY <1>3 DEF FramesFrom
<1>4. ASSUME NEW e, FramesFrom(e, bytes, stop)
      PROVE  e = [k \in 0 .. n |-> IF k = 0 THEN start ELSE Next(e, k)]
  BY <1>4 DEF FramesFrom
<1>5. ParseFrames(bytes, stop) = f[n]
  BY FramesChosen
<1> HIDE DEF Next, n, start
<1>6. FramesFrom(h, bytes, stop)
  <2>1. \A k \in 0 .. n : h[k] = IF k = 0 THEN start ELSE Next(h, k)
    <3> TAKE k \in 0 .. n
    <3>1. CASE k = 0
      BY <1>2, <3>1
    <3>2. CASE k # 0
      <4>1. k \in 1 .. n
        BY <1>1, <3>2
      <4> QED
        BY <1>2, <3>2, <4>1
    <3> QED
      BY <3>1, <3>2
  <2>2. h = [k \in 0 .. n |-> IF k = 0 THEN start ELSE Next(h, k)]
    BY <1>2, <2>1
  <2> QED
    BY <1>3, <2>2
<1>7. FramesFrom(f, bytes, stop)
  BY <1>6
<1> HIDE DEF f
<1>8. \A k \in 0 .. n : f[k] = IF k = 0 THEN start ELSE Next(f, k)
  <2>1. f = [k \in 0 .. n |-> IF k = 0 THEN start ELSE Next(f, k)]
    BY <1>4, <1>7
  <2> QED
    BY <2>1
<1>9. Alike(f, h, 0, n)
  <2>1. ASSUME NEW k \in 0 .. n - 1, f[k] = h[k] PROVE f[k + 1] = h[k + 1]
    <3>1. k + 1 \in 1 .. n /\ k + 1 \in 0 .. n /\ k + 1 # 0 /\ (k + 1) - 1 = k
      BY <1>1
    <3>2. Next(f, k + 1) = Next(h, k + 1)
      BY <2>1, <3>1 DEF Next
    <3> QED
      BY <1>2, <1>8, <3>1, <3>2
  <2>2. f[0] = h[0]
    <3>1. 0 \in 0 .. n
      BY <1>1
    <3> QED
      BY <1>2, <1>8, <3>1
  <2> QED
    BY <2>1, <2>2 DEF Alike
<1>10. f[n] = h[n]
  <2>1. 0 \in Nat /\ n \in 0 .. n
    BY <1>1
  <2> QED
    BY <1>1, <1>9, <2>1, LoopsAgree
<1> QED
  BY <1>5, <1>10 DEF n

\* A payload that is left alone.
LEMMA FramesLeft ==
  ASSUME NEW bytes \in Seq(Nat), NEW stop, Len(bytes) <= stop
  PROVE  ParseFrames(bytes, stop) = [left |-> bytes, ok |-> TRUE, frames |-> <<>>]
<1> DEFINE start == [left |-> bytes, ok |-> TRUE, frames |-> <<>>]
           h == [k \in 0 .. Len(bytes) |-> start]
<1>1. Len(bytes) \in Nat
  OBVIOUS
<1>2. \A k \in 0 .. Len(bytes) : h[k] = start
  OBVIOUS
<1>3. start.left = bytes
  OBVIOUS
<1>4. h = [k \in 0 .. Len(bytes) |-> h[k]]
  OBVIOUS
<1> HIDE DEF h
<1>5. 0 \in 0 .. Len(bytes) /\ Len(bytes) \in 0 .. Len(bytes)
  BY <1>1
<1>6. ASSUME NEW k \in 1 .. Len(bytes)
      PROVE  h[k] = LET s == h[k - 1]
                    IN  IF ~s.ok \/ Len(s.left) <= stop THEN s
                        ELSE WithFrame(s, Parse(s.left))
  <2>1. k \in 0 .. Len(bytes) /\ k - 1 \in 0 .. Len(bytes)
    BY <1>1
  <2>2. h[k] = start /\ h[k - 1] = start
    BY <1>2, <2>1
  <2>3. Len(h[k - 1].left) <= stop
    BY <1>3, <2>2
  <2> QED
    BY <2>2, <2>3
<1>7. Going(h, bytes, stop)
  BY <1>2, <1>4, <1>5, <1>6 DEF Going
<1> QED
  BY <1>2, <1>5, <1>7, FramesGo

\* The frames with nothing but what is compared.
Shown(fs) == [k \in 1 .. Len(fs) |-> [id |-> fs[k].id, fields |-> fs[k].fields]]

\* The frames of a payload are read one after the other, to its last byte.
LEMMA FramesRead ==
  ASSUME NEW fs, IsPayload(fs), \A k \in DOMAIN fs : Plain(fs[k])
  PROVE  ParseFrames(FlattenSeq(FrameBytes(fs)), 0) = [left |-> <<>>, ok |-> TRUE, frames |-> Shown(fs)]
<1> DEFINE n == Len(fs)
           b == FrameBytes(fs)
           bytes == FlattenSeq(b)
           shown == Shown(fs)
           last == Len(bytes)
           m == [k \in 0 .. last |-> IF k <= n THEN k ELSE n]
           h == [k \in 0 .. last |-> [left |-> Behind(b, m[k]), ok |-> TRUE, frames |-> Taken(<<>>, shown, m[k])]]
           S == {shown[k] : k \in 1 .. n}
<1>1. /\ fs \in Seq(Attached) /\ n \in Nat /\ DOMAIN fs = 1 .. n
      /\ \A i, j \in 1 .. n : i < j => ~ReadsOn(fs[i])
  BY DEF IsPayload
<1>2. \A k \in 1 .. n : IsFrame(fs[k]) /\ Plain(fs[k])
  BY <1>1, ElementOfSeq, AttachedAreFrames
<1>3. b \in Seq(Seq(Nat)) /\ Len(b) = n /\ bytes \in Seq(Nat) /\ last \in Nat
  <2>1. FrameBytes(fs) \in Seq(Seq(Nat))
    BY <1>1, FrameBytesTyped
  <2>2. Len(FrameBytes(fs)) = Len(fs)
    BY <1>1 DEF FrameBytes
  <2>3. FlattenSeq(FrameBytes(fs)) \in Seq(Nat)
    BY <1>1, FrameBytesTyped
  <2>4. Len(FlattenSeq(FrameBytes(fs))) \in Nat
    BY <2>3
  <2> QED
    BY <2>1, <2>2, <2>3, <2>4
<1>4. \A k \in 1 .. n : b[k] = EncodeFrame(fs[k])
  BY <1>1 DEF FrameBytes
<1>5. \A k \in 1 .. n : shown[k] = [id |-> fs[k].id, fields |-> fs[k].fields]
  BY DEF Shown
<1>6. shown = [k \in 1 .. n |-> shown[k]]
  BY DEF Shown
<1> HIDE DEF n, b, shown, last
<1>7. /\ Behind(b, 0) = bytes /\ Behind(b, n) = <<>>
      /\ \A k \in 0 .. n : Behind(b, k) \in Seq(Nat)
      /\ \A k \in 1 .. n : Behind(b, k - 1) = b[k] \o Behind(b, k)
  BY <1>3, BehindIs
<1>8. shown \in Seq(S) /\ Len(shown) = n /\ <<>> \in Seq(S) /\ <<>> \o shown = shown
  <2>1. \A k \in 1 .. n : shown[k] \in S
    OBVIOUS
  <2> HIDE DEF S
  <2>2. shown \in [1 .. n -> S]
    BY <1>6, <2>1
  <2>3. shown \in Seq(S) /\ Len(shown) = n
    BY <1>1, <2>2
  <2> QED
    BY <2>3, EmptySeq, ConcatEmptySeq
<1> HIDE DEF S
<1>9. /\ Taken(<<>>, shown, 0) = <<>> /\ Taken(<<>>, shown, n) = shown
      /\ \A k \in 1 .. n : Taken(<<>>, shown, k) = Append(Taken(<<>>, shown, k - 1), shown[k])
  <2>1. Taken(<<>>, shown, 0) = <<>>
    BY <1>8, TakenIs
  <2>2. Taken(<<>>, shown, Len(shown)) = <<>> \o shown
    BY <1>8, TakenIs
  <2>3. \A k \in 1 .. Len(shown) : Taken(<<>>, shown, k) = Append(Taken(<<>>, shown, k - 1), shown[k])
    BY <1>8, TakenIs
  <2> QED
    BY <1>8, <2>1, <2>2, <2>3
<1>10. ASSUME NEW k \in 1 .. n
       PROVE  /\ Parse(Behind(b, k - 1)) = At(Behind(b, k), fs[k].fields)
              /\ b[k] \in Seq(Nat) /\ Len(b[k]) >= 1
              /\ Behind(b, k - 1)[1] = fs[k].id /\ Len(Behind(b, k - 1)) >= 1
  <2> DEFINE f == fs[k]
             r == Behind(b, k)
  <2>1. IsFrame(f) /\ Plain(f) /\ r \in Seq(Nat) /\ Behind(b, k - 1) = EncodeFrame(f) \o r
    <3>1. k \in 0 .. n
      BY <1>1
    <3> QED
      BY <1>2, <1>4, <1>7, <3>1
  <2>2. ReadsOn(f) => r = <<>>
    <3>1. k < n => ~ReadsOn(f)
      <4>1. n \in 1 .. n
        BY <1>1
      <4> QED
        BY <1>1, <4>1
    <3>2. k = n => r = <<>>
      BY <1>7
    <3>3. k < n \/ k = n
      BY <1>1
    <3> QED
      BY <3>1, <3>2, <3>3
  <2> HIDE DEF f, r
  <2>3. /\ Parse(EncodeFrame(f) \o r) = At(r, f.fields)
        /\ EncodeFrame(f) \in Seq(Nat) /\ Len(EncodeFrame(f)) >= 1
        /\ (EncodeFrame(f) \o r)[1] = f.id
    BY <2>1, <2>2, ParseReads
  <2>4. Len(EncodeFrame(f) \o r) >= 1
    BY <2>1, <2>3, FirstOf
  <2>5. b[k] = EncodeFrame(f)
    BY <1>4 DEF f
  <2> QED
    BY <2>1, <2>3, <2>4, <2>5 DEF f, r
<1>11. n <= last
  <2> DEFINE P == {s \in Seq(Nat) : Len(s) >= 1}
  <2>1. \A k \in 1 .. n : b[k] \in P
    BY <1>10
  <2>2. b = [k \in 1 .. n |-> b[k]]
    BY <1>3
  <2> HIDE DEF P
  <2>3. b \in Seq(P)
    <3>1. b \in [1 .. n -> P]
      BY <2>1, <2>2
    <3> QED
      BY <1>1, <3>1
  <2>4. Len(bytes) >= Len(b)
    BY <2>3, FlattenAtLeast DEF P
  <2> QED
    BY <1>3, <2>4 DEF last
<1> HIDE DEF bytes
<1>12. /\ \A k \in 0 .. last : m[k] = IF k <= n THEN k ELSE n
       /\ 0 \in 0 .. last /\ last \in 0 .. last /\ m[0] = 0 /\ m[last] = n
  <2>1. \A k \in 0 .. last : m[k] = IF k <= n THEN k ELSE n
    OBVIOUS
  <2>2. 0 \in 0 .. last /\ last \in 0 .. last /\ 0 <= n /\ (last <= n => last = n)
    BY <1>1, <1>3, <1>11
  <2> HIDE DEF m
  <2> QED
    BY <2>1, <2>2
<1> HIDE DEF m
<1>13. /\ \A k \in 0 .. last : /\ h[k].left = Behind(b, m[k]) /\ h[k].ok = TRUE
                               /\ h[k].frames = Taken(<<>>, shown, m[k])
                               /\ h[k] = [left |-> Behind(b, m[k]), ok |-> TRUE, frames |-> Taken(<<>>, shown, m[k])]
       /\ h = [k \in 0 .. last |-> h[k]]
  OBVIOUS
<1> HIDE DEF h
<1>14. ASSUME NEW k \in 1 .. last
       PROVE  h[k] = LET s == h[k - 1]
                     IN  IF ~s.ok \/ Len(s.left) <= 0 THEN s
                         ELSE WithFrame(s, Parse(s.left))
  <2> DEFINE s == h[k - 1]
             c == Parse(s.left)
  <2>1. k \in 0 .. last /\ k - 1 \in 0 .. last
    BY <1>3
  <2>2. CASE k <= n
    <3>1. k \in 1 .. n /\ k - 1 <= n
      BY <1>1, <2>2
    <3>2. m[k] = k /\ m[k - 1] = k - 1
      BY <1>12, <2>1, <2>2, <3>1
    <3>3. /\ s.left = Behind(b, k - 1) /\ s.ok = TRUE /\ s.frames = Taken(<<>>, shown, k - 1)
          /\ h[k] = [left |-> Behind(b, k), ok |-> TRUE, frames |-> Taken(<<>>, shown, k)]
      BY <1>13, <2>1, <3>2
    <3> HIDE DEF s
    <3>4. /\ c = At(Behind(b, k), fs[k].fields) /\ s.left[1] = fs[k].id /\ Len(s.left) >= 1
          /\ s.left \in Seq(Nat)
      <4>1. Behind(b, k - 1) \in Seq(Nat)
        <5>1. k - 1 \in 0 .. n
          BY <1>1, <3>1
        <5> QED
          BY <1>7, <5>1
      <4> QED
        BY <1>10, <3>1, <3>3, <4>1
    <3>5. c.left = Behind(b, k) /\ c.got = fs[k].fields /\ c.ok = TRUE
      <4>1. At(Behind(b, k), fs[k].fields).left = Behind(b, k)
        BY AtIs
      <4>2. At(Behind(b, k), fs[k].fields).got = fs[k].fields
        BY AtIs
      <4>3. At(Behind(b, k), fs[k].fields).ok = TRUE
        BY AtIs
      <4> HIDE DEF c
      <4> QED
        BY <3>4, <4>1, <4>2, <4>3
    <3>6. ~(~s.ok \/ Len(s.left) <= 0)
      <4>1. Len(s.left) \in Nat
        BY <3>4
      <4> QED
        BY <3>3, <3>4, <4>1
    <3>7. Taken(<<>>, shown, k) = Append(s.frames, [id |-> s.left[1], fields |-> c.got])
      BY <1>5, <1>9, <3>1, <3>3, <3>4, <3>5
    <3> HIDE DEF c
    <3>8. h[k] = WithFrame(s, c)
      BY <3>3, <3>5, <3>7 DEF WithFrame
    <3>9. h[k] = IF ~s.ok \/ Len(s.left) <= 0 THEN s ELSE WithFrame(s, c)
      BY <3>6, <3>8
    <3> QED
      BY <3>9 DEF c, s
  <2>3. CASE ~(k <= n)
    <3>1. m[k] = n /\ m[k - 1] = n
      <4>1. k - 1 <= n => k - 1 = n
        BY <1>1, <2>3
      <4> QED
        BY <1>12, <2>1, <2>3, <4>1
    <3>2. h[k] = h[k - 1] /\ s.left = <<>>
      BY <1>7, <1>13, <2>1, <3>1
    <3> HIDE DEF s
    <3>3. Len(s.left) <= 0
      <4>1. Len(<<>>) = 0
        BY EmptySeq
      <4> QED
        BY <3>2, <4>1
    <3>4. h[k] = s
      BY <3>2 DEF s
    <3> QED
      BY <3>3, <3>4 DEF s
  <2> QED
    BY <2>2, <2>3
<1>15. h[0] = [left |-> bytes, ok |-> TRUE, frames |-> <<>>]
  BY <1>7, <1>9, <1>12, <1>13
<1>16. Going(h, bytes, 0)
  BY <1>13, <1>14, <1>15 DEF Going, last
<1>17. bytes \in Seq(Nat) /\ ParseFrames(bytes, 0) = h[last]
  BY <1>3, <1>16, FramesGo DEF last
<1>18. h[last] = [left |-> <<>>, ok |-> TRUE, frames |-> shown]
  BY <1>7, <1>9, <1>12, <1>13
<1> QED
  BY <1>17, <1>18 DEF bytes, b, shown

-----------------------------------------------------------------------------
(* Reading a packet.                                                       *)

\* A packet number of 32 bits is written whole.
LEMMA NumberWritten ==
  ASSUME NEW p, IsPacket(p), Shifted(p.pktNum, 4) = 0
  PROVE  /\ p.pktNum \in Nat /\ Shifted(p.pktNum, LenBits(p) + 1) = 0
         /\ p.type = "INITIAL" => LenBits(p) = 0
<1> DEFINE v == p.pktNum
           n == PktNumLen(p.type, v)
<1>1. v \in VarInts /\ v \in Nat
  BY NumberTyped
<1>2. Shifted(v, encodeVarIntLen(v)) = 0 /\ encodeVarIntLen(v) \in {1, 2, 4, 8}
  BY <1>1, TopByte, VarIntTyped
<1>3. CASE p.type = "INITIAL"
  <2>1. v \in 0 .. 62
    BY <1>1, <1>3 DEF IsPacket
  <2>2. encodeVarIntLen(v) = 1
    BY <2>1, OneByte
  <2>3. LenBits(p) = 0
    BY <1>3 DEF LenBits, PktNumLen
  <2> QED
    BY <1>1, <1>2, <2>2, <2>3
<1>4. CASE p.type # "INITIAL"
  <2>1. n \in {1, 2, 4, 8} /\ n = encodeVarIntLen(v)
    BY <1>2, <1>4 DEF PktNumLen
  <2>2. LenBits(p) = (n - 1) % 4
    BY DEF LenBits
  <2> HIDE DEF n
  <2>3. LenBits(p) + 1 = n \/ (n = 8 /\ LenBits(p) + 1 = 4)
    <3>1. \A m \in {1, 2, 4, 8} : ((m - 1) % 4) + 1 = m \/ (m = 8 /\ ((m - 1) % 4) + 1 = 4)
      OBVIOUS
    <3> QED
      BY <2>1, <2>2, <3>1
  <2>4. Shifted(v, LenBits(p) + 1) = 0
    BY <1>2, <2>1, <2>3
  <2> QED
    BY <1>1, <1>4, <2>4
<1> QED
  BY <1>3, <1>4

\* One element behind another.
LEMMA OneMore ==
  ASSUME NEW a, NEW b
  PROVE  Append(<<a>>, b) = <<a, b>>
<1>1. <<a>> \in Seq({a, b}) /\ b \in {a, b}
  OBVIOUS
<1>2. Append(<<a>>, b) = <<a>> \o <<b>>
  BY <1>1, AppendIsConcat
<1> QED
  BY <1>2, OneAndOne

\* A short header, and what is behind it.
LEMMA ShortHeaderReads ==
  ASSUME NEW p, IsPacket(p), p.type = "ONE_RTT", Shifted(p.pktNum, 4) = 0, NEW r \in Seq(Nat)
  PROVE  /\ (EncodeHeader(p) \o r)[1] = 64 + LenBits(p)
         /\ ParseHeader(EncodeHeader(p) \o r) = At(r, <<RemoteID, p.pktNum>>)
<1> DEFINE a == <<64 + LenBits(p)>>
           v == p.pktNum
           n == LenBits(p) + 1
           t == Number(p)
           bytes == EncodeHeader(p) \o r
           behind == RemoteID \o (t \o r)
<1>1. /\ LenBits(p) \in 0 .. 3 /\ n \in Nat /\ t \in Seq(Nat) /\ t = encodeUInt(v, n)
      /\ v \in Nat /\ Shifted(v, n) = 0
  <2>1. LenBits(p) \in 0 .. 3 /\ t \in Seq(Nat)
    BY NumberTyped
  <2>2. v \in Nat /\ Shifted(v, n) = 0
    BY NumberWritten
  <2> QED
    BY <2>1, <2>2 DEF Number
<1>2. a \in Seq(Nat) /\ Len(a) = 1 /\ a[1] = 64 + LenBits(p)
  BY <1>1
<1>3. RemoteID \in Seq(Nat) /\ Len(RemoteID) = 8
  BY IdentifiersTyped
<1>4. EncodeHeader(p) = (a \o RemoteID) \o t
  BY DEF EncodeHeader, ShortHeader
<1> HIDE DEF a, t, n, v
<1>5. a \o RemoteID \in Seq(Nat) /\ t \o r \in Seq(Nat) /\ behind \in Seq(Nat)
  BY <1>1, <1>2, <1>3, Joined
<1>6. bytes = a \o behind
  <2> DEFINE front == a \o RemoteID
  <2>1. bytes = front \o (t \o r)
    <3>1. front \in Seq(Nat) /\ bytes = (front \o t) \o r
      BY <1>4, <1>5
    <3> HIDE DEF front, bytes
    <3> QED
      BY <1>1, <3>1, JoinedInOrder
  <2>2. (a \o RemoteID) \o (t \o r) = a \o behind
    BY <1>2, <1>3, <1>5, JoinedInOrder
  <2> QED
    BY <2>1, <2>2
<1> HIDE DEF behind, bytes
<1>7. bytes[1] = 64 + LenBits(p)
  <2>1. Len(a) >= 1
    BY <1>2
  <2>2. (a \o behind)[1] = a[1]
    BY <1>2, <1>5, <2>1, FirstOf
  <2> QED
    BY <1>2, <1>6, <2>2
<1>8. Consume(Cursor(bytes), 1) = At(behind, <<>>)
  <2>1. Cursor(bytes) = At(bytes, <<>>)
    BY DEF Cursor, At
  <2>2. Consume(At(a \o behind, <<>>), Len(a)) = At(behind, <<>>)
    BY <1>2, <1>5, ConsumeFront
  <2> QED
    BY <1>2, <1>6, <2>1, <2>2
<1>9. ReadBytes(At(behind, <<>>), 8) = At(t \o r, <<RemoteID>>)
  <2>1. ReadBytes(At(RemoteID \o (t \o r), <<>>), Len(RemoteID)) = At(t \o r, Append(<<>>, RemoteID))
    BY <1>3, <1>5, ReadBytesReads
  <2>2. Append(<<>>, RemoteID) = <<RemoteID>>
    OBVIOUS
  <2> QED
    BY <1>3, <2>1, <2>2 DEF behind
<1>10. ReadUint(At(t \o r, <<RemoteID>>), n) = At(r, <<RemoteID, v>>)
  <2>1. ReadUint(At(encodeUInt(v, n) \o r, <<RemoteID>>), n) = At(r, Append(<<RemoteID>>, v))
    BY <1>1, ReadUintReads
  <2>2. Append(<<RemoteID>>, v) = <<RemoteID, v>>
    BY OneMore
  <2> QED
    BY <1>1, <2>1, <2>2
<1>11. bytes[1] < 128 /\ (bytes[1] % 4) + 1 = n
  <2>1. \A k \in 0 .. 3 : 64 + k < 128 /\ (64 + k) % 4 = k
    OBVIOUS
  <2>2. bytes[1] < 128 /\ bytes[1] % 4 = LenBits(p)
    BY <1>1, <1>7, <2>1
  <2> QED
    BY <2>2 DEF n
<1>12. ParseHeader(bytes) = At(r, <<RemoteID, v>>)
  <2>1. ParseHeader(bytes) = ReadUint(ReadBytes(Consume(Cursor(bytes), 1), 8), (bytes[1] % 4) + 1)
    BY <1>11 DEF ParseHeader
  <2> QED
    BY <1>8, <1>9, <1>10, <1>11, <2>1
<1> QED
  BY <1>7, <1>12 DEF bytes, v

\* The fields of an Initial header, and their kinds.
InitialKinds == <<"id", "id", "block", "var">>
InitialFields == <<RemoteID, LocalID, <<>>, 1>>

\* They fit, and their bytes are the parts of the header one behind the other.
LEMMA InitialFieldsFit ==
  ASSUME NEW r \in Seq(Nat)
  PROVE  /\ InitialKinds \in Seq(Kinds) /\ Fits(InitialKinds, InitialFields, r)
         /\ FlattenSeq(AllWritten(InitialKinds, InitialFields)) =
               Written("id", RemoteID) \o (Written("id", LocalID) \o (Written("block", <<>>) \o encodeVarInt(1)))
         /\ Written("id", RemoteID) \in Seq(Nat) /\ Written("id", LocalID) \in Seq(Nat)
         /\ Written("block", <<>>) \in Seq(Nat) /\ encodeVarInt(1) \in Seq(Nat)
<1> DEFINE kinds == InitialKinds
           fs == InitialFields
           ws == AllWritten(kinds, fs)
<1>1. /\ kinds \in Seq(Kinds) /\ Len(kinds) = 4 /\ Len(fs) = 4
      /\ kinds[1] = "id" /\ kinds[2] = "id" /\ kinds[3] = "block" /\ kinds[4] = "var"
  BY DEF InitialKinds, InitialFields, Kinds
<1>2. fs[1] = RemoteID /\ fs[2] = LocalID /\ fs[3] = <<>> /\ fs[4] = 1
  BY DEF InitialFields
<1>3. 1 \in VarInts /\ 0 \in VarInts
  BY OneByte
<1>4. IsValue("block", <<>>) /\ IsValue("var", 1)
  <2>1. <<>> \in Seq(Byte) /\ Len(<<>>) = 0
    BY EmptySeq
  <2> QED
    BY <1>3, <2>1 DEF IsValue, VarInts
<1>5. IsValue("id", RemoteID) /\ IsValue("id", LocalID)
  BY IdentifiersTyped
<1> HIDE DEF kinds, fs
<1>6. \A k \in 1 .. 4 : k = 1 \/ k = 2 \/ k = 3 \/ k = 4
  OBVIOUS
<1>7. \A k \in 1 .. 4 : IsValue(kinds[k], fs[k]) /\ kinds[k] # "rest" /\ kinds[k] \in Kinds
  <2>1. /\ IsValue(kinds[1], fs[1]) /\ IsValue(kinds[2], fs[2])
        /\ IsValue(kinds[3], fs[3]) /\ IsValue(kinds[4], fs[4])
    BY <1>1, <1>2, <1>4, <1>5
  <2>2. /\ kinds[1] # "rest" /\ kinds[2] # "rest" /\ kinds[3] # "rest" /\ kinds[4] # "rest"
        /\ kinds[1] \in Kinds /\ kinds[2] \in Kinds /\ kinds[3] \in Kinds /\ kinds[4] \in Kinds
    BY <1>1 DEF Kinds
  <2> QED
    BY <1>6, <2>1, <2>2
<1>8. Fits(kinds, fs, r)
  BY <1>1, <1>7 DEF Fits
<1>9. ws = [k \in 1 .. 4 |-> Written(kinds[k], fs[k])]
  BY <1>1 DEF AllWritten
<1>10. /\ ws[1] = Written("id", RemoteID) /\ ws[2] = Written("id", LocalID)
       /\ ws[3] = Written("block", <<>>) /\ ws[4] = encodeVarInt(1)
  <2>1. /\ ws[1] = Written(kinds[1], fs[1]) /\ ws[2] = Written(kinds[2], fs[2])
        /\ ws[3] = Written(kinds[3], fs[3]) /\ ws[4] = Written(kinds[4], fs[4])
    BY <1>9
  <2>2. Written("var", 1) = encodeVarInt(1)
    BY DEF Written
  <2> QED
    BY <1>1, <1>2, <2>1, <2>2
<1>11. \A k \in 1 .. 4 : ws[k] \in Seq(Nat)
  <2> TAKE k \in 1 .. 4
  <2>1. Written(kinds[k], fs[k]) \in Seq(Nat)
    BY <1>7, WrittenTyped
  <2> QED
    BY <1>9, <2>1
<1> HIDE DEF ws
<1>12. ws \in Seq(Seq(Nat)) /\ Len(ws) = 4
  BY <1>9, <1>11
<1>13. /\ Behind(ws, 0) = FlattenSeq(ws) /\ Behind(ws, 4) = <<>>
       /\ \A k \in 1 .. 4 : Behind(ws, k - 1) = ws[k] \o Behind(ws, k)
  BY <1>12, BehindIs
<1>14. /\ Behind(ws, 0) = ws[1] \o Behind(ws, 1) /\ Behind(ws, 1) = ws[2] \o Behind(ws, 2)
       /\ Behind(ws, 2) = ws[3] \o Behind(ws, 3) /\ Behind(ws, 3) = ws[4] \o Behind(ws, 4)
  <2>1. \A j \in 0 .. 3 : \A k \in 1 .. 4 : j = k - 1 => Behind(ws, j) = ws[k] \o Behind(ws, k)
    BY <1>13
  <2>2. 0 = 1 - 1 /\ 1 = 2 - 1 /\ 2 = 3 - 1 /\ 3 = 4 - 1
    OBVIOUS
  <2>3. Behind(ws, 0) = ws[1] \o Behind(ws, 1)
    BY <2>1, <2>2
  <2>4. Behind(ws, 1) = ws[2] \o Behind(ws, 2)
    BY <2>1, <2>2
  <2>5. Behind(ws, 2) = ws[3] \o Behind(ws, 3)
    BY <2>1, <2>2
  <2>6. Behind(ws, 3) = ws[4] \o Behind(ws, 4)
    BY <2>1, <2>2
  <2> QED
    BY <2>3, <2>4, <2>5, <2>6
<1>15. FlattenSeq(ws) = ws[1] \o (ws[2] \o (ws[3] \o ws[4]))
  <2>1. ws[4] \o <<>> = ws[4]
    BY <1>11, ConcatEmptySeq
  <2> QED
    BY <1>13, <1>14, <2>1
<1>16. ws[1] \in Seq(Nat) /\ ws[2] \in Seq(Nat) /\ ws[3] \in Seq(Nat) /\ ws[4] \in Seq(Nat)
  BY <1>11
<1> QED
  BY <1>1, <1>8, <1>10, <1>15, <1>16 DEF ws, kinds, fs

\* Four bytes of a small number are the number.
LEMMA VersionWritten ==
  Version \in Nat /\ Shifted(Version, 4) = 0 /\ encodeUInt(Version, 4) \in Seq(Nat)
<1>1. Version = 4 /\ 4 \in 0 .. 62 /\ 4 \in Nat
  BY DEF Version
<1>2. Shifted(4, 1) = 0
  <2>1. 4 \in VarInts /\ encodeVarIntLen(4) = 1
    BY <1>1, OneByte
  <2>2. Shifted(4, encodeVarIntLen(4)) = 0
    BY <2>1, TopByte
  <2> QED
    BY <2>1, <2>2
<1>3. \A k \in Nat : Shifted(4, k + 1) = Shifted(4, k) \div 256
  BY <1>1, ShiftedIs
<1>4. 0 \div 256 = 0
  OBVIOUS
<1>5. Shifted(4, 1 + 1) = 0
  BY <1>2, <1>3, <1>4
<1>6. Shifted(4, 2 + 1) = 0
  BY <1>5, <1>3, <1>4
<1>7. Shifted(4, 3 + 1) = 0
  BY <1>6, <1>3, <1>4
<1>8. encodeUInt(4, 4) \in Seq(Nat)
  BY <1>1, UIntTyped
<1> QED
  BY <1>1, <1>7, <1>8

\* The parts of an Initial packet, grouped as they are read.
Strings(a, v, x, l, b, m, t, r) ==
  /\ a \in Seq(Nat) /\ v \in Seq(Nat) /\ x \in Seq(Nat) /\ l \in Seq(Nat)
  /\ b \in Seq(Nat) /\ m \in Seq(Nat) /\ t \in Seq(Nat) /\ r \in Seq(Nat)

\* As they are written, and as they are read.
Written8(a, v, x, l, b, m, t, r) == (((((((a \o v) \o x) \o l) \o b) \o m) \o t) \o r)
Read8(a, v, x, l, b, m, t, r) == a \o (v \o ((x \o (l \o (b \o m))) \o (t \o r)))

\* Both are the same string.
LEMMA Regrouped ==
  ASSUME NEW a, NEW v, NEW x, NEW l, NEW b, NEW m, NEW t, NEW r,
         Strings(a, v, x, l, b, m, t, r)
  PROVE  /\ x \o (l \o (b \o m)) \in Seq(Nat)
         /\ v \o ((x \o (l \o (b \o m))) \o (t \o r)) \in Seq(Nat)
         /\ Written8(a, v, x, l, b, m, t, r) = Read8(a, v, x, l, b, m, t, r)
<1> DEFINE av == a \o v
           xl == x \o l
           xlb == xl \o b
           bm == b \o m
           lbm == l \o bm
           fields == x \o lbm
           tr == t \o r
           front == av \o fields
           end == fields \o tr
<1>a. a \in Seq(Nat)
  BY DEF Strings
<1>v. v \in Seq(Nat)
  BY DEF Strings
<1>x. x \in Seq(Nat)
  BY DEF Strings
<1>l. l \in Seq(Nat)
  BY DEF Strings
<1>b. b \in Seq(Nat)
  BY DEF Strings
<1>m. m \in Seq(Nat)
  BY DEF Strings
<1>t. t \in Seq(Nat)
  BY DEF Strings
<1>r. r \in Seq(Nat)
  BY DEF Strings
<1>1. av \in Seq(Nat)
  BY <1>a, <1>v, Joined
<1>2. xl \in Seq(Nat)
  BY <1>x, <1>l, Joined
<1>3. bm \in Seq(Nat)
  BY <1>b, <1>m, Joined
<1>4. tr \in Seq(Nat)
  BY <1>t, <1>r, Joined
<1>5. \A s \in Seq(Nat) : (s \o x) \o l = s \o xl
  BY <1>x, <1>l, JoinedInOrder
<1>6. \A s \in Seq(Nat) : (s \o t) \o r = s \o tr
  BY <1>t, <1>r, JoinedInOrder
<1>7. \A s \in Seq(Nat) : av \o s = a \o (v \o s)
  BY <1>a, <1>v, JoinedInOrder
<1>8. \A s \in Seq(Nat) : xl \o s = x \o (l \o s)
  BY <1>x, <1>l, JoinedInOrder
<1>9. \A s \in Seq(Nat) : (s \o b) \o m = s \o bm
  BY <1>b, <1>m, JoinedInOrder
<1> HIDE DEF av, xl, bm, tr
<1>10. xlb \in Seq(Nat)
  BY <1>2, <1>b, Joined
<1>11. lbm \in Seq(Nat)
  BY <1>l, <1>3, Joined
<1>12. (av \o xl) \o b = av \o xlb
  BY <1>1, <1>2, <1>b, JoinedInOrder
<1>13. xlb \o m = fields
  <2>1. xlb \o m = xl \o bm
    BY <1>2, <1>9
  <2> QED
    BY <1>3, <1>8, <2>1
<1> HIDE DEF xlb, lbm
<1>14. fields \in Seq(Nat)
  BY <1>x, <1>11, Joined
<1>15. (av \o xlb) \o m = front
  <2>1. (av \o xlb) \o m = av \o (xlb \o m)
    BY <1>1, <1>10, <1>m, JoinedInOrder
  <2> QED
    BY <1>13, <2>1
<1> HIDE DEF fields
<1>16. front \in Seq(Nat)
  BY <1>1, <1>14, Joined
<1>17. end \in Seq(Nat)
  BY <1>4, <1>14, Joined
<1>18. front \o tr = av \o end
  BY <1>1, <1>4, <1>14, JoinedInOrder
<1> HIDE DEF front, end
<1>19. v \o end \in Seq(Nat)
  BY <1>v, <1>17, Joined
<1>20. (front \o t) \o r = a \o (v \o end)
  BY <1>6, <1>7, <1>16, <1>17, <1>18
<1>21. Written8(a, v, x, l, b, m, t, r) = (front \o t) \o r
  <2>1. ((a \o v) \o x) \o l = av \o xl
    BY <1>1, <1>5 DEF av
  <2> QED
    BY <1>12, <1>15, <2>1 DEF Written8
<1>22. x \o (l \o (b \o m)) = fields
  BY DEF fields, lbm, bm
<1>23. Read8(a, v, x, l, b, m, t, r) = a \o (v \o end)
  BY <1>22 DEF Read8, end, tr
<1>24. v \o end = v \o ((x \o (l \o (b \o m))) \o (t \o r))
  BY <1>22 DEF end, tr
<1> QED
  BY <1>14, <1>19, <1>20, <1>21, <1>22, <1>23, <1>24

\* What was read of an Initial header.
InitialGot(n) == Append(<<4>> \o InitialFields, n)

\* The second value is the destination, the fifth the length field.
LEMMA InitialGotIs ==
  ASSUME NEW n
  PROVE  /\ InitialGot(n)[2] = RemoteID /\ InitialGot(n)[5] = 1
<1> DEFINE S == {4, RemoteID, LocalID, <<>>, 1, n}
           s == <<4>> \o InitialFields
<1>1. <<4>> \in Seq(S) /\ Len(<<4>>) = 1
  OBVIOUS
<1>2. /\ InitialFields \in Seq(S) /\ Len(InitialFields) = 4
      /\ InitialFields[1] = RemoteID /\ InitialFields[4] = 1
  BY DEF InitialFields
<1>3. n \in S
  OBVIOUS
<1> HIDE DEF S
<1>4. /\ s \in Seq(S) /\ Len(s) = 5
      /\ \A i \in 1 .. 5 : s[i] = IF i <= 1 THEN <<4>>[i] ELSE InitialFields[i - 1]
  <2>1. /\ s \in Seq(S) /\ Len(s) = Len(<<4>>) + Len(InitialFields)
        /\ \A i \in 1 .. Len(<<4>>) + Len(InitialFields) :
             s[i] = IF i <= Len(<<4>>) THEN <<4>>[i] ELSE InitialFields[i - Len(<<4>>)]
    BY <1>1, <1>2, ConcatProperties
  <2> QED
    BY <1>1, <1>2, <2>1
<1>5. s[2] = InitialFields[1] /\ s[5] = InitialFields[4]
  <2>1. \A i \in 1 .. 5 : \A j \in 1 .. 4 : j = i - 1 => s[i] = InitialFields[j]
    BY <1>4
  <2>2. 1 = 2 - 1 /\ 4 = 5 - 1
    OBVIOUS
  <2>3. s[2] = InitialFields[1]
    <3> HIDE DEF s
    <3> QED
      BY <2>1, <2>2
  <2>4. s[5] = InitialFields[4]
    <3> HIDE DEF s
    <3> QED
      BY <2>1, <2>2
  <2> QED
    BY <2>3, <2>4
<1> HIDE DEF s
<1>6. \A i \in 1 .. Len(s) : Append(s, n)[i] = s[i]
  <2>1. s \in Seq(S)
    BY <1>4
  <2> QED
    BY <1>3, <2>1, AppendProperties
<1>7. Append(s, n)[2] = s[2] /\ Append(s, n)[5] = s[5]
  <2>1. 2 \in 1 .. Len(s) /\ 5 \in 1 .. Len(s)
    BY <1>4
  <2> QED
    BY <1>6, <2>1
<1> QED
  BY <1>2, <1>5, <1>7 DEF InitialGot, s

\* The first byte of a packet whose number takes one byte.
InitialByte == 192

\* An Initial header, and what is behind it.
LEMMA InitialReads ==
  ASSUME NEW p, IsPacket(p), p.type = "INITIAL", Shifted(p.pktNum, 4) = 0, NEW r \in Seq(Nat)
  PROVE  /\ (EncodeHeader(p) \o r)[1] = InitialByte
         /\ ParseHeader(EncodeHeader(p) \o r) = At(r, InitialGot(p.pktNum))
<1> DEFINE a == <<192>>
           v == encodeUInt(Version, 4)
           x == Written("id", RemoteID)
           l == Written("id", LocalID)
           b == Written("block", <<>>)
           m == encodeVarInt(1)
           n == p.pktNum
           t == Number(p)
           fields == x \o (l \o (b \o m))
           behind == v \o (fields \o (t \o r))
           bytes == EncodeHeader(p) \o r
<1>1. n \in Nat /\ Shifted(n, 1) = 0 /\ LenBits(p) = 0
  <2>1. LenBits(p) = 0 /\ n \in Nat /\ Shifted(n, LenBits(p) + 1) = 0
    BY NumberWritten
  <2>2. LenBits(p) + 1 = 1
    BY <2>1
  <2> QED
    BY <2>1, <2>2
<1>2. encodeVarIntLen(n) = 1
  <2>1. n \in 0 .. 62
    <3>1. n < 63
      BY DEF IsPacket
    <3> HIDE DEF n
    <3> QED
      BY <1>1, <3>1
  <2> QED
    BY <2>1, OneByte
<1>3. t = encodeUInt(n, 1) /\ t \in Seq(Nat)
  <2>1. LenBits(p) + 1 = 1
    BY <1>1
  <2> QED
    BY <2>1, NumberTyped DEF Number
<1>4. EncodeHeader(p) = (((((a \o v) \o x) \o l) \o b) \o m) \o t
  <2>1. 192 + LenBits(p) = 192 /\ p.type # "ONE_RTT"
    BY <1>1
  <2> QED
    BY <1>2, <2>1 DEF EncodeHeader, Initial, LongHeader
<1>5. a \in Seq(Nat) /\ Len(a) = 1 /\ a[1] = 192
  OBVIOUS
<1>6. v \in Seq(Nat)
  BY VersionWritten
<1>7. /\ x \in Seq(Nat) /\ l \in Seq(Nat) /\ b \in Seq(Nat) /\ m \in Seq(Nat)
      /\ fields = FlattenSeq(AllWritten(InitialKinds, InitialFields))
  BY InitialFieldsFit
<1> HIDE DEF a, v, x, l, b, m, n, t
<1>8. fields \in Seq(Nat) /\ behind \in Seq(Nat) /\ bytes = a \o behind
  <2>1. Strings(a, v, x, l, b, m, t, r)
    BY <1>3, <1>5, <1>6, <1>7 DEF Strings
  <2> DEFINE whole == (((((((a \o v) \o x) \o l) \o b) \o m) \o t) \o r)
  <2>0. /\ fields \in Seq(Nat)
        /\ behind \in Seq(Nat)
        /\ whole = a \o behind
    <3>1. fields \in Seq(Nat)
      BY ONLY <2>1, Regrouped
    <3>2. behind \in Seq(Nat)
      BY ONLY <2>1, Regrouped
    <3>3. whole = a \o behind
      <4>1. Written8(a, v, x, l, b, m, t, r) = Read8(a, v, x, l, b, m, t, r)
        BY ONLY <2>1, Regrouped
      <4> QED
        BY <4>1 DEF Written8, Read8
    <3> QED
      BY <3>1, <3>2, <3>3
  <2>2. fields \in Seq(Nat)
    BY <2>0
  <2>3. behind \in Seq(Nat)
    BY <2>0
  <2>4. whole = a \o behind
    BY <2>0
  <2> QED
    BY <1>4, <2>2, <2>3, <2>4
<1>9. t \o r \in Seq(Nat)
  BY <1>3, Joined
<1> HIDE DEF fields
<1>10. fields \o (t \o r) \in Seq(Nat)
  BY <1>8, <1>9, Joined
<1> HIDE DEF behind, bytes
<1>11. bytes[1] = 192
  <2>1. Len(a) >= 1 /\ a \in Seq(Nat)
    BY <1>5
  <2>2. (a \o behind)[1] = a[1]
    BY <1>8, <2>1, FirstOf
  <2> QED
    BY <1>5, <1>8, <2>2
<1>12. Consume(Cursor(bytes), 1) = At(behind, <<>>)
  <2>1. Cursor(bytes) = At(bytes, <<>>)
    BY DEF Cursor, At
  <2>2. Consume(At(a \o behind, <<>>), Len(a)) = At(behind, <<>>)
    BY <1>5, <1>8, ConsumeFront
  <2> QED
    BY <1>5, <1>8, <2>1, <2>2
<1>13. ReadUint(At(behind, <<>>), 4) = At(fields \o (t \o r), <<4>>)
  <2> DEFINE rest == fields \o (t \o r)
  <2>1. rest \in Seq(Nat) /\ Version \in Nat /\ 4 \in Nat /\ Shifted(Version, 4) = 0
    BY <1>10, VersionWritten
  <2>2. behind = encodeUInt(Version, 4) \o rest
    BY DEF behind, v
  <2> HIDE DEF rest
  <2>3. ReadUint(At(encodeUInt(Version, 4) \o rest, <<>>), 4) = At(rest, Append(<<>>, Version))
    BY <2>1, ReadUintReads
  <2>4. Append(<<>>, Version) = <<4>>
    BY DEF Version
  <2> QED
    BY <2>2, <2>3, <2>4 DEF rest
<1>14. ReadFields(At(fields \o (t \o r), <<4>>), InitialKinds) = At(t \o r, <<4>> \o InitialFields)
  <2> DEFINE S == {4, RemoteID, LocalID, <<>>, 1}
             rest == t \o r
  <2>1. <<4>> \in Seq(S)
    OBVIOUS
  <2>2. InitialFields \in Seq(S)
    BY DEF InitialFields
  <2>3. rest \in Seq(Nat)
    BY <1>9
  <2> HIDE DEF S, rest
  <2>4. InitialKinds \in Seq(Kinds)
    BY <2>3, InitialFieldsFit
  <2>5. Fits(InitialKinds, InitialFields, rest)
    BY <2>3, InitialFieldsFit
  <2>6. ReadFields(At(FlattenSeq(AllWritten(InitialKinds, InitialFields)) \o rest, <<4>>), InitialKinds)
          = At(rest, <<4>> \o InitialFields)
    BY <2>1, <2>2, <2>3, <2>4, <2>5, ReadFieldsReads
  <2> QED
    BY <1>7, <2>6 DEF rest, fields
<1>15. ReadUint(At(t \o r, <<4>> \o InitialFields), 1) = At(r, InitialGot(n))
  <2>1. 1 \in Nat
    OBVIOUS
  <2>2. ReadUint(At(encodeUInt(n, 1) \o r, <<4>> \o InitialFields), 1)
          = At(r, Append(<<4>> \o InitialFields, n))
    BY <1>1, <2>1, ReadUintReads
  <2> QED
    BY <1>3, <2>2 DEF InitialGot
<1>16. ~(bytes[1] < 128) /\ (bytes[1] % 4) + 1 = 1
  <2>1. ~(192 < 128) /\ (192 % 4) + 1 = 1
    OBVIOUS
  <2> QED
    BY <1>11, <2>1
<1>17. ParseHeader(bytes) = At(r, InitialGot(n))
  <2>1. ParseHeader(bytes) = ReadUint(ReadFields(ReadUint(Consume(Cursor(bytes), 1), 4), InitialKinds),
                                      (bytes[1] % 4) + 1)
    BY <1>16 DEF ParseHeader, InitialKinds
  <2> QED
    BY <1>12, <1>13, <1>14, <1>15, <1>16, <2>1
<1> QED
  BY <1>11, <1>17 DEF bytes, n, InitialByte

\* What is parsed of a packet after its header.
LEMMA ShortPacketParsed ==
  ASSUME NEW bytes, bytes[1] < 128, NEW r, NEW i, NEW n, ParseHeader(bytes) = At(r, <<i, n>>)
  PROVE  /\ ParsePacket(bytes).type = "ONE_RTT" /\ ParsePacket(bytes).dst = i
         /\ ParsePacket(bytes).pktNum = n
         /\ ParsePacket(bytes).frames = ParseFrames(r, 0).frames
         /\ ParseFrames(r, 0).ok = TRUE => ParsePacket(bytes).ok
<1> DEFINE h == ParseHeader(bytes)
<1>1. h.left = r /\ h.got = <<i, n>> /\ h.ok = TRUE
  <2>1. At(r, <<i, n>>).left = r
    BY AtIs
  <2>2. At(r, <<i, n>>).got = <<i, n>>
    BY AtIs
  <2>3. At(r, <<i, n>>).ok = TRUE
    BY AtIs
  <2>4. h = At(r, <<i, n>>)
    OBVIOUS
  <2> HIDE DEF h
  <2> QED
    BY <2>1, <2>2, <2>3, <2>4
<1>2. LastGot(h) = n /\ h.got[1] = i
  <2>1. Len(<<i, n>>) = 2 /\ <<i, n>>[2] = n /\ <<i, n>>[1] = i
    OBVIOUS
  <2> HIDE DEF h
  <2> QED
    BY <1>1, <2>1 DEF LastGot
<1>3. ParsePacket(bytes) =
        [type |-> "ONE_RTT", dst |-> h.got[1], pktNum |-> LastGot(h),
         ok |-> h.ok /\ ParseFrames(h.left, 0).ok, frames |-> ParseFrames(h.left, 0).frames]
  BY DEF ParsePacket
<1> DEFINE q == ParsePacket(bytes)
           body == ParseFrames(r, 0)
<1>4. q = [type |-> "ONE_RTT", dst |-> i, pktNum |-> n, ok |-> TRUE /\ body.ok, frames |-> body.frames]
  <2> HIDE DEF h
  <2> QED
    BY <1>1, <1>2, <1>3
<1> HIDE DEF q, body
<1>5. q.type = "ONE_RTT" /\ q.dst = i /\ q.pktNum = n /\ q.frames = body.frames
  BY <1>4
<1>6. q.ok = (TRUE /\ body.ok)
  BY <1>4
<1>7. body.ok = TRUE => q.ok
  BY <1>6
<1> QED
  BY <1>5, <1>7 DEF q, body

\* Of an Initial packet no frame is parsed: its length field counts the packet number only.
LEMMA InitialParsed ==
  ASSUME NEW bytes, bytes[1] = InitialByte, NEW r \in Seq(Nat), NEW n, ParseHeader(bytes) = At(r, InitialGot(n))
  PROVE  /\ ParsePacket(bytes).type = "INITIAL" /\ ParsePacket(bytes).dst = RemoteID
         /\ ParsePacket(bytes).frames = <<>> /\ ParsePacket(bytes).ok
<1> DEFINE h == ParseHeader(bytes)
           stop == Len(h.left) - (h.got[5] - ((bytes[1] % 4) + 1))
<1>1. h.left = r /\ h.got = InitialGot(n) /\ h.ok = TRUE
  <2> DEFINE g == InitialGot(n)
  <2>1. h = At(r, g)
    OBVIOUS
  <2> HIDE DEF g, h
  <2>2. At(r, g).left = r
    BY AtIs
  <2>3. At(r, g).got = g
    BY DEF At, Reading
  <2>4. At(r, g).ok = TRUE
    BY AtIs
  <2> QED
    BY <2>1, <2>2, <2>3, <2>4 DEF g
<1>2. h.got[2] = RemoteID /\ h.got[5] = 1
  BY <1>1, InitialGotIs
<1>3. ~(bytes[1] < 128) /\ (bytes[1] % 4) + 1 = 1
  <2>1. ~(192 < 128) /\ (192 % 4) + 1 = 1
    OBVIOUS
  <2> QED
    BY <2>1 DEF InitialByte
<1>4. ParsePacket(bytes) =
        [type |-> "INITIAL", dst |-> h.got[2], pktNum |-> LastGot(h),
         ok |-> h.ok /\ ParseFrames(h.left, stop).ok, frames |-> ParseFrames(h.left, stop).frames]
  BY <1>3 DEF ParsePacket
<1> HIDE DEF h
<1>5. stop = Len(r) /\ Len(r) \in Nat
  <2>1. stop = Len(r) - (1 - 1)
    BY <1>1, <1>2, <1>3
  <2> QED
    BY <2>1
<1> HIDE DEF stop
<1>6. ParseFrames(r, stop) = [left |-> r, ok |-> TRUE, frames |-> <<>>]
  <2>1. Len(r) <= stop
    BY <1>5
  <2> QED
    BY <2>1, FramesLeft
<1> DEFINE q == ParsePacket(bytes)
<1>7. q = [type |-> "INITIAL", dst |-> RemoteID, pktNum |-> LastGot(h), ok |-> TRUE /\ TRUE,
           frames |-> <<>>]
  <2>1. ParseFrames(r, stop).ok = TRUE /\ ParseFrames(r, stop).frames = <<>>
    BY <1>6
  <2> QED
    BY <1>1, <1>2, <1>4, <2>1
<1> HIDE DEF q
<1>8. q.type = "INITIAL" /\ q.dst = RemoteID /\ q.frames = <<>>
  BY <1>7
<1>9. q.ok = (TRUE /\ TRUE)
  BY <1>7
<1>10. q.ok
  BY <1>9
<1> QED
  BY <1>8, <1>10 DEF q

\* What follows a header in a buffer: of an intact packet, its frames and nothing else.
LEMMA BufferIs ==
  ASSUME NEW p, IsPacket(p)
  PROVE  \E r \in Seq(Nat) : /\ Buffer(p) = EncodeHeader(p) \o r
                             /\ Intact(p) => r = FlattenSeq(FrameBytes(p.frames))
<1> DEFINE h == EncodeHeader(p)
           body == FlattenSeq(FrameBytes(p.frames))
           bytes == PacketBytes(p)
           d == PacketEncodeLen(p) - Len(bytes)
           z == Zeros(d)
<1>1. /\ h \in Seq(Nat) /\ body \in Seq(Nat) /\ bytes = h \o body /\ bytes \in Seq(Nat)
      /\ PacketEncodeLen(p) \in Int
      /\ Intact(p) => PacketEncodeLen(p) = Len(bytes)
  BY PacketTyped
<1>2. Buffer(p) = bytes \o z
  BY DEF Buffer
<1> HIDE DEF h, body, bytes
<1>3. d \in Int /\ (Intact(p) => d = 0)
  <2>1. Len(bytes) \in Nat
    BY <1>1
  <2> QED
    BY <1>1, <2>1
<1> HIDE DEF d
<1>4. z \in Seq(Nat)
  BY <1>3, ZerosTyped
<1>5. Intact(p) => z = <<>>
  <2>1. Zeros(0) \in Seq(Nat) /\ Len(Zeros(0)) = 0
    BY ZerosTyped
  <2>2. Zeros(0) = <<>>
    BY <2>1, EmptySeq
  <2> QED
    BY <1>3, <2>2
<1> HIDE DEF z
<1>6. body \o z \in Seq(Nat)
  BY <1>1, <1>4, Joined
<1>7. Buffer(p) = h \o (body \o z)
  BY <1>1, <1>2, <1>4, JoinedInOrder
<1>8. Intact(p) => body \o z = body
  <2>1. body \o <<>> = body
    BY <1>1, ConcatEmptySeq
  <2> QED
    BY <1>5, <2>1
<1> QED
  BY <1>6, <1>7, <1>8 DEF h, body

\* The frames that were read are the frames that were written.
LEMMA ShownAreSame ==
  ASSUME NEW fs, Len(fs) \in Nat, DOMAIN fs = 1 .. Len(fs)
  PROVE  SameFrames(fs, Shown(fs))
<1> DEFINE n == Len(fs)
<1>1. n \in Nat /\ DOMAIN fs = 1 .. n
  OBVIOUS
<1>2. Shown(fs) = [k \in 1 .. n |-> [id |-> fs[k].id, fields |-> fs[k].fields]]
  BY DEF Shown
<1> HIDE DEF n
<1>3. Len(Shown(fs)) = n
  BY <1>1, <1>2
<1>4. \A k \in 1 .. n : Shown(fs)[k] = [id |-> fs[k].id, fields |-> fs[k].fields]
  BY <1>2
<1>5. \A k \in 1 .. n : fs[k].id = Shown(fs)[k].id /\ fs[k].fields = Shown(fs)[k].fields
  <2> TAKE k \in 1 .. n
  <2> DEFINE s == Shown(fs)[k]
             f == fs[k]
  <2>1. s = [id |-> f.id, fields |-> f.fields]
    BY <1>4
  <2> HIDE DEF s, f
  <2>2. s.id = f.id /\ s.fields = f.fields
    BY <2>1
  <2> QED
    BY <2>2 DEF s, f
<1> QED
  BY <1>1, <1>3, <1>5 DEF SameFrames, n

\* What is parsed of the buffer of a packet.
LEMMA BufferParsed ==
  ASSUME NEW p, IsPacket(p), Shifted(p.pktNum, 4) = 0
  PROVE  /\ ParsePacket(Buffer(p)).type = p.type /\ ParsePacket(Buffer(p)).dst = RemoteID
         /\ p.type = "ONE_RTT" => ParsePacket(Buffer(p)).pktNum = p.pktNum
         /\ p.type = "ONE_RTT" /\ Intact(p) =>
              ParsePacket(Buffer(p)).ok /\ SameFrames(p.frames, ParsePacket(Buffer(p)).frames)
         /\ p.type = "INITIAL" => ParsePacket(Buffer(p)).ok /\ ParsePacket(Buffer(p)).frames = <<>>
<1> DEFINE fs == p.frames
           body == FlattenSeq(FrameBytes(fs))
           n == p.pktNum
<1>1. PICK r \in Seq(Nat) : Buffer(p) = EncodeHeader(p) \o r /\ (Intact(p) => r = body)
  BY BufferIs
<1> DEFINE bytes == EncodeHeader(p) \o r
           q == ParsePacket(bytes)
<1>2. p.type = "ONE_RTT" \/ p.type = "INITIAL"
  BY DEF IsPacket
<1>3. CASE p.type = "ONE_RTT"
  <2>1. bytes[1] < 128
    <3>1. bytes[1] = 64 + LenBits(p)
      BY <1>3, ShortHeaderReads
    <3>2. LenBits(p) \in 0 .. 3
      BY NumberTyped
    <3> HIDE DEF bytes
    <3> QED
      BY <3>1, <3>2
  <2>2. ParseHeader(bytes) = At(r, <<RemoteID, n>>)
    BY <1>3, ShortHeaderReads
  <2> HIDE DEF bytes, n
  <2>3. /\ q.type = "ONE_RTT" /\ q.dst = RemoteID /\ q.pktNum = n
        /\ q.frames = ParseFrames(r, 0).frames
        /\ ParseFrames(r, 0).ok = TRUE => q.ok
    BY <2>1, <2>2, ShortPacketParsed
  <2>4. ASSUME Intact(p)
        PROVE  q.ok /\ SameFrames(fs, q.frames)
    <3>1. IsPayload(fs)
      BY DEF IsPacket
    <3>2. \A k \in DOMAIN fs : Plain(fs[k])
      BY <2>4 DEF Intact, Plain
    <3>3. fs \in Seq(Attached)
      BY <3>1 DEF IsPayload
    <3>4. Len(fs) \in Nat /\ DOMAIN fs = 1 .. Len(fs)
      BY <3>3
    <3>5. r = body
      BY <1>1, <2>4
    <3> HIDE DEF fs
    <3>6. ParseFrames(body, 0) = [left |-> <<>>, ok |-> TRUE, frames |-> Shown(fs)]
      BY <3>1, <3>2, FramesRead
    <3>7. ParseFrames(r, 0).ok = TRUE /\ ParseFrames(r, 0).frames = Shown(fs)
      BY <3>5, <3>6
    <3>8. SameFrames(fs, Shown(fs))
      BY <3>4, ShownAreSame
    <3> QED
      BY <2>3, <3>7, <3>8
  <2> HIDE DEF q, fs
  <2>5. q.type = p.type /\ q.dst = RemoteID /\ q.pktNum = n
    BY <1>3, <2>3
  <2>6. p.type # "INITIAL"
    BY <1>3
  <2> QED
    BY <1>1, <2>4, <2>5, <2>6 DEF q, fs, n, bytes
<1>4. CASE p.type = "INITIAL"
  <2>1. bytes[1] = InitialByte
    BY <1>4, InitialReads
  <2>2. ParseHeader(bytes) = At(r, InitialGot(n))
    BY <1>4, InitialReads
  <2> HIDE DEF bytes, n
  <2>3. /\ q.type = "INITIAL" /\ q.dst = RemoteID
        /\ q.frames = <<>> /\ q.ok
    BY <2>1, <2>2, InitialParsed
  <2> HIDE DEF q, fs
  <2>4. q.type = p.type /\ p.type # "ONE_RTT"
    BY <1>4, <2>3
  <2> QED
    BY <1>1, <2>3, <2>4 DEF q, bytes
<1> QED
  BY <1>2, <1>3, <1>4

\* What is parsed is what was sent, for every sequence of frames with fields of any value
\* that fits, every packet number and every set of numbers acknowledged.
THEOREM PacketsRoundTrip == WireSpec => []PacketRoundTrip
<1>1. WireInv => PacketRoundTrip
  <2> SUFFICES ASSUME WireInv, received # NoPacket
               PROVE  LET p == received.sent
                          q == received.parsed
                      IN  /\ q.type = p.type /\ q.dst = RemoteID
                          /\ p.type = "ONE_RTT" => q.pktNum = p.pktNum
                          /\ p.type = "ONE_RTT" /\ Intact(p) => q.ok /\ SameFrames(p.frames, q.frames)
                          /\ p.type = "INITIAL" => q.ok /\ q.frames = <<>>
    BY DEF PacketRoundTrip
  <2> DEFINE p == received.sent
             q == received.parsed
  <2>1. IsPacket(p) /\ q = ParsePacket(Buffer(p))
    BY DEF WireInv
  <2>2. Shifted(p.pktNum, 4) = 0
    BY <2>1, WireAssumption DEF IsPacket
  <2> HIDE DEF p
  <2>3. /\ ParsePacket(Buffer(p)).type = p.type /\ ParsePacket(Buffer(p)).dst = RemoteID
        /\ p.type = "ONE_RTT" => ParsePacket(Buffer(p)).pktNum = p.pktNum
        /\ p.type = "ONE_RTT" /\ Intact(p) =>
             ParsePacket(Buffer(p)).ok /\ SameFrames(p.frames, ParsePacket(Buffer(p)).frames)
        /\ p.type = "INITIAL" => ParsePacket(Buffer(p)).ok /\ ParsePacket(Buffer(p)).frames = <<>>
    BY <2>1, <2>2, BufferParsed
  <2> HIDE DEF q
  <2> QED
    BY <2>1, <2>3 DEF p, q
<1> QED
  BY <1>1, WireInvAlways, PTL
=============================================================================
