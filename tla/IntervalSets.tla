----------------------------- MODULE IntervalSets -----------------------------
(***************************************************************************)
(* Sets of packet numbers as utils::IntervalSet keeps them: a list of      *)
(* closed intervals in descending order.  recPktNum, ackedSentPktNum and   *)
(* toSendPktNum of a connection are such sets, and so are the ranges of an *)
(* ACK frame, which writes the gaps between the intervals and so relies on *)
(* there being any.                                                        *)
(*                                                                         *)
(* Every operation walks its list once with a recursive function: the head *)
(* of its argument is the interval that the iterator of the code points to.*)
(***************************************************************************)
EXTENDS Integers, Sequences, FiniteSets

CONSTANT MaxNumber    \* bound: the largest number in a set

ASSUME MaxNumberAssumption == MaxNumber \in Nat

VARIABLES
    intervals,    \* the list of an IntervalSet
    numbers       \* history: the numbers it stands for

intervalVars == <<intervals, numbers>>

\* The intervals that CheckInvariant accepts.
Interval == {i \in [start : Nat, end : Nat] : i.start <= i.end}
From(a, b) == [start |-> a, end |-> b]
Members(i) == i.start .. i.end

-----------------------------------------------------------------------------
(* Two intervals.                                                          *)

\* Where n lies from the interval.
PointComp(i, n) ==
    CASE i.start # 0 /\ n < i.start - 1 -> "LEFT"
      [] i.start # 0 /\ n = i.start - 1 -> "LEFT_EXTENSIBLE"
      [] i.start <= n /\ n <= i.end     -> "INNER"
      [] n = i.end + 1                  -> "RIGHT_EXTENSIBLE"
      [] n > i.end + 1                  -> "RIGHT"

\* Where the interval v lies from i, by its two ends.  OUTER covers i, and INNER lies in
\* it, the interval itself included.
RangeComp(i, v) ==
    LET first == PointComp(i, v.start)
        last == PointComp(i, v.end)
        startsLeft == first \in {"LEFT", "LEFT_EXTENSIBLE"}
        endsRight == last \in {"RIGHT_EXTENSIBLE", "RIGHT"}
    IN  CASE last \in {"LEFT", "LEFT_EXTENSIBLE"}                -> last
          [] startsLeft /\ last = "INNER" /\ i.end # v.end        -> "LEFT_INTERSECT"
          [] startsLeft /\ (endsRight \/ i.end = v.end)           -> "OUTER"
          [] first = "INNER" /\ last = "INNER"                    -> "INNER"
          [] first = "INNER" /\ endsRight /\ i.start # v.start    -> "RIGHT_INTERSECT"
          [] first = "INNER" /\ endsRight /\ i.start = v.start    -> "OUTER"
          [] first \in {"RIGHT_EXTENSIBLE", "RIGHT"}              -> first

\* Mutant: an interval that only touches the start adds nothing.
MergeIntersecting(i, v) ==
    LET c == RangeComp(i, v)
    IN  CASE c = "LEFT_INTERSECT"                          -> From(v.start, i.end)
          [] c \in {"INNER", "LEFT_EXTENSIBLE"}            -> i
          [] c \in {"RIGHT_EXTENSIBLE", "RIGHT_INTERSECT"} -> From(i.start, v.end)
          [] c = "OUTER"                                   -> v

\* Defined when the two intersect or touch.
Merge(i, v) ==
    LET c == RangeComp(i, v)
    IN  CASE c \in {"LEFT_EXTENSIBLE", "LEFT_INTERSECT"}   -> From(v.start, i.end)
          [] c = "INNER"                                   -> i
          [] c \in {"RIGHT_EXTENSIBLE", "RIGHT_INTERSECT"} -> From(i.start, v.end)
          [] c = "OUTER"                                   -> v

\* Defined when v takes away one end of i.
Complement(i, v) ==
    LET c == RangeComp(i, v)
    IN  CASE c = "LEFT_INTERSECT"  -> From(v.end + 1, i.end)
          [] c = "RIGHT_INTERSECT" -> From(i.start, v.start - 1)

\* What is left of i around v, which lies in it.
Fragments(i, v) ==
    (IF v.end < i.end THEN <<From(v.end + 1, i.end)>> ELSE <<>>)
    \o (IF i.start < v.start THEN <<From(i.start, v.start - 1)>> ELSE <<>>)

-----------------------------------------------------------------------------
(* The operations of an IntervalSet.                                       *)

Contain(l, n) == \E k \in DOMAIN l : PointComp(l[k], n) = "INNER"
GetEnd(l) == l[1].end
GetStart(l) == l[Len(l)].start

\* The head has grown downwards: it swallows the intervals that it has reached.  Besides
\* RIGHT the last case is where the code throws and leaves the list as it is.
Maintain[l \in Seq(Interval)] ==
    IF Len(l) < 2 THEN l
    ELSE LET rest == Tail(Tail(l))
             c == RangeComp(l[2], l[1])
         IN  CASE c \in {"RIGHT_EXTENSIBLE", "RIGHT_INTERSECT"} ->
                      Maintain[<<Merge(l[1], l[2])>> \o rest]
               [] c = "OUTER" -> Maintain[<<l[1]>> \o rest]
               [] c \notin {"RIGHT_EXTENSIBLE", "RIGHT_INTERSECT", "OUTER"} -> l

\* A walk over a list and the set to add to it.
AddIntervalSet[walk \in Seq(Interval) \X Seq(Interval)] ==
    LET l == walk[1]
        set == walk[2]
    IN  IF set = <<>> THEN l
        ELSE IF l = <<>> THEN set
        ELSE LET c == RangeComp(Head(l), Head(set))
                 merged == <<Merge(Head(l), Head(set))>> \o Tail(l)
             IN  CASE c = "RIGHT" -> <<Head(set)>> \o AddIntervalSet[<<l, Tail(set)>>]
                   [] c \in {"RIGHT_INTERSECT", "RIGHT_EXTENSIBLE"} -> AddIntervalSet[<<merged, Tail(set)>>]
                   [] c \in {"OUTER", "LEFT_EXTENSIBLE", "LEFT_INTERSECT"} ->
                          AddIntervalSet[<<Maintain[merged], Tail(set)>>]
                   [] c = "INNER" -> AddIntervalSet[<<l, Tail(set)>>]
                   [] c = "LEFT" -> <<Head(l)>> \o AddIntervalSet[<<Tail(l), set>>]

\* The loop of AddInterval is that of AddIntervalSet, left after one interval.
AddInterval(l, v) == AddIntervalSet[<<l, <<v>>>>]

RemoveInterval[walk \in Seq(Interval) \X Interval] ==
    LET l == walk[1]
        v == walk[2]
    IN  IF l = <<>> THEN l
        ELSE LET c == RangeComp(v, Head(l))
             IN  CASE c \in {"RIGHT", "RIGHT_EXTENSIBLE"} -> <<Head(l)>> \o RemoveInterval[<<Tail(l), v>>]
                   [] c = "RIGHT_INTERSECT" -> <<Complement(Head(l), v)>> \o RemoveInterval[<<Tail(l), v>>]
                   [] c = "INNER" -> RemoveInterval[<<Tail(l), v>>]
                   [] c = "LEFT_INTERSECT" -> <<Complement(Head(l), v)>> \o Tail(l)
                   [] c \in {"LEFT", "LEFT_EXTENSIBLE"} -> l
                   [] c = "OUTER" -> Fragments(Head(l), v) \o Tail(l)

RemoveIntervalSet[walk \in Seq(Interval) \X Seq(Interval)] ==
    LET l == walk[1]
        set == walk[2]
    IN  IF l = <<>> \/ set = <<>> THEN l
        ELSE LET c == RangeComp(Head(l), Head(set))
                 cut == Complement(Head(l), Head(set))
             IN  CASE c \in {"LEFT", "LEFT_EXTENSIBLE"} -> <<Head(l)>> \o RemoveIntervalSet[<<Tail(l), set>>]
                   [] c = "LEFT_INTERSECT" -> <<cut>> \o RemoveIntervalSet[<<Tail(l), set>>]
                   [] c = "INNER" ->
                          RemoveIntervalSet[<<Fragments(Head(l), Head(set)) \o Tail(l), Tail(set)>>]
                   [] c \in {"RIGHT", "RIGHT_EXTENSIBLE"} -> RemoveIntervalSet[<<l, Tail(set)>>]
                   [] c = "RIGHT_INTERSECT" -> RemoveIntervalSet[<<<<cut>> \o Tail(l), Tail(set)>>]
                   [] c = "OUTER" -> RemoveIntervalSet[<<Tail(l), set>>]

-----------------------------------------------------------------------------
(* A set, changed by any of its operations.                                *)

\* The list of a set: one interval for each run of consecutive numbers.
Ends(S) == {n \in S : n + 1 \notin S}
RunTo(S, e) == From(CHOOSE a \in S : a <= e /\ a .. e \subseteq S /\ a - 1 \notin S, e)
Runs(S) ==
    [k \in 1 .. Cardinality(Ends(S)) |->
        RunTo(S, CHOOSE e \in Ends(S) : Cardinality({f \in Ends(S) : f >= e}) = k)]

IntervalInit ==
    /\ intervals = <<>>
    /\ numbers = {}

AddNumbers(a, b) ==
    /\ intervals' = AddInterval(intervals, From(a, b))
    /\ numbers' = numbers \cup (a .. b)

RemoveNumbers(a, b) ==
    /\ intervals' = RemoveInterval[<<intervals, From(a, b)>>]
    /\ numbers' = numbers \ (a .. b)

AddNumberSet(S) ==
    /\ intervals' = AddIntervalSet[<<intervals, Runs(S)>>]
    /\ numbers' = numbers \cup S

RemoveNumberSet(S) ==
    /\ intervals' = RemoveIntervalSet[<<intervals, Runs(S)>>]
    /\ numbers' = numbers \ S

IntervalNext ==
    \/ \E a \in 0 .. MaxNumber : \E b \in a .. MaxNumber :
           AddNumbers(a, b) \/ RemoveNumbers(a, b)
    \/ \E S \in SUBSET (0 .. MaxNumber) : AddNumberSet(S) \/ RemoveNumberSet(S)

IntervalSpec == IntervalInit /\ [][IntervalNext]_intervalVars

-----------------------------------------------------------------------------
(* Properties.                                                             *)

\* Whatever order the operations come in, the list holds exactly the numbers put in and
\* not taken out, and holds them as runs: in descending order, with a number missing
\* between any two intervals (interval.hh, class IntervalSet).
RepresentsNumbers ==
    /\ intervals = Runs(numbers)
    /\ \A n \in 0 .. MaxNumber : Contain(intervals, n) <=> n \in numbers
    /\ numbers # {} => /\ \A n \in numbers : GetStart(intervals) <= n /\ n <= GetEnd(intervals)
                       /\ GetStart(intervals) \in numbers /\ GetEnd(intervals) \in numbers
=============================================================================
