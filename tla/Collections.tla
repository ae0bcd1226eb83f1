---------------------------- MODULE Collections ----------------------------
(***************************************************************************)
(* The folds of CollectionUtil over a key of the items of a list, with     *)
(* what JavaScript makes of null, of a text and of a key that is not there. *)
(***************************************************************************)
EXTENDS Integers, Sequences, SequencesExt, FiniteSetsExt

CONSTANTS
    Numbers, Null, Text, Absent, NaN,   \* values of the key, and what is none
    MaxLength                           \* bound on the length of a list

CollectionsAssumption ==
    /\ Numbers \subseteq Nat /\ 0 \in Numbers /\ MaxLength \in Nat
    /\ {Null, Text, Absent, NaN} \cap Int = {}
    /\ Null \notin {Text, Absent, NaN} /\ Text \notin {Absent, NaN} /\ Absent # NaN

VARIABLES list, result

vars == <<list, result>>

Values == Numbers \cup {Null, Text, Absent}
Lists == UNION {[1 .. n -> Values] : n \in 0 .. MaxLength}

\* Number(v), and +
Number(v) == IF v = Null THEN 0 ELSE IF v \in {Text, Absent} THEN NaN ELSE v
Plus(a, b) == IF NaN \in {a, b} THEN NaN ELSE a + b
\* a > b: null counts 0, what is no number is neither more nor less
More(a, b) == Number(a) # NaN /\ Number(b) # NaN /\ Number(a) > Number(b)

-----------------------------------------------------------------------------
Item(v) == [item |-> TRUE, value |-> v]
Count(n) == [item |-> FALSE, value |-> n]

\* Mutant: what is summed up so far starts with the first number
SumFromZero(prev, v) == Count(Plus(Number(prev.value), Number(v)))

\* prev is the first item, and a number from then on; Number of an item is NaN
Sum(prev, v) ==
    CASE ~prev.item -> Count(Plus(prev.value, Number(v)))
      [] prev.item /\ prev.value = Text -> Count(Number(v))
      [] prev.item /\ prev.value \in {0, Null, Absent} -> Count(NaN)
      [] OTHER -> Count(Plus(prev.value, Number(v)))

\* sumBy: a list of one item is that item
SumBy(l) == IF l = <<>> THEN Count(0) ELSE FoldLeft(Sum, Item(Head(l)), Tail(l))

MaxOfTwo(a, b) == IF More(a, b) THEN a ELSE b
MinOfTwo(a, b) == IF More(a, b) THEN b ELSE a
\* maxBy, minBy: reduce without an initial value throws on an empty list
MaxBy(l) == FoldLeft(MaxOfTwo, Head(l), Tail(l))
MinBy(l) == FoldLeft(MinOfTwo, Head(l), Tail(l))

\* groupBy: an item joins the group of its value, or begins it
Push(groups, v) ==
    LET group == IF v \in DOMAIN groups THEN groups[v] ELSE <<>>
    IN  [w \in DOMAIN groups \cup {v} |-> IF w = v THEN Append(group, v) ELSE groups[w]]
GroupBy(l) == FoldLeft(Push, <<>>, l)

\* chunk, for a size that is not zero
Chunk(l, size) ==
    [n \in 1 .. (Len(l) + size - 1) \div size |-> SubSeq(l, (n - 1) * size + 1, Min({n * size, Len(l)}))]

\* The comparison of sortNullToLastPosition, descending
Compare(a, b) ==
    IF a = b THEN 0
    ELSE IF a = Null THEN 1
    ELSE IF b = Null THEN -1
    ELSE IF More(b, a) THEN 1 ELSE -1
Occurrences(l, v) == Cardinality({n \in 1 .. Len(l) : l[n] = v})
\* Array.sort: an order of the list where no item compares greater than a later one
Sorts(l) ==
    {s \in [1 .. Len(l) -> ToSet(l)] :
        /\ \A v \in ToSet(l) : Occurrences(l, v) = Occurrences(s, v)
        /\ \A i, j \in 1 .. Len(l) : i < j => Compare(s[i], s[j]) <= 0}
-----------------------------------------------------------------------------
None == [field |-> "none"]
Init == list \in Lists /\ result = None

Comparable(l) == ToSet(l) \subseteq Numbers \cup {Null}

Calculate ==
    /\ result = None
    /\ \/ result' = [field |-> "sum", value |-> SumBy(list)]
       \/ list # <<>> /\ result' = [field |-> "max", value |-> MaxBy(list)]
       \/ list # <<>> /\ result' = [field |-> "min", value |-> MinBy(list)]
       \/ result' = [field |-> "groups", value |-> GroupBy(list)]
       \/ \E size \in 1 .. 3 : result' = [field |-> "chunks", value |-> Chunk(list, size)]
       \/ Comparable(list) /\ \E s \in Sorts(list) : result' = [field |-> "sorted", value |-> s]
    /\ UNCHANGED list

Again == result # None /\ result' = None /\ UNCHANGED list

Next == Calculate \/ Again
Spec == Init /\ [][Next]_vars

-----------------------------------------------------------------------------
(***************************************************************************)
(* sumBy is the sum of the numbers of a list, null as 0, when there are at *)
(* least two items, none but the first is no number, and the first has a   *)
(* number other than 0, or a text, which then counts nothing.              *)
(***************************************************************************)
SumOf(l) ==
    LET upTo[n \in 0 .. Len(l)] == IF n = 0 THEN 0 ELSE upTo[n - 1] + (IF l[n] \in Numbers THEN l[n] ELSE 0)
    IN  upTo[Len(l)]
SumsAreExact ==
    result.field = "sum" /\ Len(list) # 1
    /\ (list # <<>> => Head(list) \notin {0, Null, Absent} /\ Comparable(Tail(list)))
        => result.value = Count(SumOf(list))

(***************************************************************************)
(* Of a list of numbers and nulls, maxBy and minBy are items of the list   *)
(* that no other is more, or less, than.                                   *)
(***************************************************************************)
ExtremesAreExact ==
    Comparable(list) =>
        /\ result.field = "max" =>
              \E n \in 1 .. Len(list) :
                  /\ result.value = list[n]
                  /\ \A k \in 1 .. Len(list) : ~More(list[k], list[n])
        /\ result.field = "min" =>
              \E n \in 1 .. Len(list) :
                  /\ result.value = list[n]
                  /\ \A k \in 1 .. Len(list) : ~More(list[n], list[k])

(***************************************************************************)
(* Chunks, joined, are the list; each item is in a group.                  *)
(***************************************************************************)
PartsMakeTheList ==
    /\ result.field = "chunks" => FlattenSeq(result.value) = list
    /\ result.field = "groups" =>
          \A n \in 1 .. Len(list) :
              \E v \in DOMAIN result.value : \E k \in 1 .. Len(result.value[v]) : result.value[v][k] = list[n]

(***************************************************************************)
(* A list of numbers and nulls is sorted with its nulls last.              *)
(***************************************************************************)
NullsAreLast ==
    result.field = "sorted" =>
        \A i, j \in 1 .. Len(list) :
            i < j => (result.value[i] = Null => result.value[j] = Null)
                     /\ (result.value[j] # Null => ~More(result.value[j], result.value[i]))
=============================================================================
