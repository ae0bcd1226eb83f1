----------------------------- MODULE ListsProofs -----------------------------
(***************************************************************************)
(* Proofs about the queries, commands, walks and folds of lists, for every *)
(* set of fields, properties, rows and values, and lists of any length.    *)
(***************************************************************************)
EXTENDS MCLists, FiniteSetTheorems, FunctionTheorems, SequenceTheorems, TLAPS

-----------------------------------------------------------------------------
(***************************************************************************)
(* Induction.  The library states it for operators; here it is for sets,   *)
(* from the well-foundedness of the subsets of a finite set: of the        *)
(* intervals 1 .. n, one is in all others.                                 *)
(***************************************************************************)
LEMMA LeastNatural ==
  ASSUME NEW T \in SUBSET Nat, T # {}
  PROVE  \E m \in T : \A k \in T : m <= k
  <1> DEFINE R == StrictSubsetOrdering(Nat)
             I == {1 .. n : n \in T}
  <1>1. \A n \in T : IsFiniteSet(1 .. n) /\ 1 .. n \subseteq Nat
    BY FS_Interval
  <1>2. I \subseteq FiniteSubsetsOf(Nat) /\ I # {}
    BY <1>1 DEF FiniteSubsetsOf
  <1>3. IsWellFoundedOn(R, FiniteSubsetsOf(Nat))
    BY FS_StrictSubsetOrderingWellFounded
  <1> HIDE DEF I, R
  <1>4. PICK x \in I : \A y \in I : <<y, x>> \notin R
    BY <1>2, <1>3, WFMin
  <1>5. PICK m \in T : x = 1 .. m
    BY DEF I
  <1>6. ASSUME NEW k \in T, k < m PROVE FALSE
    <2>1. 1 .. k \in I /\ m \in 1 .. m /\ m \notin 1 .. k /\ 1 .. k \subseteq 1 .. m
      BY <1>6 DEF I
    <2>2. <<1 .. k, 1 .. m>> \in R
      BY <2>1, <1>1 DEF R, StrictSubsetOrdering
    <2> QED
      BY <2>1, <2>2, <1>4, <1>5
  <1> QED
    BY <1>6

LEMMA Induction ==
  ASSUME NEW T \in SUBSET Nat, 0 \in T, \A n \in T : n + 1 \in T
  PROVE  T = Nat
  <1> SUFFICES ASSUME T # Nat PROVE FALSE
    OBVIOUS
  <1>1. PICK m \in Nat \ T : \A k \in Nat \ T : m <= k
    BY LeastNatural
  <1>2. m - 1 \in T
    BY <1>1
  <1> QED
    BY <1>1, <1>2

(***************************************************************************)
(* The greatest of the places of a list that are in a set.                 *)
(***************************************************************************)
LEMMA MaxIs ==
  ASSUME NEW S \in SUBSET Nat, NEW m \in S, \A k \in S : k <= m
  PROVE  Max(S) = m /\ Commands!Max(S) = m /\ Folds!Max(S) = m
  <1> DEFINE top == CHOOSE x \in S : \A y \in S : x >= y
  <1>1. \E x \in S : \A y \in S : x >= y
    OBVIOUS
  <1>2. top \in S /\ \A y \in S : top >= y
    BY <1>1, Zenon
  <1>3. Max(S) = top /\ Commands!Max(S) = top /\ Folds!Max(S) = top
    BY Zenon DEF Max, Commands!Max, Folds!Max
  <1> HIDE DEF top
  <1> QED
    BY <1>2, <1>3

LEMMA MaxOfPlaces ==
  ASSUME NEW n \in Nat, NEW S \in SUBSET (1 .. n), S # {}
  PROVE  /\ Max(S) \in S /\ \A k \in S : k <= Max(S)
         /\ Commands!Max(S) = Max(S) /\ Folds!Max(S) = Max(S)
  <1> DEFINE T == {n - k : k \in S}
  <1>1. T \in SUBSET Nat /\ T # {}
    <2>1. \A k \in S : n - k \in Nat
      OBVIOUS
    <2>2. PICK k \in S : n - k \in T
      OBVIOUS
    <2> QED
      BY <2>1, <2>2
  <1>2. PICK t \in T : \A k \in T : t <= k
    BY <1>1, LeastNatural
  <1>3. PICK m \in S : t = n - m
    OBVIOUS
  <1>4. \A k \in S : k <= m
    BY <1>2, <1>3
  <1> QED
    BY <1>4, MaxIs

LEMMA SameCardinality ==
  \A S : Walk!Cardinality(S) = Cardinality(S) /\ Commands!Cardinality(S) = Cardinality(S)
  BY DEF Walk!Cardinality, Commands!Cardinality, Cardinality

LEMMA SameMin ==
  \A S : Walk!Min(S) = Min(S) /\ Folds!Min(S) = Min(S)
  BY DEF Walk!Min, Folds!Min, Min

(***************************************************************************)
(* FoldLeft is defined by recursion over the sets of places of a list, the *)
(* last place first.  Some function satisfies that definition.             *)
(***************************************************************************)
IsFold(f, base, op, l, n) ==
    \A s \in SUBSET (1 .. n) : f[s] = IF s = {} THEN base ELSE op[<<f[s \ {Max(s)}], l[Max(s)]>>]

LEMMA LastPlace ==
  ASSUME NEW n \in Nat, NEW s \in SUBSET (1 .. n + 1), s # {}
  PROVE  Max(s) \in s /\ Max(s) \in 1 .. n + 1 /\ s \ {Max(s)} \in SUBSET (1 .. n)
  <1> DEFINE m == Max(s)
  <1>1. n + 1 \in Nat
    OBVIOUS
  <1>2. m \in s /\ \A j \in s : j <= m
    BY <1>1, MaxOfPlaces
  <1> HIDE DEF m
  <1>3. \A j \in s : j # m => j \in 1 .. n
    BY <1>2
  <1>4. m \in s /\ m \in 1 .. n + 1 /\ s \ {m} \in SUBSET (1 .. n)
    BY <1>2, <1>3
  <1> QED
    BY <1>4 DEF m

LEMMA FoldExtends ==
  ASSUME NEW T, NEW V, NEW base \in T, NEW op \in [T \X V -> T], NEW n \in Nat, NEW k \in Nat, k + 1 <= n,
         NEW l \in [1 .. n -> V], NEW g \in [SUBSET (1 .. k) -> T], IsFold(g, base, op, l, k)
  PROVE  \E f \in [SUBSET (1 .. k + 1) -> T] : IsFold(f, base, op, l, k + 1)
  <1> DEFINE f == [s \in SUBSET (1 .. k + 1) |-> IF s = {} THEN base ELSE op[<<g[s \ {Max(s)}], l[Max(s)]>>]]
  <1>1. ASSUME NEW s \in SUBSET (1 .. k + 1), s # {}
        PROVE  s \ {Max(s)} \in SUBSET (1 .. k) /\ Max(s) \in 1 .. n
    BY <1>1, LastPlace
  <1>2. \A s \in SUBSET (1 .. k + 1) : f[s] \in T
    BY <1>1
  <1>3. \A s \in SUBSET (1 .. k) : s \in SUBSET (1 .. k + 1) /\ f[s] = g[s]
    <2>1. SUBSET (1 .. k) \subseteq SUBSET (1 .. k + 1)
      OBVIOUS
    <2> QED
      BY <2>1 DEF IsFold
  <1>4. IsFold(f, base, op, l, k + 1)
    BY <1>1, <1>3 DEF IsFold
  <1> QED
    BY <1>2, <1>4

LEMMA FoldExists ==
  ASSUME NEW T, NEW V, NEW base \in T, NEW op \in [T \X V -> T], NEW n \in Nat, NEW l \in [1 .. n -> V]
  PROVE  \E f \in [SUBSET (1 .. n) -> T] : IsFold(f, base, op, l, n)
  <1> DEFINE Has(k) == \E f \in [SUBSET (1 .. k) -> T] : IsFold(f, base, op, l, k)
             K == {k \in Nat : k <= n => Has(k)}
  <1>1. Has(0)
    <2> DEFINE f == [s \in SUBSET (1 .. 0) |-> base]
    <2>1. f \in [SUBSET (1 .. 0) -> T] /\ IsFold(f, base, op, l, 0)
      BY DEF IsFold
    <2> QED
      BY <2>1
  <1>2. ASSUME NEW k \in Nat, Has(k), k + 1 <= n PROVE Has(k + 1)
    BY <1>2, FoldExtends
  <1> HIDE DEF Has
  <1>3. K \in SUBSET Nat /\ 0 \in K /\ \A k \in K : k + 1 \in K
    BY <1>1, <1>2
  <1>4. n \in K
    BY <1>3, Induction
  <1>5. Has(n)
    BY <1>4
  <1> QED
    BY <1>5 DEF Has

-----------------------------------------------------------------------------
(***************************************************************************)
(* The folds.                                                              *)
(***************************************************************************)
LEMMA ValuesAreApart ==
  /\ Numbers \subseteq Nat
  /\ \A v \in {0} \cup Numbers : v \in Nat
  /\ Null \notin Int /\ Text \notin Int /\ Absent \notin Int /\ NaN \notin Int
  /\ Null \notin {Text, Absent, NaN} /\ Text \notin {Absent, NaN} /\ Absent # NaN
  /\ Folds!Values = {0} \cup Numbers \cup {Null, Text, Absent}
  BY ListsAssumption DEF Folds!CollectionsAssumption, Folds!Values

(***************************************************************************)
(* sumBy folds the items after the first, from the first.                  *)
(***************************************************************************)
Amounts == Int \cup {NaN}
Sums == {Folds!Item(v) : v \in Folds!Values} \cup {Folds!Count(m) : m \in Amounts}

LEMMA NumberType == \A v \in Folds!Values : Folds!Number(v) \in Amounts
  BY ValuesAreApart DEF Folds!Number, Amounts

LEMMA SumType ==
  ASSUME NEW p \in Sums, NEW v \in Folds!Values
  PROVE  Folds!Sum(p, v) \in Sums
  <1> DEFINE m == Folds!Number(v)
  <1>1. m \in Amounts
    BY NumberType
  <1>2. \A k \in Amounts : Folds!Plus(k, m) \in Amounts
    BY <1>1 DEF Folds!Plus, Amounts
  <1>3. NaN \in Amounts /\ \A w \in Folds!Values : w \notin {0, Null, Absent, Text} => w \in Amounts
    BY ValuesAreApart DEF Amounts
  <1> HIDE DEF m
  <1>4. \A k \in Amounts : Folds!Count(k) \in Sums
    BY DEF Sums
  <1>5. CASE \E k \in Amounts : p = Folds!Count(k)
    BY <1>1, <1>2, <1>4, <1>5 DEF Folds!Sum, Folds!Count, m
  <1>6. CASE \E w \in Folds!Values : p = Folds!Item(w)
    BY <1>1, <1>2, <1>3, <1>4, <1>6 DEF Folds!Sum, Folds!Item, m
  <1> QED
    BY <1>5, <1>6 DEF Sums

LEMMA TailFacts ==
  ASSUME NEW V, NEW l \in Seq(V), l # <<>>
  PROVE  /\ Len(l) - 1 \in Nat /\ Head(l) = l[1] /\ Head(l) \in V
         /\ Tail(l) \in [1 .. Len(l) - 1 -> V] /\ DOMAIN Tail(l) = 1 .. Len(l) - 1
         /\ \A k \in 1 .. Len(l) - 1 : Tail(l)[k] = l[k + 1]
  <1>1. Len(l) \in Nat \ {0} /\ Head(l) = l[1] /\ l[1] \in V
    BY EmptySeq, ElementOfSeq
  <1>2. Tail(l) \in Seq(V) /\ Len(Tail(l)) = Len(l) - 1 /\ \A k \in 1 .. Len(Tail(l)) : Tail(l)[k] = l[k + 1]
    BY HeadTailProperties
  <1> QED
    BY <1>1, <1>2, LenProperties

LEMMA IntervalFacts ==
  ASSUME NEW n \in Nat, NEW k \in 1 .. n
  PROVE  /\ 1 .. k \in SUBSET (1 .. n) /\ 1 .. k # {} /\ Max(1 .. k) = k /\ Folds!Max(1 .. k) = k
         /\ (1 .. k) \ {k} = 1 .. k - 1
  <1>1. k \in 1 .. k /\ \A j \in 1 .. k : j <= k
    OBVIOUS
  <1> QED
    BY <1>1, MaxIs

LEMMA SumFold ==
  ASSUME NEW l \in Seq(Folds!Values), l # <<>>
  PROVE  \E g : /\ g[0] = Folds!Item(l[1])
                /\ \A k \in 1 .. Len(l) - 1 : g[k] = Folds!Sum(g[k - 1], l[k + 1])
                /\ Folds!SumBy(l) = g[Len(l) - 1]
  <1> DEFINE t == Tail(l)
             n == Len(l) - 1
             base == Folds!Item(Head(l))
             op == [p \in Sums \X Folds!Values |-> Folds!Sum(p[1], p[2])]
             P(f) == f = [s \in SUBSET DOMAIN t |->
                            IF s = {} THEN base ELSE Folds!Sum(f[s \ {Folds!Max(s)}], t[Folds!Max(s)])]
             it == CHOOSE f : P(f)
             g == [k \in 0 .. n |-> it[1 .. k]]
  <1>1. n \in Nat /\ Head(l) = l[1] /\ t \in [1 .. n -> Folds!Values] /\ DOMAIN t = 1 .. n
        /\ base \in Sums /\ \A k \in 1 .. n : t[k] = l[k + 1]
    BY TailFacts DEF Sums
  <1>2. op \in [Sums \X Folds!Values -> Sums]
    BY SumType
  <1>3. \E f : P(f)
    <2>1. PICK f \in [SUBSET (1 .. n) -> Sums] : IsFold(f, base, op, t, n)
      BY <1>1, <1>2, FoldExists
    <2> HIDE DEF t, n, base
    <2>2. \A s \in SUBSET (1 .. n) : s # {} => Folds!Max(s) = Max(s) /\ Max(s) \in s
      BY <1>1, MaxOfPlaces
    <2>3. ASSUME NEW s \in SUBSET (1 .. n), s # {}
          PROVE  f[s] = Folds!Sum(f[s \ {Folds!Max(s)}], t[Folds!Max(s)])
      <3>1. f[s \ {Max(s)}] \in Sums /\ t[Max(s)] \in Folds!Values
        BY <2>2, <2>3, <1>1
      <3> QED
        BY <3>1, <2>1, <2>2, <2>3 DEF IsFold
    <2>4. f[{}] = base
      BY <2>1 DEF IsFold
    <2>5. P(f)
      BY <1>1, <2>3, <2>4
    <2> QED
      BY <2>5
  <1>4. P(it)
    BY <1>3, Zenon
  <1>5. Folds!SumBy(l) = it[DOMAIN t]
    BY DEF Folds!SumBy, Folds!FoldLeft, Folds!MapThenFoldSet
  <1> HIDE DEF it, t, n
  <1>6. g[0] = base
    BY <1>1, <1>4
  <1>7. ASSUME NEW k \in 1 .. n PROVE g[k] = Folds!Sum(g[k - 1], t[k])
    <2>1. /\ 1 .. k \in SUBSET (1 .. n) /\ 1 .. k # {} /\ Folds!Max(1 .. k) = k
          /\ (1 .. k) \ {k} = 1 .. k - 1 /\ k \in 0 .. n /\ k - 1 \in 0 .. n
      BY <1>1, <1>7, IntervalFacts
    <2>2. it[1 .. k] = Folds!Sum(it[(1 .. k) \ {k}], t[k])
      BY <1>1, <1>4, <2>1
    <2> QED
      BY <2>1, <2>2
  <1>8. Folds!SumBy(l) = g[n]
    BY <1>1, <1>5
  <1> QED
    BY <1>1, <1>6, <1>7, <1>8 DEF n

(***************************************************************************)
(* maxBy and minBy fold the items after the first, from the first.         *)
(***************************************************************************)
LEMMA MaxFold ==
  ASSUME NEW l \in Seq(Folds!Values), l # <<>>
  PROVE  \E g : /\ g[0] = l[1]
                /\ \A k \in 1 .. Len(l) - 1 : g[k] = Folds!MaxOfTwo(g[k - 1], l[k + 1])
                /\ Folds!MaxBy(l) = g[Len(l) - 1]
  <1> DEFINE t == Tail(l)
             n == Len(l) - 1
             base == Head(l)
             op == [p \in Folds!Values \X Folds!Values |-> Folds!MaxOfTwo(p[1], p[2])]
             P(f) == f = [s \in SUBSET DOMAIN t |->
                            IF s = {} THEN base ELSE Folds!MaxOfTwo(f[s \ {Folds!Max(s)}], t[Folds!Max(s)])]
             it == CHOOSE f : P(f)
             g == [k \in 0 .. n |-> it[1 .. k]]
  <1>1. n \in Nat /\ Head(l) = l[1] /\ t \in [1 .. n -> Folds!Values] /\ DOMAIN t = 1 .. n
        /\ base \in Folds!Values /\ \A k \in 1 .. n : t[k] = l[k + 1]
    BY TailFacts
  <1>2. op \in [Folds!Values \X Folds!Values -> Folds!Values]
    BY DEF Folds!MaxOfTwo
  <1>3. \E f : P(f)
    <2>1. PICK f \in [SUBSET (1 .. n) -> Folds!Values] : IsFold(f, base, op, t, n)
      BY <1>1, <1>2, FoldExists
    <2> HIDE DEF t, n, base
    <2>2. \A s \in SUBSET (1 .. n) : s # {} => Folds!Max(s) = Max(s) /\ Max(s) \in s
      BY <1>1, MaxOfPlaces
    <2>3. ASSUME NEW s \in SUBSET (1 .. n), s # {}
          PROVE  f[s] = Folds!MaxOfTwo(f[s \ {Folds!Max(s)}], t[Folds!Max(s)])
      <3>1. f[s \ {Max(s)}] \in Folds!Values /\ t[Max(s)] \in Folds!Values
        BY <2>2, <2>3, <1>1
      <3> QED
        BY <3>1, <2>1, <2>2, <2>3 DEF IsFold
    <2>4. f[{}] = base
      BY <2>1 DEF IsFold
    <2>5. P(f)
      BY <1>1, <2>3, <2>4
    <2> QED
      BY <2>5
  <1>4. P(it)
    BY <1>3, Zenon
  <1>5. Folds!MaxBy(l) = it[DOMAIN t]
    BY DEF Folds!MaxBy, Folds!FoldLeft, Folds!MapThenFoldSet
  <1> HIDE DEF it, t, n
  <1>6. g[0] = base
    BY <1>1, <1>4
  <1>7. ASSUME NEW k \in 1 .. n PROVE g[k] = Folds!MaxOfTwo(g[k - 1], t[k])
    <2>1. /\ 1 .. k \in SUBSET (1 .. n) /\ 1 .. k # {} /\ Folds!Max(1 .. k) = k
          /\ (1 .. k) \ {k} = 1 .. k - 1 /\ k \in 0 .. n /\ k - 1 \in 0 .. n
      BY <1>1, <1>7, IntervalFacts
    <2>2. it[1 .. k] = Folds!MaxOfTwo(it[(1 .. k) \ {k}], t[k])
      BY <1>1, <1>4, <2>1
    <2> QED
      BY <2>1, <2>2
  <1>8. Folds!MaxBy(l) = g[n]
    BY <1>1, <1>5
  <1> QED
    BY <1>1, <1>6, <1>7, <1>8 DEF n

LEMMA MinFold ==
  ASSUME NEW l \in Seq(Folds!Values), l # <<>>
  PROVE  \E g : /\ g[0] = l[1]
                /\ \A k \in 1 .. Len(l) - 1 : g[k] = Folds!MinOfTwo(g[k - 1], l[k + 1])
                /\ Folds!MinBy(l) = g[Len(l) - 1]
  <1> DEFINE t == Tail(l)
             n == Len(l) - 1
             base == Head(l)
             op == [p \in Folds!Values \X Folds!Values |-> Folds!MinOfTwo(p[1], p[2])]
             P(f) == f = [s \in SUBSET DOMAIN t |->
                            IF s = {} THEN base ELSE Folds!MinOfTwo(f[s \ {Folds!Max(s)}], t[Folds!Max(s)])]
             it == CHOOSE f : P(f)
             g == [k \in 0 .. n |-> it[1 .. k]]
  <1>1. n \in Nat /\ Head(l) = l[1] /\ t \in [1 .. n -> Folds!Values] /\ DOMAIN t = 1 .. n
        /\ base \in Folds!Values /\ \A k \in 1 .. n : t[k] = l[k + 1]
    BY TailFacts
  <1>2. op \in [Folds!Values \X Folds!Values -> Folds!Values]
    BY DEF Folds!MinOfTwo
  <1>3. \E f : P(f)
    <2>1. PICK f \in [SUBSET (1 .. n) -> Folds!Values] : IsFold(f, base, op, t, n)
      BY <1>1, <1>2, FoldExists
    <2> HIDE DEF t, n, base
    <2>2. \A s \in SUBSET (1 .. n) : s # {} => Folds!Max(s) = Max(s) /\ Max(s) \in s
      BY <1>1, MaxOfPlaces
    <2>3. ASSUME NEW s \in SUBSET (1 .. n), s # {}
          PROVE  f[s] = Folds!MinOfTwo(f[s \ {Folds!Max(s)}], t[Folds!Max(s)])
      <3>1. f[s \ {Max(s)}] \in Folds!Values /\ t[Max(s)] \in Folds!Values
        BY <2>2, <2>3, <1>1
      <3> QED
        BY <3>1, <2>1, <2>2, <2>3 DEF IsFold
    <2>4. f[{}] = base
      BY <2>1 DEF IsFold
    <2>5. P(f)
      BY <1>1, <2>3, <2>4
    <2> QED
      BY <2>5
  <1>4. P(it)
    BY <1>3, Zenon
  <1>5. Folds!MinBy(l) = it[DOMAIN t]
    BY DEF Folds!MinBy, Folds!FoldLeft, Folds!MapThenFoldSet
  <1> HIDE DEF it, t, n
  <1>6. g[0] = base
    BY <1>1, <1>4
  <1>7. ASSUME NEW k \in 1 .. n PROVE g[k] = Folds!MinOfTwo(g[k - 1], t[k])
    <2>1. /\ 1 .. k \in SUBSET (1 .. n) /\ 1 .. k # {} /\ Folds!Max(1 .. k) = k
          /\ (1 .. k) \ {k} = 1 .. k - 1 /\ k \in 0 .. n /\ k - 1 \in 0 .. n
      BY <1>1, <1>7, IntervalFacts
    <2>2. it[1 .. k] = Folds!MinOfTwo(it[(1 .. k) \ {k}], t[k])
      BY <1>1, <1>4, <2>1
    <2> QED
      BY <2>1, <2>2
  <1>8. Folds!MinBy(l) = g[n]
    BY <1>1, <1>5
  <1> QED
    BY <1>1, <1>6, <1>7, <1>8 DEF n

(***************************************************************************)
(* groupBy folds all items, from no group.                                 *)
(***************************************************************************)
Groupings == UNION {[D -> Seq(Folds!Values)] : D \in SUBSET Folds!Values}

LEMMA NoGroup == <<>> \in Groupings /\ DOMAIN <<>> = {}
  <1>1. <<>> \in [1 .. 0 -> Seq(Folds!Values)]
    BY EmptySeq, LenProperties
  <1>2. 1 .. 0 = {} /\ {} \in SUBSET Folds!Values
    OBVIOUS
  <1> QED
    BY <1>1, <1>2 DEF Groupings

(***************************************************************************)
(* An item that is pushed joins a group, and no group loses an item.       *)
(***************************************************************************)
LEMMA PushFacts ==
  ASSUME NEW gr \in Groupings, NEW v \in Folds!Values
  PROVE  LET pushed == Folds!Push(gr, v)
         IN  /\ pushed \in Groupings
             /\ DOMAIN pushed = DOMAIN gr \cup {v}
             /\ Len(pushed[v]) >= 1 /\ pushed[v][Len(pushed[v])] = v
             /\ \A w \in DOMAIN gr : \A i \in 1 .. Len(gr[w]) :
                    i \in 1 .. Len(pushed[w]) /\ pushed[w][i] = gr[w][i]
  <1>1. PICK D \in SUBSET Folds!Values : gr \in [D -> Seq(Folds!Values)]
    BY DEF Groupings
  <1> DEFINE group == IF v \in DOMAIN gr THEN gr[v] ELSE <<>>
             pushed == [w \in D \cup {v} |-> IF w = v THEN Append(group, v) ELSE gr[w]]
  <1>2. group \in Seq(Folds!Values)
    BY <1>1, EmptySeq
  <1>3. Folds!Push(gr, v) = pushed
    BY <1>1 DEF Folds!Push
  <1> HIDE DEF group
  <1>4. /\ Append(group, v) \in Seq(Folds!Values) /\ Len(Append(group, v)) = Len(group) + 1
        /\ Len(group) \in Nat /\ Append(group, v)[Len(group) + 1] = v
        /\ \A i \in 1 .. Len(group) : Append(group, v)[i] = group[i]
    BY <1>2
  <1>5. pushed \in [D \cup {v} -> Seq(Folds!Values)] /\ D \cup {v} \in SUBSET Folds!Values
    BY <1>1, <1>4
  <1>6. pushed[v] = Append(group, v) /\ \A w \in D : w # v => pushed[w] = gr[w]
    OBVIOUS
  <1>7. \A w \in D : \A i \in 1 .. Len(gr[w]) : i \in 1 .. Len(pushed[w]) /\ pushed[w][i] = gr[w][i]
    <2> SUFFICES ASSUME NEW w \in D, NEW i \in 1 .. Len(gr[w])
                 PROVE  i \in 1 .. Len(pushed[w]) /\ pushed[w][i] = gr[w][i]
      OBVIOUS
    <2>1. CASE w = v
      <3>1. group = gr[v]
        BY <1>1, <2>1 DEF group
      <3> QED
        BY <1>4, <1>6, <2>1, <3>1
    <2>2. CASE w # v
      BY <1>6, <2>2
    <2> QED
      BY <2>1, <2>2
  <1>8. Len(pushed[v]) >= 1 /\ pushed[v][Len(pushed[v])] = v
    BY <1>4, <1>6
  <1> HIDE DEF pushed
  <1>9. pushed \in Groupings /\ DOMAIN pushed = D \cup {v} /\ DOMAIN gr = D
    BY <1>1, <1>5 DEF Groupings
  <1> QED
    BY <1>3, <1>7, <1>8, <1>9

LEMMA GroupFold ==
  ASSUME NEW l \in Seq(Folds!Values)
  PROVE  \E g : /\ g[0] = <<>>
                /\ \A k \in 1 .. Len(l) : g[k] = Folds!Push(g[k - 1], l[k])
                /\ Folds!GroupBy(l) = g[Len(l)]
  <1> DEFINE n == Len(l)
             op == [p \in Groupings \X Folds!Values |-> Folds!Push(p[1], p[2])]
             P(f) == f = [s \in SUBSET DOMAIN l |->
                            IF s = {} THEN <<>> ELSE Folds!Push(f[s \ {Folds!Max(s)}], l[Folds!Max(s)])]
             it == CHOOSE f : P(f)
             g == [k \in 0 .. n |-> it[1 .. k]]
  <1>1. n \in Nat /\ l \in [1 .. n -> Folds!Values] /\ DOMAIN l = 1 .. n /\ <<>> \in Groupings
    BY LenProperties, NoGroup
  <1>2. op \in [Groupings \X Folds!Values -> Groupings]
    BY PushFacts
  <1>3. \E f : P(f)
    <2>1. PICK f \in [SUBSET (1 .. n) -> Groupings] : IsFold(f, <<>>, op, l, n)
      BY <1>1, <1>2, FoldExists
    <2> HIDE DEF n
    <2>2. \A s \in SUBSET (1 .. n) : s # {} => Folds!Max(s) = Max(s) /\ Max(s) \in s
      BY <1>1, MaxOfPlaces
    <2>3. ASSUME NEW s \in SUBSET (1 .. n), s # {}
          PROVE  f[s] = Folds!Push(f[s \ {Folds!Max(s)}], l[Folds!Max(s)])
      <3>1. f[s \ {Max(s)}] \in Groupings /\ l[Max(s)] \in Folds!Values
        BY <2>2, <2>3, <1>1
      <3> QED
        BY <3>1, <2>1, <2>2, <2>3 DEF IsFold
    <2>4. f[{}] = <<>>
      BY <2>1 DEF IsFold
    <2>5. P(f)
      BY <1>1, <2>3, <2>4
    <2> QED
      BY <2>5
  <1>4. P(it)
    BY <1>3, Zenon
  <1>5. Folds!GroupBy(l) = it[DOMAIN l]
    BY DEF Folds!GroupBy, Folds!FoldLeft, Folds!MapThenFoldSet
  <1> HIDE DEF it, n
  <1>6. g[0] = <<>>
    BY <1>1, <1>4
  <1>7. ASSUME NEW k \in 1 .. n PROVE g[k] = Folds!Push(g[k - 1], l[k])
    <2>1. /\ 1 .. k \in SUBSET (1 .. n) /\ 1 .. k # {} /\ Folds!Max(1 .. k) = k
          /\ (1 .. k) \ {k} = 1 .. k - 1 /\ k \in 0 .. n /\ k - 1 \in 0 .. n
      BY <1>1, <1>7, IntervalFacts
    <2>2. it[1 .. k] = Folds!Push(it[(1 .. k) \ {k}], l[k])
      BY <1>1, <1>4, <2>1
    <2> QED
      BY <2>1, <2>2
  <1>8. Folds!GroupBy(l) = g[n]
    BY <1>1, <1>5
  <1> QED
    BY <1>6, <1>7, <1>8 DEF n

(***************************************************************************)
(* A function defined by recursion over 0 .. n has a definition that some  *)
(* function satisfies, and so has the sum that sumBy is compared with.     *)
(***************************************************************************)
IsRecursion(f, base, op, l, n) == f[0] = base /\ \A k \in 1 .. n : f[k] = op[<<f[k - 1], l[k]>>]

LEMMA RecursionExists ==
  ASSUME NEW T, NEW V, NEW base \in T, NEW op \in [T \X V -> T], NEW n \in Nat, NEW l \in [1 .. n -> V]
  PROVE  \E f \in [0 .. n -> T] : IsRecursion(f, base, op, l, n)
  <1>1. PICK h \in [SUBSET (1 .. n) -> T] : IsFold(h, base, op, l, n)
    BY FoldExists
  <1> DEFINE f == [k \in 0 .. n |-> h[1 .. k]]
  <1>2. \A k \in 0 .. n : 1 .. k \in SUBSET (1 .. n)
    OBVIOUS
  <1>3. f \in [0 .. n -> T]
    BY <1>2
  <1>4. f[0] = base
    <2>1. 1 .. 0 = {} /\ 0 \in 0 .. n /\ {} \in SUBSET (1 .. n)
      OBVIOUS
    <2>2. h[{}] = base
      BY <1>1, <2>1 DEF IsFold
    <2> QED
      BY <2>1, <2>2
  <1>5. ASSUME NEW k \in 1 .. n PROVE f[k] = op[<<f[k - 1], l[k]>>]
    <2>1. /\ 1 .. k \in SUBSET (1 .. n) /\ 1 .. k # {} /\ Max(1 .. k) = k
          /\ (1 .. k) \ {k} = 1 .. k - 1 /\ k \in 0 .. n /\ k - 1 \in 0 .. n
      BY <1>5, IntervalFacts
    <2>2. h[1 .. k] = op[<<h[(1 .. k) \ {k}], l[k]>>]
      BY <1>1, <2>1 DEF IsFold
    <2> QED
      BY <2>1, <2>2
  <1> QED
    BY <1>3, <1>4, <1>5 DEF IsRecursion

Term(v) == IF v \in {0} \cup Numbers THEN v ELSE 0

LEMMA TermType == \A v : Term(v) \in Nat
  BY ValuesAreApart DEF Term

LEMMA SumOfSteps ==
  ASSUME NEW l \in Seq(Folds!Values)
  PROVE  \E f \in [0 .. Len(l) -> Nat] :
            /\ f[0] = 0
            /\ \A k \in 1 .. Len(l) : f[k] = f[k - 1] + Term(l[k])
            /\ Folds!SumOf(l) = f[Len(l)]
  <1> DEFINE n == Len(l)
             op == [p \in Nat \X Folds!Values |-> p[1] + Term(p[2])]
             P(f) == f = [k \in 0 .. n |-> IF k = 0 THEN 0
                                          ELSE f[k - 1] + (IF l[k] \in {0} \cup Numbers THEN l[k] ELSE 0)]
             up == CHOOSE f : P(f)
  <1>1. n \in Nat /\ l \in [1 .. n -> Folds!Values]
    BY LenProperties
  <1>2. \A v \in Folds!Values : Term(v) \in Nat
    BY ValuesAreApart DEF Term
  <1>3. op \in [Nat \X Folds!Values -> Nat]
    BY <1>2
  <1> HIDE DEF n, op
  <1>4. PICK h \in [0 .. n -> Nat] : IsRecursion(h, 0, op, l, n)
    <2>1. 0 \in Nat
      OBVIOUS
    <2> QED
      BY <2>1, <1>1, <1>3, RecursionExists
  <1>5. ASSUME NEW k \in 1 .. n PROVE h[k] = h[k - 1] + Term(l[k])
    <2>1. h[k - 1] \in Nat /\ l[k] \in Folds!Values
      BY <1>1
    <2> QED
      BY <1>4, <2>1 DEF op, IsRecursion
  <1>6. P(h)
    BY <1>1, <1>4, <1>5 DEF Term, IsRecursion
  <1>7. P(up)
    BY <1>6, Zenon
  <1>8. Folds!SumOf(l) = up[n]
    BY DEF Folds!SumOf, n
  <1> HIDE DEF up
  <1> DEFINE Same(k) == k \in 0 .. n => up[k] = h[k]
  <1>9. \A k \in Nat : Same(k)
    <2> DEFINE K == {k \in Nat : Same(k)}
    <2>1. 0 \in K
      BY <1>1, <1>6, <1>7
    <2>2. ASSUME NEW k \in K PROVE k + 1 \in K
      BY <1>1, <1>6, <1>7
    <2>3. K \in SUBSET Nat
      OBVIOUS
    <2> HIDE DEF K
    <2>4. K = Nat
      BY <2>1, <2>2, <2>3, Induction
    <2> QED
      BY <2>4 DEF K
  <1>10. Folds!SumOf(l) = h[n]
    BY <1>1, <1>8, <1>9
  <1> QED
    BY <1>4, <1>5, <1>10 DEF n, IsRecursion

(***************************************************************************)
(* From the second item on, what is summed up is the sum so far.           *)
(***************************************************************************)
LEMMA TailIsComparable ==
  ASSUME NEW l \in Seq(Folds!Values), l # <<>>, Folds!Comparable(Tail(l)), NEW k \in 2 .. Len(l)
  PROVE  l[k] \in {0} \cup Numbers \cup {Null}
  <1>1. /\ DOMAIN Tail(l) = 1 .. Len(l) - 1 /\ k - 1 \in 1 .. Len(l) - 1 /\ Tail(l)[k - 1] = l[k]
    <2>1. k - 1 \in 1 .. Len(l) - 1 /\ (k - 1) + 1 = k
      OBVIOUS
    <2> QED
      BY <2>1, TailFacts
  <1>2. Folds!ToSet(Tail(l)) \subseteq {0} \cup Numbers \cup {Null}
    BY DEF Folds!Comparable
  <1>3. Tail(l)[k - 1] \in Folds!ToSet(Tail(l))
    BY <1>1 DEF Folds!ToSet
  <1> QED
    BY <1>1, <1>2, <1>3

LEMMA SumStep ==
  ASSUME NEW v \in {0} \cup Numbers \cup {Null}
  PROVE  /\ Folds!Number(v) = Term(v) /\ Term(v) \in Nat
         /\ \A m \in Int : Folds!Sum(Folds!Count(m), v) = Folds!Count(m + Term(v))
         /\ \A w \in Folds!Values \ {0, Null, Absent} :
                Term(w) \in Nat /\ Folds!Sum(Folds!Item(w), v) = Folds!Count(Term(w) + Term(v))
  <1>1. Folds!Number(v) = Term(v) /\ Term(v) \in Nat
    <2>1. CASE v = Null
      <3>1. Null \notin {0} \cup Numbers
        <4>1. SUFFICES ASSUME Null \in {0} \cup Numbers PROVE FALSE
          OBVIOUS
        <4>2. Null \in Nat
          BY <4>1, ValuesAreApart
        <4>3. Null \in Int
          BY <4>2
        <4> QED
          BY <4>3, ValuesAreApart
      <3> QED
        BY <2>1, <3>1 DEF Folds!Number, Term
    <2>2. CASE v \in {0} \cup Numbers
      <3>1. v \in Nat /\ v \notin {Null, Text, Absent}
        BY <2>2, ValuesAreApart
      <3> QED
        BY <2>2, <3>1 DEF Folds!Number, Term
    <2> QED
      BY <2>1, <2>2
  <1>2. \A m \in Int : Folds!Plus(m, Term(v)) = m + Term(v)
    BY <1>1, ValuesAreApart DEF Folds!Plus
  <1> DEFINE t == Term(v)
  <1> HIDE DEF t
  <1>3. ASSUME NEW m \in Int PROVE Folds!Sum(Folds!Count(m), v) = Folds!Count(m + t)
    BY <1>1, <1>2 DEF Folds!Sum, Folds!Count, t
  <1>4. ASSUME NEW w \in Folds!Values \ {0, Null, Absent}
        PROVE  Term(w) \in Nat /\ Folds!Sum(Folds!Item(w), v) = Folds!Count(Term(w) + t)
    <2>1. CASE w = Text
      <3>1. Term(w) = 0 /\ 0 + t = t
        BY <1>1, <2>1, ValuesAreApart DEF Term, t
      <3> QED
        BY <3>1, <1>1, <2>1 DEF Folds!Sum, Folds!Item, t
    <2>2. CASE w # Text
      <3>1. w \in Nat /\ Term(w) = w
        BY <1>4, <2>2, ValuesAreApart DEF Term
      <3>2. Folds!Sum(Folds!Item(w), v) = Folds!Count(Folds!Plus(w, Folds!Number(v)))
        BY <1>4, <2>2 DEF Folds!Sum, Folds!Item
      <3> QED
        BY <3>1, <3>2, <1>1, <1>2 DEF t
    <2> QED
      BY <2>1, <2>2
  <1> QED
    BY <1>1, <1>3, <1>4 DEF t

LEMMA SumIsExact ==
  ASSUME NEW l \in Seq(Folds!Values), Len(l) # 1,
         l # <<>> => Head(l) \notin {0, Null, Absent} /\ Folds!Comparable(Tail(l))
  PROVE  Folds!SumBy(l) = Folds!Count(Folds!SumOf(l))
  <1>1. PICK u \in [0 .. Len(l) -> Nat] :
            /\ u[0] = 0
            /\ \A k \in 1 .. Len(l) : u[k] = u[k - 1] + Term(l[k])
            /\ Folds!SumOf(l) = u[Len(l)]
    BY SumOfSteps
  <1>2. CASE l = <<>>
    BY <1>1, <1>2 DEF Folds!SumBy
  <1>3. CASE l # <<>>
    <2> DEFINE n == Len(l) - 1
    <2>1. PICK g : /\ g[0] = Folds!Item(l[1])
                   /\ \A k \in 1 .. n : g[k] = Folds!Sum(g[k - 1], l[k + 1])
                   /\ Folds!SumBy(l) = g[n]
      BY <1>3, SumFold
    <2>2. n \in Nat \ {0} /\ Head(l) = l[1] /\ l[1] \in Folds!Values /\ Len(l) = n + 1
      BY <1>3, TailFacts
    <2>3. \A k \in 1 .. n : l[k + 1] \in {0} \cup Numbers \cup {Null}
      BY <1>3, <2>2, TailIsComparable
    <2> HIDE DEF n
    <2> DEFINE K == {k \in Nat : k + 1 <= n => g[k + 1] = Folds!Count(u[k + 2])}
    <2>4. 0 \in K
      <3>1. u[1] = Term(l[1]) /\ u[2] = u[1] + Term(l[2])
        <4>1. 1 \in 1 .. Len(l) /\ 2 \in 1 .. Len(l) /\ 1 - 1 = 0 /\ 2 - 1 = 1
          BY <2>2
        <4>2. u[1] = u[0] + Term(l[1]) /\ u[2] = u[1] + Term(l[2])
          BY <1>1, <4>1
        <4>3. u[1] \in Nat /\ Term(l[1]) \in Nat
          BY <4>1, <1>1, <2>2, TermType
        <4> QED
          BY <1>1, <4>2, <4>3
      <3>2. g[1] = Folds!Sum(g[0], l[2]) /\ l[2] \in {0} \cup Numbers \cup {Null}
        <4>1. 1 \in 1 .. n /\ 1 - 1 = 0 /\ 1 + 1 = 2
          BY <2>2
        <4> QED
          BY <4>1, <2>1, <2>3
      <3>3. g[1] = Folds!Count(Term(l[1]) + Term(l[2]))
        BY <3>2, <2>1, <2>2, <1>3, SumStep
      <3> QED
        BY <3>1, <3>3
    <2>5. ASSUME NEW k \in K, (k + 1) + 1 <= n PROVE g[k + 2] = Folds!Count(u[k + 3])
      <3>1. /\ k \in Nat /\ g[k + 1] = Folds!Count(u[k + 2])
            /\ k + 2 \in 1 .. n /\ (k + 2) - 1 = k + 1 /\ (k + 2) + 1 = k + 3
            /\ k + 3 \in 1 .. Len(l) /\ (k + 3) - 1 = k + 2 /\ k + 2 \in 0 .. Len(l)
        BY <2>2, <2>5
      <3>2. g[k + 2] = Folds!Sum(g[k + 1], l[k + 3]) /\ l[k + 3] \in {0} \cup Numbers \cup {Null}
        BY <3>1, <2>1, <2>3
      <3>3. u[k + 3] = u[k + 2] + Term(l[k + 3]) /\ u[k + 2] \in Int
        BY <3>1, <1>1
      <3> QED
        BY <3>1, <3>2, <3>3, SumStep
    <2>6. K \in SUBSET Nat /\ \A k \in K : k + 1 \in K
      BY <2>5
    <2> HIDE DEF K
    <2>7. K = Nat
      BY <2>4, <2>6, Induction
    <2>8. g[n] = Folds!Count(u[n + 1])
      <3>1. n - 1 \in K /\ (n - 1) + 1 = n /\ (n - 1) + 2 = n + 1
        BY <2>2, <2>7
      <3> QED
        BY <2>2, <3>1 DEF K
    <2> QED
      BY <1>1, <2>1, <2>2, <2>8 DEF n
  <1> QED
    BY <1>2, <1>3

LEMMA ComparableNumber ==
  ASSUME NEW l \in Seq(Folds!Values), Folds!Comparable(l), NEW k \in 1 .. Len(l)
  PROVE  Folds!Number(l[k]) \in Int
  <1>1. l[k] \in Folds!ToSet(l)
    BY LenProperties DEF Folds!ToSet
  <1>2. l[k] \in {0} \cup Numbers \cup {Null}
    BY <1>1 DEF Folds!Comparable
  <1>3. Folds!Number(l[k]) = Term(l[k]) /\ Term(l[k]) \in Nat
    BY <1>2, SumStep
  <1> QED
    BY <1>3

(***************************************************************************)
(* Of the items so far, none is more than the one that maxBy holds.        *)
(***************************************************************************)
LEMMA MaxIsExact ==
  ASSUME NEW l \in Seq(Folds!Values), l # <<>>, Folds!Comparable(l)
  PROVE  \E m \in 1 .. Len(l) : Folds!MaxBy(l) = l[m] /\ \A k \in 1 .. Len(l) : ~Folds!More(l[k], l[m])
  <1> DEFINE n == Len(l) - 1
  <1>1. PICK g : /\ g[0] = l[1]
                 /\ \A k \in 1 .. n : g[k] = Folds!MaxOfTwo(g[k - 1], l[k + 1])
                 /\ Folds!MaxBy(l) = g[n]
    BY MaxFold
  <1>2. n \in Nat /\ Len(l) = n + 1
    BY TailFacts
  <1>3. \A k \in 1 .. n + 1 : Folds!Number(l[k]) \in Int
    BY <1>2, ComparableNumber
  <1> HIDE DEF n
  <1> DEFINE Top(x, k) == \E m \in 1 .. k + 1 : x = l[m] /\ \A j \in 1 .. k + 1 : ~Folds!More(l[j], l[m])
             K == {k \in Nat : k <= n => Top(g[k], k)}
  <1>4. 0 \in K
    <2>1. ~Folds!More(l[1], l[1])
      BY <1>2, <1>3 DEF Folds!More
    <2> QED
      BY <1>1, <2>1
  <1>5. ASSUME NEW k \in K, k + 1 <= n PROVE Top(g[k + 1], k + 1)
    <2>1. PICK m \in 1 .. k + 1 : g[k] = l[m] /\ \A j \in 1 .. k + 1 : ~Folds!More(l[j], l[m])
      BY <1>2, <1>5
    <2>2. k \in Nat /\ k + 1 \in 1 .. n /\ (k + 1) - 1 = k /\ (k + 1) + 1 = k + 2
      BY <1>2, <1>5
    <2>3. g[k + 1] = Folds!MaxOfTwo(l[m], l[k + 2])
      BY <1>1, <2>1, <2>2
    <2>4. /\ m \in 1 .. k + 2 /\ k + 2 \in 1 .. k + 2 /\ \A j \in 1 .. k + 2 : j \in 1 .. k + 1 \/ j = k + 2
          /\ \A j \in 1 .. k + 2 : Folds!Number(l[j]) \in Int
      BY <1>2, <1>3, <2>2
    <2>5. CASE Folds!More(l[m], l[k + 2])
      <3>1. g[k + 1] = l[m] /\ ~Folds!More(l[k + 2], l[m])
        BY <2>3, <2>4, <2>5 DEF Folds!MaxOfTwo, Folds!More
      <3> QED
        BY <2>1, <2>2, <2>4, <3>1
    <2>6. CASE ~Folds!More(l[m], l[k + 2])
      <3>1. g[k + 1] = l[k + 2] /\ ~Folds!More(l[k + 2], l[k + 2])
        BY <2>3, <2>4, <2>6 DEF Folds!MaxOfTwo, Folds!More
      <3>2. \A j \in 1 .. k + 1 : ~Folds!More(l[j], l[k + 2])
        <4> SUFFICES ASSUME NEW j \in 1 .. k + 1 PROVE ~Folds!More(l[j], l[k + 2])
          OBVIOUS
        <4>1. j \in 1 .. k + 2 /\ ~Folds!More(l[j], l[m])
          BY <2>1, <2>2
        <4> QED
          BY <2>4, <2>6, <4>1, ValuesAreApart DEF Folds!More
      <3> QED
        BY <2>2, <2>4, <3>1, <3>2
    <2> QED
      BY <2>5, <2>6
  <1>6. K \in SUBSET Nat /\ \A k \in K : k + 1 \in K
    BY <1>5
  <1> HIDE DEF K
  <1>7. K = Nat
    BY <1>4, <1>6, Induction
  <1>8. Top(g[n], n)
    <2>1. n \in K
      BY <1>2, <1>7
    <2> QED
      BY <1>2, <2>1 DEF K
  <1> QED
    BY <1>1, <1>2, <1>8

(***************************************************************************)
(* Of the items so far, none is less than the one that minBy holds.        *)
(***************************************************************************)
LEMMA MinIsExact ==
  ASSUME NEW l \in Seq(Folds!Values), l # <<>>, Folds!Comparable(l)
  PROVE  \E m \in 1 .. Len(l) : Folds!MinBy(l) = l[m] /\ \A k \in 1 .. Len(l) : ~Folds!More(l[m], l[k])
  <1> DEFINE n == Len(l) - 1
  <1>1. PICK g : /\ g[0] = l[1]
                 /\ \A k \in 1 .. n : g[k] = Folds!MinOfTwo(g[k - 1], l[k + 1])
                 /\ Folds!MinBy(l) = g[n]
    BY MinFold
  <1>2. n \in Nat /\ Len(l) = n + 1
    BY TailFacts
  <1>3. \A k \in 1 .. n + 1 : Folds!Number(l[k]) \in Int
    BY <1>2, ComparableNumber
  <1> HIDE DEF n
  <1> DEFINE Low(x, k) == \E m \in 1 .. k + 1 : x = l[m] /\ \A j \in 1 .. k + 1 : ~Folds!More(l[m], l[j])
             K == {k \in Nat : k <= n => Low(g[k], k)}
  <1>4. 0 \in K
    <2>1. ~Folds!More(l[1], l[1])
      BY <1>2, <1>3 DEF Folds!More
    <2> QED
      BY <1>1, <2>1
  <1>5. ASSUME NEW k \in K, k + 1 <= n PROVE Low(g[k + 1], k + 1)
    <2>1. PICK m \in 1 .. k + 1 : g[k] = l[m] /\ \A j \in 1 .. k + 1 : ~Folds!More(l[m], l[j])
      BY <1>2, <1>5
    <2>2. k \in Nat /\ k + 1 \in 1 .. n /\ (k + 1) - 1 = k /\ (k + 1) + 1 = k + 2
      BY <1>2, <1>5
    <2>3. g[k + 1] = Folds!MinOfTwo(l[m], l[k + 2])
      BY <1>1, <2>1, <2>2
    <2>4. /\ m \in 1 .. k + 2 /\ k + 2 \in 1 .. k + 2 /\ \A j \in 1 .. k + 2 : j \in 1 .. k + 1 \/ j = k + 2
          /\ \A j \in 1 .. k + 2 : Folds!Number(l[j]) \in Int
      BY <1>2, <1>3, <2>2
    <2>5. CASE ~Folds!More(l[m], l[k + 2])
      <3>1. g[k + 1] = l[m] /\ ~Folds!More(l[m], l[k + 2])
        BY <2>3, <2>4, <2>5 DEF Folds!MinOfTwo, Folds!More
      <3> QED
        BY <2>1, <2>2, <2>4, <3>1
    <2>6. CASE Folds!More(l[m], l[k + 2])
      <3>1. g[k + 1] = l[k + 2] /\ ~Folds!More(l[k + 2], l[k + 2])
        BY <2>3, <2>4, <2>6 DEF Folds!MinOfTwo, Folds!More
      <3>2. \A j \in 1 .. k + 1 : ~Folds!More(l[k + 2], l[j])
        <4> SUFFICES ASSUME NEW j \in 1 .. k + 1 PROVE ~Folds!More(l[k + 2], l[j])
          OBVIOUS
        <4>1. j \in 1 .. k + 2 /\ ~Folds!More(l[m], l[j])
          BY <2>1, <2>2
        <4> QED
          BY <2>4, <2>6, <4>1, ValuesAreApart DEF Folds!More
      <3> QED
        BY <2>2, <2>4, <3>1, <3>2
    <2> QED
      BY <2>5, <2>6
  <1>6. K \in SUBSET Nat /\ \A k \in K : k + 1 \in K
    BY <1>5
  <1> HIDE DEF K
  <1>7. K = Nat
    BY <1>4, <1>6, Induction
  <1>8. Low(g[n], n)
    <2>1. n \in K
      BY <1>2, <1>7
    <2> QED
      BY <1>2, <2>1 DEF K
  <1> QED
    BY <1>1, <1>2, <1>8

(***************************************************************************)
(* Each item so far is in the group of its value.                          *)
(***************************************************************************)
Grouped(gr, v) == \E w \in DOMAIN gr : \E i \in 1 .. Len(gr[w]) : gr[w][i] = v

LEMMA GroupsHoldAll ==
  ASSUME NEW l \in Seq(Folds!Values), NEW m \in 1 .. Len(l)
  PROVE  Grouped(Folds!GroupBy(l), l[m])
  <1> DEFINE n == Len(l)
  <1>1. PICK g : /\ g[0] = <<>>
                 /\ \A k \in 1 .. n : g[k] = Folds!Push(g[k - 1], l[k])
                 /\ Folds!GroupBy(l) = g[n]
    BY GroupFold
  <1>2. n \in Nat /\ \A k \in 1 .. n : l[k] \in Folds!Values
    BY LenProperties
  <1> HIDE DEF n
  <1> DEFINE Holds(k) == g[k] \in Groupings /\ \A j \in 1 .. k : Grouped(g[k], l[j])
             K == {k \in Nat : k <= n => Holds(k)}
  <1>3. 0 \in K
    BY <1>1, NoGroup
  <1>4. ASSUME NEW k \in Nat, Holds(k), k + 1 <= n PROVE Holds(k + 1)
    <2>1. k + 1 \in 1 .. n /\ (k + 1) - 1 = k /\ \A j \in 1 .. k + 1 : j \in 1 .. k \/ j = k + 1
      BY <1>2, <1>4
    <2> DEFINE old == g[k]
               new == g[k + 1]
               v == l[k + 1]
    <2>2. new = Folds!Push(old, v) /\ v \in Folds!Values /\ old \in Groupings
      BY <1>1, <1>2, <1>4, <2>1
    <2> HIDE DEF old, new, v
    <2>3. /\ new \in Groupings /\ DOMAIN new = DOMAIN old \cup {v}
          /\ Len(new[v]) >= 1 /\ new[v][Len(new[v])] = v
          /\ \A w \in DOMAIN old : \A i \in 1 .. Len(old[w]) :
                    i \in 1 .. Len(new[w]) /\ new[w][i] = old[w][i]
      BY <2>2, PushFacts
    <2>4. Len(new[v]) \in 1 .. Len(new[v])
      <3>1. new[v] \in Seq(Folds!Values)
        BY <2>3 DEF Groupings
      <3> QED
        BY <2>3, <3>1, LenProperties
    <2>5. Grouped(new, v)
      BY <2>3, <2>4 DEF Grouped
    <2>6. \A x : Grouped(old, x) => Grouped(new, x)
      BY <2>3 DEF Grouped
    <2> QED
      BY <1>4, <2>1, <2>3, <2>5, <2>6 DEF old, new, v
  <1> HIDE DEF Holds
  <1>5. K \in SUBSET Nat /\ \A k \in K : k + 1 \in K
    BY <1>2, <1>4
  <1> HIDE DEF K
  <1>6. K = Nat
    BY <1>3, <1>5, Induction
  <1>7. Holds(n)
    <2>1. n \in K /\ n <= n
      BY <1>2, <1>6
    <2> QED
      BY <2>1 DEF K
  <1> QED
    BY <1>1, <1>7 DEF Holds, n

(***************************************************************************)
(* The chunks up to one, joined, are the list up to the end of that one.   *)
(***************************************************************************)
LEMMA MinOfPair == \A j, k \in Int : Min({j, k}) = IF j <= k THEN j ELSE k
  <1> SUFFICES ASSUME NEW j \in Int, NEW k \in Int PROVE Min({j, k}) = IF j <= k THEN j ELSE k
    OBVIOUS
  <1> DEFINE S == {j, k}
             low == CHOOSE x \in S : \A y \in S : x <= y
  <1>1. \E x \in S : \A y \in S : x <= y
    OBVIOUS
  <1>2. low \in S /\ \A y \in S : low <= y
    BY <1>1, Zenon
  <1>3. Min({j, k}) = low
    BY DEF Min
  <1> HIDE DEF low
  <1> QED
    BY <1>2, <1>3

LEMMA Division ==
  ASSUME NEW t \in Nat, NEW s \in Nat \ {0}
  PROVE  LET q == (t + s - 1) \div s IN q \in Nat /\ t <= q * s /\ q * s < t + s
  OBVIOUS

LEMMA ChunksJoin ==
  ASSUME NEW l \in Seq(Folds!Values), NEW size \in 1 .. 3
  PROVE  Folds!FlattenSeq(Folds!Chunk(l, size)) = l
  <1> DEFINE n == (Len(l) + size - 1) \div size
             End(k) == IF k * size <= Len(l) THEN k * size ELSE Len(l)
             c == Folds!Chunk(l, size)
             P(f) == f = [k \in 1 .. Len(c) |-> IF k = 1 THEN c[k] ELSE f[k - 1] \o c[k]]
             it == CHOOSE f : P(f)
             w == [k \in 1 .. n |-> SubSeq(l, 1, End(k))]
  <1>1. Len(l) \in Nat /\ n \in Nat /\ Len(l) <= n * size /\ n * size < Len(l) + size
    <2>1. Len(l) \in Nat /\ size \in Nat \ {0}
      BY LenProperties
    <2> DEFINE t == Len(l)
    <2> HIDE DEF t
    <2>2. t \in Nat
      BY <2>1 DEF t
    <2>3. LET q == (t + size - 1) \div size IN q \in Nat /\ t <= q * size /\ q * size < t + size
      BY <2>1, <2>2, Division
    <2> QED
      BY <2>2, <2>3 DEF t
  <1> HIDE DEF n
  <1>2. \A k \in 1 .. n : /\ k * size \in Nat /\ (k - 1) * size \in Nat /\ k * size = (k - 1) * size + size
                          /\ (k - 1) * size < Len(l) /\ End(k) \in (k - 1) * size + 1 .. Len(l)
    <2>1. CASE size = 1
      BY <1>1, <2>1
    <2>2. CASE size = 2
      BY <1>1, <2>2
    <2>3. CASE size = 3
      BY <1>1, <2>3
    <2> QED
      BY <2>1, <2>2, <2>3
  <1>3. \A k \in 1 .. n : k > 1 => k - 1 \in 1 .. n /\ End(k - 1) = (k - 1) * size
    BY <1>1, <1>2
  <1>4. n # 0 => n \in 1 .. n /\ End(n) = Len(l)
    BY <1>1, <1>2
  <1>5. n = 0 <=> Len(l) = 0
    BY <1>1
  <1>6. c = [k \in 1 .. n |-> SubSeq(l, (k - 1) * size + 1, End(k))]
    <2>1. \A k \in 1 .. n : Folds!Min({k * size, Len(l)}) = End(k)
      BY <1>1, <1>2, SameMin, MinOfPair
    <2> QED
      BY <2>1 DEF Folds!Chunk, n
  <1>7. \A k \in 1 .. n : c[k] \in Seq(Folds!Values)
    <2> SUFFICES ASSUME NEW k \in 1 .. n PROVE c[k] \in Seq(Folds!Values)
      OBVIOUS
    <2>1. \A m \in (k - 1) * size + 1 .. End(k) : l[m] \in Folds!Values
      BY <1>1, <1>2, ElementOfSeq
    <2>2. (k - 1) * size + 1 \in Int /\ End(k) \in Int
      BY <1>1, <1>2
    <2> HIDE DEF c, End
    <2>3. SubSeq(l, (k - 1) * size + 1, End(k)) \in Seq(Folds!Values)
      BY <2>1, <2>2, SubSeqProperties
    <2> QED
      BY <2>3, <1>6
  <1> HIDE DEF c, End
  <1>8. Len(c) = n /\ c \in Seq(Seq(Folds!Values))
    <2>1. c \in [1 .. n -> Seq(Folds!Values)]
      BY <1>6, <1>7
    <2> QED
      BY <1>1, <2>1
  <1>9. P(w)
    <2>1. ASSUME NEW k \in 1 .. n, k = 1 PROVE w[k] = c[k]
      <3>1. (k - 1) * size + 1 = 1
        BY <2>1
      <3> QED
        BY <1>6, <2>1, <3>1
    <2>2. ASSUME NEW k \in 1 .. n, k # 1 PROVE w[k] = w[k - 1] \o c[k]
      <3>1. k - 1 \in 1 .. n /\ End(k - 1) = (k - 1) * size
        BY <1>1, <1>3, <2>2
      <3> DEFINE m == (k - 1) * size
                 e == End(k)
      <3>2. m \in Nat /\ m < Len(l) /\ e \in m + 1 .. Len(l)
        BY <1>2
      <3> HIDE DEF m, e
      <3>3. m \in 0 .. Len(l) /\ e \in m .. Len(l) /\ 1 \in 1 .. Len(l) + 1 /\ 1 - 1 = 0
        BY <1>1, <3>2
      <3>4. SubSeq(l, 1, m) \o SubSeq(l, m + 1, e) = SubSeq(l, 1, e)
        BY <3>3, ConcatAdjacentSubSeq
      <3> QED
        BY <1>6, <2>2, <3>1, <3>4 DEF m, e
    <2> QED
      BY <1>8, <2>1, <2>2
  <1>10. P(it)
    BY <1>9, Zenon
  <1> HIDE DEF it, w
  <1> DEFINE Same(k) == k + 1 \in 1 .. n => it[k + 1] = w[k + 1]
             K == {k \in Nat : Same(k)}
  <1>11. 0 \in K
    BY <1>8, <1>9, <1>10
  <1>12. ASSUME NEW k \in K PROVE k + 1 \in K
    <2> SUFFICES ASSUME (k + 1) + 1 \in 1 .. n PROVE it[(k + 1) + 1] = w[(k + 1) + 1]
      OBVIOUS
    <2> DEFINE j == (k + 1) + 1
    <2>1. j \in 1 .. n /\ j # 1 /\ j - 1 = k + 1 /\ j - 1 \in 1 .. n
      BY <1>1
    <2>2. it[j - 1] = w[j - 1]
      BY <2>1
    <2> HIDE DEF j
    <2>3. it[j] = it[j - 1] \o c[j]
      BY <1>8, <1>10, <2>1
    <2>4. w[j] = w[j - 1] \o c[j]
      BY <1>8, <1>9, <2>1
    <2> QED
      BY <2>2, <2>3, <2>4 DEF j
  <1>13. K \in SUBSET Nat
    OBVIOUS
  <1> HIDE DEF K
  <1>14. K = Nat
    BY <1>11, <1>12, <1>13, Induction
  <1>15. CASE n = 0
    <2>1. Len(l) = 0 /\ l = <<>>
      BY <1>5, <1>15, EmptySeq
    <2>2. c = <<>>
      BY <1>8, <1>15, EmptySeq
    <2> QED
      BY <1>8, <1>15, <2>1, <2>2 DEF Folds!FlattenSeq, c
  <1>16. CASE n # 0
    <2>1. n - 1 \in K /\ (n - 1) + 1 = n /\ n \in 1 .. n
      BY <1>1, <1>4, <1>14, <1>16
    <2>2. it[n] = w[n]
      BY <2>1 DEF K
    <2>3. w[n] = l
      BY <1>4, <1>16, <2>1, SubSeqFull DEF w
    <2>4. Folds!FlattenSeq(c) = it[n]
      BY <1>8, <1>16 DEF Folds!FlattenSeq, it
    <2> QED
      BY <2>2, <2>3, <2>4 DEF c
  <1> QED
    BY <1>15, <1>16

(***************************************************************************)
(* The comparison puts nulls behind numbers, and less behind more.         *)
(***************************************************************************)
LEMMA NullsComeLast ==
  ASSUME NEW l \in Seq(Folds!Values), Folds!Comparable(l), NEW s \in Folds!Sorts(l)
  PROVE  \A i, j \in 1 .. Len(l) :
            i < j => (s[i] = Null => s[j] = Null) /\ (s[j] # Null => ~Folds!More(s[j], s[i]))
  <1> SUFFICES ASSUME NEW i \in 1 .. Len(l), NEW j \in 1 .. Len(l), i < j
               PROVE  (s[i] = Null => s[j] = Null) /\ (s[j] # Null => ~Folds!More(s[j], s[i]))
    OBVIOUS
  <1>1. s[i] \in Folds!ToSet(l) /\ s[j] \in Folds!ToSet(l) /\ Folds!Compare(s[i], s[j]) <= 0
    BY DEF Folds!Sorts
  <1>2. s[i] \in {0} \cup Numbers \cup {Null} /\ s[j] \in {0} \cup Numbers \cup {Null}
    BY <1>1 DEF Folds!Comparable
  <1>3. Folds!Number(s[i]) \in Int
    <2>1. Folds!Number(s[i]) = Term(s[i]) /\ Term(s[i]) \in Nat
      BY <1>2, SumStep
    <2> QED
      BY <2>1
  <1>4. ~(1 <= 0)
    OBVIOUS
  <1>5. s[i] = s[j] => ~Folds!More(s[j], s[i])
    BY <1>3 DEF Folds!More
  <1>6. CASE s[i] = s[j]
    BY <1>5, <1>6
  <1>7. CASE s[i] # s[j]
    BY <1>1, <1>4, <1>7 DEF Folds!Compare
  <1> QED
    BY <1>6, <1>7

(***************************************************************************)
(* The inductive invariant of the folds: the list has values of the key    *)
(* and the result is none, or that of one of the folds of this list.       *)
(***************************************************************************)
IsResult(l, r) ==
    \/ r = Folds!None
    \/ r = [field |-> "sum", value |-> Folds!SumBy(l)]
    \/ l # <<>> /\ r = [field |-> "max", value |-> Folds!MaxBy(l)]
    \/ l # <<>> /\ r = [field |-> "min", value |-> Folds!MinBy(l)]
    \/ r = [field |-> "groups", value |-> Folds!GroupBy(l)]
    \/ \E size \in 1 .. 3 : r = [field |-> "chunks", value |-> Folds!Chunk(l, size)]
    \/ Folds!Comparable(l) /\ \E s \in Folds!Sorts(l) : r = [field |-> "sorted", value |-> s]

FoldsInv == list \in Seq(Folds!Values) /\ IsResult(list, result)

LEMMA FoldsInit == ListsInit => FoldsInv
  <1> SUFFICES ASSUME ListsInit PROVE FoldsInv
    OBVIOUS
  <1>1. list \in Folds!Lists /\ result = Folds!None
    BY DEF ListsInit, Folds!Init
  <1>2. PICK n \in 0 .. MaxLength : list \in [1 .. n -> Folds!Values]
    BY <1>1 DEF Folds!Lists
  <1>3. n \in Nat
    BY <1>2, ListsAssumption DEF Folds!CollectionsAssumption
  <1> QED
    BY <1>1, <1>2, <1>3 DEF FoldsInv, IsResult

LEMMA FoldsStep ==
  ASSUME FoldsInv, [ListsNext]_<<part, queryVars, commandsVars, walkVars, foldsVars>>
  PROVE  FoldsInv'
  <1>1. CASE UNCHANGED foldsVars
    BY <1>1 DEF FoldsInv, IsResult, foldsVars
  <1>2. CASE Folds!Next
    <2>1. list' = list
      BY <1>2 DEF Folds!Next, Folds!Calculate, Folds!Again
    <2>2. IsResult(list, result')
      BY <1>2 DEF Folds!Next, Folds!Calculate, Folds!Again, IsResult
    <2> QED
      BY <2>1, <2>2 DEF FoldsInv
  <1> QED
    BY <1>1, <1>2 DEF ListsNext, foldsVars

(***************************************************************************)
(* sumBy is the sum, maxBy and minBy are the extremes, chunks and groups   *)
(* make up the list and nulls are sorted last, for lists of any length and *)
(* any numbers (utils/collection).                                         *)
(***************************************************************************)
THEOREM FoldsOfLists == ListsSpec => []FoldsAreExact
  <1>1. ListsInit => FoldsInv
    BY FoldsInit
  <1>2. FoldsInv /\ [ListsNext]_<<part, queryVars, commandsVars, walkVars, foldsVars>> => FoldsInv'
    BY FoldsStep
  <1>3. FoldsInv => FoldsAreExact
    <2> SUFFICES ASSUME FoldsInv PROVE FoldsAreExact
      OBVIOUS
    <2>1. Folds!None.field = "none"
      BY DEF Folds!None
    <2>2. Folds!SumsAreExact
      BY <2>1, SumIsExact DEF Folds!SumsAreExact, FoldsInv, IsResult
    <2>3. Folds!ExtremesAreExact
      BY <2>1, MaxIsExact, MinIsExact DEF Folds!ExtremesAreExact, FoldsInv, IsResult
    <2>4. Folds!PartsMakeTheList
      <3>1. result.field = "chunks" => Folds!FlattenSeq(result.value) = list
        BY <2>1, ChunksJoin DEF FoldsInv, IsResult
      <3>2. result.field = "groups" => \A n \in 1 .. Len(list) : Grouped(result.value, list[n])
        BY <2>1, GroupsHoldAll DEF FoldsInv, IsResult
      <3> QED
        BY <3>1, <3>2 DEF Folds!PartsMakeTheList, Grouped
    <2>5. Folds!NullsAreLast
      BY <2>1, NullsComeLast DEF Folds!NullsAreLast, FoldsInv, IsResult
    <2> QED
      BY <2>2, <2>3, <2>4, <2>5 DEF FoldsAreExact
  <1> QED
    BY <1>1, <1>2, <1>3, PTL DEF ListsSpec

-----------------------------------------------------------------------------
(***************************************************************************)
(* The queries.  The order of the answer takes the places of the allow-    *)
(* list one after the other, and those of the fields asked for.            *)
(***************************************************************************)
Place(o, order, f) == IF f \in DOMAIN o THEN Append(order, <<f, o[f]>>) ELSE order
Placed(o) == {<<f, o[f]>> : f \in Fields}

LEMMA OrderFold ==
  ASSUME NEW o
  PROVE  \E g : /\ g[0] = <<>>
                /\ \A k \in 1 .. Len(AllowedSort) : g[k] = Place(o, g[k - 1], AllowedSort[k])
                /\ AllowedOrder(o) = g[Len(AllowedSort)]
  <1> DEFINE l == AllowedSort
             n == Len(l)
             op == [p \in Seq(Placed(o)) \X Fields |-> Place(o, p[1], p[2])]
             P(f) == f = [s \in SUBSET DOMAIN l |->
                            IF s = {} THEN <<>>
                            ELSE IF l[Max(s)] \in DOMAIN o THEN Append(f[s \ {Max(s)}], <<l[Max(s)], o[l[Max(s)]]>>)
                            ELSE f[s \ {Max(s)}]]
             it == CHOOSE f : P(f)
             g == [k \in 0 .. n |-> it[1 .. k]]
  <1>1. n \in Nat /\ l \in [1 .. n -> Fields] /\ DOMAIN l = 1 .. n /\ <<>> \in Seq(Placed(o))
    BY ListQueryAssumption, LenProperties, EmptySeq
  <1>2. op \in [Seq(Placed(o)) \X Fields -> Seq(Placed(o))]
    BY AppendProperties DEF Place, Placed
  <1>3. AllowedOrder(o) = it[DOMAIN l]
    BY DEF AllowedOrder, FoldLeft, MapThenFoldSet
  <1> HIDE DEF n, l
  <1>4. \E f : P(f)
    <2>1. PICK f \in [SUBSET (1 .. n) -> Seq(Placed(o))] : IsFold(f, <<>>, op, l, n)
      BY <1>1, <1>2, FoldExists
    <2>2. \A s \in SUBSET (1 .. n) : s # {} => Max(s) \in s
      BY <1>1, MaxOfPlaces
    <2>3. ASSUME NEW s \in SUBSET (1 .. n), s # {}
          PROVE  f[s] = Place(o, f[s \ {Max(s)}], l[Max(s)])
      <3>1. f[s \ {Max(s)}] \in Seq(Placed(o)) /\ l[Max(s)] \in Fields
        BY <2>2, <2>3, <1>1
      <3> QED
        BY <3>1, <2>1, <2>3 DEF IsFold
    <2>4. f[{}] = <<>>
      BY <2>1 DEF IsFold
    <2>5. P(f)
      BY <1>1, <2>3, <2>4 DEF Place
    <2> QED
      BY <2>5
  <1>5. P(it)
    BY <1>4, Zenon
  <1> HIDE DEF it
  <1>6. g[0] = <<>>
    BY <1>1, <1>5
  <1>7. ASSUME NEW k \in 1 .. n PROVE g[k] = Place(o, g[k - 1], l[k])
    <2>1. /\ 1 .. k \in SUBSET (1 .. n) /\ 1 .. k # {} /\ Max(1 .. k) = k
          /\ (1 .. k) \ {k} = 1 .. k - 1 /\ k \in 0 .. n /\ k - 1 \in 0 .. n
      BY <1>1, <1>7, IntervalFacts
    <2>2. it[1 .. k] = Place(o, it[(1 .. k) \ {k}], l[k])
      BY <1>1, <1>5, <2>1 DEF Place
    <2> QED
      BY <2>1, <2>2
  <1>8. AllowedOrder(o) = g[n]
    BY <1>1, <1>3
  <1> QED
    BY <1>6, <1>7, <1>8 DEF n, l

LEMMA OrderIsCanonical ==
  ASSUME NEW o
  PROVE  LET r == AllowedOrder(o)
         IN  /\ Entries(r) = {<<f, o[f]>> : f \in Entries(AllowedSort) \cap DOMAIN o}
             /\ \A m, n \in 1 .. Len(r) : m < n =>
                   \E j, k \in 1 .. Len(AllowedSort) : j < k /\ AllowedSort[j] = r[m][1] /\ AllowedSort[k] = r[n][1]
  <1> DEFINE z == Len(AllowedSort)
             At(S) == {<<f, o[f]>> : f \in S \cap DOMAIN o}
             Upto(r, k) == /\ r \in Seq(Placed(o))
                           /\ {r[n] : n \in 1 .. Len(r)} = At({AllowedSort[n] : n \in 1 .. k})
                           /\ \A m, n \in 1 .. Len(r) : m < n =>
                                 \E i, j \in 1 .. k : i < j /\ AllowedSort[i] = r[m][1] /\ AllowedSort[j] = r[n][1]
  <1>1. PICK g : /\ g[0] = <<>>
                 /\ \A k \in 1 .. z : g[k] = Place(o, g[k - 1], AllowedSort[k])
                 /\ AllowedOrder(o) = g[z]
    BY OrderFold
  <1>2. z \in Nat /\ \A k \in 1 .. z : AllowedSort[k] \in Fields
    BY ListQueryAssumption, LenProperties
  <1> HIDE DEF z
  <1> DEFINE K == {k \in Nat : k <= z => Upto(g[k], k)}
  <1>3. 0 \in K
    <2>1. Upto(<<>>, 0)
      <3>1. <<>> \in Seq(Placed(o)) /\ Len(<<>>) = 0 /\ 1 .. 0 = {}
        BY EmptySeq
      <3> QED
        BY <3>1
    <2> HIDE DEF Upto
    <2> QED
      BY <1>1, <2>1
  <1>4. ASSUME NEW k \in Nat, k + 1 <= z, NEW r, Upto(r, k)
        PROVE  Upto(Place(o, r, AllowedSort[k + 1]), k + 1)
    <2> DEFINE f == AllowedSort[k + 1]
               q == Append(r, <<f, o[f]>>)
    <2>1. f \in Fields /\ r \in Seq(Placed(o)) /\ Len(r) \in Nat /\ <<f, o[f]>> \in Placed(o)
      BY <1>2, <1>4, LenProperties DEF Placed
    <2>2. {AllowedSort[n] : n \in 1 .. k + 1} = {AllowedSort[n] : n \in 1 .. k} \cup {f}
      <3>1. 1 .. k + 1 = (1 .. k) \cup {k + 1}
        BY <1>4
      <3> QED
        BY <3>1
    <2>3. \A i \in 1 .. k : i \in 1 .. k + 1
      BY <1>4
    <2>4. CASE f \notin DOMAIN o
      <3>1. Place(o, r, f) = r
        BY <2>4 DEF Place
      <3>2. At({AllowedSort[n] : n \in 1 .. k + 1}) = At({AllowedSort[n] : n \in 1 .. k})
        BY <2>2, <2>4
      <3> HIDE DEF f, q
      <3>3. {r[n] : n \in 1 .. Len(r)} = At({AllowedSort[n] : n \in 1 .. k + 1})
        BY <1>4, <3>2
      <3>4. ASSUME NEW m \in 1 .. Len(r), NEW n \in 1 .. Len(r), m < n
            PROVE  \E i, j \in 1 .. k + 1 : i < j /\ AllowedSort[i] = r[m][1] /\ AllowedSort[j] = r[n][1]
        BY <1>4, <2>3, <3>4
      <3>5. Upto(r, k + 1)
        BY <2>1, <3>3, <3>4
      <3> QED
        BY <3>1, <3>5 DEF f
    <2>5. CASE f \in DOMAIN o
      <3>1. Place(o, r, f) = q
        BY <2>5 DEF Place
      <3>2. /\ q \in Seq(Placed(o)) /\ Len(q) = Len(r) + 1 /\ q[Len(r) + 1] = <<f, o[f]>>
            /\ \A i \in 1 .. Len(r) : q[i] = r[i]
        BY <2>1, AppendProperties
      <3> HIDE DEF f, q
      <3>3. {q[n] : n \in 1 .. Len(q)} = {r[n] : n \in 1 .. Len(r)} \cup {<<f, o[f]>>}
        <4>1. 1 .. Len(q) = (1 .. Len(r)) \cup {Len(r) + 1}
          BY <2>1, <3>2
        <4> QED
          BY <4>1, <3>2
      <3>4. {q[n] : n \in 1 .. Len(q)} = At({AllowedSort[n] : n \in 1 .. k + 1})
        BY <1>4, <2>2, <2>5, <3>3
      <3>5. ASSUME NEW m \in 1 .. Len(q), NEW n \in 1 .. Len(q), m < n
            PROVE  \E i, j \in 1 .. k + 1 : i < j /\ AllowedSort[i] = q[m][1] /\ AllowedSort[j] = q[n][1]
        <4>1. m \in 1 .. Len(r) /\ q[m] = r[m] /\ (n \in 1 .. Len(r) \/ n = Len(r) + 1)
          BY <2>1, <3>2, <3>5
        <4>2. CASE n \in 1 .. Len(r)
          <5>1. PICK i \in 1 .. k, j \in 1 .. k : i < j /\ AllowedSort[i] = r[m][1] /\ AllowedSort[j] = r[n][1]
            BY <1>4, <3>5, <4>2, <4>1
          <5> QED
            BY <2>3, <3>2, <4>1, <4>2, <5>1
        <4>3. CASE n = Len(r) + 1
          <5>1. PICK i \in 1 .. k : AllowedSort[i] = r[m][1]
            BY <1>4, <4>1
          <5>2. i \in 1 .. k + 1 /\ k + 1 \in 1 .. k + 1 /\ i < k + 1 /\ AllowedSort[k + 1] = q[n][1]
            BY <1>4, <3>2, <4>3 DEF f
          <5> QED
            BY <4>1, <5>1, <5>2
        <4> QED
          BY <4>1, <4>2, <4>3
      <3>6. Upto(q, k + 1)
        BY <3>2, <3>4, <3>5
      <3> QED
        BY <3>1, <3>6 DEF f
    <2> QED
      BY <2>4, <2>5
  <1> HIDE DEF Upto
  <1>5. \A k \in K : k + 1 \in K
    <2> SUFFICES ASSUME NEW k \in K, k + 1 <= z PROVE Upto(g[k + 1], k + 1)
      OBVIOUS
    <2>1. k \in Nat /\ k + 1 \in 1 .. z /\ (k + 1) - 1 = k /\ Upto(g[k], k)
      BY <1>2
    <2> QED
      BY <1>1, <1>4, <2>1
  <1>6. K \in SUBSET Nat
    OBVIOUS
  <1> HIDE DEF K
  <1>7. K = Nat
    BY <1>3, <1>5, <1>6, Induction
  <1>8. Upto(AllowedOrder(o), z)
    <2>1. z \in K /\ z <= z
      BY <1>2, <1>7
    <2> QED
      BY <1>1, <2>1 DEF K
  <1> QED
    BY <1>8 DEF Upto, z, Entries

(***************************************************************************)
(* The inductive invariant of the queries: the answer is that of the       *)
(* entries and of the paging.                                              *)
(***************************************************************************)
QueryInv == TypeOK /\ answer = List(sort, search, paging)

LEMMA Statuses ==
  ASSUME NEW so, NEW se, NEW p
  PROVE  List(so, se, p).typeorm.status \in {200, 400, 500} /\ List(so, se, p).mongo.status \in {200, 400, 500}
  <1>1. SortStatus(so) \in {200, 400, 500} /\ SearchStatus(se) \in {200, 400, 500}
    BY DEF SortStatus, SearchStatus
  <1>2. \A w : TypeOrmStatus(w) \in {200, 400, 500} /\ MongoStatus(w) \in {200, 400, 500}
    BY DEF TypeOrmStatus, MongoStatus
  <1> QED
    BY <1>1, <1>2 DEF List, Refuse, Rows

LEMMA QueryInit == ListsInit => QueryInv
  <1> SUFFICES ASSUME ListsInit PROVE QueryInv
    OBVIOUS
  <1>1. sort = <<>> /\ search = <<>> /\ paging \in [page : Pages, limit : Limits] /\ answer = List(sort, search, paging)
    BY DEF ListsInit, Init
  <1>2. sort \in Seq(SortEntry) /\ search \in Seq(SearchEntry)
    BY <1>1, EmptySeq
  <1>3. \A raw \in Pages \cup Limits : \A d \in Nat \ {0} : Normalised(raw, d) \in Nat \ {0}
    BY ListQueryAssumption DEF Normalised
  <1>4. Page(paging) \in Nat \ {0}
    BY <1>1, <1>3 DEF Page
  <1>5. Limit(paging) \in 1 .. MaxLimit
    BY <1>1, <1>3, ListQueryAssumption DEF Limit
  <1> QED
    BY <1>1, <1>2, <1>4, <1>5, Statuses DEF QueryInv, TypeOK

LEMMA QueryStep ==
  ASSUME QueryInv, [ListsNext]_<<part, queryVars, commandsVars, walkVars, foldsVars>>
  PROVE  QueryInv'
  <1>1. CASE UNCHANGED queryVars
    BY <1>1 DEF QueryInv, TypeOK, queryVars
  <1>2. ASSUME NEW e \in SortEntry, AddSort(e) PROVE QueryInv'
    <2>1. sort' \in Seq(SortEntry)
      BY <1>2, AppendProperties DEF AddSort, QueryInv, TypeOK
    <2> QED
      BY <1>2, <2>1, Statuses DEF AddSort, QueryInv, TypeOK
  <1>3. ASSUME NEW e \in SearchEntry, AddSearch(e) PROVE QueryInv'
    <2>1. search' \in Seq(SearchEntry)
      BY <1>3, AppendProperties DEF AddSearch, QueryInv, TypeOK
    <2> QED
      BY <1>3, <2>1, Statuses DEF AddSearch, QueryInv, TypeOK
  <1> QED
    BY <1>1, <1>2, <1>3 DEF ListsNext, Next, queryVars

(***************************************************************************)
(* What an answered query was, and what it is answered with.               *)
(***************************************************************************)
LEMMA Answered ==
  ASSUME QueryInv, 200 \in {answer.typeorm.status, answer.mongo.status}
  PROVE  /\ SortAllowed(Order(sort))
         /\ answer.order = AllowedOrder(Order(sort))
         /\ answer.typeorm = Rows(TypeOrmStatus(Search(search)), TypeOrmWhere(Search(search)))
         /\ answer.mongo = Rows(MongoStatus(Search(search)), MongoWhere(Search(search)))
  <1>1. \A s : Refuse(s).typeorm.status = s /\ Refuse(s).mongo.status = s
    BY DEF Refuse, Rows
  <1>2. answer = List(sort, search, paging)
    BY DEF QueryInv
  <1> HIDE DEF QueryInv
  <1>3. /\ SortStatus(sort) = 200 /\ SearchStatus(search) = 200 /\ PagingStatus(paging) = 200
        /\ SortAllowed(Order(sort))
    <2> SUFFICES ASSUME \/ SortStatus(sort) # 200 \/ SearchStatus(search) # 200 \/ PagingStatus(paging) # 200
                        \/ ~ SortAllowed(Order(sort))
                 PROVE  FALSE
      OBVIOUS
    <2>1. \E s : s # 200 /\ answer = Refuse(s)
      BY <1>2 DEF List
    <2> QED
      BY <1>1, <2>1
  <1>4. answer = [order   |-> AllowedOrder(Order(sort)),
                  typeorm |-> Rows(TypeOrmStatus(Search(search)), TypeOrmWhere(Search(search))),
                  mongo   |-> Rows(MongoStatus(Search(search)), MongoWhere(Search(search)))]
    BY <1>2, <1>3 DEF List
  <1> QED
    BY <1>3, <1>4

LEMMA FiltersAsked ==
  ASSUME NEW s, NEW w, w = Search(s)
  PROVE  /\ DOMAIN w = FieldsOf(s) /\ \A f \in FieldsOf(s) : w[f] = LastOf(s, f)
         /\ Filters(w) = {f \in FieldsOf(s) \cap Entries(AllowedFilter) : ~ IsBlank(LastOf(s, f))}
  <1>1. DOMAIN w = FieldsOf(s) /\ \A f \in FieldsOf(s) : w[f] = LastOf(s, f)
    BY DEF Search
  <1> QED
    BY <1>1 DEF Filters

(***************************************************************************)
(* Where no two single values of type like share the parameter, each has   *)
(* its own.                                                                *)
(***************************************************************************)
LEMMA OwnValues ==
  ASSUME ~ SharedParameter, NEW f \in Filters(Search(search))
  PROVE  TypeOrmValues(Search(search), f) = LastOf(search, f).values
  <1> DEFINE w == Search(search)
             S == {n \in 1 .. Len(AllowedFilter) : AllowedFilter[n] \in SingleLikes(w)}
  <1>1. /\ \A g \in FieldsOf(search) : w[g] = LastOf(search, g)
        /\ Filters(w) = {g \in FieldsOf(search) \cap Entries(AllowedFilter) : ~ IsBlank(LastOf(search, g))}
    BY FiltersAsked
  <1> HIDE DEF w
  <1>2. CASE f \notin SingleLikes(w)
    BY <1>1, <1>2 DEF TypeOrmValues, w
  <1>3. CASE f \in SingleLikes(w)
    <2>1. \A g \in SingleLikes(w) : g = f
      BY <1>1, <1>3 DEF SharedParameter, Liked, SingleLikes, LikesOf
    <2>2. S \in SUBSET (1 .. Len(AllowedFilter)) /\ S # {} /\ Len(AllowedFilter) \in Nat
      BY <1>1, <1>3, LenProperties, ListQueryAssumption DEF SingleLikes, LikesOf, Entries
    <2> HIDE DEF S
    <2>3. Max(S) \in S
      BY <2>2, MaxOfPlaces
    <2>4. AllowedFilter[Max(S)] = f
      BY <2>1, <2>3 DEF S
    <2>5. Bound(w) = w[f].values
      BY <2>4 DEF Bound, S
    <2> QED
      BY <1>1, <1>3, <2>5 DEF TypeOrmValues, w
  <1> QED
    BY <1>2, <1>3

(***************************************************************************)
(* A list that is answered finds what was searched and is sorted by what   *)
(* was asked for in the order of the allow-list (utils/search, utils/sort  *)
(* and the decorators), for queries of any length.                         *)
(***************************************************************************)
THEOREM QueriesOfLists == ListsSpec => []QueriesAreHonoured
  <1>1. ListsInit => QueryInv
    BY QueryInit
  <1>2. QueryInv /\ [ListsNext]_<<part, queryVars, commandsVars, walkVars, foldsVars>> => QueryInv'
    BY QueryStep
  <1>3. QueryInv => QueriesAreHonoured
    <2> SUFFICES ASSUME QueryInv PROVE QueriesAreHonoured
      OBVIOUS
    <2>1. SearchIsHonoured
      <3> SUFFICES ASSUME answer.typeorm.status = 200, ~ SharedParameter
                   PROVE  answer.typeorm.found = {e \in Entity : Wanted(Ilike, e)}
        BY DEF SearchIsHonoured
      <3> DEFINE w == Search(search)
      <3>1. answer.typeorm = Rows(TypeOrmStatus(w), TypeOrmWhere(w))
        BY Answered
      <3>2. answer.typeorm.found = TypeOrmWhere(w) /\ TypeOrmStatus(w) = 200
        BY <3>1 DEF Rows
      <3>3. FieldsOf(search) \subseteq Entries(AllowedFilter)
        BY <3>2, FiltersAsked DEF TypeOrmStatus
      <3>4. Filters(w) = {f \in FieldsOf(search) : ~ IsBlank(LastOf(search, f))}
        BY <3>3, FiltersAsked
      <3>5. \A f \in Filters(w) : TypeOrmValues(w, f) = LastOf(search, f).values
        BY OwnValues
      <3> HIDE DEF w
      <3>6. \A e : (\A f \in Filters(w) : \E v \in TypeOrmValues(w, f) : IsLike(Ilike, e, f, v)) <=> Wanted(Ilike, e)
        BY <3>4, <3>5 DEF Wanted
      <3> QED
        BY <3>2, <3>6 DEF TypeOrmWhere
    <2>2. SortIsCanonical
      <3> DEFINE direction(f) == IF LastOf(sort, f).order = "desc" THEN "desc" ELSE "asc"
      <3> SUFFICES ASSUME 200 \in {answer.typeorm.status, answer.mongo.status}
                   PROVE  /\ sort # <<>> => Entries(answer.order) = {<<f, direction(f)>> : f \in FieldsOf(sort)}
                          /\ \A m, n \in 1 .. Len(answer.order) : m < n =>
                                \E j, k \in 1 .. Len(AllowedSort) :
                                  j < k /\ AllowedSort[j] = answer.order[m][1] /\ AllowedSort[k] = answer.order[n][1]
        BY DEF SortIsCanonical
      <3>1. answer.order = AllowedOrder(Order(sort)) /\ SortAllowed(Order(sort))
        BY Answered
      <3>2. sort # <<>> => /\ DOMAIN Order(sort) = FieldsOf(sort)
                           /\ \A f \in FieldsOf(sort) : Order(sort)[f] = direction(f)
        BY DEF Order
      <3>3. Entries(AllowedSort) \cap DOMAIN Order(sort) = DOMAIN Order(sort)
        BY <3>1 DEF SortAllowed
      <3>4. Entries(answer.order) = {<<f, Order(sort)[f]>> : f \in DOMAIN Order(sort)}
        BY <3>1, <3>3, OrderIsCanonical
      <3> HIDE DEF direction
      <3>5. sort # <<>> => Entries(answer.order) = {<<f, direction(f)>> : f \in FieldsOf(sort)}
        BY <3>2, <3>4
      <3> QED
        BY <3>1, <3>5, OrderIsCanonical
    <2> QED
      BY <2>1, <2>2 DEF QueriesAreHonoured, QueryInv
  <1> QED
    BY <1>1, <1>2, <1>3, PTL DEF ListsSpec

(***************************************************************************)
(* MongoDB finds what each field asks for in its sense of like, and more   *)
(* only where two fields have arrays (ConvertMongooseFilter's one $or); it *)
(* hides a row of TypeORM only by the shared parameter or by an accent.    *)
(***************************************************************************)
THEOREM MongoOfLists == ListsSpec => []MongoHidesNothing
  <1>1. ListsInit => QueryInv
    BY QueryInit
  <1>2. QueryInv /\ [ListsNext]_<<part, queryVars, commandsVars, walkVars, foldsVars>> => QueryInv'
    BY QueryStep
  <1>3. QueryInv => MongoHidesNothing
    <2> DEFINE w == Search(search)
               wanted == {e \in Entity : Wanted(Regex, e)}
    <2> SUFFICES ASSUME QueryInv, answer.mongo.status = 200
                 PROVE  /\ wanted \subseteq answer.mongo.found
                        /\ answer.mongo.found = wanted \/ TwoArrays
                        /\ \A e \in answer.typeorm.found \ answer.mongo.found :
                              \/ SharedParameter
                              \/ \E f \in Liked : \E v \in LastOf(search, f).values : <<v, e[f]>> \in Ilike \ Regex
      BY DEF MongoHidesNothing
    <2>1. /\ answer.typeorm = Rows(TypeOrmStatus(w), TypeOrmWhere(w))
          /\ answer.mongo = Rows(MongoStatus(w), MongoWhere(w))
      BY Answered
    <2>2. answer.mongo.found = MongoWhere(w) /\ MongoStatus(w) = 200
      BY <2>1 DEF Rows
    <2>3. /\ DOMAIN w = FieldsOf(search) /\ \A f \in FieldsOf(search) : w[f] = LastOf(search, f)
          /\ Filters(w) = {f \in FieldsOf(search) \cap Entries(AllowedFilter) : ~ IsBlank(w[f])}
      BY FiltersAsked
    <2> HIDE DEF w
    <2>4. FieldsOf(search) \subseteq Entries(AllowedFilter) \cup (IF IdAsked(w) THEN {Id} ELSE {})
      <3>1. DOMAIN w \subseteq Entries(AllowedFilter) \cup (IF IdAsked(w) THEN {Id} ELSE {})
        BY <2>2 DEF MongoStatus
      <3> QED
        BY <2>3, <3>1
    <2>5. Id \notin Entries(AllowedFilter) /\ Id \notin LikeFields /\ Id \notin NumberFields
      BY ListQueryAssumption
    <2>6. \A e : Wanted(Regex, e) <=> /\ IdAsked(w) => e[Id] \in w[Id].values
                                     /\ \A f \in Filters(w) : MongoMeets(w, e, f)
      <3> SUFFICES ASSUME NEW e
                   PROVE  Wanted(Regex, e) <=> /\ IdAsked(w) => e[Id] \in w[Id].values
                                               /\ \A f \in Filters(w) : MongoMeets(w, e, f)
        OBVIOUS
      <3> DEFINE Asks(f) == IsBlank(w[f]) \/ \E v \in w[f].values : IsLike(Regex, e, f, v)
      <3>1. Wanted(Regex, e) <=> \A f \in FieldsOf(search) : Asks(f)
        BY <2>3 DEF Wanted
      <3>2. \A f \in FieldsOf(search) \cap Entries(AllowedFilter) : Asks(f) <=> (f \in Filters(w) => MongoMeets(w, e, f))
        BY <2>3 DEF MongoMeets
      <3>3. \A v : IsLike(Regex, e, Id, v) <=> e[Id] = v
        BY <2>5 DEF IsLike, Converted
      <3>4. IdAsked(w) => Id \in FieldsOf(search) /\ (Asks(Id) <=> e[Id] \in w[Id].values)
        BY <2>3, <3>3 DEF IdAsked
      <3>5. \A f \in Filters(w) : f \in FieldsOf(search) \cap Entries(AllowedFilter)
        BY <2>3
      <3> HIDE DEF Asks
      <3> QED
        BY <2>4, <2>5, <3>1, <3>2, <3>4, <3>5
    <2>7. wanted \subseteq MongoWhere(w)
      <3> SUFFICES ASSUME NEW e \in Entity, Wanted(Regex, e) PROVE e \in MongoWhere(w)
        OBVIOUS
      <3> QED
        BY <2>6 DEF MongoWhere, ArraysOf
    <2>8. MongoWhere(w) \subseteq wanted \/ TwoArrays
      <3>1. CASE \E f, g \in ArraysOf(w) : f # g
        BY <2>3, <3>1 DEF TwoArrays, ArraysOf
      <3>2. CASE ~ \E f, g \in ArraysOf(w) : f # g
        <4> SUFFICES ASSUME NEW e \in MongoWhere(w) PROVE Wanted(Regex, e) /\ e \in Entity
          OBVIOUS
        <4>1. \A f \in Filters(w) : MongoMeets(w, e, f)
          BY <3>2 DEF MongoWhere
        <4> QED
          BY <2>6, <4>1 DEF MongoWhere
      <3> QED
        BY <3>1, <3>2
    <2>9. ASSUME NEW e \in answer.typeorm.found \ answer.mongo.found, ~ SharedParameter
          PROVE  \E f \in Liked : \E v \in LastOf(search, f).values : <<v, e[f]>> \in Ilike \ Regex
      <3>1. e \in TypeOrmWhere(w) /\ TypeOrmStatus(w) = 200 /\ e \in Entity
        BY <2>1, <2>9 DEF Rows, TypeOrmWhere
      <3>2. FieldsOf(search) \subseteq Entries(AllowedFilter)
        BY <2>3, <3>1 DEF TypeOrmStatus
      <3>3. ~ IdAsked(w)
        BY <2>3, <2>5, <3>2 DEF IdAsked
      <3>4. PICK f \in Filters(w) : ~ MongoMeets(w, e, f)
        BY <2>2, <2>6, <2>7, <2>9, <3>1, <3>3
      <3>5. TypeOrmValues(w, f) = LastOf(search, f).values /\ w[f] = LastOf(search, f) /\ f \in FieldsOf(search)
        BY <2>3, <2>9, OwnValues DEF w
      <3>6. PICK v \in LastOf(search, f).values : IsLike(Ilike, e, f, v) /\ ~ IsLike(Regex, e, f, v)
        BY <3>1, <3>4, <3>5 DEF TypeOrmWhere, MongoMeets
      <3>7. f \in LikeFields /\ <<v, e[f]>> \in Ilike \ Regex
        BY <3>6 DEF IsLike
      <3>8. f \in Liked
        BY <2>3, <3>5, <3>7 DEF Liked
      <3> QED
        BY <3>7, <3>8
    <2> QED
      BY <2>2, <2>7, <2>8, <2>9
  <1> QED
    BY <1>1, <1>2, <1>3, PTL DEF ListsSpec

-----------------------------------------------------------------------------
(***************************************************************************)
(* The commands.                                                           *)
(***************************************************************************)
LEMMA Pairs ==
  /\ Alike \subseteq Alike \cup {<<a, ba>>, <<A, ba>>}
  /\ \A t \in {a, A, ba} : <<t, t>> \in Alike
  BY DEF Alike

LEMMA PlacesOfCommands ==
  ASSUME NEW l \in Seq(Commands!Command), NEW p \in {l[n].property : n \in 1 .. Len(l)}
  PROVE  Commands!LastOn(l, p) \in {l[n] : n \in 1 .. Len(l)} /\ Commands!LastOn(l, p).property = p
  <1> DEFINE S == Commands!CommandsOn(l, p)
  <1>1. Len(l) \in Nat /\ S \in SUBSET (1 .. Len(l)) /\ S # {}
    BY LenProperties DEF Commands!CommandsOn
  <1> HIDE DEF S
  <1>2. Commands!Max(S) \in S
    BY <1>1, MaxOfPlaces
  <1>3. Commands!LastOn(l, p) = l[Commands!Max(S)]
    BY DEF Commands!LastOn, S
  <1> QED
    BY <1>1, <1>2, <1>3 DEF S, Commands!CommandsOn

(***************************************************************************)
(* A list of as many commands as properties has one command on each.       *)
(***************************************************************************)
OneEach(l) == Len(l) = Cardinality({l[n].property : n \in 1 .. Len(l)})

LEMMA OneOnEach ==
  ASSUME NEW l \in Seq(Commands!Command), OneEach(l)
  PROVE  /\ \A m, n \in 1 .. Len(l) : l[m].property = l[n].property => m = n
         /\ ~Commands!Refused(l)
         /\ \A n \in 1 .. Len(l) : Commands!LastOn(l, l[n].property) = l[n]
  <1> DEFINE z == Len(l)
             T == {l[n].property : n \in 1 .. z}
             f == [n \in 1 .. z |-> l[n].property]
  <1>1. z \in Nat /\ IsFiniteSet(1 .. z) /\ Cardinality(1 .. z) = z
    <2>1. z \in Nat
      BY LenProperties
    <2> HIDE DEF z
    <2>2. IsFiniteSet(1 .. z) /\ Cardinality(1 .. z) = IF 1 > z THEN 0 ELSE z - 1 + 1
      BY <2>1, FS_Interval
    <2> QED
      BY <2>1, <2>2
  <1>2. f \in Surjection(1 .. z, T)
    BY Fun_IsSurj
  <1>3. f \in Injection(1 .. z, T)
    <2>1. Cardinality(T) = z
      BY DEF OneEach
    <2> HIDE DEF f, T, z
    <2>2. Cardinality(T) = Cardinality(1 .. z)
      BY <1>1, <2>1
    <2> QED
      BY <1>1, <1>2, <2>2, FS_Surjection
  <1>4. \A m, n \in 1 .. z : f[m] = f[n] => m = n
    <2> HIDE DEF f, T
    <2> QED
      BY <1>3, Fun_InjectionProperties
  <1>5. \A m, n \in 1 .. z : l[m].property = l[n].property => m = n
    BY <1>4
  <1>6. \A n \in 1 .. z : Commands!CommandsOn(l, l[n].property) = {n}
    BY <1>5 DEF Commands!CommandsOn
  <1>7. ASSUME NEW p \in Properties, NEW S PROVE Commands!Count(l, Commands!CommandsOn(l, p), S) # 2
    <2> DEFINE U == {n \in Commands!CommandsOn(l, p) : l[n].command \in S}
    <2>1. U = {} \/ \E n : U = {n}
      <3>1. CASE \E n \in 1 .. z : p = l[n].property
        <4>1. PICK n \in 1 .. z : Commands!CommandsOn(l, p) = {n}
          BY <1>6, <3>1
        <4> QED
          BY <4>1
      <3>2. CASE ~ \E n \in 1 .. z : p = l[n].property
        BY <3>2 DEF Commands!CommandsOn
      <3> QED
        BY <3>1, <3>2
    <2> HIDE DEF U
    <2>2. Cardinality(U) \in {0, 1}
      BY <2>1, FS_EmptySet, FS_Singleton
    <2>3. Commands!Count(l, Commands!CommandsOn(l, p), S) = Cardinality(U)
      BY SameCardinality DEF Commands!Count, U
    <2>4. \A m \in {0, 1} : m # 2
      OBVIOUS
    <2> QED
      BY <2>2, <2>3, <2>4, Zenon
  <1>8. ~Commands!Refused(l)
    BY <1>7 DEF Commands!Refused
  <1>9. \A n \in 1 .. z : Commands!LastOn(l, l[n].property) = l[n]
    <2> SUFFICES ASSUME NEW n \in 1 .. z PROVE Commands!LastOn(l, l[n].property) = l[n]
      OBVIOUS
    <2>0. n \in Nat
      BY <1>1
    <2>1. {n} \in SUBSET Nat /\ n \in {n} /\ \A k \in {n} : k <= n
      BY <2>0
    <2>2. Commands!Max({n}) = n
      BY <2>1, MaxIs
    <2> QED
      BY <1>6, <2>2 DEF Commands!LastOn
  <1> QED
    BY <1>5, <1>8, <1>9

LEMMA Matching ==
  ASSUME NEW c, NEW t
  PROVE  /\ Commands!MongoMatches(c, t) <=> Commands!Meets(c, t)
         /\ (c.command \notin Commands!Negative /\ c.value \subseteq {a, A, ba})
                => (Commands!MongoMatches(c, t) => Commands!PostgresMatches(c, t))
         /\ (c.command \in Commands!Negative /\ c.value \subseteq {a, A, ba})
                => (Commands!PostgresMatches(c, t) => Commands!MongoMatches(c, t))
  <1> DEFINE rel == IF c.command \in Commands!LikeCommands THEN Alike ELSE {<<p, p>> : p \in {a, A, ba}}
             Found == \E v \in c.value : <<v, t>> \in rel
             negative == c.command \in Commands!Negative
  <1>0. /\ Commands!MongoMatches(c, t) = (Found = ~negative)
        /\ Commands!Meets(c, t) = (negative = ~Found)
    BY Zenon DEF Commands!MongoMatches, Commands!Meets
  <1>1. Commands!MongoMatches(c, t) <=> Commands!Meets(c, t)
    <2>1. Found \in BOOLEAN /\ negative \in BOOLEAN
      OBVIOUS
    <2> HIDE DEF Found, negative
    <2> QED
      BY <1>0, <2>1
  <1>2. (\E v \in c.value : <<v, t>> \in {<<p, p>> : p \in {a, A, ba}}) => \E v \in c.value : <<v, t>> \in Alike
    BY Pairs
  <1>3. (\E v \in c.value : <<v, t>> \in Alike) => \E v \in c.value : <<v, t>> \in Alike \cup {<<a, ba>>, <<A, ba>>}
    BY Pairs
  <1> QED
    BY <1>1, <1>2, <1>3 DEF Commands!MongoMatches, Commands!PostgresMatches

(***************************************************************************)
(* The inductive invariant of the commands: what each repository answers   *)
(* is what it makes of the list so far.                                    *)
(***************************************************************************)
CommandsInv ==
    /\ filterList \in Seq(Commands!Command)
    /\ refused = Commands!Refused(filterList)
    /\ mongo = Commands!FindByCommands(filterList)
    /\ postgres = Commands!PostgresFindByCommands(filterList)

LEMMA CommandsInit == ListsInit => CommandsInv
  <1> SUFFICES ASSUME ListsInit PROVE CommandsInv
    OBVIOUS
  <1>1. Commands!Init
    BY DEF ListsInit
  <1>2. ~Commands!Refused(<<>>)
    <2>1. OneEach(<<>>)
      <3>1. Len(<<>>) = 0 /\ 1 .. 0 = {} /\ Cardinality({}) = 0
        BY EmptySeq, FS_EmptySet
      <3>2. {<<>>[n].property : n \in 1 .. 0} = {}
        BY <3>1
      <3> QED
        BY <3>1, <3>2 DEF OneEach
    <2> QED
      BY <2>1, OneOnEach, EmptySeq
  <1>3. filterList \in Seq(Commands!Command)
    BY <1>1, EmptySeq DEF Commands!Init
  <1>4. Commands!Refused(<<>>) = FALSE
    BY <1>2 DEF Commands!Refused
  <1> QED
    BY <1>1, <1>3, <1>4, Zenon DEF CommandsInv, Commands!Init

LEMMA CommandsStep ==
  ASSUME CommandsInv, [ListsNext]_<<part, queryVars, commandsVars, walkVars, foldsVars>>
  PROVE  CommandsInv'
  <1>1. CASE UNCHANGED commandsVars
    BY <1>1 DEF CommandsInv, commandsVars
  <1>2. ASSUME NEW c \in Commands!Command, Commands!Add(c) PROVE CommandsInv'
    <2>1. filterList' = Append(filterList, c)
      BY <1>2 DEF Commands!Add
    <2>2. filterList' \in Seq(Commands!Command)
      BY <2>1, <1>2, AppendProperties DEF CommandsInv
    <2> QED
      BY <1>2, <2>2, Zenon DEF CommandsInv, Commands!Add
  <1> QED
    BY <1>1, <1>2 DEF ListsNext, Commands!Next, commandsVars

LEMMA CommandsType == CommandsInv => Commands!TypeOK
  BY DEF CommandsInv, Commands!TypeOK, Commands!FindByCommands, Commands!PostgresFindByCommands, Commands!Search,
         Commands!Rows

LEMMA CommandsMeet ==
  ASSUME CommandsInv
  PROVE  Commands!ListIsConjunction
  <1> SUFFICES ASSUME Len(filterList) = Commands!Cardinality({c.property : c \in Commands!Commands})
               PROVE  /\ ~refused
                      /\ mongo = {r \in Commands!Rows :
                            r.live /\ \A c \in Commands!Commands : Commands!Meets(c, r.entity[c.property])}
    BY DEF Commands!ListIsConjunction
  <1> DEFINE l == filterList
  <1>1. l \in Seq(Commands!Command) /\ refused = Commands!Refused(l) /\ mongo = Commands!FindByCommands(l)
    BY DEF CommandsInv
  <1>2. Commands!Commands = {l[n] : n \in 1 .. Len(l)}
    BY DEF Commands!Commands
  <1>3. OneEach(l)
    <2>1. {c.property : c \in Commands!Commands} = {l[n].property : n \in 1 .. Len(l)}
      BY <1>2
    <2> QED
      BY <2>1, SameCardinality DEF OneEach
  <1>4. ~Commands!Refused(l) /\ \A n \in 1 .. Len(l) : Commands!LastOn(l, l[n].property) = l[n]
    BY <1>1, <1>3, OneOnEach
  <1>5. mongo = {r \in Commands!Rows : r.live /\ \A p \in {l[n].property : n \in 1 .. Len(l)} :
                                                    Commands!MongoMatches(Commands!LastOn(l, p), r.entity[p])}
    BY <1>1, <1>4, Zenon DEF Commands!FindByCommands, Commands!Search
  <1> HIDE DEF l
  <1>6. ASSUME NEW r
        PROVE  (\A p \in {l[n].property : n \in 1 .. Len(l)} :
                    Commands!MongoMatches(Commands!LastOn(l, p), r.entity[p]))
               <=> \A c \in Commands!Commands : Commands!Meets(c, r.entity[c.property])
    BY <1>2, <1>4, Matching
  <1> QED
    BY <1>1, <1>4, <1>5, <1>6

LEMMA PostgresIsLooserThere ==
  ASSUME CommandsInv
  PROVE  Commands!PostgresIsLooser
  <1> SUFFICES ASSUME ~refused
               PROVE  /\ (\A c \in Commands!Commands : c.command \notin Commands!Negative) => mongo \subseteq postgres
                      /\ (\A c \in Commands!Commands : c.command \in Commands!Negative) => postgres \subseteq mongo
    BY DEF Commands!PostgresIsLooser
  <1> DEFINE l == filterList
             P == {l[n].property : n \in 1 .. Len(l)}
  <1>1. l \in Seq(Commands!Command) /\ ~Commands!Refused(l)
    BY DEF CommandsInv
  <1>2. mongo = {r \in Commands!Rows : r.live /\ \A p \in P :
                                          Commands!MongoMatches(Commands!LastOn(l, p), r.entity[p])}
    BY <1>1, Zenon DEF CommandsInv, Commands!FindByCommands, Commands!Search
  <1>3. postgres = {r \in Commands!Rows : r.live /\ \A p \in P :
                                             Commands!PostgresMatches(Commands!LastOn(l, p), r.entity[p])}
    BY Zenon DEF CommandsInv, Commands!PostgresFindByCommands, Commands!Search
  <1>4. \A p \in P : Commands!LastOn(l, p) \in Commands!Commands
    BY <1>1, PlacesOfCommands DEF Commands!Commands
  <1>5. \A c \in Commands!Commands : c.value \subseteq {a, A, ba}
    <2>1. \A n \in 1 .. Len(l) : l[n] \in Commands!Command
      BY <1>1, ElementOfSeq
    <2> QED
      BY <2>1 DEF Commands!Commands, Commands!Command
  <1> HIDE DEF l, P
  <1>6. ASSUME \A c \in Commands!Commands : c.command \notin Commands!Negative
        PROVE  mongo \subseteq postgres
    BY <1>2, <1>3, <1>4, <1>5, <1>6, Matching
  <1>7. ASSUME \A c \in Commands!Commands : c.command \in Commands!Negative
        PROVE  postgres \subseteq mongo
    BY <1>2, <1>3, <1>4, <1>5, <1>7, Matching
  <1> QED
    BY <1>6, <1>7

(***************************************************************************)
(* A list with one command per property is their conjunction, and          *)
(* PostgreSQL finds at least what MongoDB finds by lists that include, at  *)
(* most that by lists that exclude (findByCommands of the two              *)
(* repositories), for any properties and lists of any length.              *)
(***************************************************************************)
THEOREM CommandsOfLists == ListsSpec => []CommandsAreMet
  <1>1. ListsInit => CommandsInv
    BY CommandsInit
  <1>2. CommandsInv /\ [ListsNext]_<<part, queryVars, commandsVars, walkVars, foldsVars>> => CommandsInv'
    BY CommandsStep
  <1>3. CommandsInv => CommandsAreMet
    BY CommandsType, CommandsMeet, PostgresIsLooserThere DEF CommandsAreMet
  <1> QED
    BY <1>1, <1>2, <1>3, PTL DEF ListsSpec

-----------------------------------------------------------------------------
(***************************************************************************)
(* The walks.  The inductive invariant counts the live rows that come      *)
(* before a row.  A row is created before the others and deletes only      *)
(* bring it forward, so that without deletes a row that was there is       *)
(* shown by the time its page is, and without creations a row that was     *)
(* shown stays before the page to come.                                    *)
(***************************************************************************)
Ahead(i) == {j \in Walk!Live : createdAt[j] > createdAt[i]}
OnPage == IF docs = Walk!Asked THEN {} ELSE {docs[n] : n \in DOMAIN docs}
End == Walk!Skip(page) + PageSize

Walking ==
    /\ Walk!TypeOK /\ store \in {"typeorm", "mongo"}
    /\ page = 0 => docs = Walk!Asked /\ total = -1
    /\ store = "typeorm" /\ docs = Walk!Asked => total = -1
    /\ removed = {} => start \subseteq Walk!Live
    /\ removed = {} /\ ~created => start = Walk!Live /\ (total # -1 => total = Cardinality(Walk!Live))

Totals ==
    removed = {} /\ docs # Walk!Asked /\ docs # <<>> =>
        /\ Walk!Skip(page) + Len(docs) <= Cardinality(Walk!Live)
        /\ total # -1 /\ (store = "typeorm" \/ ~created) => Walk!Skip(page) + Len(docs) <= total

Once(s) == \A m, n \in DOMAIN s : s[m] = s[n] => m = n

Repeats ==
    Walk!Distinct /\ ~created =>
        /\ Once(shown) /\ Once(docs) /\ OnPage \cap Walk!Shown = {}
        /\ page > 0 => /\ \A i \in Walk!Live \cap Walk!Shown : Cardinality(Ahead(i)) < Walk!Skip(page)
                       /\ \A i \in Walk!Live \cap OnPage : Cardinality(Ahead(i)) < End

Skips ==
    Walk!Distinct /\ removed = {} =>
        /\ page > 0 => \A i \in start : Cardinality(Ahead(i)) < Walk!Skip(page) => i \in Walk!Shown
        /\ docs # Walk!Asked =>
              \A i \in start : Cardinality(Ahead(i)) < End => i \in Walk!Shown \cup OnPage
        /\ store = "typeorm" \/ ~created =>
              /\ docs # Walk!Asked /\ total # -1 /\ total <= End => start \subseteq Walk!Shown \cup OnPage
              /\ page = 0 => start \subseteq Walk!Shown

WalkInv == Walking /\ Totals /\ Repeats /\ Skips

LEMMA WalkConstants ==
  IsFiniteSet(Ids) /\ 0 \notin Ids /\ PageSize \in Nat \ {0} /\ MaxClock \in Nat
  <1>1. Walk!IsFiniteSet(Ids) => IsFiniteSet(Ids)
    BY DEF Walk!IsFiniteSet, IsFiniteSet
  <1> QED
    BY <1>1, ListsAssumption DEF Walk!PagingAssumption

LEMMA SkipFacts ==
  \A p \in Nat \ {0} : Walk!Skip(p) \in Nat /\ Walk!Skip(p + 1) = Walk!Skip(p) + PageSize
  <1> SUFFICES ASSUME NEW p \in Nat \ {0}
               PROVE  Walk!Skip(p) \in Nat /\ Walk!Skip(p + 1) = Walk!Skip(p) + PageSize
    OBVIOUS
  <1>1. PageSize \in Nat
    BY WalkConstants
  <1>2. (p - 1) * PageSize \in Nat /\ ((p + 1) - 1) * PageSize = (p - 1) * PageSize + PageSize
    BY <1>1
  <1> QED
    BY <1>2 DEF Walk!Skip

(***************************************************************************)
(* The rows of a set that come before one of them are fewer than all, and  *)
(* not more than those of a larger set.                                    *)
(***************************************************************************)
Before(L, t, i) == {j \in L : t[j] > t[i]}

LEMMA BeforeFacts ==
  ASSUME NEW M \in SUBSET Ids, NEW L \in SUBSET M, NEW t \in [Ids -> Nat], NEW i \in Ids
  PROVE  /\ Cardinality(L) \in Nat /\ Cardinality(L) <= Cardinality(M)
         /\ Cardinality(Before(L, t, i)) \in Nat
         /\ Cardinality(Before(L, t, i)) <= Cardinality(Before(M, t, i))
         /\ i \in L => Cardinality(Before(L, t, i)) < Cardinality(L)
  <1> DEFINE B == Before(L, t, i)
             C == Before(M, t, i)
  <1>1. B \subseteq C /\ B \subseteq L /\ C \subseteq M /\ (i \in L => B # L)
    BY DEF Before
  <1>2. IsFiniteSet(M) /\ IsFiniteSet(L) /\ IsFiniteSet(B) /\ IsFiniteSet(C)
    BY <1>1, WalkConstants, FS_Subset
  <1> HIDE DEF B, C
  <1>3. Cardinality(L) \in Nat /\ Cardinality(M) \in Nat /\ Cardinality(B) \in Nat /\ Cardinality(C) \in Nat
    BY <1>2, FS_CardinalityType
  <1>4. Cardinality(L) <= Cardinality(M) /\ Cardinality(B) <= Cardinality(C) /\ Cardinality(B) <= Cardinality(L)
    BY <1>1, <1>2, FS_Subset
  <1>5. i \in L => Cardinality(B) # Cardinality(L)
    BY <1>1, <1>2, FS_Subset
  <1> QED
    BY <1>3, <1>4, <1>5 DEF B, C

(***************************************************************************)
(* A sorted sequence of rows of different instants has a row at the place  *)
(* after as many rows as come before it.                                   *)
(***************************************************************************)
LEMMA SequenceOfAll ==
  ASSUME NEW L \in SUBSET Ids, NEW q \in Walk!SetToSeqs(L)
  PROVE  /\ Cardinality(L) \in Nat /\ q \in [1 .. Cardinality(L) -> L] /\ q \in Seq(L)
         /\ Len(q) = Cardinality(L) /\ DOMAIN q = 1 .. Cardinality(L)
         /\ \A m, n \in 1 .. Cardinality(L) : q[m] = q[n] => m = n
         /\ \A i \in L : \E m \in 1 .. Cardinality(L) : q[m] = i
  <1> DEFINE z == Cardinality(L)
  <1>1. IsFiniteSet(L) /\ z \in Nat
    BY WalkConstants, FS_Subset, FS_CardinalityType
  <1>2. q \in [1 .. z -> L] /\ \A m, n \in 1 .. z : m # n => q[m] # q[n]
    BY SameCardinality DEF Walk!SetToSeqs
  <1> HIDE DEF z
  <1>3. q \in Injection(1 .. z, L)
    BY <1>2, Fun_IsInj
  <1>4. IsFiniteSet(1 .. z) /\ Cardinality(1 .. z) = z
    <2>1. IsFiniteSet(1 .. z) /\ Cardinality(1 .. z) = IF 1 > z THEN 0 ELSE z - 1 + 1
      BY <1>1, FS_Interval
    <2> QED
      BY <1>1, <2>1
  <1>5. q \in Surjection(1 .. z, L)
    BY <1>1, <1>3, <1>4, FS_Injection DEF z
  <1>6. \A i \in L : \E m \in 1 .. z : q[m] = i
    BY <1>5 DEF Surjection
  <1>7. q \in Seq(L) /\ Len(q) = z /\ DOMAIN q = 1 .. z
    BY <1>1, <1>2
  <1> QED
    BY <1>1, <1>2, <1>6, <1>7 DEF z

LEMMA SortedPlaces ==
  ASSUME NEW L \in SUBSET Ids, NEW t \in [Ids -> Nat], NEW q \in Walk!SetToSeqs(L),
         \A m, n \in DOMAIN q : m < n => t[q[m]] >= t[q[n]],
         \A i, j \in L : t[i] = t[j] => i = j,
         NEW m \in 1 .. Cardinality(L)
  PROVE  Cardinality(Before(L, t, q[m])) = m - 1
  <1> DEFINE z == Cardinality(L)
             B == Before(L, t, q[m])
             f == [n \in 1 .. m - 1 |-> q[n]]
  <1>1. /\ z \in Nat /\ q \in [1 .. z -> L] /\ DOMAIN q = 1 .. z
        /\ \A k, n \in 1 .. z : q[k] = q[n] => k = n
        /\ \A i \in L : \E n \in 1 .. z : q[n] = i
    BY SequenceOfAll
  <1> HIDE DEF z
  <1>2. m \in 1 .. z /\ m - 1 \in Nat /\ \A n \in 1 .. m - 1 : n \in 1 .. z /\ n < m
    BY <1>1 DEF z
  <1>3. \A n \in 1 .. z : q[n] \in L /\ t[q[n]] \in Nat
    BY <1>1
  <1>4. \A n \in 1 .. z : n < m => q[n] \in B
    <2> SUFFICES ASSUME NEW n \in 1 .. z, n < m PROVE q[n] \in B
      OBVIOUS
    <2>1. t[q[n]] >= t[q[m]] /\ n # m
      BY <1>1, <1>2
    <2>2. q[n] # q[m]
      BY <1>1, <1>2, <2>1
    <2>3. t[q[n]] # t[q[m]]
      BY <1>2, <1>3, <2>2
    <2> QED
      BY <1>2, <1>3, <2>1, <2>3 DEF Before
  <1>5. \A i \in B : \E n \in 1 .. m - 1 : q[n] = i
    <2> SUFFICES ASSUME NEW i \in B PROVE \E n \in 1 .. m - 1 : q[n] = i
      OBVIOUS
    <2>1. i \in L /\ t[i] > t[q[m]]
      BY DEF Before
    <2>2. PICK n \in 1 .. z : q[n] = i
      BY <1>1, <2>1
    <2>3. ~(m < n) /\ n # m
      BY <1>1, <1>2, <1>3, <2>1, <2>2
    <2> QED
      BY <1>2, <2>2, <2>3
  <1> HIDE DEF B
  <1>6. f \in [1 .. m - 1 -> B] /\ (\A k, n \in 1 .. m - 1 : f[k] = f[n] => k = n)
        /\ \A i \in B : \E n \in 1 .. m - 1 : f[n] = i
    BY <1>1, <1>2, <1>4, <1>5
  <1> HIDE DEF f
  <1>7. f \in Bijection(1 .. m - 1, B)
    BY <1>6, Fun_IsBij
  <1>8. ExistsBijection(1 .. m - 1, B)
    BY <1>7 DEF ExistsBijection
  <1> QED
    BY <1>2, <1>8, FS_CountingElements DEF B

(***************************************************************************)
(* A page has the rows of a sequence after those of the pages before it.   *)
(***************************************************************************)
LEMMA PageFacts ==
  ASSUME NEW L \in SUBSET Ids, NEW q \in Walk!SetToSeqs(L), NEW p \in Nat \ {0}
  PROVE  LET d == Walk!PageOf(q, p)
             s == Walk!Skip(p)
         IN  /\ d \in Seq(L) /\ d \in Seq(Ids) /\ d # Walk!Asked /\ DOMAIN d = 1 .. Len(d)
             /\ Len(d) \in Nat /\ Len(d) <= PageSize /\ (d # <<>> => s + Len(d) <= Cardinality(L))
             /\ \A k \in 1 .. Len(d) : s + k \in 1 .. Cardinality(L) /\ d[k] = q[s + k]
             /\ \A m \in 1 .. Cardinality(L) : s < m /\ m <= s + PageSize => m - s \in 1 .. Len(d)
  <1> DEFINE d == Walk!PageOf(q, p)
             s == Walk!Skip(p)
             z == Cardinality(L)
             e == IF z <= s + PageSize THEN z ELSE s + PageSize
  <1>1. z \in Nat /\ q \in [1 .. z -> L] /\ Len(q) = z
    BY SequenceOfAll
  <1>2. s \in Nat /\ PageSize \in Nat \ {0}
    BY SkipFacts, WalkConstants
  <1>3. d = SubSeq(q, s + 1, e)
    <2>1. d = SubSeq(q, s + 1, Walk!Min({z, s + PageSize}))
      BY <1>1 DEF Walk!PageOf
    <2> HIDE DEF d, s, z
    <2>2. z \in Int /\ s + PageSize \in Int
      BY <1>1, <1>2
    <2>3. Walk!Min({z, s + PageSize}) = e
      BY <2>2, SameMin, MinOfPair
    <2> QED
      BY <2>1, <2>3
  <1> HIDE DEF d, s, z
  <1>4. e \in Nat /\ e <= z /\ e <= s + PageSize /\ s + 1 \in Int /\ e \in Int
        /\ \A m \in 1 .. z : m <= s + PageSize => m <= e
    BY <1>1, <1>2
  <1> HIDE DEF e
  <1>5. \A k \in s + 1 .. e : q[k] \in L
    BY <1>1, <1>2, <1>4
  <1>6. /\ d \in Seq(L) /\ Len(d) = IF s + 1 <= e THEN e - (s + 1) + 1 ELSE 0
        /\ \A k \in 1 .. e - (s + 1) + 1 : d[k] = q[(s + 1) + k - 1]
    BY <1>3, <1>4, <1>5, SubSeqProperties
  <1>7. Len(d) \in Nat /\ DOMAIN d = 1 .. Len(d)
    BY <1>6, LenProperties
  <1>8. ASSUME NEW k \in 1 .. Len(d) PROVE s + k \in 1 .. z /\ d[k] = q[s + k]
    <2>1. k \in 1 .. e - (s + 1) + 1 /\ (s + 1) + k - 1 = s + k /\ s + k \in 1 .. z
      BY <1>1, <1>2, <1>4, <1>6, <1>8
    <2> QED
      BY <1>6, <2>1
  <1>9. \A m \in 1 .. z : s < m /\ m <= s + PageSize => m - s \in 1 .. Len(d)
    BY <1>1, <1>2, <1>4, <1>6
  <1>10. d \in Seq(Ids)
    BY <1>6, SeqMonotonic
  <1>11. d # Walk!Asked
    BY <1>10, WalkConstants, ElementOfSeq DEF Walk!Asked
  <1>12. Len(d) <= PageSize /\ (d # <<>> => s + Len(d) <= z)
    <2>1. d # <<>> => Len(d) # 0
      BY <1>6, EmptySeq
    <2> QED
      BY <1>2, <1>4, <1>6, <2>1
  <1> QED
    BY <1>6, <1>7, <1>8, <1>9, <1>10, <1>11, <1>12 DEF d, s, z

(***************************************************************************)
(* What the parts of the state are.                                        *)
(***************************************************************************)
LEMMA WalkTypes ==
  ASSUME Walking
  PROVE  /\ Walk!Live \in SUBSET Ids /\ Cardinality(Walk!Live) \in Nat
         /\ Cardinality(Walk!Live) <= Cardinality(Ids) /\ createdAt \in [Ids -> Nat]
         /\ page \in Nat /\ (page # 0 => Walk!Skip(page) \in Nat /\ End \in Nat /\ page > 0)
         /\ shown \in Seq(Ids) /\ DOMAIN shown = 1 .. Len(shown) /\ Walk!Shown \subseteq Ids
         /\ docs # Walk!Asked => docs \in Seq(Ids) /\ DOMAIN docs = 1 .. Len(docs) /\ Len(docs) <= PageSize
         /\ OnPage \subseteq Ids /\ total \in Int /\ total >= -1 /\ PageSize \in Nat \ {0}
         /\ \A i \in Ids : /\ Ahead(i) = Before(Walk!Live, createdAt, i) /\ Cardinality(Ahead(i)) \in Nat
                           /\ i \in Walk!Live => Cardinality(Ahead(i)) < Cardinality(Walk!Live)
  <1>1. Walk!Live \in SUBSET Ids /\ MaxClock \in Nat /\ PageSize \in Nat \ {0}
    BY WalkConstants DEF Walk!Live
  <1>2. createdAt \in [Ids -> Nat]
    <2>1. createdAt \in [Ids -> 0 .. MaxClock]
      BY DEF Walking, Walk!TypeOK
    <2>2. 0 .. MaxClock \subseteq Nat
      BY <1>1
    <2> QED
      BY <2>1, <2>2
  <1>3. page \in Nat /\ (page # 0 => Walk!Skip(page) \in Nat /\ End \in Nat /\ page > 0)
    <2>1. page \in Nat
      BY DEF Walking, Walk!TypeOK
    <2> QED
      BY <1>1, <2>1, SkipFacts DEF End
  <1>4. shown \in Seq(Ids) /\ DOMAIN shown = 1 .. Len(shown) /\ Walk!Shown \subseteq Ids
    <2>1. shown \in Seq(Ids)
      BY DEF Walking, Walk!TypeOK
    <2> QED
      BY <2>1, LenProperties, ElementOfSeq DEF Walk!Shown
  <1>5. docs # Walk!Asked => docs \in Seq(Ids) /\ DOMAIN docs = 1 .. Len(docs) /\ Len(docs) <= PageSize
    BY LenProperties DEF Walking, Walk!TypeOK
  <1>6. OnPage \subseteq Ids
    BY <1>5, ElementOfSeq DEF OnPage
  <1>7. Cardinality(Ids) \in Nat /\ total \in -1 .. Cardinality(Ids)
    BY WalkConstants, FS_CardinalityType, SameCardinality DEF Walking, Walk!TypeOK
  <1>8. \A i \in Ids : /\ Ahead(i) = Before(Walk!Live, createdAt, i) /\ Cardinality(Ahead(i)) \in Nat
                       /\ i \in Walk!Live => Cardinality(Ahead(i)) < Cardinality(Walk!Live)
    <2> SUFFICES ASSUME NEW i \in Ids
                 PROVE  /\ Ahead(i) = Before(Walk!Live, createdAt, i) /\ Cardinality(Ahead(i)) \in Nat
                        /\ i \in Walk!Live => Cardinality(Ahead(i)) < Cardinality(Walk!Live)
      OBVIOUS
    <2>1. Ahead(i) = Before(Walk!Live, createdAt, i)
      BY DEF Ahead, Before
    <2> QED
      BY <1>1, <1>2, <2>1, BeforeFacts
  <1>9. Cardinality(Walk!Live) \in Nat /\ Cardinality(Walk!Live) <= Cardinality(Ids)
    BY <1>1, WalkConstants, FS_Subset, FS_CardinalityType
  <1>10. total \in Int /\ total >= -1
    BY <1>7
  <1> QED
    BY <1>1, <1>2, <1>3, <1>4, <1>5, <1>6, <1>8, <1>9, <1>10

LEMMA WalkInit == ListsInit => WalkInv
  <1> SUFFICES ASSUME ListsInit PROVE WalkInv
    OBVIOUS
  <1>1. PICK live \in SUBSET Ids, times \in [Ids -> 0 .. MaxClock], st \in {"typeorm", "mongo"} :
            Walk!Begin(live, times, st)
    <2>1. CASE part = "walk"
      BY <2>1 DEF ListsInit, Walk!Init
    <2>2. CASE part # "walk"
      <3>1. {} \in SUBSET Ids /\ [i \in Ids |-> 0] \in [Ids -> 0 .. MaxClock] /\ "typeorm" \in {"typeorm", "mongo"}
        BY WalkConstants
      <3> QED
        BY <2>2, <3>1 DEF ListsInit
    <2> QED
      BY <2>1, <2>2
  <1>2. /\ rows = [i \in Ids |-> IF i \in live THEN "live" ELSE "absent"]
        /\ createdAt = [i \in Ids |-> IF i \in live THEN times[i] ELSE 0]
        /\ start = live /\ store = st /\ page = 1 /\ docs = Walk!Asked /\ total = -1
        /\ shown = <<>> /\ created = FALSE /\ removed = {}
    BY <1>1 DEF Walk!Begin
  <1>3. Walk!Live = live
    BY <1>2 DEF Walk!Live
  <1>4. Cardinality(Ids) \in Nat /\ <<>> \in Seq(Ids) /\ DOMAIN <<>> = {}
    BY WalkConstants, FS_CardinalityType, EmptySeq, NoGroup
  <1>5. Walk!TypeOK
    <2>1. createdAt \in [Ids -> 0 .. MaxClock]
      BY <1>1, <1>2, WalkConstants
    <2>2. rows \in [Ids -> {"absent", "live", "deleted"}]
      BY <1>2
    <2>3. total \in -1 .. Walk!Cardinality(Ids)
      BY <1>2, <1>4, SameCardinality
    <2> QED
      BY <1>2, <1>4, <2>1, <2>2, <2>3 DEF Walk!TypeOK
  <1>6. Walking
    BY <1>1, <1>2, <1>3, <1>5 DEF Walking
  <1>7. Walk!Skip(1) = 0 /\ End = PageSize
    <2>1. PageSize \in Nat
      BY WalkConstants
    <2> QED
      BY <1>2, <2>1 DEF Walk!Skip, End
  <1>8. Walk!Shown = {} /\ OnPage = {} /\ Once(shown) /\ Once(docs)
    <2>1. DOMAIN docs = {1}
      BY <1>2 DEF Walk!Asked
    <2> QED
      BY <1>2, <1>4, <2>1 DEF Walk!Shown, OnPage, Once
  <1>9. \A i \in start : ~(Cardinality(Ahead(i)) < 0)
    <2>1. \A i \in Ids : Cardinality(Ahead(i)) \in Nat
      BY <1>6, WalkTypes
    <2>2. \A n \in Nat : ~(n < 0)
      OBVIOUS
    <2> QED
      BY <1>1, <1>2, <2>1, <2>2
  <1> QED
    BY <1>2, <1>6, <1>7, <1>8, <1>9 DEF WalkInv, Totals, Repeats, Skips

(***************************************************************************)
(* The rows of a page are found: those before it were shown, if none was   *)
(* deleted, and none of its own was, if none was created.                  *)
(***************************************************************************)
LEMMA FindRowsStep ==
  ASSUME WalkInv, Walk!FindRows
  PROVE  WalkInv'
  <1> DEFINE L == Walk!Live
             z == Cardinality(L)
             s == Walk!Skip(page)
             d == docs'
  <1>1. page > 0 /\ docs = Walk!Asked /\ UNCHANGED <<rows, createdAt, store, page, total, shown, start, created, removed>>
    BY DEF Walk!FindRows
  <1>2. PICK q \in Walk!Sorted : d = Walk!PageOf(q, page)
    BY DEF Walk!FindRows
  <1>3. q \in Walk!SetToSeqs(L) /\ \A m, n \in DOMAIN q : m < n => createdAt[q[m]] >= createdAt[q[n]]
    BY DEF Walk!Sorted
  <1>4. /\ Walking /\ L \in SUBSET Ids /\ z \in Nat /\ createdAt \in [Ids -> Nat]
        /\ page \in Nat \ {0} /\ s \in Nat /\ End \in Nat /\ End = s + PageSize
        /\ \A i \in Ids : /\ Ahead(i) = Before(L, createdAt, i) /\ Cardinality(Ahead(i)) \in Nat
                          /\ i \in L => Cardinality(Ahead(i)) < z
    BY <1>1, WalkTypes DEF WalkInv, End
  <1>5. /\ d \in Seq(L) /\ d \in Seq(Ids) /\ d # Walk!Asked /\ DOMAIN d = 1 .. Len(d)
        /\ Len(d) \in Nat /\ Len(d) <= PageSize /\ (d # <<>> => s + Len(d) <= z)
        /\ \A k \in 1 .. Len(d) : s + k \in 1 .. z /\ d[k] = q[s + k]
        /\ \A m \in 1 .. z : s < m /\ m <= s + PageSize => m - s \in 1 .. Len(d)
    BY <1>2, <1>3, <1>4, PageFacts
  <1>6. /\ q \in [1 .. z -> L] /\ \A m, n \in 1 .. z : q[m] = q[n] => m = n
        /\ \A i \in L : \E m \in 1 .. z : q[m] = i
    BY <1>3, <1>4, SequenceOfAll
  <1>7. /\ L' = L /\ \A i : Ahead(i)' = Ahead(i)
        /\ Walk!Distinct' = Walk!Distinct /\ Walk!Shown' = Walk!Shown /\ End' = End /\ Walk!Skip(page)' = s
        /\ OnPage' = {d[n] : n \in 1 .. Len(d)}
    BY <1>1, <1>5 DEF Walk!Live, Ahead, Walk!Distinct, Walk!Shown, End, Walk!Skip, OnPage, Walk!Asked
  <1>8. Walk!Distinct => \A m \in 1 .. z : Cardinality(Ahead(q[m])) = m - 1
    <2> SUFFICES ASSUME Walk!Distinct, NEW m \in 1 .. z PROVE Cardinality(Ahead(q[m])) = m - 1
      OBVIOUS
    <2>1. \A i, j \in L : createdAt[i] = createdAt[j] => i = j
      BY <1>4 DEF Walk!Distinct, Walk!Live
    <2>2. Cardinality(Before(L, createdAt, q[m])) = m - 1
      BY <1>3, <1>4, <2>1, SortedPlaces
    <2>3. q[m] \in Ids
      BY <1>4, <1>6
    <2> QED
      BY <1>4, <2>2, <2>3
  <1>9. \A i \in OnPage' : \E k \in 1 .. Len(d) : i = q[s + k] /\ s + k \in 1 .. z
    BY <1>5, <1>7
  <1> HIDE DEF L, z, s, d
  <1>10. Walking'
    <2>1. Walk!TypeOK'
      BY <1>1, <1>4, <1>5 DEF Walking, Walk!TypeOK, d, Walk!Asked
    <2> QED
      BY <1>1, <1>4, <1>5, <1>7, <2>1 DEF Walking, L, d, Walk!Asked
  <1>11. Totals'
    BY <1>1, <1>4, <1>5, <1>7 DEF Totals, Walking, L, z, s, d, Walk!Asked
  <1>12. Repeats'
    <2> SUFFICES ASSUME Walk!Distinct, ~created
                 PROVE  /\ Once(shown)' /\ Once(docs)' /\ OnPage' \cap Walk!Shown = {}
                        /\ \A i \in L \cap Walk!Shown : Cardinality(Ahead(i)) < s
                        /\ \A i \in L \cap OnPage' : Cardinality(Ahead(i)) < End
      BY <1>1, <1>7 DEF Repeats, L, s
    <2>1. Once(shown)' /\ \A i \in L \cap Walk!Shown : Cardinality(Ahead(i)) < s
      BY <1>1 DEF WalkInv, Repeats, L, s, Once
    <2>2. Once(docs)'
      <3>1. \A m, n \in 1 .. Len(d) : d[m] = d[n] => m = n
        BY <1>4, <1>5, <1>6
      <3> QED
        BY <1>5, <3>1 DEF Once, d
    <2>3. \A i \in OnPage' : i \in L /\ s <= Cardinality(Ahead(i)) /\ Cardinality(Ahead(i)) < End
      <3> SUFFICES ASSUME NEW i \in OnPage' PROVE i \in L /\ s <= Cardinality(Ahead(i)) /\ Cardinality(Ahead(i)) < End
        OBVIOUS
      <3>1. PICK k \in 1 .. Len(d) : i = q[s + k] /\ s + k \in 1 .. z
        BY <1>9
      <3>2. Cardinality(Ahead(i)) = (s + k) - 1 /\ i \in L
        BY <1>6, <1>8, <3>1
      <3>3. PageSize \in Nat /\ k \in Nat /\ 1 <= k /\ k <= PageSize
        BY <1>5, WalkConstants
      <3> QED
        BY <1>4, <3>2, <3>3
    <2>4. OnPage' \cap Walk!Shown = {}
      <3> SUFFICES ASSUME NEW i \in OnPage', i \in Walk!Shown PROVE FALSE
        OBVIOUS
      <3>1. i \in L /\ s <= Cardinality(Ahead(i)) /\ Cardinality(Ahead(i)) < s
        BY <2>1, <2>3
      <3>2. Cardinality(Ahead(i)) \in Nat
        BY <1>4, <3>1
      <3> QED
        BY <1>4, <3>1, <3>2
    <2> QED
      BY <2>1, <2>2, <2>3, <2>4
  <1>13. Skips'
    <2> SUFFICES ASSUME Walk!Distinct, removed = {}
                 PROVE  /\ \A i \in start : Cardinality(Ahead(i)) < s => i \in Walk!Shown
                        /\ \A i \in start : Cardinality(Ahead(i)) < End => i \in Walk!Shown \cup OnPage'
                        /\ (store = "typeorm" \/ ~created) /\ total # -1 /\ total <= End
                              => start \subseteq Walk!Shown \cup OnPage'
      BY <1>1, <1>4, <1>7 DEF Skips, L, s
    <2>1. \A i \in start : Cardinality(Ahead(i)) < s => i \in Walk!Shown
      BY <1>1 DEF WalkInv, Skips, s
    <2>2. start \subseteq L
      BY <1>4 DEF Walking, L
    <2>3. \A i \in start : Cardinality(Ahead(i)) < End => i \in Walk!Shown \cup OnPage'
      <3> SUFFICES ASSUME NEW i \in start, Cardinality(Ahead(i)) < End, i \notin Walk!Shown PROVE i \in OnPage'
        OBVIOUS
      <3>1. PICK m \in 1 .. z : q[m] = i
        BY <1>6, <2>2
      <3>2. Cardinality(Ahead(i)) = m - 1 /\ ~(m - 1 < s)
        BY <1>8, <2>1, <3>1
      <3>3. s < m /\ m <= s + PageSize
        <4>1. PageSize \in Nat
          BY WalkConstants
        <4> QED
          BY <1>4, <3>2, <4>1
      <3>4. m - s \in 1 .. Len(d) /\ s + (m - s) = m
        BY <1>4, <1>5, <3>3
      <3>5. d[m - s] = i
        BY <1>5, <3>1, <3>4
      <3> QED
        BY <1>7, <3>4, <3>5
    <2>4. ASSUME store = "typeorm" \/ ~created, total # -1, total <= End
          PROVE  start \subseteq Walk!Shown \cup OnPage'
      <3>1. total = z
        BY <1>1, <1>4, <2>4 DEF Walking, z, L
      <3>2. \A i \in start : Cardinality(Ahead(i)) < End
        <4> SUFFICES ASSUME NEW i \in start PROVE Cardinality(Ahead(i)) < End
          OBVIOUS
        <4>1. Cardinality(Ahead(i)) \in Nat /\ Cardinality(Ahead(i)) < z
          BY <1>4, <2>2
        <4> QED
          BY <1>4, <2>4, <3>1, <4>1
      <3> QED
        BY <2>3, <3>2
    <2> QED
      BY <2>1, <2>3, <2>4
  <1> QED
    BY <1>10, <1>11, <1>12, <1>13 DEF WalkInv

(***************************************************************************)
(* The live rows are counted.                                              *)
(***************************************************************************)
LEMMA CountStep ==
  ASSUME WalkInv, Walk!Count
  PROVE  WalkInv'
  <1> DEFINE L == Walk!Live
             z == Cardinality(L)
  <1>1. /\ page > 0 /\ total = -1 /\ (store = "typeorm" => docs # Walk!Asked) /\ total' = z
        /\ UNCHANGED <<rows, createdAt, store, page, docs, shown, start, created, removed>>
    BY SameCardinality DEF Walk!Count
  <1>2. /\ Walking /\ L \in SUBSET Ids /\ z \in Nat /\ z <= Cardinality(Ids)
        /\ page \in Nat \ {0} /\ End \in Nat
        /\ \A i \in Ids : Cardinality(Ahead(i)) \in Nat /\ (i \in L => Cardinality(Ahead(i)) < z)
    BY <1>1, WalkTypes DEF WalkInv
  <1>3. /\ L' = L /\ \A i : Ahead(i)' = Ahead(i)
        /\ Walk!Distinct' = Walk!Distinct /\ Walk!Shown' = Walk!Shown /\ End' = End
        /\ Walk!Skip(page)' = Walk!Skip(page) /\ OnPage' = OnPage /\ Walk!Asked' = Walk!Asked
    BY <1>1 DEF Walk!Live, Ahead, Walk!Distinct, Walk!Shown, End, Walk!Skip, OnPage, Walk!Asked
  <1> HIDE DEF L, z
  <1>4. Walking'
    <2>1. total' \in -1 .. Walk!Cardinality(Ids)
      <3>1. Cardinality(Ids) \in Nat
        BY WalkConstants, FS_CardinalityType
      <3> QED
        BY <1>1, <1>2, <3>1, SameCardinality
    <2>2. Walk!TypeOK'
      BY <1>1, <1>2, <1>3, <2>1 DEF Walking, Walk!TypeOK
    <2> QED
      BY <1>1, <1>2, <1>3, <2>2 DEF Walking, L, z
  <1>5. Totals'
    BY <1>1, <1>3 DEF WalkInv, Totals, L, z
  <1>6. Repeats'
    BY <1>1, <1>3 DEF WalkInv, Repeats, Once, L
  <1>7. Skips'
    <2> SUFFICES ASSUME Walk!Distinct, removed = {}
                 PROVE  /\ \A i \in start : Cardinality(Ahead(i)) < Walk!Skip(page) => i \in Walk!Shown
                        /\ docs # Walk!Asked =>
                              \A i \in start : Cardinality(Ahead(i)) < End => i \in Walk!Shown \cup OnPage
                        /\ (store = "typeorm" \/ ~created) /\ docs # Walk!Asked /\ z <= End
                              => start \subseteq Walk!Shown \cup OnPage
      BY <1>1, <1>2, <1>3 DEF Skips
    <2>1. /\ \A i \in start : Cardinality(Ahead(i)) < Walk!Skip(page) => i \in Walk!Shown
          /\ docs # Walk!Asked =>
                \A i \in start : Cardinality(Ahead(i)) < End => i \in Walk!Shown \cup OnPage
      BY <1>1 DEF WalkInv, Skips
    <2>2. start \subseteq L
      BY <1>2 DEF Walking, L
    <2>3. z <= End => \A i \in start : Cardinality(Ahead(i)) < End
      <3> SUFFICES ASSUME z <= End, NEW i \in start PROVE Cardinality(Ahead(i)) < End
        OBVIOUS
      <3>1. Cardinality(Ahead(i)) \in Nat /\ Cardinality(Ahead(i)) < z
        BY <1>2, <2>2
      <3> QED
        BY <1>2, <3>1
    <2> QED
      BY <2>1, <2>3
  <1> QED
    BY <1>4, <1>5, <1>6, <1>7 DEF WalkInv

(***************************************************************************)
(* The page is answered: its rows are shown, and the next page, if there   *)
(* is one, begins after them.                                              *)
(***************************************************************************)
LEMMA TurnStep ==
  ASSUME WalkInv, Walk!Turn
  PROVE  WalkInv'
  <1> DEFINE L == Walk!Live
             s == Walk!Skip(page)
  <1>1. /\ docs # Walk!Asked /\ total # -1 /\ shown' = shown \o docs
        /\ page' = (IF page < Walk!TotalPages(total) THEN page + 1 ELSE 0)
        /\ docs' = Walk!Asked /\ total' = -1
        /\ UNCHANGED <<rows, createdAt, store, start, created, removed>>
    BY DEF Walk!Turn
  <1>2. /\ Walking /\ L \in SUBSET Ids /\ createdAt \in [Ids -> Nat] /\ page \in Nat \ {0}
        /\ s \in Nat /\ End \in Nat /\ End = s + PageSize /\ PageSize \in Nat \ {0}
        /\ total \in Nat /\ shown \in Seq(Ids) /\ docs \in Seq(Ids)
        /\ DOMAIN shown = 1 .. Len(shown) /\ DOMAIN docs = 1 .. Len(docs)
        /\ \A i \in Ids : Cardinality(Ahead(i)) \in Nat
    <2>1. Walking /\ page # 0
      BY <1>1 DEF WalkInv, Walking
    <2>2. total \in Int /\ total >= -1
      BY <2>1, WalkTypes
    <2>3. total \in Nat
      BY <1>1, <2>2
    <2> QED
      BY <1>1, <2>1, <2>3, WalkTypes DEF End
  <1>3. /\ L' = L /\ \A i : Ahead(i)' = Ahead(i)
        /\ Walk!Distinct' = Walk!Distinct /\ OnPage' = {} /\ Walk!Asked' = Walk!Asked
    BY <1>1 DEF Walk!Live, Ahead, Walk!Distinct, OnPage, Walk!Asked
  <1>4. /\ shown' \in Seq(Ids) /\ Len(shown') = Len(shown) + Len(docs) /\ DOMAIN shown' = 1 .. Len(shown')
        /\ Len(shown) \in Nat /\ Len(docs) \in Nat
        /\ \A n \in 1 .. Len(shown) : shown'[n] = shown[n]
        /\ \A n \in 1 .. Len(docs) : shown'[Len(shown) + n] = docs[n]
    <2>1. shown' \in Seq(Ids) /\ Len(shown') = Len(shown) + Len(docs)
      BY <1>1, <1>2, ConcatProperties
    <2>2. \A n \in 1 .. Len(shown) + Len(docs) :
              shown'[n] = IF n <= Len(shown) THEN shown[n] ELSE docs[n - Len(shown)]
      BY <1>1, <1>2, ConcatProperties
    <2>3. Len(shown) \in Nat /\ Len(docs) \in Nat /\ DOMAIN shown' = 1 .. Len(shown')
      BY <1>2, <2>1, LenProperties
    <2>4. \A n \in 1 .. Len(shown) : shown'[n] = shown[n]
      BY <2>2, <2>3
    <2>5. ASSUME NEW n \in 1 .. Len(docs) PROVE shown'[Len(shown) + n] = docs[n]
      <3>1. /\ Len(shown) + n \in 1 .. Len(shown) + Len(docs) /\ ~(Len(shown) + n <= Len(shown))
            /\ (Len(shown) + n) - Len(shown) = n
        BY <2>3
      <3> QED
        BY <2>2, <3>1
    <2> QED
      BY <2>1, <2>3, <2>4, <2>5
  <1>5. \A n \in 1 .. Len(shown') : n \in 1 .. Len(shown)
                                    \/ \E k \in 1 .. Len(docs) : n = Len(shown) + k
    <2> SUFFICES ASSUME NEW n \in 1 .. Len(shown'), n \notin 1 .. Len(shown)
                 PROVE  \E k \in 1 .. Len(docs) : n = Len(shown) + k
      OBVIOUS
    <2>1. n - Len(shown) \in 1 .. Len(docs) /\ n = Len(shown) + (n - Len(shown))
      BY <1>4
    <2> QED
      BY <2>1
  <1>6. Walk!Shown' = Walk!Shown \cup OnPage
    <2>1. /\ Walk!Shown' = {shown'[n] : n \in 1 .. Len(shown')} /\ Walk!Shown = {shown[n] : n \in 1 .. Len(shown)}
          /\ OnPage = {docs[n] : n \in 1 .. Len(docs)}
      BY <1>1, <1>2, <1>4 DEF Walk!Shown, OnPage
    <2>2. /\ \A n \in 1 .. Len(shown) : n \in 1 .. Len(shown')
          /\ \A n \in 1 .. Len(docs) : Len(shown) + n \in 1 .. Len(shown')
      BY <1>4
    <2>3. Walk!Shown \cup OnPage \subseteq Walk!Shown'
      BY <1>4, <2>1, <2>2
    <2>4. ASSUME NEW n \in 1 .. Len(shown') PROVE shown'[n] \in Walk!Shown \cup OnPage
      <3>1. CASE n \in 1 .. Len(shown)
        BY <1>4, <2>1, <3>1
      <3>2. CASE \E k \in 1 .. Len(docs) : n = Len(shown) + k
        BY <1>4, <2>1, <3>2
      <3> QED
        BY <1>5, <3>1, <3>2
    <2> QED
      BY <2>1, <2>3, <2>4
  <1>7. page' # 0 => page' = page + 1 /\ Walk!Skip(page)' = End
    <2>1. Walk!Skip(page + 1) = s + PageSize
      BY <1>2, SkipFacts
    <2> QED
      BY <1>1, <1>2, <2>1 DEF Walk!Skip
  <1>8. page' = 0 => total <= End
    <2>1. SUFFICES ASSUME ~(page < Walk!TotalPages(total)) PROVE total <= End
      BY <1>1, <1>2
    <2> DEFINE p == Walk!TotalPages(total)
    <2>2. p \in Nat /\ total <= p * PageSize
      BY <1>2, Division DEF Walk!TotalPages
    <2> HIDE DEF p
    <2>3. p <= page
      BY <1>2, <2>1, <2>2 DEF p
    <2>4. p * PageSize <= page * PageSize
      BY <1>2, <2>2, <2>3
    <2>5. page * PageSize = End
      <3>1. ((page + 1) - 1) * PageSize = page * PageSize
        BY <1>2
      <3> QED
        BY <1>2, <3>1, SkipFacts DEF Walk!Skip
    <2> DEFINE u == p * PageSize
    <2>6. u \in Nat /\ total <= u /\ u <= End
      BY <1>2, <2>2, <2>4, <2>5
    <2> HIDE DEF u
    <2> QED
      BY <1>2, <2>6
  <1> HIDE DEF L, s
  <1>9. Walking'
    <2>1. total' \in -1 .. Walk!Cardinality(Ids)
      <3>1. Cardinality(Ids) \in Nat
        BY WalkConstants, FS_CardinalityType
      <3> QED
        BY <1>1, <3>1, SameCardinality
    <2>2. Walk!TypeOK'
      BY <1>1, <1>2, <1>3, <1>4, <2>1 DEF Walking, Walk!TypeOK
    <2> QED
      BY <1>1, <1>2, <1>3, <2>2 DEF Walking, L
  <1>10. Totals'
    BY <1>1, <1>3 DEF Totals
  <1>11. Repeats'
    <2> SUFFICES ASSUME Walk!Distinct, ~created
                 PROVE  /\ Once(shown') /\ Once(docs')
                        /\ page' # 0 => \A i \in L \cap (Walk!Shown \cup OnPage) : Cardinality(Ahead(i)) < End
      BY <1>1, <1>3, <1>6, <1>7 DEF Repeats, Once, L
    <2>1. /\ Once(shown) /\ Once(docs) /\ OnPage \cap Walk!Shown = {}
          /\ \A i \in L \cap Walk!Shown : Cardinality(Ahead(i)) < s
          /\ \A i \in L \cap OnPage : Cardinality(Ahead(i)) < End
      BY <1>2 DEF WalkInv, Repeats, L, s
    <2>2. Once(shown')
      <3>1. \A m, n \in 1 .. Len(shown) : shown[m] = shown[n] => m = n
        BY <1>2, <2>1 DEF Once
      <3>2. \A m, n \in 1 .. Len(docs) : docs[m] = docs[n] => m = n
        BY <1>2, <2>1 DEF Once
      <3>3. \A m \in 1 .. Len(shown), n \in 1 .. Len(docs) : shown[m] # docs[n]
        BY <1>1, <1>2, <2>1 DEF OnPage, Walk!Shown
      <3>4. \A m, n \in 1 .. Len(shown') : shown'[m] = shown'[n] => m = n
        <4> SUFFICES ASSUME NEW m \in 1 .. Len(shown'), NEW n \in 1 .. Len(shown'), shown'[m] = shown'[n]
                     PROVE  m = n
          OBVIOUS
        <4>1. CASE m \in 1 .. Len(shown) /\ n \in 1 .. Len(shown)
          BY <1>4, <3>1, <4>1
        <4>2. CASE m \in 1 .. Len(shown) /\ \E k \in 1 .. Len(docs) : n = Len(shown) + k
          BY <1>4, <3>3, <4>2
        <4>3. CASE n \in 1 .. Len(shown) /\ \E k \in 1 .. Len(docs) : m = Len(shown) + k
          BY <1>4, <3>3, <4>3
        <4>4. CASE (\E k \in 1 .. Len(docs) : m = Len(shown) + k) /\ \E k \in 1 .. Len(docs) : n = Len(shown) + k
          BY <1>4, <3>2, <4>4
        <4> QED
          BY <1>5, <4>1, <4>2, <4>3, <4>4
      <3> QED
        BY <1>4, <3>4 DEF Once
    <2>3. Once(docs')
      BY <1>1 DEF Once, Walk!Asked
    <2>4. \A i \in L \cap (Walk!Shown \cup OnPage) : Cardinality(Ahead(i)) < End
      <3> SUFFICES ASSUME NEW i \in L \cap Walk!Shown PROVE Cardinality(Ahead(i)) < End
        BY <2>1
      <3>1. Cardinality(Ahead(i)) \in Nat /\ Cardinality(Ahead(i)) < s
        BY <1>2, <2>1
      <3> QED
        BY <1>2, <3>1
    <2> QED
      BY <2>2, <2>3, <2>4
  <1>12. Skips'
    <2> SUFFICES ASSUME Walk!Distinct, removed = {}
                 PROVE  /\ \A i \in start : Cardinality(Ahead(i)) < End => i \in Walk!Shown \cup OnPage
                        /\ (store = "typeorm" \/ ~created) /\ page' = 0 => start \subseteq Walk!Shown \cup OnPage
      BY <1>1, <1>3, <1>6, <1>7 DEF Skips
    <2> QED
      BY <1>1, <1>8 DEF WalkInv, Skips
  <1> QED
    BY <1>9, <1>10, <1>11, <1>12 DEF WalkInv

(***************************************************************************)
(* A row that is created is not deleted nor live before, so that rows of   *)
(* different instants were so before as well.                              *)
(***************************************************************************)
LEMMA CreateStep ==
  ASSUME WalkInv, NEW i \in Ids, Walk!Create(i)
  PROVE  WalkInv'
  <1> DEFINE L == Walk!Live
             t == createdAt
  <1>1. /\ rows[i] = "absent" /\ page > 0 /\ rows' = [rows EXCEPT ![i] = "live"] /\ created' = TRUE
        /\ UNCHANGED <<store, page, docs, total, shown, start, removed>>
    BY DEF Walk!Create
  <1>2. PICK c \in 0 .. MaxClock : createdAt' = [createdAt EXCEPT ![i] = c]
    BY DEF Walk!Create
  <1>3. /\ Walking /\ L \in SUBSET Ids /\ t \in [Ids -> Nat] /\ page \in Nat \ {0} /\ Cardinality(L) \in Nat
        /\ Walk!Skip(page) \in Nat /\ End \in Nat
        /\ rows \in [Ids -> {"absent", "live", "deleted"}] /\ createdAt \in [Ids -> 0 .. MaxClock]
        /\ docs # Walk!Asked => docs \in Seq(Ids) /\ Len(docs) \in Nat
        /\ \A j \in Ids : Ahead(j) = Before(L, t, j) /\ Cardinality(Ahead(j)) \in Nat
    BY <1>1, WalkTypes, LenProperties DEF WalkInv, Walking, Walk!TypeOK
  <1>4. /\ L' \in SUBSET Ids /\ L \subseteq L' /\ i \notin L
        /\ rows' \in [Ids -> {"absent", "live", "deleted"}] /\ createdAt' \in [Ids -> 0 .. MaxClock]
        /\ \A j \in Ids : rows[j] # "absent" => rows'[j] # "absent" /\ createdAt'[j] = createdAt[j]
    BY <1>1, <1>2, <1>3 DEF Walk!Live
  <1>5. t' \in [Ids -> Nat]
    <2>1. 0 .. MaxClock \subseteq Nat
      BY WalkConstants
    <2> QED
      BY <1>4, <2>1
  <1>6. /\ Walk!Shown' = Walk!Shown /\ End' = End /\ Walk!Skip(page)' = Walk!Skip(page) /\ OnPage' = OnPage
        /\ Walk!Asked' = Walk!Asked
    BY <1>1 DEF Walk!Shown, End, Walk!Skip, OnPage, Walk!Asked
  <1>7. Walk!Distinct' => Walk!Distinct
    BY <1>4 DEF Walk!Distinct
  <1>8. Cardinality(L) <= Cardinality(L') /\ Cardinality(L') \in Nat
    BY <1>3, <1>4, <1>5, BeforeFacts, WalkConstants, FS_Subset, FS_CardinalityType
  <1>9. \A j \in L : /\ Cardinality(Ahead(j)) <= Cardinality(Ahead(j)')
                     /\ Cardinality(Ahead(j)) \in Nat /\ Cardinality(Ahead(j)') \in Nat
    <2> SUFFICES ASSUME NEW j \in L
                 PROVE  /\ Cardinality(Ahead(j)) <= Cardinality(Ahead(j)')
                        /\ Cardinality(Ahead(j)) \in Nat /\ Cardinality(Ahead(j)') \in Nat
      OBVIOUS
    <2>1. \A k \in L : t'[k] = t[k]
      BY <1>3, <1>4 DEF Walk!Live
    <2>2. Before(L, t', j) = Before(L, t, j)
      BY <2>1 DEF Before
    <2>3. Ahead(j)' = Before(L', t', j)
      BY DEF Ahead, Before
    <2>4. L' \in SUBSET L' /\ j \in Ids
      BY <1>3
    <2>5. Cardinality(Before(L', t', j)) \in Nat
      BY <1>4, <1>5, <2>4, BeforeFacts
    <2>6. Cardinality(Before(L, t', j)) <= Cardinality(Before(L', t', j))
      BY <1>4, <1>5, <2>4, BeforeFacts
    <2> QED
      BY <1>3, <2>2, <2>3, <2>4, <2>5, <2>6
  <1> HIDE DEF L, t
  <1>10. Walking'
    <2>1. Walk!TypeOK'
      BY <1>1, <1>3, <1>4, <1>6 DEF Walking, Walk!TypeOK
    <2> QED
      BY <1>1, <1>4, <1>6, <1>3, <2>1 DEF Walking, L
  <1>11. Totals'
    <2> SUFFICES ASSUME removed = {}, docs # Walk!Asked, docs # <<>>
                 PROVE  /\ Walk!Skip(page) + Len(docs) <= Cardinality(L')
                        /\ total # -1 /\ store = "typeorm" => Walk!Skip(page) + Len(docs) <= total
      BY <1>1, <1>6 DEF Totals, L
    <2>1. /\ Walk!Skip(page) + Len(docs) <= Cardinality(L)
          /\ total # -1 /\ store = "typeorm" => Walk!Skip(page) + Len(docs) <= total
      BY DEF WalkInv, Totals, L
    <2> QED
      BY <1>3, <1>8, <2>1
  <1>12. Repeats'
    BY <1>1 DEF Repeats
  <1>13. Skips'
    <2> SUFFICES ASSUME Walk!Distinct, removed = {}
                 PROVE  /\ \A j \in start : Cardinality(Ahead(j)') < Walk!Skip(page) => j \in Walk!Shown
                        /\ docs # Walk!Asked =>
                              \A j \in start : Cardinality(Ahead(j)') < End => j \in Walk!Shown \cup OnPage
                        /\ store = "typeorm" /\ docs # Walk!Asked /\ total # -1 /\ total <= End
                              => start \subseteq Walk!Shown \cup OnPage
      BY <1>1, <1>3, <1>6, <1>7 DEF Skips
    <2>1. /\ \A j \in start : Cardinality(Ahead(j)) < Walk!Skip(page) => j \in Walk!Shown
          /\ docs # Walk!Asked =>
                \A j \in start : Cardinality(Ahead(j)) < End => j \in Walk!Shown \cup OnPage
          /\ store = "typeorm" /\ docs # Walk!Asked /\ total # -1 /\ total <= End
                => start \subseteq Walk!Shown \cup OnPage
      BY <1>1 DEF WalkInv, Skips
    <2>2. start \subseteq L
      BY <1>3 DEF Walking, L
    <2>3. \A m, n, s \in Nat : m <= n /\ n < s => m < s
      OBVIOUS
    <2>4. \A j \in start : /\ Cardinality(Ahead(j)') < Walk!Skip(page) => Cardinality(Ahead(j)) < Walk!Skip(page)
                           /\ Cardinality(Ahead(j)') < End => Cardinality(Ahead(j)) < End
      BY <1>3, <1>9, <2>2, <2>3
    <2> QED
      BY <2>1, <2>4
  <1> QED
    BY <1>10, <1>11, <1>12, <1>13 DEF WalkInv

(***************************************************************************)
(* A row that is deleted does not come before any row any more.            *)
(***************************************************************************)
LEMMA DeleteStep ==
  ASSUME WalkInv, NEW i \in Ids, Walk!Delete(i)
  PROVE  WalkInv'
  <1> DEFINE L == Walk!Live
             t == createdAt
  <1>1. /\ rows[i] = "live" /\ page > 0 /\ rows' = [rows EXCEPT ![i] = "deleted"] /\ removed' # {}
        /\ UNCHANGED <<createdAt, store, page, docs, total, shown, start, created>>
    BY DEF Walk!Delete
  <1>2. /\ Walking /\ L \in SUBSET Ids /\ t \in [Ids -> Nat] /\ page \in Nat \ {0}
        /\ Walk!Skip(page) \in Nat /\ End \in Nat
        /\ rows \in [Ids -> {"absent", "live", "deleted"}]
        /\ \A j \in Ids : Ahead(j) = Before(L, t, j) /\ Cardinality(Ahead(j)) \in Nat
    BY <1>1, WalkTypes DEF WalkInv, Walking, Walk!TypeOK
  <1>3. /\ L' \in SUBSET L /\ rows' \in [Ids -> {"absent", "live", "deleted"}]
        /\ \A j \in Ids : rows[j] # "absent" => rows'[j] # "absent"
    BY <1>1, <1>2 DEF Walk!Live
  <1>4. /\ Walk!Shown' = Walk!Shown /\ End' = End /\ Walk!Skip(page)' = Walk!Skip(page) /\ OnPage' = OnPage
        /\ Walk!Asked' = Walk!Asked
    BY <1>1 DEF Walk!Shown, End, Walk!Skip, OnPage, Walk!Asked
  <1>5. Walk!Distinct' => Walk!Distinct
    BY <1>1, <1>3 DEF Walk!Distinct
  <1>6. \A j \in Ids : /\ Cardinality(Ahead(j)') <= Cardinality(Ahead(j))
                       /\ Cardinality(Ahead(j)) \in Nat /\ Cardinality(Ahead(j)') \in Nat
    <2> SUFFICES ASSUME NEW j \in Ids
                 PROVE  /\ Cardinality(Ahead(j)') <= Cardinality(Ahead(j))
                        /\ Cardinality(Ahead(j)) \in Nat /\ Cardinality(Ahead(j)') \in Nat
      OBVIOUS
    <2>1. Ahead(j)' = Before(L', t, j)
      BY <1>1 DEF Ahead, Before
    <2> HIDE DEF L, t
    <2>2. Cardinality(Before(L', t, j)) <= Cardinality(Before(L, t, j)) /\ Cardinality(Before(L', t, j)) \in Nat
      BY <1>2, <1>3, BeforeFacts
    <2> QED
      BY <1>2, <2>1, <2>2
  <1> HIDE DEF L, t
  <1>7. Walking'
    <2>1. Walk!TypeOK'
      BY <1>1, <1>2, <1>3, <1>4 DEF Walking, Walk!TypeOK
    <2> QED
      BY <1>1, <1>2, <1>4, <2>1 DEF Walking
  <1>8. Totals' /\ Skips'
    BY <1>1 DEF Totals, Skips
  <1>9. Repeats'
    <2> SUFFICES ASSUME Walk!Distinct, ~created
                 PROVE  /\ Once(shown) /\ Once(docs) /\ OnPage \cap Walk!Shown = {}
                        /\ \A j \in L' \cap Walk!Shown : Cardinality(Ahead(j)') < Walk!Skip(page)
                        /\ \A j \in L' \cap OnPage : Cardinality(Ahead(j)') < End
      BY <1>1, <1>4, <1>5 DEF Repeats, Once, L
    <2>1. /\ Once(shown) /\ Once(docs) /\ OnPage \cap Walk!Shown = {}
          /\ \A j \in L \cap Walk!Shown : Cardinality(Ahead(j)) < Walk!Skip(page)
          /\ \A j \in L \cap OnPage : Cardinality(Ahead(j)) < End
      BY <1>1 DEF WalkInv, Repeats, L
    <2>2. \A m, n, s \in Nat : m <= n /\ n < s => m < s
      OBVIOUS
    <2>3. \A j \in L' : j \in L /\ j \in Ids
      BY <1>2, <1>3
    <2>4. \A j \in L' : /\ Cardinality(Ahead(j)) < Walk!Skip(page) => Cardinality(Ahead(j)') < Walk!Skip(page)
                        /\ Cardinality(Ahead(j)) < End => Cardinality(Ahead(j)') < End
      BY <1>2, <1>6, <2>2, <2>3
    <2> QED
      BY <2>1, <2>3, <2>4
  <1> QED
    BY <1>7, <1>8, <1>9 DEF WalkInv

LEMMA WalkStep ==
  ASSUME WalkInv, [ListsNext]_<<part, queryVars, commandsVars, walkVars, foldsVars>>
  PROVE  WalkInv'
  <1>1. CASE UNCHANGED walkVars
    <2>1. /\ Walk!Live' = Walk!Live /\ \A i : Ahead(i)' = Ahead(i)
          /\ Walk!Distinct' = Walk!Distinct /\ Walk!Shown' = Walk!Shown /\ End' = End
          /\ Walk!Skip(page)' = Walk!Skip(page) /\ OnPage' = OnPage /\ Walk!Asked' = Walk!Asked
          /\ Walk!TypeOK' = Walk!TypeOK
      BY <1>1 DEF walkVars, Walk!Live, Ahead, Walk!Distinct, Walk!Shown, End, Walk!Skip, OnPage, Walk!Asked,
                  Walk!TypeOK
    <2> QED
      BY <1>1, <2>1 DEF walkVars, WalkInv, Walking, Totals, Repeats, Skips, Once
  <1>2. CASE Walk!Next
    BY <1>2, FindRowsStep, CountStep, TurnStep, CreateStep, DeleteStep DEF Walk!Next
  <1> QED
    BY <1>1, <1>2 DEF ListsNext, walkVars

(***************************************************************************)
(* A walk shows each row once, unless rows are created or deleted on the   *)
(* way, and a total covers what was shown (findAndCount and                *)
(* mongoose-paginate behind the list routes), for any number of rows and   *)
(* any size of a page.                                                     *)
(***************************************************************************)
THEOREM WalksOfLists == ListsSpec => []WalksShowRowsOnce
  <1>1. ListsInit => WalkInv
    BY WalkInit
  <1>2. WalkInv /\ [ListsNext]_<<part, queryVars, commandsVars, walkVars, foldsVars>> => WalkInv'
    BY WalkStep
  <1>3. WalkInv => WalksShowRowsOnce
    <2> SUFFICES ASSUME WalkInv PROVE WalksShowRowsOnce
      OBVIOUS
    <2>1. Walk!TypeOK
      BY DEF WalkInv, Walking
    <2>2. Walk!SkipsNeedDeletes
      BY DEF WalkInv, Skips, Walk!SkipsNeedDeletes
    <2>3. Walk!RepeatsNeedCreates
      BY DEF WalkInv, Repeats, Once, Walk!RepeatsNeedCreates
    <2>4. Walk!TotalCoversPage
      <3> SUFFICES ASSUME docs # Walk!Asked, total # -1, page > 0, removed = {}, store = "typeorm" \/ ~created
                   PROVE  total >= Len(docs) + (IF docs = <<>> THEN 0 ELSE Walk!Skip(page))
        BY DEF Walk!TotalCoversPage
      <3>1. /\ total \in Int /\ total >= -1 /\ docs \in Seq(Ids) /\ Walk!Skip(page) \in Nat
        BY WalkTypes DEF WalkInv
      <3>2. Len(docs) \in Nat /\ (docs = <<>> => Len(docs) = 0)
        BY <3>1, LenProperties, EmptySeq
      <3>3. docs # <<>> => Walk!Skip(page) + Len(docs) <= total
        BY DEF WalkInv, Totals
      <3> QED
        BY <3>1, <3>2, <3>3
    <2> QED
      BY <2>1, <2>2, <2>3, <2>4 DEF WalksShowRowsOnce
  <1> QED
    BY <1>1, <1>2, <1>3, PTL DEF ListsSpec
=============================================================================
