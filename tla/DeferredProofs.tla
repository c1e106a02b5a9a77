--------------------------- MODULE DeferredProofs ---------------------------
(***************************************************************************)
(* What DeferredAnalysis promises for every set of captures, grouping,     *)
(* number of workers and number of cleanups and restarts: no event is left *)
(* "running" without a worker, the page's totals add up, what is complete  *)
(* was analysed, evidence goes only after its analysis, and a restarted    *)
(* store agrees with the disk.                                             *)
(*                                                                         *)
(* The totals are folds over the workers and over the queue.  A sum is     *)
(* read here as the cardinality of a set of cells, one row of cells for    *)
(* each summand, so that the library's facts on finite sets do what an     *)
(* induction would.                                                        *)
(***************************************************************************)
EXTENDS DeferredAnalysis, FiniteSetTheorems, FunctionTheorems, SequenceTheorems,
        WellFoundedInduction, TLAPS

-----------------------------------------------------------------------------
(* Sums.  A sum of natural numbers is the number of cells of a table that   *)
(* has f[w] cells in the row of w, whatever order the numbers are added in.  *)

Row(f, w) == {w} \X (1..f[w])
Cells(f, S) == UNION {Row(f, w) : w \in S}
Sum(f, S) == Cardinality(Cells(f, S))

LEMMA InCells ==
    ASSUME NEW f, NEW S
    PROVE  \A c : c \in Cells(f, S) <=> \E w \in S, k \in Nat : k \in 1..f[w] /\ c = <<w, k>>
BY SMTT(60) DEF Cells, Row

LEMMA RowSize ==
    ASSUME NEW f, NEW w, f[w] \in Nat
    PROVE  IsFiniteSet(Row(f, w)) /\ Cardinality(Row(f, w)) = f[w]
<1>1. IsFiniteSet(1..f[w]) /\ Cardinality(1..f[w]) = f[w]
  BY FS_Interval, SMTT(60)
<1>2. IsFiniteSet({w}) /\ Cardinality({w}) = 1
  BY FS_Singleton
<1> DEFINE n == f[w]
<1>3. IsFiniteSet({w} \X (1..n)) /\ Cardinality({w} \X (1..n)) = Cardinality({w}) * Cardinality(1..n)
  BY <1>1, <1>2, FS_Product
<1>4. 1 * n = n
  OBVIOUS
<1> QED BY <1>1, <1>2, <1>3, <1>4 DEF Row

LEMMA CellsFinite ==
    ASSUME NEW S, IsFiniteSet(S), NEW f, \A w \in S : f[w] \in Nat
    PROVE  IsFiniteSet(Cells(f, S)) /\ Sum(f, S) \in Nat
<1> DEFINE rows == {Row(f, w) : w \in S}
           g == [w \in S |-> Row(f, w)]
<1>1. g \in Surjection(S, rows)
  BY DEF Surjection
<1>2. IsFiniteSet(rows)
  BY <1>1, FS_Surjection
<1>3. \A T \in rows : IsFiniteSet(T)
  BY RowSize
<1>4. IsFiniteSet(UNION rows)
  BY <1>2, <1>3, FS_UNION
<1> QED BY <1>4, FS_CardinalityType DEF Cells, Sum

LEMMA SumEmpty == ASSUME NEW f PROVE Sum(f, {}) = 0
<1>1. Cells(f, {}) = {}
  BY DEF Cells
<1> QED BY <1>1, FS_EmptySet DEF Sum

\* One row can be counted apart from the others.
LEMMA SumSplit ==
    ASSUME NEW S, IsFiniteSet(S), NEW f, \A w \in S : f[w] \in Nat, NEW x \in S
    PROVE  /\ Sum(f, S \ {x}) \in Nat
           /\ Sum(f, S) = f[x] + Sum(f, S \ {x})
<1>1. IsFiniteSet(S \ {x})
  BY FS_RemoveElement
<1>2. IsFiniteSet(Cells(f, S \ {x})) /\ Sum(f, S \ {x}) \in Nat
  BY <1>1, CellsFinite
<1>3. Cells(f, S) = Row(f, x) \cup Cells(f, S \ {x})
  BY DEF Cells
<1>4. Row(f, x) \cap Cells(f, S \ {x}) = {}
  BY DEF Cells, Row
<1>5. IsFiniteSet(Row(f, x)) /\ Cardinality(Row(f, x)) = f[x]
  BY RowSize
<1>6. Cardinality(Row(f, x) \cup Cells(f, S \ {x}))
        = Cardinality(Row(f, x)) + Cardinality(Cells(f, S \ {x})) - Cardinality({})
  <2> DEFINE A == Row(f, x)
             B == Cells(f, S \ {x})
  <2>1. IsFiniteSet(A) /\ IsFiniteSet(B) /\ A \cap B = {}
    BY <1>2, <1>4, <1>5
  <2> HIDE DEF A, B
  <2>2. Cardinality(A \cup B) = Cardinality(A) + Cardinality(B) - Cardinality(A \cap B)
    BY <2>1, FS_Union
  <2>3. Cardinality(A \cup B) = Cardinality(A) + Cardinality(B) - Cardinality({})
    BY <2>1, <2>2
  <2> QED BY <2>3 DEF A, B
<1>7. Cardinality({}) = 0
  BY FS_EmptySet
<1>8. Cardinality(Row(f, x) \cup Cells(f, S \ {x})) = f[x] + Sum(f, S \ {x})
  BY <1>2, <1>5, <1>6, <1>7 DEF Sum
<1> QED BY <1>2, <1>3, <1>8 DEF Sum

\* Sums of functions that agree but at x differ by their values at x.
LEMMA SumUpdate ==
    ASSUME NEW S, IsFiniteSet(S), NEW f, NEW g, NEW x \in S,
           \A w \in S : f[w] \in Nat /\ g[w] \in Nat,
           \A w \in S \ {x} : f[w] = g[w]
    PROVE  /\ Sum(f, S) \in Nat /\ Sum(g, S) \in Nat
           /\ Sum(f, S) - f[x] = Sum(g, S) - g[x]
           /\ f[x] <= Sum(f, S)
<1>1. \A w \in S \ {x} : Row(f, w) = Row(g, w)
  BY DEF Row
<1>2. Cells(f, S \ {x}) = Cells(g, S \ {x})
  BY <1>1 DEF Cells
<1>3. Sum(f, S \ {x}) = Sum(g, S \ {x})
  BY <1>2 DEF Sum
<1>4. Sum(f, S \ {x}) \in Nat /\ Sum(f, S) = f[x] + Sum(f, S \ {x})
  BY SumSplit
<1>5. Sum(g, S) = g[x] + Sum(g, S \ {x})
  BY SumSplit
<1> HIDE DEF Sum
<1> QED BY <1>3, <1>4, <1>5

LEMMA SumSame ==
    ASSUME NEW S, NEW f, NEW g, \A w \in S : f[w] = g[w]
    PROVE  Sum(f, S) = Sum(g, S)
<1>1. \A w \in S : Row(f, w) = Row(g, w)
  BY DEF Row
<1> QED BY <1>1 DEF Sum, Cells

LEMMA SumZero ==
    ASSUME NEW S, NEW f, \A w \in S : f[w] = 0
    PROVE  Sum(f, S) = 0
<1>1. \A w \in S : Row(f, w) = {}
  BY DEF Row
<1>2. Cells(f, S) = {}
  BY <1>1 DEF Cells
<1> QED BY <1>2, FS_EmptySet DEF Sum

Chosen(s) == CHOOSE x \in s : TRUE

\* Whatever solves the equation of a fold that adds f computes the sum.
LEMMA FoldIsSum ==
    ASSUME NEW S, IsFiniteSet(S), NEW f, \A w \in S : f[w] \in Nat, NEW h,
           \A s \in SUBSET S :
              h[s] = IF s = {} THEN 0
                     ELSE f[Chosen(s)] + h[s \ {Chosen(s)}]
    PROVE  h[S] = Sum(f, S)
<1> DEFINE bad == {s \in SUBSET S : h[s] # Sum(f, s)}
<1>1. ASSUME bad # {} PROVE FALSE
  <2>1. FiniteSubsetsOf(S) = SUBSET S
    BY FS_FiniteSubsetsOfFinite
  <2>2. IsWellFoundedOn(StrictSubsetOrdering(S), SUBSET S)
    BY <2>1, FS_StrictSubsetOrderingWellFounded
  <2>3. PICK s \in bad : \A t \in bad : ~ (<<t, s>> \in StrictSubsetOrdering(S))
    <3> HIDE DEF bad
    <3>1. bad \subseteq SUBSET S
      BY DEF bad
    <3> QED BY <1>1, <2>2, <3>1, WFMin
  <2>4. s # {}
    BY <2>3, SumEmpty
  <2> DEFINE x == Chosen(s)
  <2>5. x \in s
    BY <2>4 DEF Chosen
  <2>6. <<s \ {x}, s>> \in StrictSubsetOrdering(S)
    BY <2>3, <2>5 DEF StrictSubsetOrdering
  <2>7. h[s \ {x}] = Sum(f, s \ {x})
    BY <2>3, <2>6
  <2>8. h[s] = f[x] + h[s \ {x}]
    BY <2>3, <2>4
  <2>9. IsFiniteSet(s)
    BY <2>3, FS_Subset
  <2>10. Sum(f, s) = f[x] + Sum(f, s \ {x})
    <3> HIDE DEF x
    <3> QED BY <2>3, <2>5, <2>9, SumSplit
  <2> QED BY <2>3, <2>7, <2>8, <2>10
<1> QED BY <1>1

\* The equation has a solution: the sums themselves.
LEMMA SumSolvesFold ==
    ASSUME NEW S, IsFiniteSet(S), NEW f, \A w \in S : f[w] \in Nat
    PROVE  \A s \in SUBSET S :
              Sum(f, s) = IF s = {} THEN 0
                          ELSE f[Chosen(s)] + Sum(f, s \ {Chosen(s)})
<1> TAKE s \in SUBSET S
<1>1. CASE s = {}
  BY <1>1, SumEmpty
<1>2. CASE s # {}
  <2> DEFINE x == Chosen(s)
  <2>1. x \in s
    BY <1>2 DEF Chosen
  <2>2. IsFiniteSet(s)
    BY FS_Subset
  <2>3. Sum(f, s) = f[x] + Sum(f, s \ {x})
    <3> HIDE DEF x
    <3> QED BY <2>1, <2>2, SumSplit
  <2> QED BY <1>2, <2>3
<1> QED BY <1>1, <1>2

-----------------------------------------------------------------------------
(* The sums of the model *)

TodoLengths(wk) == [w \in Workers |-> Len(wk[w].todo)]
GoodLengths(wk) == [w \in Workers |-> Len(wk[w].good)]
Todo(wk) == Sum(TodoLengths(wk), Workers)
Good(wk) == Sum(GoodLengths(wk), Workers)

\* The fold of TotalsAddUp adds up the lengths of the workers' lists.
LEMMA TodoFold ==
    ASSUME NEW wk, IsFiniteSet(Workers), \A w \in Workers : Len(wk[w].todo) \in Nat
    PROVE  FoldSet(LAMBDA w, n : Len(wk[w].todo) + n, 0, Workers) = Todo(wk)
<1> DEFINE f == TodoLengths(wk)
           Body(h) == [s \in SUBSET Workers |->
                         IF s = {} THEN 0
                         ELSE Len(wk[CHOOSE x \in s : TRUE].todo) + h[s \ {CHOOSE x \in s : TRUE}]]
           iter == CHOOSE h : h = Body(h)
           sums == [s \in SUBSET Workers |-> Sum(f, s)]
<1>1. \A w \in Workers : f[w] = Len(wk[w].todo) /\ f[w] \in Nat
  BY DEF TodoLengths
<1>2. ASSUME NEW s \in SUBSET Workers, s # {}
      PROVE  f[Chosen(s)] = Len(wk[Chosen(s)].todo)
  <2> DEFINE x == Chosen(s)
  <2>1. x \in Workers
    BY <1>2 DEF Chosen
  <2> QED BY <1>1, <2>1
<1>3. sums = Body(sums)
  <2>1. ASSUME NEW s \in SUBSET Workers PROVE sums[s] = Body(sums)[s]
    <3>1. s \ {Chosen(s)} \in SUBSET Workers
      OBVIOUS
    <3>2. \A t \in SUBSET Workers :
             Sum(f, t) = IF t = {} THEN 0
                         ELSE f[Chosen(t)] + Sum(f, t \ {Chosen(t)})
      <4> HIDE DEF f
      <4> QED BY <1>1, SumSolvesFold
    <3> HIDE DEF f
    <3> QED BY <1>2, <3>1, <3>2 DEF Chosen
  <2> HIDE DEF f
  <2> QED BY <2>1
<1>4. iter = Body(iter)
  <2> HIDE DEF sums, Body
  <2> QED BY <1>3
<1>5. \A s \in SUBSET Workers :
         iter[s] = IF s = {} THEN 0
                   ELSE f[Chosen(s)] + iter[s \ {Chosen(s)}]
  <2> HIDE DEF iter, f
  <2> QED BY <1>2, <1>4 DEF Chosen
<1>6. iter[Workers] = Sum(f, Workers)
  <2> HIDE DEF iter, f
  <2> QED BY <1>1, <1>5, FoldIsSum
<1> QED BY <1>6 DEF FoldSet, MapThenFoldSet, Todo

FileLengths(groups) == [i \in DOMAIN groups |-> Len(groups[i])]

LEMMA FilesFold ==
    ASSUME NEW groups, IsFiniteSet(DOMAIN groups), \A i \in DOMAIN groups : Len(groups[i]) \in Nat
    PROVE  Files(groups) = Sum(FileLengths(groups), DOMAIN groups)
<1> DEFINE S == DOMAIN groups
           f == FileLengths(groups)
           Body(h) == [s \in SUBSET DOMAIN groups |->
                         IF s = {} THEN 0
                         ELSE Len(groups[CHOOSE x \in s : TRUE]) + h[s \ {CHOOSE x \in s : TRUE}]]
           iter == CHOOSE h : h = Body(h)
           sums == [s \in SUBSET DOMAIN groups |-> Sum(f, s)]
<1>1. \A i \in S : f[i] = Len(groups[i]) /\ f[i] \in Nat
  BY DEF FileLengths
<1>2. ASSUME NEW s \in SUBSET S, s # {}
      PROVE  f[Chosen(s)] = Len(groups[Chosen(s)])
  <2> DEFINE x == Chosen(s)
  <2>1. x \in S
    BY <1>2 DEF Chosen
  <2> QED BY <1>1, <2>1
<1>3. sums = Body(sums)
  <2>1. ASSUME NEW s \in SUBSET S PROVE sums[s] = Body(sums)[s]
    <3>1. s \ {Chosen(s)} \in SUBSET S
      OBVIOUS
    <3>2. \A t \in SUBSET S :
             Sum(f, t) = IF t = {} THEN 0
                         ELSE f[Chosen(t)] + Sum(f, t \ {Chosen(t)})
      <4> HIDE DEF f
      <4> QED BY <1>1, SumSolvesFold
    <3> HIDE DEF f
    <3> QED BY <1>2, <3>1, <3>2 DEF Chosen
  <2> HIDE DEF f
  <2> QED BY <2>1
<1>4. iter = Body(iter)
  <2> HIDE DEF sums, Body
  <2> QED BY <1>3
<1>5. \A s \in SUBSET S :
         iter[s] = IF s = {} THEN 0
                   ELSE f[Chosen(s)] + iter[s \ {Chosen(s)}]
  <2> HIDE DEF iter, f
  <2> QED BY <1>2, <1>4 DEF Chosen
<1>6. iter[S] = Sum(f, S)
  <2> HIDE DEF iter, f
  <2> QED BY <1>1, <1>5, FoldIsSum
<1> QED BY <1>6 DEF Files, FoldSeq, FoldFunction, FoldFunctionOnSet, MapThenFoldSet

\* A queue without its head has as many files less as the head holds.
LEMMA FilesOfQueue ==
    ASSUME NEW X, NEW groups \in Seq(Seq(X))
    PROVE  /\ Files(groups) \in Nat
           /\ groups = <<>> => Files(groups) = 0
           /\ groups # <<>> => Files(groups) = Len(Head(groups)) + Files(Tail(groups))
<1> DEFINE n == Len(groups)
           f == FileLengths(groups)
<1>1. n \in Nat /\ DOMAIN groups = 1..n /\ IsFiniteSet(1..n)
  BY FS_Interval, LenProperties
<1>2. \A i \in DOMAIN groups : groups[i] \in Seq(X)
  BY ElementOfSeq, <1>1
<1>3. \A i \in DOMAIN groups : Len(groups[i]) \in Nat /\ f[i] = Len(groups[i])
  BY <1>2, LenProperties DEF FileLengths
<1>4. Files(groups) = Sum(f, 1..n)
  BY <1>1, <1>3, FilesFold
<1>5. Sum(f, 1..n) \in Nat
  <2> HIDE DEF f
  <2> QED BY <1>1, <1>3, CellsFinite
<1>6. ASSUME groups = <<>> PROVE Files(groups) = 0
  <2>1. 1..n = {}
    BY <1>1, <1>6
  <2> QED BY <1>4, <2>1, SumEmpty
<1>7. ASSUME groups # <<>> PROVE Files(groups) = Len(Head(groups)) + Files(Tail(groups))
  <2> DEFINE t == Tail(groups)
             g == FileLengths(t)
             rest == (1..n) \ {1}
             D == 1..(n - 1)
  <2>1. t \in Seq(Seq(X)) /\ Len(t) = n - 1 /\ n >= 1 /\ DOMAIN t = 1..(n - 1)
    BY <1>1, <1>7, EmptySeq
  <2>2. \A i \in 1..(n - 1) : t[i] = groups[i + 1]
    BY <1>1, <1>7
  <2>3. Head(groups) = groups[1]
    OBVIOUS
  <2>4. \A i \in 1..(n - 1) : i + 1 \in 1..n /\ g[i] = f[i + 1] /\ g[i] = Len(t[i]) /\ g[i] \in Nat
    BY <1>1, <1>3, <2>1, <2>2 DEF FileLengths
  <2>5. IsFiniteSet(1..(n - 1))
    BY <1>1, FS_Interval
  <2>6. Files(t) = Sum(g, 1..(n - 1))
    <3>1. IsFiniteSet(DOMAIN t) /\ \A i \in DOMAIN t : Len(t[i]) \in Nat
      BY <2>1, <2>4, <2>5
    <3> HIDE DEF t
    <3> QED BY <2>1, <3>1, FilesFold
  <2>7. Sum(f, 1..n) = f[1] + Sum(f, rest) /\ Sum(f, rest) \in Nat
    <3>1. 1 \in 1..n /\ \A i \in 1..n : f[i] \in Nat
      BY <1>1, <1>3, <2>1
    <3> HIDE DEF f, n
    <3> QED BY <1>1, <3>1, SumSplit
  <2>8. Sum(g, D) = Sum(f, rest)
    <3> DEFINE shift == [c \in Cells(g, D) |-> <<c[1] + 1, c[2]>>]
    <3>1. IsFiniteSet(Cells(g, D))
      <4> HIDE DEF g
      <4> QED BY <2>4, <2>5, CellsFinite
    <3> HIDE DEF g, f
    <3>2. \A c : c \in Cells(g, D) <=>
                   \E i \in D, k \in Nat : k \in 1..g[i] /\ c = <<i, k>>
      <4> HIDE DEF D, rest
      <4> QED BY InCells
    <3>3. \A c : c \in Cells(f, rest) <=> \E i \in rest, k \in Nat : k \in 1..f[i] /\ c = <<i, k>>
      <4> HIDE DEF D, rest
      <4> QED BY InCells
    <3>4. \A i \in rest : i - 1 \in D /\ g[i - 1] = f[i] /\ i = (i - 1) + 1
      BY <1>1, <2>4
    <3>5. ASSUME NEW c \in Cells(g, D) PROVE shift[c] \in Cells(f, rest)
      <4>1. PICK i \in D, k \in Nat : k \in 1..g[i] /\ c = <<i, k>>
        BY <3>2
      <4>2. i + 1 \in rest /\ k \in 1..f[i + 1]
        BY <1>1, <2>4, <4>1
      <4> QED BY <3>3, <4>1, <4>2
    <3>6. ASSUME NEW c \in Cells(g, D), NEW d \in Cells(g, D), shift[c] = shift[d]
          PROVE  c = d
      <4>1. PICK i \in D, k \in Nat : k \in 1..g[i] /\ c = <<i, k>>
        BY <3>2
      <4>2. PICK j \in D, l \in Nat : l \in 1..g[j] /\ d = <<j, l>>
        BY <3>2
      <4> QED BY <1>1, <3>6, <4>1, <4>2
    <3>7. ASSUME NEW c \in Cells(f, rest)
          PROVE  \E d \in Cells(g, D) : shift[d] = c
      <4>1. PICK i \in rest, k \in Nat : k \in 1..f[i] /\ c = <<i, k>>
        BY <3>3
      <4>2. <<i - 1, k>> \in Cells(g, D)
        BY <3>2, <3>4, <4>1
      <4> QED BY <3>4, <4>1, <4>2
    <3>8. shift \in Bijection(Cells(g, D), Cells(f, rest))
      <4>1. shift \in [Cells(g, D) -> Cells(f, rest)]
        BY <3>5
      <4> HIDE DEF shift
      <4>2. shift \in Injection(Cells(g, D), Cells(f, rest))
        BY <3>6, <4>1 DEF Injection, IsInjective
      <4>3. shift \in Surjection(Cells(g, D), Cells(f, rest))
        BY <3>7, <4>1 DEF Surjection
      <4> QED BY <4>2, <4>3 DEF Bijection
    <3>9. ExistsBijection(Cells(g, D), Cells(f, rest))
      BY <3>8 DEF ExistsBijection
    <3> QED BY <3>1, <3>9, FS_Bijection DEF Sum
  <2>9. f[1] = Len(Head(groups))
    <3>1. 1 \in DOMAIN groups
      BY <1>1, <2>1
    <3> QED BY <1>3, <2>3, <3>1
  <2> HIDE DEF f, g, t, rest
  <2> QED BY <1>4, <2>6, <2>7, <2>8, <2>9 DEF t
<1> QED BY <1>4, <1>5, <1>6, <1>7

-----------------------------------------------------------------------------
(* Sorting.  A finite set of numbers has an increasing enumeration: its      *)
(* members by their rank, the number of members that are not greater.        *)

LEMMA InOrderSorts ==
    ASSUME NEW S \in SUBSET Nat, IsFiniteSet(S)
    PROVE  /\ InOrder(S) \in [1..Cardinality(S) -> S]
           /\ \A i, j \in 1..Cardinality(S) : i < j => InOrder(S)[i] < InOrder(S)[j]
           /\ Cardinality(S) \in Nat
<1> DEFINE n == Cardinality(S)
           Below(e) == {d \in S : d < e}
           rank == [e \in S |-> Cardinality(Below(e)) + 1]
<1>1. n \in Nat
  BY FS_CardinalityType
<1>2. ASSUME NEW e \in S
      PROVE  IsFiniteSet(Below(e)) /\ Cardinality(Below(e)) \in Nat /\ Cardinality(Below(e)) <= n - 1
  <2>1. IsFiniteSet(S \ {e}) /\ Cardinality(S \ {e}) = n - 1
    BY FS_RemoveElement
  <2>2. Below(e) \in SUBSET (S \ {e})
    OBVIOUS
  <2> HIDE DEF Below
  <2>3. IsFiniteSet(Below(e)) /\ Cardinality(Below(e)) <= Cardinality(S \ {e})
    BY <2>1, <2>2, FS_Subset
  <2> QED BY <2>1, <2>3, FS_CardinalityType
<1>3. ASSUME NEW d \in S, NEW e \in S, d < e PROVE rank[d] < rank[e]
  <2>1. Below(d) \cup {d} \in SUBSET Below(e) /\ d \notin Below(d)
    <3>1. d \in Nat /\ e \in Nat /\ \A x \in S : x \in Nat
      OBVIOUS
    <3>2. ~ (d < d) /\ \A x \in S : x < d => x < e
      BY <1>3, <3>1
    <3> QED BY <1>3, <3>2
  <2>2. IsFiniteSet(Below(d)) /\ IsFiniteSet(Below(e))
    BY <1>2
  <2> HIDE DEF Below
  <2>3. Cardinality(Below(d) \cup {d}) = Cardinality(Below(d)) + 1
    BY <2>1, <2>2, FS_AddElement
  <2>4. Cardinality(Below(d) \cup {d}) <= Cardinality(Below(e))
    BY <2>1, <2>2, FS_Subset
  <2> QED BY <1>2, <2>3, <2>4
<1>4. \A e \in S : rank[e] \in 1..n
  <2> HIDE DEF Below, n
  <2> QED BY <1>1, <1>2
<1> HIDE DEF rank
<1>5. \A d, e \in S : rank[d] = rank[e] => d = e
  BY <1>3, <1>4
<1>6. rank \in [S -> 1..n]
  <2>1. rank = [e \in S |-> rank[e]]
    BY DEF rank
  <2> QED BY <1>4, <2>1
<1>7. rank \in Injection(S, 1..n)
  BY <1>5, <1>6 DEF Injection, IsInjective
<1>8. rank \in Surjection(S, 1..n)
  <2>1. IsFiniteSet(1..n) /\ Cardinality(1..n) = n
    BY <1>1, FS_Interval
  <2> HIDE DEF n
  <2>2. Cardinality(S) = Cardinality(1..n)
    BY <2>1 DEF n
  <2> QED BY <1>7, <2>1, <2>2, FS_Injection
<1>9. \A i \in 1..n : \E e \in S : rank[e] = i
  BY <1>8 DEF Surjection
<1> DEFINE s == [i \in 1..n |-> CHOOSE e \in S : rank[e] = i]
<1>10. \A i \in 1..n : s[i] \in S /\ rank[s[i]] = i
  BY <1>9
<1>11. s \in [1..n -> S]
  BY <1>10
<1> HIDE DEF s
<1>12. ASSUME NEW i \in 1..n, NEW j \in 1..n, i < j PROVE s[i] < s[j]
  <2>1. s[i] \in Nat /\ s[j] \in Nat /\ rank[s[i]] = i /\ rank[s[j]] = j
    BY <1>10
  <2>2. s[i] # s[j]
    BY <1>1, <1>12, <2>1
  <2>3. ~ (s[j] < s[i])
    BY <1>1, <1>3, <1>10, <1>12, <2>1
  <2> QED BY <2>1, <2>2, <2>3
<1> HIDE DEF n
<1>13. \E t \in [1..n -> S] : \A i, j \in 1..n : i < j => t[i] < t[j]
  BY <1>11, <1>12
<1> QED BY <1>1, <1>13 DEF InOrder, n

LEMMA InOrderEnumerates ==
    ASSUME NEW S \in SUBSET Nat, IsFiniteSet(S)
    PROVE  /\ DOMAIN InOrder(S) = 1..Cardinality(S) /\ Cardinality(S) \in Nat
           /\ \A i \in DOMAIN InOrder(S) : InOrder(S)[i] \in S
           /\ \A i, j \in DOMAIN InOrder(S) : InOrder(S)[i] = InOrder(S)[j] => i = j
<1>1. InOrder(S) \in [1..Cardinality(S) -> S] /\ Cardinality(S) \in Nat
  BY InOrderSorts
<1>2. \A i, j \in 1..Cardinality(S) : i < j => InOrder(S)[i] < InOrder(S)[j]
  BY InOrderSorts
<1>3. \A i \in 1..Cardinality(S) : InOrder(S)[i] \in S /\ InOrder(S)[i] \in Nat
  BY <1>1
<1>4. \A i, j \in 1..Cardinality(S) : InOrder(S)[i] = InOrder(S)[j] => i = j
  BY <1>1, <1>2, <1>3
<1> QED BY <1>1, <1>3, <1>4

-----------------------------------------------------------------------------
(* The groups of a wave *)

Rows == [status : {"none", "pending", "running", "complete", "error", "unavailable"},
         error : {"none", "failed", "missing", "killed", "combine", "removed"},
         audio : BOOLEAN, iq : Places, analysis : BOOLEAN, completed : BOOLEAN]

\* Every capture stands in at most one place of a queue of groups.
IdsApart(groups) ==
    \A i, k \in DOMAIN groups : \A j \in DOMAIN groups[i], l \in DOMAIN groups[k] :
        groups[i][j].id = groups[k][l].id => i = k /\ j = l

LEMMA GroupsAreApart ==
    ASSUME NEW S \in SUBSET Events, event \in [Events -> Rows]
    PROVE  /\ GroupsOf(S) \in Seq(Seq(Snapshots)) /\ Len(GroupsOf(S)) \in Nat
           /\ IdsApart(GroupsOf(S))
<1> DEFINE K == {GroupOf[e] : e \in S}
           M(k) == {e \in S : GroupOf[e] = k}
           keys == InOrder(K)
           G == GroupsOf(S)
<1>1. IsFiniteSet(S) /\ S \in SUBSET Nat /\ K \in SUBSET Nat
  BY DeferredAssumption, FS_Subset
<1>2. IsFiniteSet(K)
  <2> DEFINE g == [e \in S |-> GroupOf[e]]
  <2>1. g \in Surjection(S, K)
    BY DEF Surjection
  <2> QED BY <1>1, <2>1, FS_Surjection
<1>3. \A k : IsFiniteSet(M(k)) /\ M(k) \in SUBSET Nat
  <2> TAKE k
  <2>1. M(k) \in SUBSET S
    OBVIOUS
  <2> QED BY <1>1, <2>1, FS_Subset
<1>4. /\ DOMAIN keys = 1..Cardinality(K) /\ Cardinality(K) \in Nat
      /\ \A i, j \in DOMAIN keys : keys[i] = keys[j] => i = j
  <2> HIDE DEF K
  <2> QED BY <1>1, <1>2, InOrderEnumerates
<1>5. \A k : /\ DOMAIN InOrder(M(k)) = 1..Cardinality(M(k)) /\ Cardinality(M(k)) \in Nat
             /\ \A j \in DOMAIN InOrder(M(k)) : InOrder(M(k))[j] \in M(k)
             /\ \A j, l \in DOMAIN InOrder(M(k)) : InOrder(M(k))[j] = InOrder(M(k))[l] => j = l
  <2> HIDE DEF M
  <2> QED BY <1>3, InOrderEnumerates
<1> HIDE DEF keys, K
<1>6. G = [i \in DOMAIN keys |-> [j \in DOMAIN InOrder(M(keys[i])) |-> Snapshot(InOrder(M(keys[i]))[j])]]
  BY DEF GroupsOf, keys, K
<1>7. \A e \in Events : Snapshot(e) \in Snapshots /\ Snapshot(e).id = e
  BY DEF Snapshot, Snapshots, Rows
<1> DEFINE N(i) == InOrder(M(keys[i]))
<1>8. \A i \in DOMAIN keys :
        /\ DOMAIN N(i) = 1..Cardinality(M(keys[i])) /\ Cardinality(M(keys[i])) \in Nat
        /\ \A j \in DOMAIN N(i) : N(i)[j] \in Events /\ GroupOf[N(i)[j]] = keys[i]
        /\ \A j, l \in DOMAIN N(i) : N(i)[j] = N(i)[l] => j = l
  <2> TAKE i \in DOMAIN keys
  <2> DEFINE T == M(keys[i])
  <2>1. \A e \in T : e \in Events /\ GroupOf[e] = keys[i]
    OBVIOUS
  <2> HIDE DEF M, T
  <2>2. /\ DOMAIN InOrder(T) = 1..Cardinality(T) /\ Cardinality(T) \in Nat
        /\ \A j \in DOMAIN InOrder(T) : InOrder(T)[j] \in T
        /\ \A j, l \in DOMAIN InOrder(T) : InOrder(T)[j] = InOrder(T)[l] => j = l
    BY <1>5 DEF T
  <2>3. \A j \in DOMAIN InOrder(T) : InOrder(T)[j] \in Events /\ GroupOf[InOrder(T)[j]] = keys[i]
    BY <2>1, <2>2
  <2> QED BY <2>2, <2>3 DEF T
<1>9. /\ DOMAIN G = DOMAIN keys
      /\ \A i \in DOMAIN keys : DOMAIN G[i] = DOMAIN N(i)
      /\ \A i \in DOMAIN keys : \A j \in DOMAIN N(i) : G[i][j] = Snapshot(N(i)[j])
      /\ \A i \in DOMAIN keys : G[i] = [j \in DOMAIN N(i) |-> Snapshot(N(i)[j])]
  BY <1>6
<1> HIDE DEF N, G
<1>10. \A i \in DOMAIN keys : G[i] \in Seq(Snapshots)
  <2> TAKE i \in DOMAIN keys
  <2> DEFINE m == Cardinality(M(keys[i]))
  <2>1. m \in Nat /\ G[i] = [j \in 1..m |-> Snapshot(N(i)[j])]
    BY <1>8, <1>9
  <2>2. \A j \in 1..m : Snapshot(N(i)[j]) \in Snapshots
    BY <1>7, <1>8
  <2> HIDE DEF m
  <2> QED BY <2>1, <2>2
<1>11. G \in Seq(Seq(Snapshots)) /\ Len(G) \in Nat
  <2> DEFINE m == Cardinality(K)
  <2>1. m \in Nat /\ G = [i \in 1..m |-> G[i]] /\ \A i \in 1..m : G[i] \in Seq(Snapshots)
    BY <1>4, <1>6, <1>9, <1>10 DEF G
  <2> HIDE DEF m
  <2>2. G \in Seq(Seq(Snapshots))
    BY <2>1
  <2> QED BY <2>2, LenProperties
<1>12. IdsApart(G)
  <2> SUFFICES ASSUME NEW i \in DOMAIN keys, NEW k \in DOMAIN keys,
                      NEW j \in DOMAIN N(i), NEW l \in DOMAIN N(k),
                      G[i][j].id = G[k][l].id
               PROVE  i = k /\ j = l
    BY <1>9 DEF IdsApart
  <2>1. N(i)[j] \in Events /\ GroupOf[N(i)[j]] = keys[i] /\ N(k)[l] \in Events /\ GroupOf[N(k)[l]] = keys[k]
    BY <1>8
  <2>4. G[i][j].id = N(i)[j]
    BY <1>7, <1>9, <2>1
  <2>5. G[k][l].id = N(k)[l]
    BY <1>7, <1>9, <2>1
  <2>6. N(i)[j] = N(k)[l]
    BY <2>4, <2>5
  <2>2. keys[i] = keys[k]
    BY <2>1, <2>6
  <2>3. i = k
    BY <1>4, <2>2
  <2>7. \A p, q \in DOMAIN N(i) : N(i)[p] = N(i)[q] => p = q
    BY <1>8
  <2> QED BY <2>3, <2>6, <2>7
<1> QED BY <1>11, <1>12 DEF G

-----------------------------------------------------------------------------
(* The inductive invariant *)

Pcs == {"idle", "exited", "next", "derive", "link", "classify", "check", "analyze",
        "combine", "decide", "finalize", "sidecar", "store", "mark"}
Free == {"idle", "exited"}
AtFile == {"derive", "link", "classify", "check", "analyze"}
AtEvidence == {"sidecar", "store", "mark"}
AfterFiles == {"decide", "finalize"} \cup AtEvidence

DiskRows == [iq : Places, meta : Places, audio : BOOLEAN]
RunStates == [running : BOOLEAN, stop : {"none", "open", "closed"}, scope : SUBSET Events]
WorkerStates == [pc : Pcs, todo : Seq(Snapshots), good : Seq(Events),
                 combine : {"none", "ok", "failed"}, dest : Places]
Counts == [total : Int, completed : Int, failed : Int, groups : Int, groupsDone : Int]
Uses == [starts : Nat, prunes : Nat, restarts : Nat]

Typed ==
    /\ event \in [Events -> Rows] /\ disk \in [Events -> DiskRows] /\ run \in RunStates
    /\ ctl \in {"off", "wave", "closing", "idle", "watch", "ending"}
    /\ run.running <=> ctl # "off"
    /\ queue \in Seq(Seq(Snapshots)) /\ worker \in [Workers -> WorkerStates]
    /\ count \in Counts /\ job \in {"running", "finishing", "none"}
    /\ analyzed \in SUBSET Events /\ used \in Uses

\* What a worker's position says of its lists.
Shaped(wk) ==
    \A w \in Workers :
        /\ wk[w].pc \in Free => wk[w].todo = <<>> /\ wk[w].good = <<>>
        /\ wk[w].pc \in AtFile => wk[w].todo # <<>>
        /\ wk[w].pc \in AfterFiles => wk[w].todo = <<>>
        /\ wk[w].pc \in AtEvidence => wk[w].good # <<>>

\* Between the waves no worker holds anything, and without a stop every group
\* was handed out.
Rested ==
    /\ ctl \notin {"wave", "closing"} => \A w \in Workers : worker[w].pc \in Free
    /\ (run.stop = "open" /\ ctl # "wave") => queue = <<>>

\* A capture stands in at most one place of the queue and the workers' lists.
Apart(q, wk) ==
    /\ IdsApart(q)
    /\ \A v, w \in Workers : \A j \in DOMAIN wk[v].todo, k \in DOMAIN wk[w].todo :
          wk[v].todo[j].id = wk[w].todo[k].id => v = w /\ j = k
    /\ \A i \in DOMAIN q : \A j \in DOMAIN q[i] : \A w \in Workers :
          /\ \A k \in DOMAIN wk[w].todo : q[i][j].id # wk[w].todo[k].id
          /\ q[i][j].id \notin ToSet(wk[w].good)
    /\ \A v, w \in Workers : \A j \in DOMAIN wk[v].todo : wk[v].todo[j].id \notin ToSet(wk[w].good)

\* The worker that a running capture is, or was, processed by.
Holds(w, e) ==
    \/ e \in ToSet(worker[w].good)
    \/ worker[w].pc \in AtFile /\ e = Current(w).id

RunningHeld ==
    \A e \in Events : event[e].status = "running" => \E w \in Workers : Holds(w, e)

GoodAnalyzed == \A w \in Workers : ToSet(worker[w].good) \subseteq analyzed

Counted ==
    /\ \A f \in {"total", "completed", "failed", "groups", "groupsDone"} : count[f] >= 0
    /\ Good(worker) <= count.completed
    /\ run.stop = "open" =>
          count.total = count.completed + count.failed + Files(queue) + Todo(worker)

DeferredInvariant ==
    /\ Typed /\ Shaped(worker) /\ Rested /\ Apart(queue, worker)
    /\ RunningHeld /\ GoodAnalyzed /\ Counted

-----------------------------------------------------------------------------
(* Lists *)

LEMMA TailOfList ==
    ASSUME NEW X, NEW s \in Seq(X), s # <<>>
    PROVE  /\ Head(s) \in X /\ Head(s) = s[1] /\ 1 \in DOMAIN s
           /\ Tail(s) \in Seq(X) /\ Len(Tail(s)) = Len(s) - 1 /\ Len(s) \in Nat /\ Len(s) >= 1
           /\ \A j \in DOMAIN Tail(s) : j \in Nat /\ j # 0 /\ j + 1 \in DOMAIN s /\ Tail(s)[j] = s[j + 1]
           /\ \A j \in DOMAIN s : j = 1 \/ \E i \in DOMAIN Tail(s) : j = i + 1
<1>1. Len(s) \in Nat /\ DOMAIN s = 1..Len(s) /\ Len(s) >= 1
  BY EmptySeq, LenProperties
<1>2. Tail(s) \in Seq(X) /\ Len(Tail(s)) = Len(s) - 1 /\ \A j \in 1..(Len(s) - 1) : Tail(s)[j] = s[j + 1]
  BY <1>1, HeadTailProperties
<1>3. Head(s) \in X /\ Head(s) = s[1]
  BY <1>1, HeadTailProperties
<1>4. DOMAIN Tail(s) = 1..(Len(s) - 1)
  BY <1>1, <1>2, LenProperties
<1>5. \A j \in DOMAIN s : j = 1 \/ j - 1 \in DOMAIN Tail(s)
  BY <1>1, <1>4
<1>6. \A j \in DOMAIN s : j = 1 \/ \E i \in DOMAIN Tail(s) : j = i + 1
  BY <1>1, <1>5
<1> QED BY <1>1, <1>2, <1>3, <1>4, <1>6

LEMMA MembersOfList ==
    ASSUME NEW X, NEW s \in Seq(X)
    PROVE  /\ ToSet(s) \subseteq X
           /\ \A x \in X : ToSet(Append(s, x)) = ToSet(s) \cup {x}
           /\ s # <<>> => /\ Head(s) \in ToSet(s) /\ ToSet(Tail(s)) \subseteq ToSet(s)
                          /\ ToSet(s) = {Head(s)} \cup ToSet(Tail(s))
<1>1. ToSet(s) \subseteq X
  BY ElementOfSeq DEF ToSet
<1>2. ASSUME NEW x \in X PROVE ToSet(Append(s, x)) = ToSet(s) \cup {x}
  <2> DEFINE t == Append(s, x)
             n == Len(s)
  <2>1. n \in Nat /\ DOMAIN s = 1..n
    BY LenProperties
  <2>2. DOMAIN t = 1..(n + 1) /\ t[n + 1] = x /\ \A i \in 1..n : t[i] = s[i]
    BY <2>1, AppendProperties
  <2>3. \A i \in DOMAIN t : i = n + 1 \/ i \in DOMAIN s
    BY <2>1, <2>2
  <2>4. n + 1 \in DOMAIN t /\ \A i \in DOMAIN s : i \in DOMAIN t
    BY <2>1, <2>2
  <2> HIDE DEF t, n
  <2> QED BY <2>1, <2>2, <2>3, <2>4 DEF ToSet, t
<1>3. ASSUME s # <<>>
      PROVE  /\ Head(s) \in ToSet(s) /\ ToSet(Tail(s)) \subseteq ToSet(s)
             /\ ToSet(s) = {Head(s)} \cup ToSet(Tail(s))
  <2>1. Head(s) = s[1] /\ 1 \in DOMAIN s
    BY <1>3, TailOfList
  <2>2. \A j \in DOMAIN Tail(s) : j + 1 \in DOMAIN s /\ Tail(s)[j] = s[j + 1]
    BY <1>3, TailOfList
  <2>3. \A j \in DOMAIN s : j = 1 \/ \E i \in DOMAIN Tail(s) : j = i + 1
    BY <1>3, TailOfList
  <2>4. \A x : x \in ToSet(s) <=> \E j \in DOMAIN s : x = s[j]
    BY DEF ToSet
  <2>5. \A x : x \in ToSet(Tail(s)) <=> \E j \in DOMAIN Tail(s) : x = Tail(s)[j]
    BY DEF ToSet
  <2>6. \A x \in ToSet(s) : x = Head(s) \/ x \in ToSet(Tail(s))
    BY <2>1, <2>2, <2>3, <2>4, <2>5
  <2>7. \A x \in ToSet(Tail(s)) : x \in ToSet(s)
    BY <2>2, <2>4, <2>5
  <2> QED BY <2>1, <2>4, <2>6, <2>7
<1> QED BY <1>1, <1>2, <1>3

LEMMA EmptyList == ToSet(<<>>) = {} /\ Len(<<>>) = 0 /\ DOMAIN <<>> = {}
BY DEF ToSet

-----------------------------------------------------------------------------
(* Captures stay apart *)

\* A worker's list may lose members at its start, and its processed captures too.
LEMMA ApartShrinks ==
    ASSUME NEW q, NEW wk, NEW wk2, NEW w \in Workers, NEW off \in Nat, Apart(q, wk),
           \A v \in Workers \ {w} : wk2[v] = wk[v],
           \A j \in DOMAIN wk2[w].todo :
              j \in Nat /\ j + off \in DOMAIN wk[w].todo /\ wk2[w].todo[j].id = wk[w].todo[j + off].id,
           ToSet(wk2[w].good) \subseteq ToSet(wk[w].good)
    PROVE  Apart(q, wk2)
<1>1. \A v \in Workers : \A j \in DOMAIN wk2[v].todo :
         \/ v # w /\ j \in DOMAIN wk[v].todo /\ wk2[v].todo[j].id = wk[v].todo[j].id
         \/ v = w /\ j \in Nat /\ j + off \in DOMAIN wk[v].todo /\ wk2[v].todo[j].id = wk[v].todo[j + off].id
  OBVIOUS
<1>2. \A v \in Workers : ToSet(wk2[v].good) \subseteq ToSet(wk[v].good)
  OBVIOUS
<1>3. ASSUME NEW u \in Workers, NEW v \in Workers,
             NEW j \in DOMAIN wk2[u].todo, NEW k \in DOMAIN wk2[v].todo,
             wk2[u].todo[j].id = wk2[v].todo[k].id
      PROVE  u = v /\ j = k
  <2>0. \A a, b \in Workers : \A i \in DOMAIN wk[a].todo, l \in DOMAIN wk[b].todo :
          wk[a].todo[i].id = wk[b].todo[l].id => a = b /\ i = l
    BY DEF Apart
  <2>1. CASE u # w /\ v # w
    BY <1>1, <1>3, <2>0, <2>1
  <2>2. CASE u = w /\ v # w
    BY <1>1, <1>3, <2>0, <2>2
  <2>3. CASE u # w /\ v = w
    BY <1>1, <1>3, <2>0, <2>3
  <2>4. CASE u = w /\ v = w
    <3>1. j \in Nat /\ k \in Nat /\ j + off = k + off
      BY <1>1, <1>3, <2>0, <2>4
    <3> QED BY <2>4, <3>1
  <2> QED BY <2>1, <2>2, <2>3, <2>4
<1>4. ASSUME NEW i \in DOMAIN q, NEW j \in DOMAIN q[i], NEW v \in Workers
      PROVE  /\ \A k \in DOMAIN wk2[v].todo : q[i][j].id # wk2[v].todo[k].id
             /\ q[i][j].id \notin ToSet(wk2[v].good)
  <2>1. /\ \A k \in DOMAIN wk[v].todo : q[i][j].id # wk[v].todo[k].id
        /\ q[i][j].id \notin ToSet(wk[v].good)
    BY DEF Apart
  <2> QED BY <1>1, <1>2, <2>1
<1>5. ASSUME NEW u \in Workers, NEW v \in Workers, NEW j \in DOMAIN wk2[u].todo
      PROVE  wk2[u].todo[j].id \notin ToSet(wk2[v].good)
  <2>1. \A k \in DOMAIN wk[u].todo : wk[u].todo[k].id \notin ToSet(wk[v].good)
    BY DEF Apart
  <2> QED BY <1>1, <1>2, <2>1
<1>6. IdsApart(q)
  BY DEF Apart
<1> HIDE DEF IdsApart
<1> QED BY <1>3, <1>4, <1>5, <1>6 DEF Apart

\* In particular its first one.
LEMMA TailApart ==
    ASSUME NEW q, NEW wk, NEW wk2, NEW w \in Workers, Apart(q, wk),
           wk[w].todo \in Seq(Snapshots), wk[w].todo # <<>>,
           \A v \in Workers \ {w} : wk2[v] = wk[v],
           wk2[w].todo = Tail(wk[w].todo), wk2[w].good = wk[w].good
    PROVE  Apart(q, wk2)
<1>1. PICK off \in Nat : off = 1
  OBVIOUS
<1>2. \A j \in DOMAIN wk2[w].todo :
         j \in Nat /\ j + off \in DOMAIN wk[w].todo /\ wk2[w].todo[j].id = wk[w].todo[j + off].id
  BY <1>1, TailOfList
<1>3. ToSet(wk2[w].good) \subseteq ToSet(wk[w].good)
  OBVIOUS
<1>4. \A v \in Workers \ {w} : wk2[v] = wk[v]
  OBVIOUS
<1> QED BY <1>2, <1>3, <1>4, ApartShrinks, ZenonT(60)

\* The first capture of a list may move to the processed ones.
LEMMA ApartProcessed ==
    ASSUME NEW q, NEW wk, NEW wk2, NEW w \in Workers, Apart(q, wk),
           wk[w].todo \in Seq(Snapshots), wk[w].todo # <<>>, wk[w].good \in Seq(Events),
           \A v \in Workers \ {w} : wk2[v] = wk[v],
           wk2[w].todo = Tail(wk[w].todo), wk2[w].good = Append(wk[w].good, Head(wk[w].todo).id)
    PROVE  Apart(q, wk2)
<1> DEFINE e == Head(wk[w].todo).id
<1>1. /\ 1 \in DOMAIN wk[w].todo /\ e = wk[w].todo[1].id /\ e \in Events
      /\ \A j \in DOMAIN wk2[w].todo :
           j \in Nat /\ j # 0 /\ j + 1 \in DOMAIN wk[w].todo /\ wk2[w].todo[j] = wk[w].todo[j + 1]
  <2>1. Head(wk[w].todo) \in Snapshots /\ Head(wk[w].todo) = wk[w].todo[1] /\ 1 \in DOMAIN wk[w].todo
    BY TailOfList
  <2>2. e \in Events
    BY <2>1 DEF Snapshots
  <2> QED BY <2>1, <2>2, TailOfList
<1>2. ToSet(wk2[w].good) = ToSet(wk[w].good) \cup {e}
  BY <1>1, MembersOfList
<1>3. \A v \in Workers : \A j \in DOMAIN wk2[v].todo : wk2[v].todo[j].id # e
  <2>1. \A a, b \in Workers : \A i \in DOMAIN wk[a].todo, l \in DOMAIN wk[b].todo :
          wk[a].todo[i].id = wk[b].todo[l].id => a = b /\ i = l
    BY DEF Apart
  <2> SUFFICES ASSUME NEW v \in Workers, NEW j \in DOMAIN wk2[v].todo, wk2[v].todo[j].id = e
               PROVE  FALSE
    OBVIOUS
  <2>2. CASE v = w
    <3>1. j \in Nat /\ j # 0 /\ j + 1 \in DOMAIN wk[w].todo /\ wk[w].todo[j + 1].id = wk[w].todo[1].id
      BY <1>1, <2>2
    <3>2. j + 1 = 1
      BY <1>1, <2>1, <3>1
    <3> QED BY <3>1, <3>2
  <2>3. CASE v # w
    BY <1>1, <2>1, <2>3
  <2> QED BY <2>2, <2>3
<1>4. \A i \in DOMAIN q : \A j \in DOMAIN q[i] : q[i][j].id # e
  BY <1>1 DEF Apart
<1> DEFINE wk3 == [v \in Workers |-> IF v = w THEN [todo |-> wk2[w].todo, good |-> wk[w].good] ELSE wk2[v]]
<1>5. Apart(q, wk3)
  <2>1. /\ \A v \in Workers \ {w} : wk3[v] = wk[v]
        /\ wk3[w].todo = Tail(wk[w].todo) /\ wk3[w].good = wk[w].good
    OBVIOUS
  <2> HIDE DEF wk3
  <2> QED BY <2>1, TailApart
<1>6. \A v \in Workers : /\ wk3[v].todo = wk2[v].todo
                         /\ ToSet(wk2[v].good) \subseteq ToSet(wk3[v].good) \cup {e}
  BY <1>2
<1> HIDE DEF wk3, e
<1>7. ASSUME NEW i \in DOMAIN q, NEW j \in DOMAIN q[i], NEW v \in Workers
      PROVE  /\ \A k \in DOMAIN wk2[v].todo : q[i][j].id # wk2[v].todo[k].id
             /\ q[i][j].id \notin ToSet(wk2[v].good)
  <2>1. /\ \A k \in DOMAIN wk3[v].todo : q[i][j].id # wk3[v].todo[k].id
        /\ q[i][j].id \notin ToSet(wk3[v].good)
    BY <1>5 DEF Apart
  <2> QED BY <1>4, <1>6, <2>1
<1>8. ASSUME NEW u \in Workers, NEW v \in Workers, NEW j \in DOMAIN wk2[u].todo
      PROVE  wk2[u].todo[j].id \notin ToSet(wk2[v].good)
  <2>1. wk3[u].todo[j].id \notin ToSet(wk3[v].good)
    BY <1>5, <1>6 DEF Apart
  <2> QED BY <1>3, <1>6, <2>1
<1>9. ASSUME NEW u \in Workers, NEW v \in Workers,
             NEW j \in DOMAIN wk2[u].todo, NEW k \in DOMAIN wk2[v].todo,
             wk2[u].todo[j].id = wk2[v].todo[k].id
      PROVE  u = v /\ j = k
  BY <1>5, <1>6, <1>9 DEF Apart
<1>10. IdsApart(q)
  BY DEF Apart
<1> HIDE DEF IdsApart
<1> QED BY <1>7, <1>8, <1>9, <1>10 DEF Apart

\* A queue loses its head; the group goes to a worker that held nothing, or
\* nowhere.
LEMMA ApartTaken ==
    ASSUME NEW q \in Seq(Seq(Snapshots)), q # <<>>, NEW wk, NEW wk2, NEW w \in Workers, Apart(q, wk),
           \A v \in Workers \ {w} : wk2[v] = wk[v],
           wk2[w].todo = Head(q) \/ wk2[w].todo = <<>>, wk2[w].good = <<>>
    PROVE  Apart(Tail(q), wk2)
<1> DEFINE r == Tail(q)
<1>1. /\ 1 \in DOMAIN q /\ Head(q) = q[1]
      /\ \A i \in DOMAIN r : i \in Nat /\ i # 0 /\ i + 1 \in DOMAIN q /\ r[i] = q[i + 1]
  BY TailOfList
<1>2. \A i \in DOMAIN r : i \in Nat /\ i + 1 \in DOMAIN q /\ i + 1 # 1 /\ r[i] = q[i + 1]
  BY <1>1
<1>3. \A i, k \in DOMAIN q : \A j \in DOMAIN q[i], l \in DOMAIN q[k] :
         q[i][j].id = q[k][l].id => i = k /\ j = l
  BY DEF Apart, IdsApart
<1>4. ToSet(wk2[w].good) = {} /\ \A k \in DOMAIN wk2[w].todo : k \in DOMAIN q[1] /\ wk2[w].todo[k] = q[1][k]
  BY <1>1, EmptyList
<1>5. \A i \in DOMAIN q : \A j \in DOMAIN q[i] : \A v \in Workers :
          /\ \A k \in DOMAIN wk[v].todo : q[i][j].id # wk[v].todo[k].id
          /\ q[i][j].id \notin ToSet(wk[v].good)
  BY DEF Apart
<1> HIDE DEF r
<1>6. IdsApart(r)
  <2> SUFFICES ASSUME NEW i \in DOMAIN r, NEW k \in DOMAIN r, NEW j \in DOMAIN r[i], NEW l \in DOMAIN r[k],
                      r[i][j].id = r[k][l].id
               PROVE  i = k /\ j = l
    BY DEF IdsApart
  <2>1. i + 1 = k + 1 /\ j = l
    BY <1>2, <1>3
  <2> QED BY <1>2, <2>1
<1>7. ASSUME NEW i \in DOMAIN r, NEW j \in DOMAIN r[i], NEW v \in Workers
      PROVE  /\ \A k \in DOMAIN wk2[v].todo : r[i][j].id # wk2[v].todo[k].id
             /\ r[i][j].id \notin ToSet(wk2[v].good)
  <2>1. CASE v = w
    BY <1>1, <1>2, <1>3, <1>4, <2>1
  <2>2. CASE v # w
    BY <1>2, <1>5, <2>2
  <2> QED BY <2>1, <2>2
<1>8. ASSUME NEW u \in Workers, NEW v \in Workers,
             NEW j \in DOMAIN wk2[u].todo, NEW k \in DOMAIN wk2[v].todo,
             wk2[u].todo[j].id = wk2[v].todo[k].id
      PROVE  u = v /\ j = k
  <2>1. CASE u = w /\ v = w
    BY <1>1, <1>3, <1>4, <1>8, <2>1
  <2>2. CASE u = w /\ v # w
    BY <1>1, <1>4, <1>5, <1>8, <2>2
  <2>3. CASE u # w /\ v = w
    BY <1>1, <1>4, <1>5, <1>8, <2>3
  <2>4. CASE u # w /\ v # w
    BY <1>8, <2>4, SMTT(60) DEF Apart
  <2> QED BY <2>1, <2>2, <2>3, <2>4
<1>9. ASSUME NEW u \in Workers, NEW v \in Workers, NEW j \in DOMAIN wk2[u].todo
      PROVE  wk2[u].todo[j].id \notin ToSet(wk2[v].good)
  <2>1. CASE v = w
    BY <1>4, <2>1
  <2>2. CASE u = w /\ v # w
    BY <1>1, <1>4, <1>5, <2>2
  <2>3. CASE u # w /\ v # w
    BY <2>3 DEF Apart
  <2> QED BY <2>1, <2>2, <2>3
<1> HIDE DEF IdsApart
<1> QED BY <1>6, <1>7, <1>8, <1>9 DEF Apart, r

LEMMA ApartFresh ==
    ASSUME NEW q, NEW wk, IdsApart(q), \A w \in Workers : wk[w].todo = <<>> /\ wk[w].good = <<>>
    PROVE  Apart(q, wk)
BY EmptyList DEF Apart

-----------------------------------------------------------------------------
(* What a step makes of the worker that takes it *)

Became(w, pc, todo, good) ==
    /\ worker' \in [Workers -> WorkerStates]
    /\ worker'[w].pc = pc /\ worker'[w].todo = todo /\ worker'[w].good = good
    /\ \A v \in Workers \ {w} : worker'[v] = worker[v]

LEMMA WorkerSet ==
    ASSUME NEW wk \in [Workers -> WorkerStates], NEW w \in Workers, NEW r \in WorkerStates
    PROVE  /\ [wk EXCEPT ![w] = r] \in [Workers -> WorkerStates]
           /\ [wk EXCEPT ![w] = r][w] = r
           /\ \A v \in Workers \ {w} : [wk EXCEPT ![w] = r][v] = wk[v]
OBVIOUS

LEMMA WorkerTyped ==
    ASSUME Typed, NEW w \in Workers
    PROVE  /\ worker[w] \in WorkerStates /\ worker[w].pc \in Pcs
           /\ worker[w].todo \in Seq(Snapshots) /\ worker[w].good \in Seq(Events)
           /\ worker[w].combine \in {"none", "ok", "failed"} /\ worker[w].dest \in Places
           /\ worker[w].todo # <<>> => Current(w) \in Snapshots /\ Current(w).id \in Events
           /\ worker[w].good # <<>> => Head(worker[w].good) \in Events
<1>1. /\ worker[w] \in WorkerStates /\ worker[w].pc \in Pcs
      /\ worker[w].todo \in Seq(Snapshots) /\ worker[w].good \in Seq(Events)
      /\ worker[w].combine \in {"none", "ok", "failed"} /\ worker[w].dest \in Places
  BY DEF Typed, WorkerStates
<1>2. ASSUME worker[w].todo # <<>> PROVE Current(w) \in Snapshots /\ Current(w).id \in Events
  <2>1. Current(w) \in Snapshots
    BY <1>1, <1>2, TailOfList DEF Current
  <2> QED BY <2>1 DEF Snapshots
<1>3. worker[w].good # <<>> => Head(worker[w].good) \in Events
  BY <1>1, TailOfList
<1> QED BY <1>1, <1>2, <1>3

LEMMA Steps ==
    ASSUME Typed, NEW w \in Workers, NEW pc \in Pcs, Step(w, pc)
    PROVE  Became(w, pc, worker[w].todo, worker[w].good)
<1> DEFINE r == [worker[w] EXCEPT !.pc = pc]
<1>1. r \in WorkerStates /\ r.pc = pc /\ r.todo = worker[w].todo /\ r.good = worker[w].good
  BY WorkerTyped DEF WorkerStates
<1>2. worker \in [Workers -> WorkerStates]
  BY DEF Typed
<1>3. worker' = [worker EXCEPT ![w] = r]
  BY <1>2 DEF Step
<1> HIDE DEF r
<1> QED BY <1>1, <1>2, <1>3, WorkerSet DEF Became

LEMMA StatusSet ==
    ASSUME Typed, NEW S, NEW status \in {"pending", "running", "complete", "error"},
           NEW why \in {"none", "failed", "missing", "killed", "combine"}, SetStatus(S, status, why)
    PROVE  /\ event' \in [Events -> Rows]
           /\ \A e \in Events : event'[e].status = IF e \in S THEN status ELSE event[e].status
<1>1. event \in [Events -> Rows]
  BY DEF Typed
<1>2. \A e \in Events : /\ WithStatus(event[e], status, why) \in Rows
                        /\ WithStatus(event[e], status, why).status = status
  <2> TAKE e \in Events
  <2> DEFINE done == status \in {"complete", "error"}
             r == event[e]
  <2>1. r \in Rows /\ done \in BOOLEAN
    BY <1>1
  <2>2. WithStatus(r, status, why) = [r EXCEPT !.status = status, !.error = why, !.completed = done]
    BY DEF WithStatus
  <2> HIDE DEF done, r
  <2>3. [r EXCEPT !.status = status, !.error = why, !.completed = done] \in Rows
    BY <2>1 DEF Rows
  <2>4. [r EXCEPT !.status = status, !.error = why, !.completed = done].status = status
    BY <2>1 DEF Rows
  <2> QED BY <2>2, <2>3, <2>4 DEF r
<1> QED BY <1>1, <1>2 DEF SetStatus

LEMMA Fails ==
    ASSUME Typed, NEW w \in Workers, worker[w].todo # <<>>,
           NEW why \in {"none", "failed", "missing", "killed", "combine"}, Fail(w, why)
    PROVE  /\ Became(w, "next", Tail(worker[w].todo), worker[w].good)
           /\ event' \in [Events -> Rows]
           /\ \A e \in Events : event'[e].status = IF e = Current(w).id THEN "error" ELSE event[e].status
           /\ count' = [count EXCEPT !.failed = @ + 1]
<1> DEFINE r == [worker[w] EXCEPT !.pc = "next", !.todo = Tail(@)]
<1>1. Tail(worker[w].todo) \in Seq(Snapshots)
  BY WorkerTyped, TailOfList
<1>2. r \in WorkerStates /\ r.pc = "next" /\ r.todo = Tail(worker[w].todo) /\ r.good = worker[w].good
  BY <1>1, WorkerTyped DEF WorkerStates, Pcs
<1>3. worker \in [Workers -> WorkerStates]
  BY DEF Typed
<1>4. worker' = [worker EXCEPT ![w] = r]
  BY <1>3 DEF Fail
<1>5. SetStatus({Current(w).id}, "error", why) /\ count' = [count EXCEPT !.failed = @ + 1]
  BY DEF Fail
<1>6. /\ event' \in [Events -> Rows]
      /\ \A e \in Events : event'[e].status = IF e \in {Current(w).id} THEN "error" ELSE event[e].status
  BY <1>5, StatusSet
<1>7. Became(w, "next", Tail(worker[w].todo), worker[w].good)
  <2> HIDE DEF r
  <2> QED BY <1>2, <1>3, <1>4, WorkerSet DEF Became
<1> QED BY <1>5, <1>6, <1>7

LEMMA IdleTyped ==
    /\ Idle \in WorkerStates /\ Idle.pc = "idle" /\ Idle.todo = <<>> /\ Idle.good = <<>>
    /\ [Idle EXCEPT !.pc = "exited"] \in WorkerStates /\ [Idle EXCEPT !.pc = "exited"].pc = "exited"
    /\ [Idle EXCEPT !.pc = "exited"].todo = <<>> /\ [Idle EXCEPT !.pc = "exited"].good = <<>>
<1>1. <<>> \in Seq(Snapshots) /\ <<>> \in Seq(Events)
  OBVIOUS
<1> HIDE DEF Snapshots
<1> QED BY <1>1 DEF Idle, WorkerStates, Pcs, Places

LEMMA Abandons ==
    ASSUME Typed, NEW w \in Workers, NEW S, Abandon(w, S)
    PROVE  /\ Became(w, "idle", <<>>, <<>>)
           /\ event' \in [Events -> Rows]
           /\ \A e \in Events : event'[e].status = IF e \in ToSet(worker[w].good) \cup S
                                                   THEN "pending" ELSE event[e].status
           /\ count' = [count EXCEPT !.completed = @ - Len(worker[w].good)]
<1>1. worker \in [Workers -> WorkerStates] /\ worker' = [worker EXCEPT ![w] = Idle]
  BY DEF Typed, Abandon
<1>2. Became(w, "idle", <<>>, <<>>)
  BY <1>1, IdleTyped, WorkerSet DEF Became
<1>3. SetStatus(ToSet(worker[w].good) \cup S, "pending", "none")
  BY DEF Abandon
<1>4. /\ event' \in [Events -> Rows]
      /\ \A e \in Events : event'[e].status = IF e \in ToSet(worker[w].good) \cup S
                                              THEN "pending" ELSE event[e].status
  BY <1>3, StatusSet
<1> QED BY <1>2, <1>4 DEF Abandon

LEMMA ShapedAfter ==
    ASSUME Shaped(worker), NEW w \in Workers, NEW pc, NEW todo, NEW good, Became(w, pc, todo, good),
           pc \in Free => todo = <<>> /\ good = <<>>,
           pc \in AtFile => todo # <<>>,
           pc \in AfterFiles => todo = <<>>,
           pc \in AtEvidence => good # <<>>
    PROVE  Shaped(worker')
BY DEF Became, Shaped

\* A step may put a capture to work only if its worker holds it then, and may
\* let go only of captures that are not at work any more.
LEMMA RunningHeldAfter ==
    ASSUME RunningHeld, NEW w \in Workers, NEW pc, NEW todo, NEW good, Became(w, pc, todo, good),
           \A e \in Events : event'[e].status = "running" =>
              \/ event[e].status = "running" /\ (Holds(w, e) => Holds(w, e)')
              \/ Holds(w, e)'
    PROVE  RunningHeld'
<1> SUFFICES ASSUME NEW e \in Events, event'[e].status = "running"
             PROVE  \E v \in Workers : Holds(v, e)'
  BY DEF RunningHeld
<1>1. CASE Holds(w, e)'
  BY <1>1
<1>2. CASE event[e].status = "running" /\ ~ Holds(w, e)'
  <2>1. PICK v \in Workers : Holds(v, e)
    BY <1>2 DEF RunningHeld
  <2>2. v # w
    BY <1>2, <2>1
  <2>3. worker'[v] = worker[v]
    BY <2>2 DEF Became
  <2>4. Holds(v, e)'
    BY <2>1, <2>3 DEF Holds, Current
  <2> QED BY <2>4
<1> QED BY <1>1, <1>2

LEMMA GoodAnalyzedAfter ==
    ASSUME NEW w \in Workers, NEW pc, NEW todo, NEW good, Became(w, pc, todo, good),
           ToSet(good) \subseteq analyzed',
           \A v \in Workers \ {w} : ToSet(worker[v].good) \subseteq analyzed'
    PROVE  GoodAnalyzed'
BY DEF Became, GoodAnalyzed

LEMMA SumsTyped ==
    ASSUME NEW wk \in [Workers -> WorkerStates]
    PROVE  /\ Todo(wk) \in Nat /\ Good(wk) \in Nat
           /\ \A w \in Workers : Len(wk[w].todo) \in Nat /\ Len(wk[w].good) \in Nat
<1>1. \A w \in Workers : Len(wk[w].todo) \in Nat /\ Len(wk[w].good) \in Nat
  BY LenProperties DEF WorkerStates
<1>2. \A w \in Workers : TodoLengths(wk)[w] \in Nat /\ GoodLengths(wk)[w] \in Nat
  BY <1>1 DEF TodoLengths, GoodLengths
<1>3. IsFiniteSet(Workers)
  BY DeferredAssumption
<1> QED BY <1>1, <1>2, <1>3, CellsFinite DEF Todo, Good

LenTodo(wk, w) == Len(wk[w].todo)
LenGood(wk, w) == Len(wk[w].good)

LEMMA SumsAfter ==
    ASSUME Typed, NEW w \in Workers, NEW pc, NEW todo, NEW good, Became(w, pc, todo, good)
    PROVE  /\ Todo(worker) \in Nat /\ Good(worker) \in Nat /\ Todo(worker') \in Nat /\ Good(worker') \in Nat
           /\ LenTodo(worker, w) \in Nat /\ LenGood(worker, w) \in Nat
           /\ LenTodo(worker', w) \in Nat /\ LenGood(worker', w) \in Nat
           /\ Todo(worker) - LenTodo(worker, w) = Todo(worker') - LenTodo(worker', w)
           /\ Good(worker) - LenGood(worker, w) = Good(worker') - LenGood(worker', w)
           /\ LenGood(worker, w) <= Good(worker)
<1>1. worker \in [Workers -> WorkerStates] /\ worker' \in [Workers -> WorkerStates]
  BY DEF Typed, Became
<1>2. /\ \A v \in Workers : LenTodo(worker, v) \in Nat /\ LenGood(worker, v) \in Nat
      /\ \A v \in Workers : LenTodo(worker', v) \in Nat /\ LenGood(worker', v) \in Nat
      /\ Todo(worker) \in Nat /\ Good(worker) \in Nat /\ Todo(worker') \in Nat /\ Good(worker') \in Nat
  BY <1>1, SumsTyped DEF LenTodo, LenGood
<1>3. \A v \in Workers \ {w} : worker'[v] = worker[v]
  BY DEF Became
<1>4. IsFiniteSet(Workers)
  BY DeferredAssumption
<1>5. Todo(worker) - LenTodo(worker, w) = Todo(worker') - LenTodo(worker', w)
  <2> DEFINE f == TodoLengths(worker)
             g == TodoLengths(worker')
  <2>1. \A v \in Workers : f[v] = LenTodo(worker, v) /\ g[v] = LenTodo(worker', v)
    BY DEF TodoLengths, LenTodo
  <2>2. \A v \in Workers : f[v] \in Nat /\ g[v] \in Nat
    BY <1>2, <2>1
  <2>3. \A v \in Workers \ {w} : f[v] = g[v]
    BY <1>3, <2>1 DEF LenTodo
  <2> HIDE DEF f, g
  <2>4. Sum(f, Workers) - f[w] = Sum(g, Workers) - g[w]
    BY <1>4, <2>2, <2>3, SumUpdate
  <2> QED BY <2>1, <2>4 DEF Todo, f, g
<1>6. /\ Good(worker) - LenGood(worker, w) = Good(worker') - LenGood(worker', w)
      /\ LenGood(worker, w) <= Good(worker)
  <2> DEFINE f == GoodLengths(worker)
             g == GoodLengths(worker')
  <2>1. \A v \in Workers : f[v] = LenGood(worker, v) /\ g[v] = LenGood(worker', v)
    BY DEF GoodLengths, LenGood
  <2>2. \A v \in Workers : f[v] \in Nat /\ g[v] \in Nat
    BY <1>2, <2>1
  <2>3. \A v \in Workers \ {w} : f[v] = g[v]
    BY <1>3, <2>1 DEF LenGood
  <2> HIDE DEF f, g
  <2>4. Sum(f, Workers) - f[w] = Sum(g, Workers) - g[w] /\ f[w] <= Sum(f, Workers)
    BY <1>4, <2>2, <2>3, SumUpdate
  <2> QED BY <2>1, <2>4 DEF Good, f, g
<1> QED BY <1>2, <1>5, <1>6

LEMMA SumsAtRest ==
    ASSUME NEW wk, \A w \in Workers : wk[w].todo = <<>> /\ wk[w].good = <<>>
    PROVE  Todo(wk) = 0 /\ Good(wk) = 0
<1>1. \A w \in Workers : TodoLengths(wk)[w] = 0 /\ GoodLengths(wk)[w] = 0
  BY EmptyList DEF TodoLengths, GoodLengths
<1> QED BY <1>1, SumZero DEF Todo, Good

-----------------------------------------------------------------------------
(* A worker's steps *)

LEMMA WorkingCtl ==
    ASSUME Rested, NEW w \in Workers, worker[w].pc \notin Free
    PROVE  ctl \in {"wave", "closing"}
BY DEF Rested

LEMMA CountedAfter ==
    ASSUME Typed, Counted, NEW w \in Workers, NEW pc, NEW todo, NEW good, Became(w, pc, todo, good),
           run' = run, queue' = queue, count' \in Counts,
           count'.total = count.total, count'.groups = count.groups,
           count'.failed >= count.failed, count'.groupsDone >= count.groupsDone,
           count'.completed - count.completed >= LenGood(worker', w) - LenGood(worker, w),
           run.stop = "open" =>
              (count'.completed - count.completed) + (count'.failed - count.failed)
                = LenTodo(worker, w) - LenTodo(worker', w)
    PROVE  Counted'
<1>1. /\ Todo(worker) \in Nat /\ Good(worker) \in Nat /\ Todo(worker') \in Nat /\ Good(worker') \in Nat
      /\ LenTodo(worker, w) \in Nat /\ LenGood(worker, w) \in Nat
      /\ LenTodo(worker', w) \in Nat /\ LenGood(worker', w) \in Nat
      /\ Todo(worker) - LenTodo(worker, w) = Todo(worker') - LenTodo(worker', w)
      /\ Good(worker) - LenGood(worker, w) = Good(worker') - LenGood(worker', w)
      /\ LenGood(worker, w) <= Good(worker)
  BY SumsAfter
<1>2. Files(queue) \in Nat
  BY FilesOfQueue DEF Typed
<1>3. /\ count.total \in Int /\ count.completed \in Int /\ count.failed \in Int
      /\ count.groups \in Int /\ count.groupsDone \in Int
      /\ count'.total \in Int /\ count'.completed \in Int /\ count'.failed \in Int
      /\ count'.groups \in Int /\ count'.groupsDone \in Int
  BY DEF Typed, Counts
<1>4. /\ count.total >= 0 /\ count.failed >= 0 /\ count.groups >= 0 /\ count.groupsDone >= 0
      /\ Good(worker) <= count.completed
      /\ run.stop = "open" =>
           count.total = count.completed + count.failed + Files(queue) + Todo(worker)
  BY DEF Counted
<1>5. Good(worker') <= count'.completed
  BY <1>1, <1>3, <1>4
<1>6. count'.completed >= 0
  BY <1>1, <1>3, <1>5
<1>7. /\ count'.total >= 0 /\ count'.failed >= 0 /\ count'.groups >= 0 /\ count'.groupsDone >= 0
  BY <1>3, <1>4
<1>8. ASSUME run.stop = "open"
      PROVE  count'.total = count'.completed + count'.failed + Files(queue) + Todo(worker')
  <2>1. (count'.completed - count.completed) + (count'.failed - count.failed)
          = LenTodo(worker, w) - LenTodo(worker', w)
    BY <1>8
  <2>2. count.total = count.completed + count.failed + Files(queue) + Todo(worker)
    BY <1>4, <1>8
  <2>3. Todo(worker) - Todo(worker') = LenTodo(worker, w) - LenTodo(worker', w)
    BY <1>1
  <2>4. Todo(worker) \in Int /\ Todo(worker') \in Int
    BY <1>1
  <2>5. count'.completed + count'.failed = count.completed + count.failed + (Todo(worker) - Todo(worker'))
    BY <1>1, <1>3, <2>1, <2>3, <2>4
  <2> QED BY <1>2, <1>3, <2>2, <2>4, <2>5
<1> QED BY <1>5, <1>6, <1>7, <1>8 DEF Counted

SameIds(s, t) == DOMAIN s = DOMAIN t /\ \A j \in DOMAIN s : s[j].id = t[j].id

LEMMA ApartSame ==
    ASSUME NEW q, NEW wk, NEW wk2, Apart(q, wk),
           \A v \in Workers : SameIds(wk2[v].todo, wk[v].todo) /\ ToSet(wk2[v].good) \subseteq ToSet(wk[v].good)
    PROVE  Apart(q, wk2)
<1>1. \A v \in Workers : /\ DOMAIN wk2[v].todo = DOMAIN wk[v].todo
                         /\ \A j \in DOMAIN wk2[v].todo : wk2[v].todo[j].id = wk[v].todo[j].id
  BY DEF SameIds
<1>2. IdsApart(q)
  BY DEF Apart
<1>3. \A u, v \in Workers : \A j \in DOMAIN wk2[u].todo, k \in DOMAIN wk2[v].todo :
         wk2[u].todo[j].id = wk2[v].todo[k].id => u = v /\ j = k
  BY <1>1 DEF Apart
<1>4. \A i \in DOMAIN q : \A j \in DOMAIN q[i] : \A v \in Workers :
         /\ \A k \in DOMAIN wk2[v].todo : q[i][j].id # wk2[v].todo[k].id
         /\ q[i][j].id \notin ToSet(wk2[v].good)
  BY <1>1 DEF Apart
<1>5. \A u, v \in Workers : \A j \in DOMAIN wk2[u].todo : wk2[u].todo[j].id \notin ToSet(wk2[v].good)
  BY <1>1, ZenonT(60) DEF Apart
<1> HIDE DEF IdsApart
<1> QED BY <1>2, <1>3, <1>4, <1>5 DEF Apart

\* Steps within a file, and those that do not end a file or a capture.
LEMMA StaysApart ==
    ASSUME DeferredInvariant, NEW w \in Workers, NEW pc \in Pcs \ Free, NEW todo,
           worker[w].pc \notin Free, Became(w, pc, todo, worker[w].good),
           SameIds(todo, worker[w].todo), todo = worker[w].todo \/ pc \in AtFile,
           pc \in AtFile => worker[w].todo # <<>>,
           pc \in AfterFiles => worker[w].todo = <<>>,
           pc \in AtEvidence => worker[w].good # <<>>,
           worker[w].pc \in AtFile => pc \in AtFile,
           event' \in [Events -> Rows], disk' \in [Events -> DiskRows],
           \A e \in Events : event'[e].status = "running" =>
              event[e].status = "running" \/ (pc \in AtFile /\ e = Current(w).id),
           UNCHANGED <<run, ctl, queue, count, job, used>>,
           analyzed' \in SUBSET Events, \A v \in Workers : ToSet(worker[v].good) \subseteq analyzed'
    PROVE  DeferredInvariant'
<1>0. /\ Typed /\ Shaped(worker) /\ Rested /\ Apart(queue, worker)
      /\ RunningHeld /\ GoodAnalyzed /\ Counted
  BY DEF DeferredInvariant
<1>1. worker'[w].todo = todo /\ worker'[w].good = worker[w].good /\ worker'[w].pc = pc
  BY DEF Became
<1>2. todo \in Seq(Snapshots) /\ Len(todo) = Len(worker[w].todo)
  <2>1. todo \in Seq(Snapshots) /\ worker[w].todo \in Seq(Snapshots)
    BY <1>0, <1>1, WorkerTyped DEF Became, WorkerStates
  <2>2. DOMAIN todo = 1..Len(todo) /\ DOMAIN worker[w].todo = 1..Len(worker[w].todo)
        /\ Len(todo) \in Nat /\ Len(worker[w].todo) \in Nat
    BY <2>1, LenProperties
  <2>3. 1..Len(todo) = 1..Len(worker[w].todo)
    BY <2>2 DEF SameIds
  <2> QED BY <2>1, <2>2, <2>3
<1>3. pc \in AtFile => todo # <<>> /\ Current(w)' = Head(todo) /\ Head(todo).id = Current(w).id
  <2> SUFFICES ASSUME pc \in AtFile
               PROVE  todo # <<>> /\ Current(w)' = Head(todo) /\ Head(todo).id = Current(w).id
    OBVIOUS
  <2>1. worker[w].todo # <<>> /\ worker[w].todo \in Seq(Snapshots)
    BY <1>0, WorkerTyped
  <2>2. 1 \in DOMAIN worker[w].todo /\ Head(worker[w].todo) = worker[w].todo[1]
    BY <2>1, TailOfList
  <2>3. 1 \in DOMAIN todo /\ todo[1].id = worker[w].todo[1].id
    BY <2>2 DEF SameIds
  <2>4. todo # <<>>
    BY <2>3, EmptyList
  <2>5. Head(todo) = todo[1]
    BY <1>2, <2>4, TailOfList
  <2> QED BY <1>1, <2>2, <2>3, <2>4, <2>5 DEF Current
<1>4. Typed'
  BY <1>0 DEF Typed, Became
<1>5. Shaped(worker')
  <2>1. pc \in AfterFiles => todo = <<>>
    BY DEF AfterFiles, AtFile, AtEvidence
  <2> QED BY <1>0, <1>3, <2>1, ShapedAfter
<1>6. Rested'
  <2>1. ctl \in {"wave", "closing"}
    BY <1>0, WorkingCtl
  <2> QED BY <1>0, <2>1 DEF Rested
<1>7. Apart(queue', worker')
  <2>1. \A v \in Workers : /\ SameIds(worker'[v].todo, worker[v].todo)
                           /\ ToSet(worker'[v].good) \subseteq ToSet(worker[v].good)
    BY <1>1 DEF Became, SameIds
  <2>2. Apart(queue, worker')
    BY <1>0, <2>1, ApartSame
  <2> QED BY <2>2
<1>8. RunningHeld'
  <2>1. \A e \in Events : Holds(w, e) => Holds(w, e)'
    BY <1>1, <1>3 DEF Holds
  <2>2. \A e \in Events : pc \in AtFile /\ e = Current(w).id => Holds(w, e)'
    BY <1>1, <1>3 DEF Holds
  <2> QED BY <1>0, <2>1, <2>2, RunningHeldAfter
<1>9. GoodAnalyzed'
  BY GoodAnalyzedAfter
<1>10. Counted'
  <2>1. count' = count /\ count \in Counts
    BY <1>0 DEF Typed
  <2>2. /\ count.total \in Int /\ count.completed \in Int /\ count.failed \in Int
        /\ count.groups \in Int /\ count.groupsDone \in Int
    BY <2>1 DEF Counts
  <2>3. LenTodo(worker', w) = LenTodo(worker, w) /\ LenGood(worker', w) = LenGood(worker, w)
    BY <1>1, <1>2 DEF LenTodo, LenGood
  <2>4. LenTodo(worker, w) \in Nat /\ LenGood(worker, w) \in Nat
    BY <1>0, SumsAfter
  <2> QED BY <1>0, <2>1, <2>2, <2>3, <2>4, CountedAfter
<1> QED BY <1>4, <1>5, <1>6, <1>7, <1>8, <1>9, <1>10 DEF DeferredInvariant

LEMMA SmallerApart ==
    ASSUME NEW q, NEW wk, NEW wk2, NEW w \in Workers, Apart(q, wk),
           \A v \in Workers \ {w} : wk2[v] = wk[v],
           wk2[w].todo = wk[w].todo \/ wk2[w].todo = <<>>,
           ToSet(wk2[w].good) \subseteq ToSet(wk[w].good)
    PROVE  Apart(q, wk2)
<1>1. \A v \in Workers : /\ wk2[v].todo = wk[v].todo \/ wk2[v].todo = <<>>
                         /\ ToSet(wk2[v].good) \subseteq ToSet(wk[v].good)
  OBVIOUS
<1>2. IdsApart(q)
  BY DEF Apart
<1>3. \A u, v \in Workers : \A j \in DOMAIN wk2[u].todo, k \in DOMAIN wk2[v].todo :
         wk2[u].todo[j].id = wk2[v].todo[k].id => u = v /\ j = k
  BY <1>1, EmptyList DEF Apart
<1>4. \A i \in DOMAIN q : \A j \in DOMAIN q[i] : \A v \in Workers :
         /\ \A k \in DOMAIN wk2[v].todo : q[i][j].id # wk2[v].todo[k].id
         /\ q[i][j].id \notin ToSet(wk2[v].good)
  BY <1>1, EmptyList DEF Apart
<1>5. \A u, v \in Workers : \A j \in DOMAIN wk2[u].todo : wk2[u].todo[j].id \notin ToSet(wk2[v].good)
  BY <1>1, EmptyList DEF Apart
<1> HIDE DEF IdsApart
<1> QED BY <1>2, <1>3, <1>4, <1>5 DEF Apart

LEMMA CountTyped ==
    ASSUME Typed
    PROVE  /\ count \in Counts
           /\ count.total \in Int /\ count.completed \in Int /\ count.failed \in Int
           /\ count.groups \in Int /\ count.groupsDone \in Int
BY DEF Typed, Counts

\* A file fails.
LEMMA FailKept ==
    ASSUME DeferredInvariant, NEW w \in Workers, worker[w].pc \in AtFile,
           NEW why \in {"none", "failed", "missing", "killed", "combine"}, Fail(w, why),
           UNCHANGED <<disk, run, ctl, queue, job, analyzed, used>>
    PROVE  DeferredInvariant'
<1>0. /\ Typed /\ Shaped(worker) /\ Rested /\ Apart(queue, worker)
      /\ RunningHeld /\ GoodAnalyzed /\ Counted
  BY DEF DeferredInvariant
<1> DEFINE todo == Tail(worker[w].todo)
           good == worker[w].good
<1>1. worker[w].todo # <<>> /\ worker[w].todo \in Seq(Snapshots) /\ worker[w].good \in Seq(Events)
  BY <1>0, WorkerTyped DEF Shaped
<1>2. /\ Became(w, "next", todo, good)
      /\ event' \in [Events -> Rows]
      /\ \A e \in Events : event'[e].status = IF e = Current(w).id THEN "error" ELSE event[e].status
      /\ count' = [count EXCEPT !.failed = @ + 1]
  BY <1>0, <1>1, Fails
<1>3. worker'[w].todo = todo /\ worker'[w].good = good /\ worker'[w].pc = "next"
      /\ \A v \in Workers \ {w} : worker'[v] = worker[v]
  BY <1>2 DEF Became
<1> HIDE DEF todo, good
<1>4. Typed'
  <2>1. count' \in Counts
    BY <1>0, <1>2, CountTyped DEF Counts
  <2> QED BY <1>0, <1>2, <2>1 DEF Typed, Became
<1>5. Shaped(worker')
  BY <1>0, <1>2, ShapedAfter DEF Free, AtFile, AfterFiles, AtEvidence
<1>6. Rested'
  <2>1. ctl \in {"wave", "closing"}
    BY <1>0, WorkingCtl DEF Free, AtFile
  <2> QED BY <1>0, <2>1 DEF Rested
<1>7. Apart(queue', worker')
  <2>1. Apart(queue, worker')
    BY <1>0, <1>1, <1>3, TailApart DEF todo, good
  <2> QED BY <2>1
<1>8. RunningHeld'
  <2>1. \A e \in Events : event'[e].status = "running" => event[e].status = "running" /\ e # Current(w).id
    BY <1>2
  <2>2. \A e \in Events : e # Current(w).id /\ Holds(w, e) => Holds(w, e)'
    BY <1>3 DEF Holds, good
  <2> QED BY <1>0, <1>2, <2>1, <2>2, RunningHeldAfter
<1>9. GoodAnalyzed'
  BY <1>0, <1>2, GoodAnalyzedAfter DEF GoodAnalyzed, good
<1>10. Counted'
  <2>1. count' = [count EXCEPT !.failed = @ + 1] /\ count' \in Counts
    BY <1>2, <1>4 DEF Typed
  <2>2. /\ count'.total = count.total /\ count'.completed = count.completed /\ count'.groups = count.groups
        /\ count'.groupsDone = count.groupsDone /\ count'.failed = count.failed + 1
        /\ count.completed \in Int /\ count.failed \in Int /\ count.groupsDone \in Int
    BY <1>0, <2>1, CountTyped DEF Counts
  <2>3. LenTodo(worker', w) = LenTodo(worker, w) - 1 /\ LenGood(worker', w) = LenGood(worker, w)
    BY <1>1, <1>3, TailOfList DEF LenTodo, LenGood, todo, good
  <2>4. LenTodo(worker, w) \in Nat /\ LenGood(worker, w) \in Nat
    BY <1>0, <1>2, SumsAfter
  <2>5. (count'.completed - count.completed) + (count'.failed - count.failed)
          = LenTodo(worker, w) - LenTodo(worker', w)
    BY <2>2, <2>3, <2>4
  <2>6. /\ count'.failed >= count.failed /\ count'.groupsDone >= count.groupsDone
        /\ count'.completed - count.completed >= LenGood(worker', w) - LenGood(worker, w)
    BY <2>2, <2>3, <2>4
  <2> QED BY <1>0, <1>2, <2>1, <2>2, <2>5, <2>6, CountedAfter
<1> QED BY <1>4, <1>5, <1>6, <1>7, <1>8, <1>9, <1>10 DEF DeferredInvariant

\* A stopped worker leaves.
LEMMA AbandonKept ==
    ASSUME DeferredInvariant, NEW w \in Workers, worker[w].pc \notin Free, Stopped, NEW S, Abandon(w, S),
           worker[w].pc \in AtFile => Current(w).id \in S,
           UNCHANGED <<disk, run, ctl, queue, job, analyzed, used>>
    PROVE  DeferredInvariant'
<1>0. /\ Typed /\ Shaped(worker) /\ Rested /\ Apart(queue, worker)
      /\ RunningHeld /\ GoodAnalyzed /\ Counted
  BY DEF DeferredInvariant
<1>2. /\ Became(w, "idle", <<>>, <<>>)
      /\ event' \in [Events -> Rows]
      /\ \A e \in Events : event'[e].status = IF e \in ToSet(worker[w].good) \cup S
                                              THEN "pending" ELSE event[e].status
      /\ count' = [count EXCEPT !.completed = @ - Len(worker[w].good)]
  BY <1>0, Abandons
<1>3. worker'[w].todo = <<>> /\ worker'[w].good = <<>> /\ worker'[w].pc = "idle"
      /\ \A v \in Workers \ {w} : worker'[v] = worker[v]
  BY <1>2 DEF Became
<1>1. /\ LenGood(worker, w) \in Nat /\ LenTodo(worker, w) \in Nat
      /\ LenGood(worker', w) = 0 /\ LenTodo(worker', w) = 0
      /\ count' = [count EXCEPT !.completed = @ - LenGood(worker, w)]
  BY <1>0, <1>2, <1>3, SumsAfter, EmptyList DEF LenGood, LenTodo
<1>4. Typed'
  <2>1. count' \in Counts
    BY <1>0, <1>1, CountTyped DEF Counts
  <2> QED BY <1>0, <1>2, <2>1 DEF Typed, Became
<1>5. Shaped(worker')
  BY <1>0, <1>2, ShapedAfter DEF Free, AtFile, AfterFiles, AtEvidence
<1>6. Rested'
  <2>1. ctl \in {"wave", "closing"}
    BY <1>0, WorkingCtl
  <2> QED BY <1>0, <2>1 DEF Rested
<1>7. Apart(queue', worker')
  <2>1. Apart(queue, worker')
    BY <1>0, <1>3, EmptyList, SmallerApart
  <2> QED BY <2>1
<1>8. RunningHeld'
  <2>1. \A e \in Events : event'[e].status = "running" => event[e].status = "running" /\ ~ Holds(w, e)
    BY <1>2 DEF Holds
  <2> QED BY <1>0, <1>2, <2>1, RunningHeldAfter
<1>9. GoodAnalyzed'
  BY <1>0, <1>2, EmptyList, GoodAnalyzedAfter DEF GoodAnalyzed
<1>10. Counted'
  <2>1. count' \in Counts
    BY <1>4 DEF Typed
  <2>2. /\ count'.total = count.total /\ count'.failed = count.failed /\ count'.groups = count.groups
        /\ count'.groupsDone = count.groupsDone /\ count'.completed = count.completed - LenGood(worker, w)
        /\ count.completed \in Int /\ count.failed \in Int /\ count.groupsDone \in Int
    BY <1>0, <1>1, CountTyped DEF Counts
  <2>3. run.stop # "open"
    BY DEF Stopped
  <2>6. /\ count'.failed >= count.failed /\ count'.groupsDone >= count.groupsDone
        /\ count'.completed - count.completed >= LenGood(worker', w) - LenGood(worker, w)
    BY <1>1, <2>2
  <2> QED BY <1>0, <1>2, <2>1, <2>2, <2>3, <2>6, CountedAfter
<1> QED BY <1>4, <1>5, <1>6, <1>7, <1>8, <1>9, <1>10 DEF DeferredInvariant

\* The first of the processed captures is done.
Popped(w) == worker' = [worker EXCEPT ![w].pc = "finalize", ![w].good = Tail(@)]

LEMMA Pops ==
    ASSUME Typed, NEW w \in Workers, worker[w].todo = <<>>, worker[w].good # <<>>, Popped(w)
    PROVE  Became(w, "finalize", <<>>, Tail(worker[w].good))
<1> DEFINE good == Tail(worker[w].good)
           r == [worker[w] EXCEPT !.pc = "finalize", !.good = good]
<1>1. good \in Seq(Events)
  BY WorkerTyped, TailOfList
<1>2. worker \in [Workers -> WorkerStates]
  BY DEF Typed
<1>3. worker' = [worker EXCEPT ![w] = r]
  BY <1>2 DEF Popped
<1> HIDE DEF good
<1>4. r \in WorkerStates /\ r.pc = "finalize" /\ r.todo = <<>> /\ r.good = good
  BY <1>1, WorkerTyped DEF WorkerStates, Pcs
<1> HIDE DEF r
<1>5. Became(w, "finalize", <<>>, good)
  BY <1>2, <1>3, <1>4, WorkerSet DEF Became
<1> QED BY <1>5 DEF good

LEMMA PopKept ==
    ASSUME DeferredInvariant, NEW w \in Workers, worker[w].pc \in AfterFiles, worker[w].good # <<>>,
           NEW status \in {"complete", "error"},
           NEW why \in {"none", "failed", "missing", "killed", "combine"},
           SetStatus({Head(worker[w].good)}, status, why),
           Popped(w),
           \/ count' = count
           \/ count' = [count EXCEPT !.completed = @ - 1, !.failed = @ + 1],
           UNCHANGED <<disk, run, ctl, queue, job, analyzed, used>>
    PROVE  DeferredInvariant'
<1>0. /\ Typed /\ Shaped(worker) /\ Rested /\ Apart(queue, worker)
      /\ RunningHeld /\ GoodAnalyzed /\ Counted
  BY DEF DeferredInvariant
<1>1. /\ worker[w].todo = <<>> /\ worker[w].good \in Seq(Events) /\ Tail(worker[w].good) \in Seq(Events)
      /\ Len(Tail(worker[w].good)) = Len(worker[w].good) - 1
      /\ ToSet(worker[w].good) = {Head(worker[w].good)} \cup ToSet(Tail(worker[w].good))
  BY <1>0, WorkerTyped, TailOfList, MembersOfList DEF Shaped
<1>2. Became(w, "finalize", <<>>, Tail(worker[w].good))
  BY <1>0, <1>1, Pops
<1>3. worker'[w].todo = <<>> /\ worker'[w].good = Tail(worker[w].good) /\ worker'[w].pc = "finalize"
      /\ \A v \in Workers \ {w} : worker'[v] = worker[v]
  BY <1>2 DEF Became
<1>e. /\ event' \in [Events -> Rows]
      /\ \A e \in Events : event'[e].status = IF e \in {Head(worker[w].good)} THEN status ELSE event[e].status
  BY <1>0, StatusSet
<1>4. Typed'
  <2>1. count' \in Counts
    <3>1. CASE count' = count
      BY <1>0, <3>1, CountTyped
    <3>2. CASE count' = [count EXCEPT !.completed = @ - 1, !.failed = @ + 1]
      <4> DEFINE c == [count EXCEPT !.completed = @ - 1]
      <4>1. c \in Counts /\ c.failed \in Int
        BY <1>0, CountTyped DEF Counts
      <4>2. count' = [c EXCEPT !.failed = @ + 1]
        BY <3>2, <4>1, <1>0, CountTyped DEF Counts
      <4> HIDE DEF c
      <4> QED BY <4>1, <4>2 DEF Counts
    <3> QED BY <3>1, <3>2
  <2> QED BY <1>0, <1>2, <1>e, <2>1 DEF Typed, Became
<1>5. Shaped(worker')
  BY <1>0, <1>2, ShapedAfter DEF Free, AtFile, AfterFiles, AtEvidence
<1>6. Rested'
  <2>1. ctl \in {"wave", "closing"}
    BY <1>0, WorkingCtl DEF Free, AfterFiles, AtEvidence
  <2> QED BY <1>0, <2>1 DEF Rested
<1>7. Apart(queue', worker')
  <2>1. worker'[w].todo = <<>> /\ ToSet(worker'[w].good) \subseteq ToSet(worker[w].good)
    BY <1>1, <1>3
  <2>2. Apart(queue, worker')
    BY <1>0, <1>3, <2>1, SmallerApart
  <2> QED BY <2>2
<1>8. RunningHeld'
  <2>1. \A e \in Events : event'[e].status = "running" =>
           event[e].status = "running" /\ e # Head(worker[w].good)
    BY <1>e
  <2>2. \A e \in Events : e # Head(worker[w].good) /\ Holds(w, e) => Holds(w, e)'
    BY <1>1, <1>3 DEF Holds, AtFile, AfterFiles, AtEvidence
  <2> QED BY <1>0, <1>2, <2>1, <2>2, RunningHeldAfter
<1>9. GoodAnalyzed'
  BY <1>0, <1>1, <1>2, GoodAnalyzedAfter DEF GoodAnalyzed
<1>10. Counted'
  <2>1. count' \in Counts
    BY <1>4 DEF Typed
  <2>2. /\ count'.total = count.total /\ count'.groups = count.groups /\ count'.groupsDone = count.groupsDone
        /\ \/ count'.completed = count.completed /\ count'.failed = count.failed
           \/ count'.completed = count.completed - 1 /\ count'.failed = count.failed + 1
        /\ count.completed \in Int /\ count.failed \in Int /\ count.groupsDone \in Int
    BY <1>0, CountTyped DEF Counts
  <2>3. LenTodo(worker', w) = LenTodo(worker, w) /\ LenGood(worker', w) = LenGood(worker, w) - 1
    BY <1>1, <1>3 DEF LenTodo, LenGood
  <2>4. LenTodo(worker, w) \in Nat /\ LenGood(worker, w) \in Nat
    BY <1>0, <1>2, SumsAfter
  <2>5. (count'.completed - count.completed) + (count'.failed - count.failed)
          = LenTodo(worker, w) - LenTodo(worker', w)
    BY <2>2, <2>3, <2>4
  <2>6. /\ count'.failed >= count.failed /\ count'.groupsDone >= count.groupsDone
        /\ count'.completed - count.completed >= LenGood(worker', w) - LenGood(worker, w)
    BY <2>2, <2>3, <2>4
  <2> QED BY <1>0, <1>2, <2>1, <2>2, <2>5, <2>6, CountedAfter
<1> QED BY <1>4, <1>5, <1>6, <1>7, <1>8, <1>9, <1>10 DEF DeferredInvariant

LEMMA GroupDoneKept ==
    ASSUME DeferredInvariant, NEW w \in Workers, GroupDone(w)
    PROVE  DeferredInvariant'
<1>0. /\ Typed /\ Shaped(worker) /\ Rested /\ Apart(queue, worker)
      /\ RunningHeld /\ GoodAnalyzed /\ Counted
  BY DEF DeferredInvariant
<1>1. /\ worker[w].pc = "finalize" /\ worker[w].good = <<>> /\ worker[w].todo = <<>>
      /\ count' = [count EXCEPT !.groupsDone = @ + 1]
      /\ UNCHANGED <<event, disk, run, ctl, queue, job, analyzed, used>>
  BY <1>0 DEF GroupDone, Shaped, AfterFiles
<1>2. Became(w, "idle", <<>>, <<>>)
  <2>1. worker \in [Workers -> WorkerStates] /\ worker' = [worker EXCEPT ![w] = Idle]
    BY <1>0 DEF Typed, GroupDone
  <2> QED BY <2>1, IdleTyped, WorkerSet DEF Became
<1>3. worker'[w].todo = <<>> /\ worker'[w].good = <<>> /\ worker'[w].pc = "idle"
      /\ \A v \in Workers \ {w} : worker'[v] = worker[v]
  BY <1>2 DEF Became
<1>4. Typed'
  <2>1. count' \in Counts
    BY <1>0, <1>1, CountTyped DEF Counts
  <2> QED BY <1>0, <1>1, <1>2, <2>1 DEF Typed, Became
<1>5. Shaped(worker')
  BY <1>0, <1>2, ShapedAfter DEF Free, AtFile, AfterFiles, AtEvidence
<1>6. Rested'
  <2>1. ctl \in {"wave", "closing"}
    BY <1>0, <1>1, WorkingCtl DEF Free
  <2> QED BY <1>0, <1>1, <2>1 DEF Rested
<1>7. Apart(queue', worker')
  <2>1. Apart(queue, worker')
    BY <1>0, <1>1, <1>3, SmallerApart
  <2> QED BY <1>1, <2>1
<1>8. RunningHeld'
  <2>1. \A e \in Events : ~ Holds(w, e)
    BY <1>1, EmptyList DEF Holds, AtFile
  <2> QED BY <1>0, <1>1, <1>2, <2>1, RunningHeldAfter
<1>9. GoodAnalyzed'
  BY <1>0, <1>1, <1>2, EmptyList, GoodAnalyzedAfter DEF GoodAnalyzed
<1>10. Counted'
  <2>1. count' \in Counts
    BY <1>4 DEF Typed
  <2>2. /\ count'.total = count.total /\ count'.groups = count.groups
        /\ count'.groupsDone = count.groupsDone + 1
        /\ count'.completed = count.completed /\ count'.failed = count.failed
        /\ count.completed \in Int /\ count.failed \in Int /\ count.groupsDone \in Int
    BY <1>0, <1>1, CountTyped DEF Counts
  <2>3. LenTodo(worker', w) = LenTodo(worker, w) /\ LenGood(worker', w) = LenGood(worker, w)
    BY <1>1, <1>3 DEF LenTodo, LenGood
  <2>4. LenTodo(worker, w) \in Nat /\ LenGood(worker, w) \in Nat
    BY <1>0, <1>2, SumsAfter
  <2>5. (count'.completed - count.completed) + (count'.failed - count.failed)
          = LenTodo(worker, w) - LenTodo(worker', w)
    BY <2>2, <2>3, <2>4
  <2>6. /\ count'.failed >= count.failed /\ count'.groupsDone >= count.groupsDone
        /\ count'.completed - count.completed >= LenGood(worker', w) - LenGood(worker, w)
    BY <2>2, <2>3, <2>4
  <2> QED BY <1>0, <1>1, <1>2, <2>1, <2>2, <2>5, <2>6, CountedAfter
<1> QED BY <1>4, <1>5, <1>6, <1>7, <1>8, <1>9, <1>10 DEF DeferredInvariant

\* A file is analysed: it leaves the list and joins the processed captures.
Processed(w) ==
    worker' = [worker EXCEPT ![w].pc = "next", ![w].todo = Tail(@), ![w].good = Append(@, Current(w).id)]

LEMMA Processes ==
    ASSUME Typed, NEW w \in Workers, worker[w].todo # <<>>, Processed(w)
    PROVE  LET todo == Tail(worker[w].todo)
               good == Append(worker[w].good, Current(w).id)
           IN  /\ Became(w, "next", todo, good)
               /\ todo \in Seq(Snapshots) /\ good \in Seq(Events)
               /\ ToSet(good) = ToSet(worker[w].good) \cup {Current(w).id}
               /\ Len(todo) = Len(worker[w].todo) - 1 /\ Len(good) = Len(worker[w].good) + 1
<1> DEFINE id == Current(w).id
           todo == Tail(worker[w].todo)
           good == Append(worker[w].good, id)
           r == [worker[w] EXCEPT !.pc = "next", !.todo = todo, !.good = good]
<1>1. worker[w].todo \in Seq(Snapshots) /\ worker[w].good \in Seq(Events) /\ id \in Events
  BY WorkerTyped
<1>2. /\ todo \in Seq(Snapshots) /\ good \in Seq(Events) /\ ToSet(good) = ToSet(worker[w].good) \cup {id}
      /\ Len(todo) = Len(worker[w].todo) - 1 /\ Len(good) = Len(worker[w].good) + 1
  BY <1>1, TailOfList, MembersOfList, AppendProperties
<1>3. worker \in [Workers -> WorkerStates]
  BY DEF Typed
<1>4. worker' = [worker EXCEPT ![w] = r]
  BY <1>3 DEF Processed
<1> HIDE DEF todo, good
<1>5. r \in WorkerStates /\ r.pc = "next" /\ r.todo = todo /\ r.good = good
  BY <1>2, WorkerTyped DEF WorkerStates, Pcs
<1> HIDE DEF r
<1>6. Became(w, "next", todo, good)
  BY <1>3, <1>4, <1>5, WorkerSet DEF Became
<1> QED BY <1>2, <1>6 DEF todo, good, id

LEMMA AnalyzeKept ==
    ASSUME DeferredInvariant, NEW w \in Workers, Analyze(w)
    PROVE  DeferredInvariant'
<1>0. /\ Typed /\ Shaped(worker) /\ Rested /\ Apart(queue, worker)
      /\ RunningHeld /\ GoodAnalyzed /\ Counted
  BY DEF DeferredInvariant
<1> DEFINE id == Current(w).id
<1>1. worker[w].pc = "analyze" /\ UNCHANGED <<disk, run, ctl, queue, job, used>>
  BY DEF Analyze
<1>2. /\ worker[w].todo # <<>> /\ worker[w].todo \in Seq(Snapshots) /\ worker[w].good \in Seq(Events)
      /\ id \in Events /\ id = Head(worker[w].todo).id
  BY <1>0, <1>1, WorkerTyped DEF Shaped, AtFile, Current
<1>3. CASE /\ Processed(w)
           /\ count' = [count EXCEPT !.completed = @ + 1]
           /\ event' = [event EXCEPT ![id].analysis = @ \/ ModelEnabled]
           /\ analyzed' = analyzed \cup {id}
  <2> DEFINE todo == Tail(worker[w].todo)
             good == Append(worker[w].good, id)
  <2>1. /\ todo \in Seq(Snapshots) /\ good \in Seq(Events) /\ ToSet(good) = ToSet(worker[w].good) \cup {id}
        /\ Len(todo) = Len(worker[w].todo) - 1 /\ Len(good) = Len(worker[w].good) + 1
    BY <1>0, <1>2, <1>3, Processes
  <2>2. Became(w, "next", todo, good)
    BY <1>0, <1>2, <1>3, Processes
  <2>3. worker'[w].todo = todo /\ worker'[w].good = good /\ worker'[w].pc = "next"
        /\ \A v \in Workers \ {w} : worker'[v] = worker[v]
    BY <2>2 DEF Became
  <2>e. event' \in [Events -> Rows] /\ \A e \in Events : event'[e].status = event[e].status
    <3>1. event \in [Events -> Rows]
      BY <1>0 DEF Typed
    <3> DEFINE b == event[id].analysis \/ ModelEnabled
    <3>2. b \in BOOLEAN
      OBVIOUS
    <3>3. event' = [event EXCEPT ![id].analysis = b]
      BY <1>3
    <3> HIDE DEF b
    <3> QED BY <1>2, <3>1, <3>2, <3>3 DEF Rows
  <2> HIDE DEF todo, good, id
  <2>4. Typed'
    <3>1. count' \in Counts
      BY <1>0, <1>3, CountTyped DEF Counts
    <3>2. analyzed' \in SUBSET Events
      BY <1>0, <1>2, <1>3 DEF Typed
    <3> QED BY <1>0, <1>1, <2>2, <2>e, <3>1, <3>2 DEF Typed, Became
  <2>5. Shaped(worker')
    BY <1>0, <2>2, ShapedAfter DEF Free, AtFile, AfterFiles, AtEvidence
  <2>6. Rested'
    <3>1. ctl \in {"wave", "closing"}
      BY <1>0, <1>1, WorkingCtl DEF Free
    <3> QED BY <1>0, <1>1, <3>1 DEF Rested
  <2>7. Apart(queue', worker')
    <3>1. Apart(queue, worker')
      BY <1>0, <1>2, <2>3, ApartProcessed DEF todo, good
    <3> QED BY <1>1, <3>1
  <2>8. RunningHeld'
    <3>1. \A e \in Events : Holds(w, e) => Holds(w, e)'
      BY <2>1, <2>3 DEF Holds, id
    <3> QED BY <1>0, <2>2, <2>e, <3>1, RunningHeldAfter
  <2>9. GoodAnalyzed'
    BY <1>0, <1>3, <2>1, <2>2, GoodAnalyzedAfter DEF GoodAnalyzed
  <2>10. Counted'
    <3>1. count' \in Counts
      BY <2>4 DEF Typed
    <3>2. /\ count'.total = count.total /\ count'.groups = count.groups /\ count'.groupsDone = count.groupsDone
          /\ count'.completed = count.completed + 1 /\ count'.failed = count.failed
          /\ count.completed \in Int /\ count.failed \in Int /\ count.groupsDone \in Int
      BY <1>0, <1>3, CountTyped DEF Counts
    <3>3. LenTodo(worker', w) = LenTodo(worker, w) - 1 /\ LenGood(worker', w) = LenGood(worker, w) + 1
      BY <2>1, <2>3 DEF LenTodo, LenGood
    <3>4. LenTodo(worker, w) \in Nat /\ LenGood(worker, w) \in Nat
      BY <1>0, <2>2, SumsAfter
    <3>5. (count'.completed - count.completed) + (count'.failed - count.failed)
            = LenTodo(worker, w) - LenTodo(worker', w)
      BY <3>2, <3>3, <3>4
    <3>6. /\ count'.failed >= count.failed /\ count'.groupsDone >= count.groupsDone
          /\ count'.completed - count.completed >= LenGood(worker', w) - LenGood(worker, w)
      BY <3>2, <3>3, <3>4
    <3> QED BY <1>0, <1>1, <2>2, <3>1, <3>2, <3>5, <3>6, CountedAfter
  <2> QED BY <2>4, <2>5, <2>6, <2>7, <2>8, <2>9, <2>10 DEF DeferredInvariant
<1>4. CASE \E why \in {"failed", "killed"} : Fail(w, why) /\ UNCHANGED analyzed
  BY <1>1, <1>4, FailKept DEF AtFile
<1>5. CASE Stopped /\ Abandon(w, {id}) /\ UNCHANGED analyzed
  BY <1>1, <1>5, AbandonKept DEF Free
<1> QED BY <1>3, <1>4, <1>5 DEF Analyze, Processed

\* A free worker gets the head of the queue, or leaves.
LEMMA Takes ==
    ASSUME DeferredInvariant, NEW w \in Workers, Take(w)
    PROVE  Became(w, IF Stopped THEN "exited" ELSE "next", IF Stopped THEN <<>> ELSE Head(queue), <<>>)
<1>0. Typed
  BY DEF DeferredInvariant
<1>1. /\ queue # <<>>
      /\ worker' = [worker EXCEPT ![w] =
            IF Stopped THEN [Idle EXCEPT !.pc = "exited"]
            ELSE [Idle EXCEPT !.pc = "next", !.todo = Head(queue)]]
  BY DEF Take
<1>2. Head(queue) \in Seq(Snapshots)
  BY <1>0, <1>1, TailOfList DEF Typed
<1>3. Became(w, IF Stopped THEN "exited" ELSE "next", IF Stopped THEN <<>> ELSE Head(queue), <<>>)
  <2>1. CASE Stopped
    <3>1. worker \in [Workers -> WorkerStates] /\ worker' = [worker EXCEPT ![w] = [Idle EXCEPT !.pc = "exited"]]
      BY <1>0, <1>1, <2>1 DEF Typed
    <3> QED BY <2>1, <3>1, IdleTyped, WorkerSet DEF Became
  <2>2. CASE ~ Stopped
    <3> DEFINE s == [Idle EXCEPT !.pc = "next", !.todo = Head(queue)]
    <3>1. worker \in [Workers -> WorkerStates] /\ worker' = [worker EXCEPT ![w] = s]
      BY <1>0, <1>1, <2>2 DEF Typed
    <3>2. s \in WorkerStates /\ s.pc = "next" /\ s.todo = Head(queue) /\ s.good = <<>>
      <4> DEFINE h == Head(queue)
      <4>1. h \in Seq(Snapshots) /\ <<>> \in Seq(Events)
        BY <1>2
      <4> HIDE DEF h, Snapshots
      <4>2. [Idle EXCEPT !.pc = "next", !.todo = h] \in WorkerStates
        BY <4>1 DEF Idle, WorkerStates, Pcs, Places
      <4>3. s = [Idle EXCEPT !.pc = "next", !.todo = h]
        BY DEF h
      <4> QED BY <4>2, <4>3 DEF Idle, h
    <3> HIDE DEF s
    <3> QED BY <2>2, <3>1, <3>2, WorkerSet DEF Became
  <2> QED BY <2>1, <2>2
<1> QED BY <1>3

LEMMA TakeKept ==
    ASSUME DeferredInvariant, NEW w \in Workers, Take(w)
    PROVE  DeferredInvariant'
<1>0. /\ Typed /\ Shaped(worker) /\ Rested /\ Apart(queue, worker)
      /\ RunningHeld /\ GoodAnalyzed /\ Counted
  BY DEF DeferredInvariant
<1>1. /\ ctl = "wave" /\ queue # <<>> /\ worker[w].pc = "idle" /\ queue' = Tail(queue)
      /\ UNCHANGED <<event, disk, run, ctl, count, job, analyzed, used>>
  BY DEF Take
<1>2. /\ worker[w].todo = <<>> /\ worker[w].good = <<>>
      /\ queue \in Seq(Seq(Snapshots)) /\ Tail(queue) \in Seq(Seq(Snapshots)) /\ Head(queue) \in Seq(Snapshots)
  BY <1>0, <1>1, TailOfList DEF Shaped, Free, Typed
<1> DEFINE pc == IF Stopped THEN "exited" ELSE "next"
           todo == IF Stopped THEN <<>> ELSE Head(queue)
<1>3. Became(w, pc, todo, <<>>)
  BY Takes
<1>4. worker'[w].todo = todo /\ worker'[w].good = <<>> /\ worker'[w].pc = pc
      /\ \A v \in Workers \ {w} : worker'[v] = worker[v]
  BY <1>3 DEF Became
<1>5. (pc = "exited" /\ todo = <<>>) \/ (pc = "next" /\ todo = Head(queue))
  OBVIOUS
<1>6. run.stop = "open" => todo = Head(queue)
  BY DEF Stopped
<1> HIDE DEF pc, todo
<1>7. Typed'
  BY <1>0, <1>1, <1>2, <1>3 DEF Typed, Became
<1>8. Shaped(worker')
  BY <1>0, <1>3, <1>5, ShapedAfter DEF Free, AtFile, AfterFiles, AtEvidence
<1>9. Rested'
  BY <1>1 DEF Rested
<1>10. Apart(queue', worker')
  <2>1. Apart(Tail(queue), worker')
    <3>1. worker'[w].todo = Head(queue) \/ worker'[w].todo = <<>>
      BY <1>4, <1>5
    <3>2. worker'[w].good = <<>> /\ \A v \in Workers \ {w} : worker'[v] = worker[v]
      BY <1>4
    <3>3. queue \in Seq(Seq(Snapshots)) /\ queue # <<>> /\ Apart(queue, worker)
      BY <1>0, <1>1, <1>2
    <3> QED BY <3>1, <3>2, <3>3, ApartTaken
  <2> QED BY <1>1, <2>1
<1>11. RunningHeld'
  <2>1. \A e \in Events : ~ Holds(w, e)
    BY <1>1, <1>2, EmptyList DEF Holds, AtFile
  <2> QED BY <1>0, <1>1, <1>3, <2>1, RunningHeldAfter
<1>12. GoodAnalyzed'
  BY <1>0, <1>1, <1>3, EmptyList, GoodAnalyzedAfter DEF GoodAnalyzed
<1>13. Counted'
  <2>1. /\ Todo(worker) \in Nat /\ Good(worker) \in Nat /\ Todo(worker') \in Nat /\ Good(worker') \in Nat
        /\ LenTodo(worker, w) \in Nat /\ LenGood(worker, w) \in Nat
        /\ LenTodo(worker', w) \in Nat /\ LenGood(worker', w) \in Nat
        /\ Todo(worker) - LenTodo(worker, w) = Todo(worker') - LenTodo(worker', w)
        /\ Good(worker) - LenGood(worker, w) = Good(worker') - LenGood(worker', w)
    BY <1>0, <1>3, SumsAfter
  <2>2. /\ LenTodo(worker, w) = 0 /\ LenGood(worker, w) = 0 /\ LenGood(worker', w) = 0
        /\ LenTodo(worker', w) = Len(todo)
    BY <1>2, <1>4, EmptyList DEF LenTodo, LenGood
  <2>3. Good(worker') = Good(worker) /\ Todo(worker') = Todo(worker) + LenTodo(worker', w)
    BY <2>1, <2>2
  <2>4. Files(queue) = Len(Head(queue)) + Files(Tail(queue)) /\ Files(Tail(queue)) \in Nat
    BY <1>1, <1>2, FilesOfQueue
  <2>5. ASSUME run.stop = "open"
        PROVE  count.total = count.completed + count.failed + Files(queue') + Todo(worker')
    <3>1. Files(queue) = LenTodo(worker', w) + Files(queue') /\ Files(queue') \in Nat
      BY <1>1, <1>6, <2>2, <2>4, <2>5
    <3>2. count.total = count.completed + count.failed + Files(queue) + Todo(worker)
      BY <1>0, <2>5 DEF Counted
    <3>3. count.completed \in Int /\ count.failed \in Int
      BY <1>0, CountTyped
    <3> QED BY <2>1, <2>3, <3>1, <3>2, <3>3
  <2> QED BY <1>0, <1>1, <2>3, <2>5 DEF Counted
<1> QED BY <1>7, <1>8, <1>9, <1>10, <1>11, <1>12, <1>13 DEF DeferredInvariant

LEMMA StepKept ==
    ASSUME DeferredInvariant, NEW w \in Workers, NEW pc \in Pcs \ Free, worker[w].pc \notin Free, Step(w, pc),
           pc \in AtFile => worker[w].todo # <<>>,
           pc \in AfterFiles => worker[w].todo = <<>>,
           pc \in AtEvidence => worker[w].good # <<>>,
           worker[w].pc \in AtFile => pc \in AtFile,
           event' \in [Events -> Rows], disk' \in [Events -> DiskRows],
           \A e \in Events : event'[e].status = "running" =>
              event[e].status = "running" \/ (pc \in AtFile /\ e = Current(w).id),
           UNCHANGED <<run, ctl, queue, count, job, used>>,
           analyzed' \in SUBSET Events, \A v \in Workers : ToSet(worker[v].good) \subseteq analyzed'
    PROVE  DeferredInvariant'
<1>1. Became(w, pc, worker[w].todo, worker[w].good)
  BY Steps DEF DeferredInvariant
<1>2. SameIds(worker[w].todo, worker[w].todo)
  BY DEF SameIds
<1> QED BY <1>1, <1>2, StaysApart

LEMMA TypedParts ==
    ASSUME DeferredInvariant
    PROVE  /\ Typed /\ event \in [Events -> Rows] /\ disk \in [Events -> DiskRows]
           /\ analyzed \in SUBSET Events /\ \A v \in Workers : ToSet(worker[v].good) \subseteq analyzed
BY DEF DeferredInvariant, Typed, GoodAnalyzed

LEMMA NextFileKept ==
    ASSUME DeferredInvariant, NEW w \in Workers, NextFile(w)
    PROVE  DeferredInvariant'
<1>1. /\ worker[w].pc = "next" /\ worker[w].todo # <<>> /\ Current(w) \in Snapshots /\ Current(w).id \in Events
      /\ UNCHANGED <<disk, run, ctl, queue, job, used>>
  BY TypedParts, WorkerTyped DEF NextFile
<1>2. CASE Stopped
  <2>1. Abandon(w, {}) /\ UNCHANGED analyzed
    BY <1>2 DEF NextFile
  <2> QED BY <1>1, <1>2, <2>1, AbandonKept DEF Free, AtFile
<1>3. CASE ~ Stopped
  <2> DEFINE pc == IF ~Current(w).audio /\ Current(w).iq # "none" THEN "derive" ELSE "check"
  <2>1. /\ SetStatus({Current(w).id}, "running", "none") /\ Step(w, pc)
        /\ analyzed' = analyzed \ {Current(w).id} /\ UNCHANGED count
    BY <1>3 DEF NextFile
  <2>2. pc \in {"derive", "check"}
    OBVIOUS
  <2>3. /\ event' \in [Events -> Rows]
        /\ \A e \in Events : event'[e].status = IF e \in {Current(w).id} THEN "running" ELSE event[e].status
    BY <2>1, TypedParts, StatusSet
  <2>4. \A v \in Workers : ToSet(worker[v].good) \subseteq analyzed'
    <3>1. 1 \in DOMAIN worker[w].todo /\ Current(w) = worker[w].todo[1]
      BY <1>1, TypedParts, WorkerTyped, TailOfList DEF Current
    <3>2. \A v \in Workers : Current(w).id \notin ToSet(worker[v].good)
      BY <3>1 DEF DeferredInvariant, Apart
    <3> QED BY <2>1, <3>2, TypedParts
  <2>5. analyzed' \in SUBSET Events /\ disk' \in [Events -> DiskRows]
    BY <1>1, <2>1, TypedParts
  <2> HIDE DEF pc
  <2> QED BY <1>1, <2>1, <2>2, <2>3, <2>4, <2>5, StepKept, SMTT(30) DEF Pcs, Free, AtFile, AfterFiles, AtEvidence
<1> QED BY <1>2, <1>3

LEMMA DeriveKept ==
    ASSUME DeferredInvariant, NEW w \in Workers, Derive(w)
    PROVE  DeferredInvariant'
<1> DEFINE s == Current(w)
<1>1. worker[w].pc = "derive" /\ UNCHANGED <<run, ctl, queue, job, analyzed, used>>
  BY DEF Derive
<1>2. worker[w].todo # <<>> /\ s \in Snapshots /\ s.id \in Events
  BY <1>1, TypedParts, WorkerTyped DEF DeferredInvariant, Shaped, AtFile
<1>3. CASE disk' = [disk EXCEPT ![s.id].audio = TRUE] /\ Step(w, "link") /\ UNCHANGED <<event, count>>
  <2>1. disk' \in [Events -> DiskRows]
    BY <1>2, <1>3, TypedParts DEF DiskRows
  <2> HIDE DEF s
  <2>2. /\ event' \in [Events -> Rows] /\ analyzed' \in SUBSET Events
        /\ \A v \in Workers : ToSet(worker[v].good) \subseteq analyzed'
        /\ \A e \in Events : event'[e].status = event[e].status
    BY <1>1, <1>3, TypedParts
  <2> QED BY <1>1, <1>2, <1>3, <2>1, <2>2, StepKept DEF Pcs, Free, AtFile, AfterFiles, AtEvidence
<1>4. CASE \E why \in {"missing", "failed"} : Fail(w, why) /\ UNCHANGED disk
  BY <1>1, <1>4, FailKept DEF AtFile
<1> QED BY <1>3, <1>4 DEF Derive

LEMMA Links ==
    ASSUME DeferredInvariant, NEW w \in Workers, Link(w)
    PROVE  \E todo : /\ Became(w, "classify", todo, worker[w].good)
                     /\ SameIds(todo, worker[w].todo) /\ todo \in Seq(Snapshots)
<1> DEFINE head == [worker[w].todo[1] EXCEPT !.audio = TRUE]
           todo == [worker[w].todo EXCEPT ![1] = head]
           r == [worker[w] EXCEPT !.pc = "classify", !.todo = todo]
<1>1. /\ worker[w].pc = "link" /\ worker \in [Workers -> WorkerStates]
      /\ worker' = [worker EXCEPT ![w].pc = "classify", ![w].todo[1].audio = TRUE]
  BY TypedParts DEF Link, Typed
<1>2. /\ worker[w].todo # <<>> /\ worker[w].todo \in Seq(Snapshots)
      /\ worker[w] \in WorkerStates
  BY <1>1, TypedParts, WorkerTyped DEF DeferredInvariant, Shaped, AtFile
<1>3. 1 \in DOMAIN worker[w].todo /\ worker[w].todo[1] \in Snapshots
  BY <1>2, TailOfList
<1>4. head \in Snapshots /\ head.id = worker[w].todo[1].id
  BY <1>3 DEF Snapshots
<1>5. todo \in Seq(Snapshots) /\ SameIds(todo, worker[w].todo)
  <2> DEFINE old == worker[w].todo
             n == Len(old)
  <2>1. n \in Nat /\ DOMAIN old = 1..n /\ \A j \in 1..n : old[j] \in Snapshots
    BY <1>2, LenProperties, ElementOfSeq
  <2> HIDE DEF head
  <2>2. /\ todo = [j \in 1..n |-> IF j = 1 THEN head ELSE old[j]]
        /\ DOMAIN todo = 1..n
    <3>1. old = [j \in 1..n |-> old[j]]
      BY <1>2, <2>1
    <3> HIDE DEF old, n
    <3>2. [old EXCEPT ![1] = head] = [j \in 1..n |-> IF j = 1 THEN head ELSE old[j]]
      BY <2>1
    <3> QED BY <2>1, <3>2 DEF old
  <2> HIDE DEF todo
  <2>3. \A j \in 1..n : todo[j] \in Snapshots /\ todo[j].id = old[j].id
    BY <1>4, <2>1, <2>2
  <2>4. todo \in Seq(Snapshots)
    <3>1. todo = [j \in 1..n |-> todo[j]]
      BY <2>2
    <3> HIDE DEF n
    <3> QED BY <2>1, <2>3, <3>1
  <2> QED BY <2>1, <2>2, <2>3, <2>4 DEF SameIds
<1>6. Became(w, "classify", todo, worker[w].good)
  <2>1. worker \in [Workers -> WorkerStates]
    BY TypedParts DEF Typed
  <2>2. worker' = [worker EXCEPT ![w] = r]
    BY <1>1, <2>1
  <2> HIDE DEF todo
  <2>3. r \in WorkerStates /\ r.pc = "classify" /\ r.todo = todo /\ r.good = worker[w].good
    BY <1>2, <1>5 DEF WorkerStates, Pcs
  <2> HIDE DEF r
  <2> QED BY <2>1, <2>2, <2>3, WorkerSet DEF Became
<1> QED BY <1>5, <1>6

LEMMA LinkKept ==
    ASSUME DeferredInvariant, NEW w \in Workers, Link(w)
    PROVE  DeferredInvariant'
<1> DEFINE id == Current(w).id
<1>1. /\ worker[w].pc = "link" /\ UNCHANGED <<disk, run, ctl, queue, count, job, analyzed, used>>
      /\ event' = [event EXCEPT ![id].audio = TRUE]
  BY DEF Link
<1>2. worker[w].todo # <<>> /\ id \in Events
  BY <1>1, TypedParts, WorkerTyped DEF DeferredInvariant, Shaped, AtFile
<1>3. PICK todo : /\ Became(w, "classify", todo, worker[w].good)
                  /\ SameIds(todo, worker[w].todo) /\ todo \in Seq(Snapshots)
  BY Links
<1>7. event' \in [Events -> Rows] /\ \A e \in Events : event'[e].status = event[e].status
  <2> HIDE DEF id
  <2> QED BY <1>1, <1>2, TypedParts, ZenonT(60) DEF Rows
<1>8. /\ disk' \in [Events -> DiskRows] /\ analyzed' \in SUBSET Events
      /\ \A v \in Workers : ToSet(worker[v].good) \subseteq analyzed'
      /\ UNCHANGED <<run, ctl, queue, count, job, used>>
  BY <1>1, TypedParts
<1> QED BY <1>1, <1>2, <1>3, <1>7, <1>8, StaysApart DEF Pcs, Free, AtFile, AfterFiles, AtEvidence

LEMMA MovesKept ==
    ASSUME DeferredInvariant, NEW w \in Workers, NEW pc \in Pcs \ Free, worker[w].pc \notin Free,
           worker[w].pc \notin AtFile, pc \notin AtFile, worker[w].todo = <<>>,
           Became(w, pc, worker[w].todo, worker[w].good),
           pc \in AtEvidence => worker[w].good # <<>>,
           event' \in [Events -> Rows], disk' \in [Events -> DiskRows],
           \A e \in Events : event'[e].status = event[e].status,
           UNCHANGED <<run, ctl, queue, count, job, analyzed, used>>
    PROVE  DeferredInvariant'
<1>1. SameIds(worker[w].todo, worker[w].todo)
  BY DEF SameIds
<1>2. analyzed' \in SUBSET Events /\ \A v \in Workers : ToSet(worker[v].good) \subseteq analyzed'
  BY TypedParts
<1> QED BY <1>1, <1>2, StaysApart

Disposed(w, pc, place) == worker' = [worker EXCEPT ![w].pc = pc, ![w].dest = place]
Combined(w, result) == worker' = [worker EXCEPT ![w].pc = "decide", ![w].combine = result]

LEMMA Disposes ==
    ASSUME Typed, NEW w \in Workers, NEW pc \in Pcs, NEW place \in Places, Disposed(w, pc, place)
    PROVE  Became(w, pc, worker[w].todo, worker[w].good)
<1> DEFINE r == [worker[w] EXCEPT !.pc = pc, !.dest = place]
<1>1. r \in WorkerStates /\ r.pc = pc /\ r.todo = worker[w].todo /\ r.good = worker[w].good
  BY WorkerTyped DEF WorkerStates
<1>2. worker \in [Workers -> WorkerStates]
  BY DEF Typed
<1>3. worker' = [worker EXCEPT ![w] = r]
  BY <1>2 DEF Disposed
<1> HIDE DEF r
<1> QED BY <1>1, <1>2, <1>3, WorkerSet DEF Became

LEMMA Combines ==
    ASSUME Typed, NEW w \in Workers, NEW result \in {"ok", "failed"}, Combined(w, result)
    PROVE  Became(w, "decide", worker[w].todo, worker[w].good)
<1> DEFINE r == [worker[w] EXCEPT !.pc = "decide", !.combine = result]
<1>1. r \in WorkerStates /\ r.pc = "decide" /\ r.todo = worker[w].todo /\ r.good = worker[w].good
  BY WorkerTyped DEF WorkerStates, Pcs
<1>2. worker \in [Workers -> WorkerStates]
  BY DEF Typed
<1>3. worker' = [worker EXCEPT ![w] = r]
  BY <1>2 DEF Combined
<1> HIDE DEF r
<1> QED BY <1>1, <1>2, <1>3, WorkerSet DEF Became

LEMMA ClassifyKept ==
    ASSUME DeferredInvariant, NEW w \in Workers, Classify(w)
    PROVE  DeferredInvariant'
<1> DEFINE id == Current(w).id
<1>1. /\ worker[w].pc = "classify" /\ UNCHANGED <<disk, run, ctl, queue, count, job, analyzed, used>>
      /\ event' = [event EXCEPT ![id].analysis = TRUE] /\ Step(w, "check")
  BY DEF Classify
<1>2. worker[w].todo # <<>> /\ id \in Events
  BY <1>1, TypedParts, WorkerTyped DEF DeferredInvariant, Shaped, AtFile
<1> HIDE DEF id
<1>3. event' \in [Events -> Rows] /\ \A e \in Events : event'[e].status = event[e].status
  BY <1>1, <1>2, TypedParts, ZenonT(60) DEF Rows
<1>4. /\ disk' \in [Events -> DiskRows] /\ analyzed' \in SUBSET Events
      /\ \A v \in Workers : ToSet(worker[v].good) \subseteq analyzed'
  BY <1>1, TypedParts
<1> QED BY <1>1, <1>2, <1>3, <1>4, StepKept DEF Pcs, Free, AtFile, AfterFiles, AtEvidence

LEMMA CheckFilesKept ==
    ASSUME DeferredInvariant, NEW w \in Workers, CheckFiles(w)
    PROVE  DeferredInvariant'
<1>1. worker[w].pc = "check" /\ UNCHANGED <<disk, run, ctl, queue, job, analyzed, used>>
  BY DEF CheckFiles
<1>2. worker[w].todo # <<>>
  BY <1>1 DEF DeferredInvariant, Shaped, AtFile
<1>3. CASE Fail(w, "missing")
  BY <1>1, <1>3, FailKept DEF AtFile
<1>4. CASE Step(w, "analyze") /\ UNCHANGED <<event, count>>
  <2>1. /\ event' \in [Events -> Rows] /\ disk' \in [Events -> DiskRows] /\ analyzed' \in SUBSET Events
        /\ \A v \in Workers : ToSet(worker[v].good) \subseteq analyzed'
        /\ \A e \in Events : event'[e].status = event[e].status
    BY <1>1, <1>4, TypedParts
  <2> QED BY <1>1, <1>2, <1>4, <2>1, StepKept DEF Pcs, Free, AtFile, AfterFiles, AtEvidence
<1> QED BY <1>3, <1>4 DEF CheckFiles

LEMMA CombineKept ==
    ASSUME DeferredInvariant, NEW w \in Workers, Combine(w)
    PROVE  DeferredInvariant'
<1>1. /\ worker[w].pc = "next" /\ worker[w].todo = <<>>
      /\ UNCHANGED <<disk, run, ctl, queue, job, analyzed, used>>
  BY DEF Combine
<1>2. CASE Stopped /\ Abandon(w, {})
  BY <1>1, <1>2, AbandonKept DEF Free, AtFile
<1>3. CASE /\ \E result \in {"ok", "failed"} : Combined(w, result)
           /\ event' \in [Events -> Rows]
           /\ \A e \in Events : event'[e].status = event[e].status
           /\ UNCHANGED count
  <2>1. Became(w, "decide", worker[w].todo, worker[w].good)
    BY <1>3, TypedParts, Combines
  <2>2. /\ disk' \in [Events -> DiskRows] /\ event' \in [Events -> Rows]
        /\ \A e \in Events : event'[e].status = event[e].status
        /\ UNCHANGED <<run, ctl, queue, count, job, analyzed, used>>
    BY <1>1, <1>3, TypedParts
  <2> QED BY <1>1, <2>1, <2>2, MovesKept DEF Pcs, Free, AtFile, AtEvidence
<1>4. CASE /\ Combined(w, "ok")
           /\ event' = [e \in Events |->
                   IF e \in ToSet(worker[w].good) /\ ModelEnabled THEN [event[e] EXCEPT !.analysis = TRUE] ELSE event[e]]
           /\ UNCHANGED count
  <2> DEFINE row(e) == [event[e] EXCEPT !.analysis = TRUE]
  <2>1. \A e \in Events : row(e) \in Rows /\ row(e).status = event[e].status
    BY TypedParts DEF Rows
  <2>2. \A e \in Events : event[e] \in Rows
    BY TypedParts
  <2>3. \A e \in Events : event'[e] = row(e) \/ event'[e] = event[e]
    BY <1>4
  <2>4. event' = [e \in Events |-> event'[e]]
    BY <1>4
  <2> HIDE DEF row
  <2>5. event' \in [Events -> Rows] /\ \A e \in Events : event'[e].status = event[e].status
    BY <2>1, <2>2, <2>3, <2>4
  <2> QED BY <1>3, <1>4, <2>5
<1>5. CASE Combined(w, "failed") /\ UNCHANGED <<event, count>>
  BY <1>3, <1>5, TypedParts
<1> QED BY <1>2, <1>4, <1>5 DEF Combine, Combined

LEMMA DecideKept ==
    ASSUME DeferredInvariant, NEW w \in Workers, Decide(w)
    PROVE  DeferredInvariant'
<1>1. worker[w].pc = "decide" /\ UNCHANGED <<disk, run, ctl, queue, job, analyzed, used>>
  BY DEF Decide
<1>2. CASE Stopped
  BY <1>1, <1>2, AbandonKept DEF Decide, Free, AtFile
<1>3. CASE ~ Stopped
  <2>1. Step(w, "finalize") /\ UNCHANGED <<event, count>>
    BY <1>3 DEF Decide
  <2>2. Became(w, "finalize", worker[w].todo, worker[w].good)
    BY <2>1, TypedParts, Steps DEF Pcs
  <2>3. worker[w].todo = <<>>
    BY <1>1 DEF DeferredInvariant, Shaped, AfterFiles
  <2>4. /\ event' \in [Events -> Rows] /\ disk' \in [Events -> DiskRows]
        /\ \A e \in Events : event'[e].status = event[e].status
    BY <1>1, <2>1, TypedParts
  <2> QED BY <1>1, <2>1, <2>2, <2>3, <2>4, MovesKept DEF Pcs, Free, AtFile, AtEvidence
<1> QED BY <1>2, <1>3

\* The steps that handle the first processed capture.
LEMMA AtHead ==
    ASSUME DeferredInvariant, NEW w \in Workers,
           worker[w].pc \in AtEvidence \/ (worker[w].pc = "finalize" /\ worker[w].good # <<>>)
    PROVE  /\ worker[w].todo = <<>> /\ worker[w].good # <<>>
           /\ Head(worker[w].good) \in Events /\ Head(worker[w].good) \in analyzed
           /\ worker[w].pc \notin Free /\ worker[w].pc \notin AtFile /\ worker[w].pc \in AfterFiles
           /\ worker[w].dest \in Places
<1>1. worker[w].todo = <<>> /\ worker[w].good # <<>>
  BY DEF DeferredInvariant, Shaped, AfterFiles
<1>2. worker[w].good \in Seq(Events) /\ Head(worker[w].good) \in Events /\ worker[w].dest \in Places
  BY <1>1, TypedParts, WorkerTyped
<1>3. Head(worker[w].good) \in analyzed
  BY <1>1, <1>2, TypedParts, MembersOfList
<1> QED BY <1>1, <1>2, <1>3 DEF Free, AtFile, AfterFiles, AtEvidence

LEMMA MoveSidecarKept ==
    ASSUME DeferredInvariant, NEW w \in Workers, MoveSidecar(w)
    PROVE  DeferredInvariant'
<1> DEFINE e == Head(worker[w].good)
           place == worker[w].dest
<1>1. /\ worker[w].pc = "sidecar" /\ disk' = [disk EXCEPT ![e].meta = place] /\ Step(w, "store")
      /\ UNCHANGED <<event, run, ctl, queue, count, job, analyzed, used>>
  BY DEF MoveSidecar
<1>2. /\ worker[w].todo = <<>> /\ worker[w].good # <<>> /\ e \in Events /\ place \in Places
      /\ worker[w].pc \notin Free /\ worker[w].pc \notin AtFile
  BY <1>1, AtHead DEF AtEvidence
<1> HIDE DEF e, place
<1>3. /\ disk' \in [Events -> DiskRows] /\ event' \in [Events -> Rows]
      /\ \A d \in Events : event'[d].status = event[d].status
      /\ UNCHANGED <<run, ctl, queue, count, job, analyzed, used>>
  BY <1>1, <1>2, TypedParts DEF DiskRows
<1>4. Became(w, "store", worker[w].todo, worker[w].good)
  BY <1>1, TypedParts, Steps DEF Pcs
<1> QED BY <1>2, <1>3, <1>4, MovesKept DEF Pcs, Free, AtFile

LEMMA StorePathKept ==
    ASSUME DeferredInvariant, NEW w \in Workers, StorePath(w)
    PROVE  DeferredInvariant'
<1> DEFINE e == Head(worker[w].good)
           place == worker[w].dest
<1>1. /\ worker[w].pc = "store" /\ event' = [event EXCEPT ![e].iq = place] /\ Step(w, "mark")
      /\ UNCHANGED <<disk, run, ctl, queue, count, job, analyzed, used>>
  BY DEF StorePath
<1>2. /\ worker[w].todo = <<>> /\ worker[w].good # <<>> /\ e \in Events /\ place \in Places
      /\ worker[w].pc \notin Free /\ worker[w].pc \notin AtFile
  BY <1>1, AtHead DEF AtEvidence
<1> HIDE DEF e, place
<1>3. /\ disk' \in [Events -> DiskRows] /\ event' \in [Events -> Rows]
      /\ \A d \in Events : event'[d].status = event[d].status
      /\ UNCHANGED <<run, ctl, queue, count, job, analyzed, used>>
  BY <1>1, <1>2, TypedParts DEF Rows
<1>4. Became(w, "mark", worker[w].todo, worker[w].good)
  BY <1>1, TypedParts, Steps DEF Pcs
<1> QED BY <1>2, <1>3, <1>4, MovesKept DEF Pcs, Free, AtFile

LEMMA MarkCompleteKept ==
    ASSUME DeferredInvariant, NEW w \in Workers, MarkComplete(w)
    PROVE  DeferredInvariant'
<1>1. /\ worker[w].pc = "mark" /\ SetStatus({Head(worker[w].good)}, "complete", "none") /\ Popped(w)
      /\ UNCHANGED <<disk, run, ctl, queue, count, job, analyzed, used>>
  BY DEF MarkComplete, Popped
<1>2. worker[w].good # <<>> /\ worker[w].pc \in AfterFiles
  BY <1>1, AtHead DEF AtEvidence
<1> QED BY <1>1, <1>2, PopKept

LEMMA FinalizeFailsKept ==
    ASSUME DeferredInvariant, NEW w \in Workers, worker[w].pc = "finalize", worker[w].good # <<>>,
           NEW why \in {"combine", "missing"}, FinalizeFails(w, why),
           UNCHANGED <<disk, run, ctl, queue, job, analyzed, used>>
    PROVE  DeferredInvariant'
<1>1. /\ SetStatus({Head(worker[w].good)}, "error", why) /\ Popped(w)
      /\ count' = [count EXCEPT !.completed = @ - 1, !.failed = @ + 1]
  BY DEF FinalizeFails, Popped
<1> QED BY <1>1, PopKept DEF AfterFiles

LEMMA FinalizeKept ==
    ASSUME DeferredInvariant, NEW w \in Workers, Finalize(w)
    PROVE  DeferredInvariant'
<1> DEFINE e == Head(worker[w].good)
           iq == event[e].iq
<1>1. /\ worker[w].pc = "finalize" /\ worker[w].good # <<>>
      /\ UNCHANGED <<run, ctl, queue, job, analyzed, used>>
  BY DEF Finalize
<1>2. /\ worker[w].todo = <<>> /\ e \in Events
      /\ worker[w].pc \notin Free /\ worker[w].pc \notin AtFile
  BY <1>1, AtHead
<1>3. iq \in Places
  BY <1>2, TypedParts DEF Rows
<1>4. CASE \E why \in {"combine", "missing"} : FinalizeFails(w, why) /\ UNCHANGED disk
  BY <1>1, <1>4, FinalizeFailsKept
<1>5. CASE Step(w, "mark") /\ UNCHANGED <<event, disk, count>>
  <2>1. Became(w, "mark", worker[w].todo, worker[w].good)
    BY <1>5, TypedParts, Steps DEF Pcs
  <2>2. /\ disk' \in [Events -> DiskRows] /\ event' \in [Events -> Rows]
        /\ \A d \in Events : event'[d].status = event[d].status
    BY <1>5, TypedParts
  <2> QED BY <1>1, <1>2, <1>5, <2>1, <2>2, MovesKept DEF Pcs, Free, AtFile
<1>6. CASE Disposed(w, "store", iq) /\ UNCHANGED <<event, disk, count>>
  <2> HIDE DEF iq
  <2>1. Became(w, "store", worker[w].todo, worker[w].good)
    BY <1>3, <1>6, TypedParts, Disposes DEF Pcs
  <2>2. /\ disk' \in [Events -> DiskRows] /\ event' \in [Events -> Rows]
        /\ \A d \in Events : event'[d].status = event[d].status
    BY <1>6, TypedParts
  <2> QED BY <1>1, <1>2, <1>6, <2>1, <2>2, MovesKept DEF Pcs, Free, AtFile
<1>7. CASE \E place \in {"none", "kept"} :
              /\ disk' = [disk EXCEPT ![e].iq = place]
              /\ Disposed(w, "sidecar", place)
              /\ UNCHANGED <<event, count>>
  <2>0. PICK place \in {"none", "kept"} :
              /\ disk' = [disk EXCEPT ![e].iq = place]
              /\ Disposed(w, "sidecar", place)
              /\ UNCHANGED <<event, count>>
    BY <1>7
  <2> HIDE DEF e, iq
  <2>1. Became(w, "sidecar", worker[w].todo, worker[w].good)
    BY <2>0, TypedParts, Disposes DEF Pcs, Places
  <2>2. /\ disk' \in [Events -> DiskRows] /\ event' \in [Events -> Rows]
        /\ \A d \in Events : event'[d].status = event[d].status
    BY <1>2, <2>0, TypedParts DEF DiskRows, Places
  <2> QED BY <1>1, <1>2, <2>0, <2>1, <2>2, MovesKept DEF Pcs, Free, AtFile
<1> QED BY <1>4, <1>5, <1>6, <1>7 DEF Finalize, Disposed

LEMMA WorkerStepKept ==
    ASSUME DeferredInvariant, NEW w \in Workers, WorkerStep(w)
    PROVE  DeferredInvariant'
BY TakeKept, NextFileKept, DeriveKept, LinkKept, ClassifyKept, CheckFilesKept, AnalyzeKept, CombineKept,
   DecideKept, FinalizeKept, MoveSidecarKept, StorePathKept, MarkCompleteKept, GroupDoneKept DEF WorkerStep

-----------------------------------------------------------------------------
(* The other steps *)

Ctls == {"off", "wave", "closing", "idle", "watch", "ending"}
Jobs == {"running", "finishing", "none"}

\* Steps that leave the workers and the counters alone, and start no run.
LEMMA QuietKept ==
    ASSUME DeferredInvariant, UNCHANGED <<worker, count, analyzed>>,
           event' \in [Events -> Rows], disk' \in [Events -> DiskRows],
           \A e \in Events : event'[e].status = "running" => event[e].status = "running",
           run' \in RunStates, ctl' \in Ctls, run'.running <=> ctl' # "off",
           job' \in Jobs, used' \in Uses,
           run'.stop = "open" => run.stop = "open",
           queue' = queue \/ (queue' = <<>> /\ run'.stop # "open"),
           ctl' \notin {"wave", "closing"} => \A w \in Workers : worker[w].pc \in Free,
           (run'.stop = "open" /\ ctl' # "wave") => queue = <<>>
    PROVE  DeferredInvariant'
<1>0. /\ Typed /\ Shaped(worker) /\ Rested /\ Apart(queue, worker)
      /\ RunningHeld /\ GoodAnalyzed /\ Counted
  BY DEF DeferredInvariant
<1>1. Typed'
  <2>1. queue' \in Seq(Seq(Snapshots))
    <3>1. <<>> \in Seq(Seq(Snapshots)) /\ queue \in Seq(Seq(Snapshots))
      <4> HIDE DEF Snapshots
      <4> QED BY <1>0 DEF Typed
    <3> QED BY <3>1
  <2> QED BY <1>0, <2>1 DEF Typed, Ctls, Jobs
<1>2. Shaped(worker') /\ Rested'
  BY <1>0 DEF Rested
<1>3. Apart(queue', worker')
  <2>1. CASE queue' = queue
    BY <1>0, <2>1
  <2>2. CASE queue' = <<>>
    <3>1. Apart(<<>>, worker)
      BY <1>0, EmptyList DEF Apart, IdsApart
    <3> QED BY <2>2, <3>1
  <2> QED BY <2>1, <2>2
<1>4. RunningHeld'
  BY <1>0 DEF RunningHeld, Holds, Current
<1>5. GoodAnalyzed'
  BY <1>0 DEF GoodAnalyzed
<1>6. Counted'
  BY <1>0 DEF Counted
<1> QED BY <1>1, <1>2, <1>3, <1>4, <1>5, <1>6 DEF DeferredInvariant

\* A wave begins: nobody was at work.
LEMMA WaveKept ==
    ASSUME DeferredInvariant, \A w \in Workers : worker[w].pc \in Free,
           NEW S \in SUBSET Events, queue' = GroupsOf(S),
           worker' = [w \in Workers |-> Idle], ctl' = "wave",
           UNCHANGED <<event, disk, analyzed>>,
           run' \in RunStates, run'.running, job' \in Jobs, used' \in Uses, count' \in Counts,
           \A f \in {"total", "completed", "failed", "groups", "groupsDone"} : count'[f] >= 0,
           run'.stop = "open" => count'.total = count'.completed + count'.failed + Files(GroupsOf(S))
    PROVE  DeferredInvariant'
<1>0. Typed /\ Shaped(worker) /\ RunningHeld
  BY DEF DeferredInvariant
<1>1. /\ GroupsOf(S) \in Seq(Seq(Snapshots)) /\ IdsApart(GroupsOf(S))
  BY <1>0, GroupsAreApart DEF Typed
<1>2. \A w \in Workers : /\ worker'[w] \in WorkerStates /\ worker'[w].pc = "idle"
                         /\ worker'[w].todo = <<>> /\ worker'[w].good = <<>>
  BY IdleTyped
<1>3. Typed'
  <2>1. worker' \in [Workers -> WorkerStates]
    BY IdleTyped
  <2> QED BY <1>0, <1>1, <2>1 DEF Typed, Jobs
<1>4. Shaped(worker')
  BY <1>2 DEF Shaped, Free, AtFile, AfterFiles, AtEvidence
<1>5. Rested'
  BY DEF Rested
<1>6. Apart(queue', worker')
  <2>1. Apart(GroupsOf(S), worker')
    BY <1>1, <1>2, ApartFresh
  <2> QED BY <2>1
<1>7. RunningHeld'
  <2>1. \A w \in Workers, e \in Events : ~ Holds(w, e)
    BY <1>0, EmptyList DEF Holds, Shaped, Free, AtFile
  <2> QED BY <1>0, <2>1 DEF RunningHeld
<1>8. GoodAnalyzed'
  BY <1>2, EmptyList DEF GoodAnalyzed
<1>9. Counted'
  <2>1. Todo(worker') = 0 /\ Good(worker') = 0
    BY <1>2, SumsAtRest
  <2>2. Files(queue') = Files(GroupsOf(S)) /\ Files(GroupsOf(S)) \in Nat
    BY <1>1, FilesOfQueue
  <2>3. /\ count'.completed \in Int /\ count'.failed \in Int /\ count'.total \in Int
        /\ count'.completed >= 0
    BY DEF Counts
  <2>4. Good(worker') <= count'.completed
    BY <2>1, <2>3
  <2>5. run'.stop = "open" => count'.total = count'.completed + count'.failed + Files(queue') + Todo(worker')
    BY <2>1, <2>2, <2>3
  <2> QED BY <2>4, <2>5 DEF Counted
<1> QED BY <1>3, <1>4, <1>5, <1>6, <1>7, <1>8, <1>9 DEF DeferredInvariant

LEMMA InvariantParts ==
    ASSUME DeferredInvariant
    PROVE  /\ event \in [Events -> Rows] /\ disk \in [Events -> DiskRows] /\ run \in RunStates
           /\ ctl \in Ctls /\ (run.running <=> ctl # "off") /\ queue \in Seq(Seq(Snapshots))
           /\ count \in Counts /\ job \in Jobs /\ used \in Uses
           /\ ctl \notin {"wave", "closing"} => \A w \in Workers : worker[w].pc \in Free
           /\ (run.stop = "open" /\ ctl # "wave") => queue = <<>>
BY DEF DeferredInvariant, Typed, Rested, Ctls, Jobs

\* StartRun.
LEMMA StartRunKept ==
    ASSUME DeferredInvariant, NEW scope \in SUBSET Events, CanStart(scope), StartRun(scope),
           UNCHANGED <<event, disk, analyzed>>, job' \in Jobs, used' \in Uses
    PROVE  DeferredInvariant'
<1> DEFINE S == Pending(scope)
           n == Files(GroupsOf(S))
           m == Len(GroupsOf(S))
<1>1. S \in SUBSET Events
  BY DEF Pending
<1>2. /\ run' = [running |-> TRUE, stop |-> "open", scope |-> scope] /\ ctl' = "wave"
      /\ queue' = GroupsOf(S) /\ worker' = [w \in Workers |-> Idle]
      /\ count' = [Zero EXCEPT !.total = n, !.groups = m]
  BY DEF StartRun
<1>3. \A w \in Workers : worker[w].pc \in Free
  BY InvariantParts DEF CanStart
<1>4. n \in Nat /\ m \in Nat
  <2>1. GroupsOf(S) \in Seq(Seq(Snapshots)) /\ m \in Nat
    BY <1>1, InvariantParts, GroupsAreApart
  <2> QED BY <2>1, FilesOfQueue
<1>5. run' \in RunStates /\ run'.running
  BY <1>2 DEF RunStates
<1> HIDE DEF n, m, S
<1>6. /\ count' \in Counts /\ count'.total = n /\ count'.groups = m
      /\ count'.completed = 0 /\ count'.failed = 0 /\ count'.groupsDone = 0
  <2> DEFINE c == [Zero EXCEPT !.total = n]
  <2>1. /\ c \in Counts /\ c.total = n /\ c.groups = 0
        /\ c.completed = 0 /\ c.failed = 0 /\ c.groupsDone = 0
    BY <1>4 DEF Zero, Counts
  <2>2. count' = [c EXCEPT !.groups = m]
    BY <1>2 DEF Zero
  <2> HIDE DEF c
  <2> QED BY <1>4, <2>1, <2>2 DEF Counts
<1>7. \A f \in {"total", "completed", "failed", "groups", "groupsDone"} : count'[f] >= 0
  BY <1>4, <1>6
<1>8. count'.total = count'.completed + count'.failed + Files(GroupsOf(S))
  BY <1>4, <1>6 DEF n
<1>9. queue' = GroupsOf(S) /\ worker' = [w \in Workers |-> Idle] /\ ctl' = "wave"
  BY <1>2
<1> QED BY <1>1, <1>3, <1>5, <1>6, <1>7, <1>8, <1>9, WaveKept

\* registerDeferredGroups.
LEMMA NextWaveKept ==
    ASSUME DeferredInvariant, ctl \in {"closing", "watch"}, \A w \in Workers : worker[w].pc \in Free,
           NextWave(GroupsOf(Pending(run.scope))),
           UNCHANGED <<event, disk, run, job, analyzed, used>>
    PROVE  DeferredInvariant'
<1> DEFINE S == Pending(run.scope)
           n == Files(GroupsOf(S))
           m == Len(GroupsOf(S))
<1>1. S \in SUBSET Events
  BY InvariantParts DEF Pending, RunStates
<1>2. /\ ctl' = "wave" /\ queue' = GroupsOf(S) /\ worker' = [w \in Workers |-> Idle]
      /\ count' = [count EXCEPT !.total = @ + n, !.groups = @ + m]
  BY DEF NextWave
<1>4. n \in Nat /\ m \in Nat
  <2>1. GroupsOf(S) \in Seq(Seq(Snapshots)) /\ m \in Nat
    BY <1>1, InvariantParts, GroupsAreApart
  <2> QED BY <2>1, FilesOfQueue
<1>5. run' \in RunStates /\ run'.running /\ job' \in Jobs /\ used' \in Uses /\ run'.stop = run.stop
  BY InvariantParts
<1> HIDE DEF n, m, S
<1>6. /\ count' \in Counts /\ count'.total = count.total + n /\ count'.groups = count.groups + m
      /\ count'.completed = count.completed /\ count'.failed = count.failed
      /\ count'.groupsDone = count.groupsDone
      /\ count.total \in Int /\ count.groups \in Int /\ count.completed \in Int /\ count.failed \in Int
  <2> DEFINE c == [count EXCEPT !.total = @ + n]
  <2>0. count \in Counts /\ count.total \in Int /\ count.groups \in Int
    BY InvariantParts DEF Counts
  <2>5. count.total + n \in Int
    BY <1>4, <2>0
  <2>1. /\ c \in Counts /\ c.total = count.total + n /\ c.groups = count.groups
        /\ c.completed = count.completed /\ c.failed = count.failed /\ c.groupsDone = count.groupsDone
    BY <2>0, <2>5 DEF Counts
  <2>2. count' = [c EXCEPT !.groups = @ + m]
    BY <1>2, <2>0 DEF Counts
  <2>3. count.total \in Int /\ count.groups \in Int /\ count.completed \in Int /\ count.failed \in Int
    BY InvariantParts DEF Counts
  <2> HIDE DEF c
  <2> QED BY <1>4, <2>1, <2>2, <2>3 DEF Counts
<1>0. Typed /\ Shaped(worker) /\ Counted /\ queue \in Seq(Seq(Snapshots))
  BY InvariantParts DEF DeferredInvariant
<1>7. \A f \in {"total", "completed", "failed", "groups", "groupsDone"} : count'[f] >= 0
  <2>1. \A f \in {"total", "completed", "failed", "groups", "groupsDone"} : count[f] >= 0
    BY <1>0 DEF Counted
  <2> QED BY <1>4, <1>6, <2>1
<1>8. ASSUME run'.stop = "open"
      PROVE  count'.total = count'.completed + count'.failed + Files(GroupsOf(S))
  <2>1. queue = <<>>
    BY <1>5, <1>8, InvariantParts
  <2>2. Files(queue) = 0
    BY <1>0, <2>1, FilesOfQueue
  <2>3. Todo(worker) = 0
    BY <1>0, SumsAtRest DEF Shaped
  <2>4. count.total = count.completed + count.failed + Files(queue) + Todo(worker)
    BY <1>0, <1>5, <1>8 DEF Counted
  <2>5. count'.total = count'.completed + count'.failed + n
    BY <1>4, <1>6, <2>2, <2>3, <2>4
  <2> QED BY <2>5 DEF n
<1>9. queue' = GroupsOf(S) /\ worker' = [w \in Workers |-> Idle] /\ ctl' = "wave"
  BY <1>2
<1> QED BY <1>1, <1>5, <1>6, <1>7, <1>8, <1>9, WaveKept

LEMMA StatusRow ==
    ASSUME NEW row \in Rows, NEW status \in {"pending", "complete", "unavailable"},
           NEW why \in {"none", "removed"}
    PROVE  LET r == WithStatus(row, status, why)
           IN  r \in Rows /\ r.status = status /\ r.audio = row.audio /\ r.iq = row.iq /\ r.analysis = row.analysis
<1> DEFINE done == status \in {"complete", "error"}
<1>1. done \in BOOLEAN /\ WithStatus(row, status, why)
                            = [row EXCEPT !.status = status, !.error = why, !.completed = done]
  BY DEF WithStatus
<1> HIDE DEF done
<1> QED BY <1>1 DEF Rows

LEMMA UnavailableRow ==
    ASSUME NEW row \in Rows
    PROVE  LET r == [WithStatus(row, "unavailable", "removed") EXCEPT !.completed = FALSE]
           IN  r \in Rows /\ r.status = "unavailable" /\ r.audio = row.audio /\ r.iq = row.iq
<1> DEFINE s == WithStatus(row, "unavailable", "removed")
<1>1. s \in Rows /\ s.status = "unavailable" /\ s.audio = row.audio /\ s.iq = row.iq
  BY StatusRow
<1> HIDE DEF s
<1>2. LET r == [s EXCEPT !.completed = FALSE]
      IN  r \in Rows /\ r.status = "unavailable" /\ r.audio = row.audio /\ r.iq = row.iq
  BY <1>1 DEF Rows
<1> QED BY <1>2 DEF s

\* ReconcileRemovedMedia never puts a capture to work.
LEMMA WithoutRemovedRow ==
    ASSUME NEW e \in Events, event[e] \in Rows, disk[e] \in DiskRows
    PROVE  /\ WithoutRemoved(e) \in Rows
           /\ WithoutRemoved(e).status = event[e].status \/ WithoutRemoved(e).status = "unavailable"
           /\ WithoutRemoved(e).iq \in {event[e].iq, "none"}
           /\ WithoutRemoved(e).audio => event[e].audio
<1> DEFINE row == event[e]
           audio == row.audio /\ disk[e].audio
           iq == IF row.iq = disk[e].iq THEN row.iq ELSE "none"
           linked == [row EXCEPT !.audio = audio, !.iq = iq]
           gone == [WithStatus(linked, "unavailable", "removed") EXCEPT !.completed = FALSE]
<1>1. /\ audio \in BOOLEAN /\ iq \in Places /\ row \in Rows
      /\ iq \in {row.iq, "none"} /\ (audio => row.audio)
  BY DEF Rows, Places
<1> HIDE DEF audio, iq, row
<1>2. linked \in Rows /\ linked.status = row.status /\ linked.iq = iq /\ linked.audio = audio
  BY <1>1 DEF Rows
<1>3. gone \in Rows /\ gone.status = "unavailable" /\ gone.iq = iq /\ gone.audio = audio
  <2> HIDE DEF linked
  <2> QED BY <1>2, UnavailableRow
<1>4. WithoutRemoved(e) = linked \/ WithoutRemoved(e) = gone
  BY DEF WithoutRemoved, audio, iq, row
<1> HIDE DEF linked, gone
<1> QED BY <1>1, <1>2, <1>3, <1>4 DEF row

\* What ReconcileMedia makes of a row agrees with the files.
LEMMA RecoveredRow ==
    ASSUME NEW e \in Events, event[e] \in Rows, disk[e] \in DiskRows
    PROVE  /\ Recovered(e) \in Rows /\ Recovered(e).status # "running"
           /\ (event[e].status # "none" \/ HalfCaptured(e)) => Recovered(e).status # "none"
           /\ event[e].status # "none" =>
                /\ Recovered(e).iq \in {"none", disk[e].iq}
                /\ (disk[e].iq # "none" /\ disk[e].meta = disk[e].iq) => Recovered(e).iq = disk[e].iq
                /\ Recovered(e).audio => disk[e].audio
           /\ (event[e].status = "none" /\ ~HalfCaptured(e)) => Recovered(e) = event[e]
           /\ HalfCaptured(e) =>
                /\ (disk[e].iq # "none" /\ disk[e].meta = disk[e].iq) => Recovered(e).iq = disk[e].iq
                /\ Recovered(e).iq \in {"none", disk[e].iq}
                /\ Recovered(e).audio = disk[e].audio
<1> DEFINE row == event[e]
           iq == IF row.iq = "none" THEN "none" ELSE disk[e].iq
           audio == row.audio /\ disk[e].audio
           hadMedia == row.iq # "none" \/ row.audio
           requeued == IF row.status = "running" THEN WithStatus(row, "pending", "none") ELSE row
           judged == IF requeued.status = "pending" /\ requeued.analysis /\ ~requeued.completed
                     THEN WithStatus(requeued, "complete", "none") ELSE requeued
           gone == IF hadMedia /\ iq = "none" /\ ~audio
                   THEN [WithStatus(judged, "unavailable", "removed") EXCEPT !.completed = FALSE]
                   ELSE judged
           orphan == disk[e].iq # "none" /\ iq = "none" /\ disk[e].meta = disk[e].iq
           place == IF orphan THEN disk[e].iq ELSE iq
           known == [gone EXCEPT !.iq = place, !.audio = audio]
           new == [NotCaptured EXCEPT !.status = "pending", !.iq = place, !.audio = disk[e].audio]
<1>1. /\ row \in Rows /\ audio \in BOOLEAN /\ disk[e].audio \in BOOLEAN /\ place \in Places
      /\ audio => disk[e].audio
      /\ place \in {"none", disk[e].iq}
      /\ (disk[e].iq # "none" /\ disk[e].meta = disk[e].iq) => place = disk[e].iq
  BY DEF Rows, DiskRows, Places
<1>2. Recovered(e) = IF row.status # "none" THEN known ELSE IF ~HalfCaptured(e) THEN row ELSE new
  BY DEF Recovered
<1> HIDE DEF row, audio, hadMedia, place, orphan, iq
<1>3. requeued \in Rows /\ requeued.status # "running" /\ (row.status # "none" => requeued.status # "none")
  BY <1>1, StatusRow
<1> HIDE DEF requeued
<1>4. judged \in Rows /\ judged.status # "running" /\ (requeued.status # "none" => judged.status # "none")
  BY <1>3, StatusRow
<1> HIDE DEF judged
<1>5. gone \in Rows /\ gone.status # "running" /\ (judged.status # "none" => gone.status # "none")
  BY <1>4, UnavailableRow
<1> HIDE DEF gone
<1>6. known \in Rows /\ known.status = gone.status /\ known.iq = place /\ known.audio = audio
  BY <1>1, <1>5 DEF Rows
<1> DEFINE sound == disk[e].audio
<1>7. new \in Rows /\ new.status = "pending" /\ new.iq = place /\ new.audio = sound
  <2> DEFINE a == [NotCaptured EXCEPT !.status = "pending"]
             b == [a EXCEPT !.iq = place]
  <2>1. NotCaptured \in Rows
    BY DEF NotCaptured, Rows, Places
  <2>2. a \in Rows /\ a.status = "pending"
    BY <2>1 DEF Rows
  <2>3. new = [b EXCEPT !.audio = sound]
    BY <2>1 DEF Rows
  <2>4. sound \in BOOLEAN
    BY <1>1
  <2> HIDE DEF a, new, sound
  <2>5. b \in Rows /\ b.status = "pending" /\ b.iq = place
    BY <1>1, <2>2 DEF Rows
  <2> HIDE DEF b
  <2> QED BY <2>3, <2>4, <2>5 DEF Rows
<1> HIDE DEF known, new, sound
<1>8. HalfCaptured(e) => row.status = "none"
  BY DEF HalfCaptured, row
<1>9. CASE row.status # "none"
  <2>1. Recovered(e) = known /\ ~ HalfCaptured(e) /\ event[e].status # "none"
    BY <1>2, <1>8, <1>9 DEF row
  <2> QED BY <1>1, <1>3, <1>4, <1>5, <1>6, <1>9, <2>1
<1>10. CASE row.status = "none" /\ ~ HalfCaptured(e)
  <2>1. Recovered(e) = row /\ row = event[e]
    BY <1>2, <1>10 DEF row
  <2> QED BY <1>1, <1>10, <2>1
<1>11. CASE HalfCaptured(e)
  <2>1. Recovered(e) = new /\ event[e].status = "none"
    BY <1>2, <1>8, <1>11 DEF row
  <2> QED BY <1>1, <1>7, <1>11, <2>1 DEF sound
<1> QED BY <1>9, <1>10, <1>11

-----------------------------------------------------------------------------
(* At rest: the initial states, and those after a restart *)

AtRest ==
    /\ event \in [Events -> Rows] /\ disk \in [Events -> DiskRows]
    /\ \A e \in Events : event[e].status # "running"
    /\ run = NoRun /\ ctl = "off" /\ queue = <<>> /\ worker = [w \in Workers |-> Idle] /\ count = Zero
    /\ job \in Jobs /\ analyzed \in SUBSET Events /\ used \in Uses

LEMMA RestHolds == AtRest => DeferredInvariant
<1> SUFFICES ASSUME AtRest PROVE DeferredInvariant
  OBVIOUS
<1>1. \A w \in Workers : /\ worker[w] \in WorkerStates /\ worker[w].pc = "idle"
                         /\ worker[w].todo = <<>> /\ worker[w].good = <<>>
  BY IdleTyped DEF AtRest
<1>2. count \in Counts /\ \A f \in {"total", "completed", "failed", "groups", "groupsDone"} : count[f] = 0
  BY DEF AtRest, Zero, Counts
<1>3. run \in RunStates /\ ~ run.running /\ run.stop # "open"
  BY DEF AtRest, NoRun, RunStates
<1>4. Typed
  <2>1. worker \in [Workers -> WorkerStates] /\ queue \in Seq(Seq(Snapshots))
    <3>1. <<>> \in Seq(Seq(Snapshots))
      <4> HIDE DEF Snapshots
      <4> QED OBVIOUS
    <3>2. worker \in [Workers -> WorkerStates]
      BY IdleTyped DEF AtRest
    <3> QED BY <3>1, <3>2 DEF AtRest
  <2> QED BY <1>2, <1>3, <2>1 DEF AtRest, Typed, Jobs
<1>5. Shaped(worker)
  BY <1>1 DEF Shaped, Free, AtFile, AfterFiles, AtEvidence
<1>6. Rested
  BY <1>1, <1>3 DEF AtRest, Rested, Free
<1>7. Apart(queue, worker)
  <2>1. IdsApart(queue)
    BY EmptyList DEF AtRest, IdsApart
  <2> QED BY <1>1, <2>1, ApartFresh
<1>8. RunningHeld /\ GoodAnalyzed
  BY <1>1, EmptyList DEF AtRest, RunningHeld, GoodAnalyzed
<1>9. Counted
  <2>1. Good(worker) = 0
    BY <1>1, SumsAtRest
  <2> QED BY <1>2, <1>3, <2>1 DEF Counted
<1> QED BY <1>4, <1>5, <1>6, <1>7, <1>8, <1>9 DEF DeferredInvariant

LEMMA RestKept == AtRest' => DeferredInvariant'
BY RestHolds, PTL

LEMMA InitRests == Init => AtRest
<1> SUFFICES ASSUME Init PROVE AtRest
  OBVIOUS
<1>1. NotCaptured \in Rows /\ NotCaptured.status = "none"
  BY DEF NotCaptured, Rows, Places
<1>2. NoFiles \in DiskRows
  BY DEF NoFiles, DiskRows, Places
<1>3. used \in Uses
  BY DEF Init, Uses
<1> QED BY <1>1, <1>2, <1>3 DEF Init, AtRest, Jobs

LEMMA UsesStep ==
    ASSUME used \in Uses
    PROVE  /\ [used EXCEPT !.starts = @ + 1] \in Uses /\ [used EXCEPT !.prunes = @ + 1] \in Uses
           /\ [used EXCEPT !.restarts = @ + 1] \in Uses
BY DEF Uses

\* The Mapper job writes files, appends a capture, ends.
LEMMA WriteMediaKept ==
    ASSUME DeferredInvariant, NEW e \in Events, NEW kind, WriteMedia(e, kind)
    PROVE  DeferredInvariant'
<1>1. /\ disk' = [disk EXCEPT ![e] = Media(kind)]
      /\ UNCHANGED <<event, run, ctl, queue, worker, count, job, analyzed, used>>
  BY DEF WriteMedia
<1>2. Media(kind) \in DiskRows
  BY DEF Media, DiskRows, Places
<1>3. disk' \in [Events -> DiskRows]
  BY <1>1, <1>2, InvariantParts
<1> QED BY <1>1, <1>3, InvariantParts, QuietKept

LEMMA AppendEventKept ==
    ASSUME DeferredInvariant, NEW e \in Events, AppendEvent(e)
    PROVE  DeferredInvariant'
<1> DEFINE a == disk[e].audio
           q == disk[e].iq
           n1 == [NotCaptured EXCEPT !.status = "pending"]
           n2 == [n1 EXCEPT !.analysis = TRUE]
           n3 == [n2 EXCEPT !.audio = a]
           row == [n3 EXCEPT !.iq = q]
<1>0. NotCaptured \in Rows
  BY DEF NotCaptured, Rows, Places
<1>1. /\ event' = [event EXCEPT ![e] = row]
      /\ UNCHANGED <<disk, run, ctl, queue, worker, count, job, analyzed, used>>
  BY <1>0 DEF AppendEvent, Rows
<1>2. a \in BOOLEAN /\ q \in Places
  BY InvariantParts DEF DiskRows
<1>3. n1 \in Rows /\ n1.status = "pending"
  BY <1>0 DEF Rows
<1> HIDE DEF a, q, n1
<1>4. n2 \in Rows /\ n2.status = "pending"
  BY <1>3 DEF Rows
<1> HIDE DEF n2
<1>5. n3 \in Rows /\ n3.status = "pending"
  BY <1>2, <1>4 DEF Rows
<1> HIDE DEF n3
<1>6. row \in Rows /\ row.status = "pending"
  BY <1>2, <1>5 DEF Rows
<1> HIDE DEF row
<1>7. /\ event' \in [Events -> Rows]
      /\ \A d \in Events : event'[d].status = "running" => event[d].status = "running"
  BY <1>1, <1>6, InvariantParts
<1> QED BY <1>1, <1>7, InvariantParts, QuietKept

LEMMA FinishJobKept ==
    ASSUME DeferredInvariant, FinishJob
    PROVE  DeferredInvariant'
<1>1. job' = "finishing" /\ UNCHANGED <<event, disk, run, ctl, queue, worker, count, analyzed, used>>
  BY DEF FinishJob
<1> QED BY <1>1, InvariantParts, QuietKept DEF Jobs

LEMMA StutterKept ==
    ASSUME DeferredInvariant, UNCHANGED vars
    PROVE  DeferredInvariant'
<1>1. UNCHANGED <<event, disk, run, ctl, queue, worker, count, job, analyzed, used>>
  BY DEF vars
<1> QED BY <1>1, InvariantParts, QuietKept

LEMMA StartAfterJobKept ==
    ASSUME DeferredInvariant, StartAfterJob
    PROVE  DeferredInvariant'
<1>1. job' \in Jobs /\ UNCHANGED <<event, disk, analyzed, used>>
  BY DEF StartAfterJob, Jobs
<1>2. CASE CanStart(JobEvents)
  <2>1. StartRun(JobEvents)
    BY <1>2 DEF StartAfterJob
  <2> QED BY <1>1, <1>2, <2>1, InvariantParts, DeferredAssumption, StartRunKept
<1>3. CASE UNCHANGED <<run, ctl, queue, worker, count>>
  BY <1>1, <1>3, InvariantParts, QuietKept
<1> QED BY <1>2, <1>3 DEF StartAfterJob

LEMMA StartKept ==
    ASSUME DeferredInvariant, Start(Events)
    PROVE  DeferredInvariant'
<1>1. /\ CanStart(Events) /\ StartRun(Events) /\ used' = [used EXCEPT !.starts = @ + 1]
      /\ UNCHANGED <<event, disk, job, analyzed>>
  BY DEF Start
<1>2. used' \in Uses /\ job' \in Jobs
  BY <1>1, InvariantParts, UsesStep
<1> QED BY <1>1, <1>2, StartRunKept

LEMMA StopKept ==
    ASSUME DeferredInvariant, Stop
    PROVE  DeferredInvariant'
<1>1. /\ run' = [run EXCEPT !.stop = "closed"]
      /\ UNCHANGED <<event, disk, ctl, queue, worker, count, job, analyzed, used>>
  BY DEF Stop
<1>2. run' \in RunStates /\ run'.stop = "closed" /\ run'.running = run.running
  BY <1>1, InvariantParts DEF RunStates
<1> QED BY <1>1, <1>2, InvariantParts, QuietKept

LEMMA CloseWorkKept ==
    ASSUME DeferredInvariant, CloseWork
    PROVE  DeferredInvariant'
<1>1. /\ ctl = "wave" /\ (queue = <<>> \/ Stopped) /\ ctl' = "closing"
      /\ UNCHANGED <<event, disk, run, queue, worker, count, job, analyzed, used>>
  BY DEF CloseWork
<1> QED BY <1>1, InvariantParts, QuietKept DEF Ctls, Stopped

LEMMA EndWaveKept ==
    ASSUME DeferredInvariant, EndWave
    PROVE  DeferredInvariant'
<1>1. /\ ctl = "closing" /\ \A w \in Workers : worker[w].pc \in Free
      /\ UNCHANGED <<event, disk, run, job, analyzed, used>>
  BY DEF EndWave, WaveDone, Free
<1>2. CASE NextWave(GroupsOf(Pending(run.scope)))
  BY <1>1, <1>2, NextWaveKept
<1>3. CASE /\ ctl' = IF Stopped THEN "ending" ELSE "idle"
           /\ queue' = <<>> /\ UNCHANGED <<worker, count>>
  <2>1. ctl' \in {"ending", "idle"} /\ (run.running <=> ctl' # "off")
    BY <1>1, <1>3, InvariantParts
  <2>2. queue' = queue \/ (queue' = <<>> /\ run'.stop # "open")
    BY <1>1, <1>3, InvariantParts
  <2>3. (run'.stop = "open" /\ ctl' # "wave") => queue = <<>>
    BY <1>1, InvariantParts
  <2>4. run' = run /\ UNCHANGED <<worker, count, analyzed>>
    BY <1>1, <1>3
  <2> QED BY <1>1, <2>1, <2>2, <2>3, <2>4, InvariantParts, QuietKept DEF Ctls
<1> QED BY <1>2, <1>3 DEF EndWave

LEMMA LeaveIdleKept ==
    ASSUME DeferredInvariant, LeaveIdle
    PROVE  DeferredInvariant'
<1>1. /\ ctl = "idle" /\ ctl' = "ending"
      /\ UNCHANGED <<event, disk, run, queue, worker, count, job, analyzed, used>>
  BY DEF LeaveIdle
<1> QED BY <1>1, InvariantParts, QuietKept DEF Ctls

LEMMA KeepWatchingKept ==
    ASSUME DeferredInvariant, KeepWatching
    PROVE  DeferredInvariant'
<1>1. /\ ctl = "idle" /\ ctl' = "watch"
      /\ UNCHANGED <<event, disk, run, queue, worker, count, job, analyzed, used>>
  BY DEF KeepWatching
<1> QED BY <1>1, InvariantParts, QuietKept DEF Ctls

LEMMA PollKept ==
    ASSUME DeferredInvariant, Poll
    PROVE  DeferredInvariant'
<1>1. ctl = "watch" /\ UNCHANGED <<event, disk, run, job, analyzed, used>>
  BY DEF Poll
<1>2. CASE NextWave(GroupsOf(Pending(run.scope)))
  BY <1>1, <1>2, InvariantParts, NextWaveKept
<1>3. CASE ctl' \in {"ending", "idle"} /\ UNCHANGED <<queue, worker, count>>
  BY <1>1, <1>3, InvariantParts, QuietKept DEF Ctls
<1> QED BY <1>2, <1>3 DEF Poll

LEMMA EndRunKept ==
    ASSUME DeferredInvariant, EndRun
    PROVE  DeferredInvariant'
<1>1. /\ ctl = "ending" /\ ctl' = "off" /\ run' = NoRun
      /\ UNCHANGED <<event, disk, queue, worker, count, job, analyzed, used>>
  BY DEF EndRun
<1>2. run' \in RunStates /\ run'.stop = "none" /\ ~ run'.running
  BY <1>1 DEF NoRun, RunStates
<1> QED BY <1>1, <1>2, InvariantParts, QuietKept DEF Ctls

LEMMA ControllerKept ==
    ASSUME DeferredInvariant, Controller
    PROVE  DeferredInvariant'
BY CloseWorkKept, EndWaveKept, LeaveIdleKept, KeepWatchingKept, PollKept, EndRunKept DEF Controller

LEMMA ReconcileRemovedKept ==
    ASSUME DeferredInvariant, ReconcileRemoved
    PROVE  DeferredInvariant'
<1>1. /\ event' = [e \in Events |-> WithoutRemoved(e)]
      /\ UNCHANGED <<disk, run, ctl, queue, worker, count, job, analyzed, used>>
  BY DEF ReconcileRemoved
<1>2. \A e \in Events : /\ WithoutRemoved(e) \in Rows
                        /\ WithoutRemoved(e).status = event[e].status \/ WithoutRemoved(e).status = "unavailable"
  BY InvariantParts, WithoutRemovedRow
<1>3. /\ event' \in [Events -> Rows]
      /\ \A e \in Events : event'[e].status = "running" => event[e].status = "running"
  BY <1>1, <1>2
<1> QED BY <1>1, <1>3, InvariantParts, QuietKept

LEMMA PruneKept ==
    ASSUME DeferredInvariant, NEW e \in Events, Prune(e)
    PROVE  DeferredInvariant'
<1>1. /\ used' = [used EXCEPT !.prunes = @ + 1]
      /\ UNCHANGED <<event, run, ctl, queue, worker, count, job, analyzed>>
  BY DEF Prune
<1>2. used' \in Uses
  BY <1>1, InvariantParts, UsesStep
<1>3. disk' \in [Events -> DiskRows]
  <2>1. CASE disk' = [disk EXCEPT ![e].audio = FALSE]
    BY <2>1, InvariantParts DEF DiskRows
  <2>2. CASE disk' = [disk EXCEPT ![e].iq = "none"]
    BY <2>2, InvariantParts DEF DiskRows, Places
  <2>3. CASE disk' = [disk EXCEPT ![e].meta = "none"]
    BY <2>3, InvariantParts DEF DiskRows, Places
  <2> QED BY <2>1, <2>2, <2>3 DEF Prune
<1>4. UNCHANGED <<event, run, ctl, queue, worker, count, job, analyzed>>
  BY <1>1
<1> QED BY <1>2, <1>3, <1>4, InvariantParts, QuietKept

LEMMA RestartKept ==
    ASSUME DeferredInvariant, Restart
    PROVE  DeferredInvariant'
<1>1. /\ used' = [used EXCEPT !.restarts = @ + 1]
      /\ event' = [e \in Events |-> Recovered(e)]
      /\ run' = NoRun /\ ctl' = "off" /\ queue' = <<>> /\ count' = Zero
      /\ worker' = [w \in Workers |-> Idle] /\ job' = "none" /\ UNCHANGED <<disk, analyzed>>
  BY DEF Restart
<1>2. used' \in Uses
  BY <1>1, InvariantParts, UsesStep
<1>3. \A e \in Events : Recovered(e) \in Rows /\ Recovered(e).status # "running"
  BY InvariantParts, RecoveredRow
<1>4. event' \in [Events -> Rows] /\ \A e \in Events : event'[e].status # "running"
  BY <1>1, <1>3
<1>5. disk' \in [Events -> DiskRows] /\ analyzed' \in SUBSET Events /\ job' \in Jobs
  BY <1>1, InvariantParts, TypedParts DEF Jobs
<1>6. AtRest'
  BY <1>1, <1>2, <1>4, <1>5 DEF AtRest
<1> QED BY <1>6, RestKept

LEMMA UndisturbedKept ==
    ASSUME DeferredInvariant, Undisturbed
    PROVE  DeferredInvariant'
<1>1. JobEvents \subseteq Events
  BY DeferredAssumption
<1>2. ASSUME NEW e \in JobEvents, (\E kind \in MediaKinds : WriteMedia(e, kind)) \/ AppendEvent(e)
      PROVE  DeferredInvariant'
  BY <1>1, <1>2, WriteMediaKept, AppendEventKept
<1>3. ASSUME NEW w \in Workers, WorkerStep(w) PROVE DeferredInvariant'
  BY <1>3, WorkerStepKept
<1> QED BY <1>2, <1>3, FinishJobKept, StartAfterJobKept, StartKept, StopKept, ControllerKept,
           ReconcileRemovedKept DEF Undisturbed

LEMMA DeferredStep == DeferredInvariant /\ [Next]_vars => DeferredInvariant'
BY UndisturbedKept, PruneKept, RestartKept, StutterKept DEF Next

LEMMA DeferredInvariantHolds == Spec => []DeferredInvariant
<1>1. Init => DeferredInvariant
  BY InitRests, RestHolds
<1> QED BY <1>1, DeferredStep, PTL DEF Spec

-----------------------------------------------------------------------------
(* The invariants the runs check *)

LEMMA TypesHold == DeferredInvariant => TypeOK
<1> SUFFICES ASSUME DeferredInvariant PROVE TypeOK
  OBVIOUS
<1>1. Typed /\ Counted
  BY DEF DeferredInvariant
<1>2. count \in [DOMAIN Zero -> Nat]
  <2>1. DOMAIN Zero = {"total", "completed", "failed", "groups", "groupsDone"}
    BY DEF Zero
  <2>2. count = [f \in DOMAIN Zero |-> count[f]]
    BY <1>1, <2>1, CountTyped DEF Counts
  <2>3. \A f \in DOMAIN Zero : count[f] \in Int /\ count[f] >= 0
    BY <1>1, <2>1, CountTyped DEF Counted
  <2>4. \A f \in DOMAIN Zero : count[f] \in Nat
    BY <2>3
  <2> QED BY <2>2, <2>4
<1>3. \A e \in Events :
         /\ event[e].status \in {"none", "pending", "running", "complete", "error", "unavailable"}
         /\ event[e].error \in {"none", "failed", "missing", "killed", "combine", "removed"}
         /\ event[e].iq \in Places /\ {event[e].audio, event[e].analysis, event[e].completed} \subseteq BOOLEAN
         /\ disk[e].iq \in Places /\ disk[e].meta \in Places /\ disk[e].audio \in BOOLEAN
  <2> TAKE e \in Events
  <2>1. event[e] \in Rows /\ disk[e] \in DiskRows
    BY <1>1 DEF Typed
  <2> QED BY <2>1 DEF Rows, DiskRows
<1>4. run.running \in BOOLEAN /\ run.stop \in {"none", "open", "closed"} /\ run.scope \subseteq Events
  BY <1>1 DEF Typed, RunStates
<1>5. \A i \in DOMAIN queue : queue[i] \in Seq(Snapshots)
  BY <1>1, ElementOfSeq, LenProperties DEF Typed
<1>6. \A w \in Workers :
         /\ worker[w].pc \in Pcs /\ worker[w].todo \in Seq(Snapshots) /\ worker[w].good \in Seq(Events)
         /\ worker[w].combine \in {"none", "ok", "failed"} /\ worker[w].dest \in Places
  BY <1>1, WorkerTyped
<1>7. /\ run.running <=> ctl # "off"
      /\ ctl \in {"off", "wave", "closing", "idle", "watch", "ending"}
      /\ job \in {"running", "finishing", "none"} /\ analyzed \subseteq Events
  BY <1>1 DEF Typed
<1> QED BY <1>2, <1>3, <1>4, <1>5, <1>6, <1>7 DEF TypeOK, Pcs

LEMMA NoneStrandedHolds == DeferredInvariant => NoneStranded
<1> SUFFICES ASSUME DeferredInvariant, NEW e \in Events, event[e].status = "running"
             PROVE  \E w \in Workers : e \in Held(w)
  BY DEF NoneStranded
<1>1. PICK w \in Workers : Holds(w, e)
  BY DEF DeferredInvariant, RunningHeld
<1>2. worker[w].pc \in AtFile => worker[w].todo # <<>>
  BY DEF DeferredInvariant, Shaped
<1> QED BY <1>1, <1>2 DEF Holds, Held

LEMMA TotalsHold == DeferredInvariant => TotalsAddUp
<1> SUFFICES ASSUME DeferredInvariant, run.stop = "open"
             PROVE  count.total = count.completed + count.failed + Files(queue)
                                  + FoldSet(LAMBDA w, n : Len(worker[w].todo) + n, 0, Workers)
  BY DEF TotalsAddUp
<1>1. Typed /\ Counted
  BY DEF DeferredInvariant
<1>2. \A w \in Workers : Len(worker[w].todo) \in Nat
  BY <1>1, SumsTyped DEF Typed
<1>3. FoldSet(LAMBDA w, n : Len(worker[w].todo) + n, 0, Workers) = Todo(worker)
  BY <1>2, DeferredAssumption, TodoFold
<1>4. count.total = count.completed + count.failed + Files(queue) + Todo(worker)
  BY <1>1 DEF Counted
<1> QED BY <1>3, <1>4

-----------------------------------------------------------------------------
(* Evidence *)

LEMMA DisposedOf ==
    ASSUME DeferredInvariant, NEW w \in Workers, Finalize(w), NEW e \in Events, disk'[e].iq # disk[e].iq
    PROVE  /\ worker[w].good # <<>> /\ Head(worker[w].good) = e
           /\ worker[w].combine = "ok" /\ e \in analyzed
<1> DEFINE h == Head(worker[w].good)
           iq == event[h].iq
<1>1. worker[w].pc = "finalize" /\ worker[w].good # <<>>
  BY DEF Finalize
<1>2. h \in Events /\ h \in analyzed
  BY <1>1, AtHead
<1>3. worker[w].combine = "ok" /\ \E place \in Places : disk' = [disk EXCEPT ![h].iq = place]
  <2>1. disk' # disk
    OBVIOUS
  <2> HIDE DEF h
  <2> QED BY <2>1 DEF Finalize, Places, h
<1>4. e = h
  BY <1>2, <1>3, TypedParts
<1> QED BY <1>1, <1>2, <1>3, <1>4

LEMMA WorkerKeepsEvidence ==
    ASSUME DeferredInvariant, NEW w \in Workers, WorkerStep(w), NEW e \in Events, disk'[e].iq # disk[e].iq
    PROVE  /\ worker[w].good # <<>> /\ Head(worker[w].good) = e
           /\ worker[w].combine = "ok" /\ e \in analyzed
<1>1. CASE Finalize(w)
  BY <1>1, DisposedOf
<1>2. CASE Derive(w)
  <2>1. disk' = disk \/ disk' = [disk EXCEPT ![Current(w).id].audio = TRUE]
    BY <1>2 DEF Derive
  <2>2. disk'[e].iq = disk[e].iq
    BY <2>1, TypedParts DEF DiskRows
  <2> QED BY <2>2
<1>3. CASE MoveSidecar(w)
  <2>1. disk' = [disk EXCEPT ![Head(worker[w].good)].meta = worker[w].dest]
    BY <1>3 DEF MoveSidecar
  <2>2. disk'[e].iq = disk[e].iq
    BY <2>1, TypedParts DEF DiskRows
  <2> QED BY <2>2
<1>4. CASE UNCHANGED disk
  BY <1>4
<1> QED BY <1>1, <1>2, <1>3, <1>4 DEF WorkerStep, Take, NextFile, Link, Classify, CheckFiles, Analyze,
           Combine, Decide, StorePath, MarkComplete, GroupDone

LEMMA EvidenceStep ==
    ASSUME DeferredInvariant, [Next]_vars, NEW e \in Events,
           disk'[e].iq # disk[e].iq, event[e].status # "none", used' = used
    PROVE  \E w \in Workers : /\ worker[w].good # <<>> /\ Head(worker[w].good) = e
                              /\ worker[w].combine = "ok" /\ e \in analyzed
<1>1. ASSUME NEW d \in JobEvents, NEW kind \in MediaKinds, WriteMedia(d, kind) PROVE FALSE
  <2>1. disk' = [disk EXCEPT ![d] = Media(kind)] /\ event[d].status = "none"
    BY <1>1 DEF WriteMedia
  <2> QED BY <2>1, TypedParts
<1>2. CASE \E w \in Workers : WorkerStep(w)
  BY <1>2, WorkerKeepsEvidence
<1>3. ASSUME NEW d \in Events, Prune(d) PROVE FALSE
  <2>1. used' = [used EXCEPT !.prunes = @ + 1] /\ used \in Uses
    BY <1>3, InvariantParts DEF Prune
  <2>2. used'.prunes = used.prunes + 1 /\ used.prunes \in Nat
    BY <2>1 DEF Uses
  <2> QED BY <2>2
<1>4. disk' # disk
  OBVIOUS
<1>5. ~ UNCHANGED vars /\ ~ FinishJob /\ ~ StartAfterJob /\ ~ Start(Events) /\ ~ Stop /\ ~ ReconcileRemoved
      /\ ~ Restart /\ ~ \E d \in JobEvents : AppendEvent(d)
  BY <1>4 DEF vars, FinishJob, StartAfterJob, Start, Stop, ReconcileRemoved, Restart, AppendEvent
<1>6. ~ Controller
  BY <1>4 DEF Controller, CloseWork, EndWave, LeaveIdle, KeepWatching, Poll, EndRun
<1> QED BY <1>1, <1>2, <1>3, <1>5, <1>6 DEF Next, Undisturbed

-----------------------------------------------------------------------------
(* What is complete was analysed *)

\* Every step but MarkComplete leaves a capture incomplete, and NextFile takes
\* what it begins again back.
LEMMA CompleteAfter ==
    ASSUME CompleteMeansAnalyzed,
           \A e \in Events : event'[e].status = "complete" =>
              e \in analyzed' \/ (event[e].status = "complete" /\ (e \in analyzed => e \in analyzed'))
    PROVE  CompleteMeansAnalyzed'
BY DEF CompleteMeansAnalyzed

LEMMA FailNotComplete ==
    ASSUME DeferredInvariant, NEW w \in Workers, NEW S, NEW status \in {"pending", "running", "error"},
           NEW why \in {"none", "failed", "missing", "killed", "combine"}, SetStatus(S, status, why)
    PROVE  \A e \in Events : event'[e].status = "complete" => event[e].status = "complete" /\ e \notin S
BY TypedParts, StatusSet

LEMMA WorkerCompletes ==
    ASSUME DeferredInvariant, CompleteMeansAnalyzed, NEW w \in Workers, WorkerStep(w)
    PROVE  CompleteMeansAnalyzed'
<1>1. CASE UNCHANGED <<event, analyzed>>
  BY <1>1, CompleteAfter
<1>2. CASE NextFile(w)
  <2>1. CASE Stopped
    <3>1. SetStatus(ToSet(worker[w].good) \cup {}, "pending", "none") /\ analyzed' = analyzed
      BY <1>2, <2>1 DEF NextFile, Abandon
    <3> QED BY <3>1, FailNotComplete, CompleteAfter
  <2>2. CASE ~ Stopped
    <3>1. SetStatus({Current(w).id}, "running", "none") /\ analyzed' = analyzed \ {Current(w).id}
      BY <1>2, <2>2 DEF NextFile
    <3> QED BY <3>1, FailNotComplete, CompleteAfter
  <2> QED BY <2>1, <2>2
<1>3. CASE \E why \in {"failed", "missing", "killed"} : Fail(w, why) /\ UNCHANGED analyzed
  <2>1. \E why \in {"failed", "missing", "killed"} : SetStatus({Current(w).id}, "error", why)
    BY <1>3 DEF Fail
  <2> QED BY <1>3, <2>1, FailNotComplete, CompleteAfter
<1>4. CASE \E S : Abandon(w, S) /\ UNCHANGED analyzed
  <2>1. \E S : SetStatus(S, "pending", "none")
    BY <1>4 DEF Abandon
  <2> QED BY <1>4, <2>1, FailNotComplete, CompleteAfter
<1>5. CASE \E e \in Events : event' = [event EXCEPT ![e].audio = TRUE] /\ UNCHANGED analyzed
  <2>1. \A e \in Events : event'[e].status = event[e].status
    BY <1>5, TypedParts DEF Rows
  <2> QED BY <1>5, <2>1, CompleteAfter
<1>6. CASE \E e \in Events : event' = [event EXCEPT ![e].analysis = TRUE] /\ UNCHANGED analyzed
  <2>1. \A e \in Events : event'[e].status = event[e].status
    BY <1>6, TypedParts DEF Rows
  <2> QED BY <1>6, <2>1, CompleteAfter
<1>7. CASE \E e \in Events : \E place : event' = [event EXCEPT ![e].iq = place] /\ UNCHANGED analyzed
  <2>1. \A e \in Events : event'[e].status = event[e].status
    BY <1>7, TypedParts DEF Rows
  <2> QED BY <1>7, <2>1, CompleteAfter
<1>8. CASE Link(w) \/ Classify(w)
  <2>1. Current(w).id \in Events
    BY <1>8, TypedParts, WorkerTyped DEF Link, Classify, DeferredInvariant, Shaped, AtFile
  <2> QED BY <1>5, <1>6, <1>8, <2>1 DEF Link, Classify
<1>9. CASE StorePath(w)
  <2>1. worker[w].pc = "store"
    BY <1>9 DEF StorePath
  <2>2. Head(worker[w].good) \in Events
    BY <2>1, AtHead DEF AtEvidence
  <2> QED BY <1>7, <1>9, <2>2 DEF StorePath
<1>10. CASE Derive(w)
  BY <1>1, <1>3, <1>10 DEF Derive
<1>11. CASE CheckFiles(w)
  BY <1>1, <1>3, <1>11 DEF CheckFiles
<1>12. CASE Analyze(w)
  <2> DEFINE id == Current(w).id
  <2>1. CASE event' = [event EXCEPT ![id].analysis = @ \/ ModelEnabled] /\ analyzed' = analyzed \cup {id}
    <3>1. worker[w].pc = "analyze"
      BY <1>12 DEF Analyze
    <3>2. id \in Events
      BY <3>1, TypedParts, WorkerTyped DEF DeferredInvariant, Shaped, AtFile
    <3>3. \A e \in Events : event'[e].status = event[e].status
      <4> DEFINE b == event[id].analysis \/ ModelEnabled
      <4>1. event' = [event EXCEPT ![id].analysis = b]
        BY <2>1
      <4> HIDE DEF b, id
      <4> QED BY <3>2, <4>1, TypedParts DEF Rows
    <3> QED BY <2>1, <3>3, CompleteAfter
  <2> QED BY <1>3, <1>4, <1>12, <2>1 DEF Analyze
<1>13. CASE Combine(w)
  <2>1. analyzed' = analyzed
    BY <1>13 DEF Combine
  <2>2. CASE event' = [e \in Events |-> IF e \in ToSet(worker[w].good) /\ ModelEnabled
                                        THEN [event[e] EXCEPT !.analysis = TRUE] ELSE event[e]]
    <3>1. \A e \in Events : [event[e] EXCEPT !.analysis = TRUE].status = event[e].status
      BY TypedParts DEF Rows
    <3>2. \A e \in Events : event'[e].status = event[e].status
      BY <2>2, <3>1
    <3> QED BY <2>1, <3>2, CompleteAfter
  <2> QED BY <1>1, <1>4, <1>13, <2>1, <2>2 DEF Combine
<1>14. CASE Decide(w)
  BY <1>1, <1>4, <1>14 DEF Decide
<1>15. CASE Finalize(w)
  <2>1. CASE \E why \in {"combine", "missing"} : FinalizeFails(w, why)
    <3>1. \E why \in {"combine", "missing"} : SetStatus({Head(worker[w].good)}, "error", why)
      BY <2>1 DEF FinalizeFails
    <3>2. analyzed' = analyzed
      BY <1>15 DEF Finalize
    <3> QED BY <3>1, <3>2, FailNotComplete, CompleteAfter
  <2>2. CASE event' = event
    BY <1>1, <1>15, <2>2 DEF Finalize
  <2> QED BY <1>15, <2>1, <2>2 DEF Finalize
<1>16. CASE MarkComplete(w)
  <2>1. /\ worker[w].pc = "mark" /\ SetStatus({Head(worker[w].good)}, "complete", "none")
        /\ analyzed' = analyzed
    BY <1>16 DEF MarkComplete
  <2>2. Head(worker[w].good) \in analyzed
    BY <2>1, AtHead DEF AtEvidence
  <2>3. \A e \in Events : event'[e].status = "complete" =>
           event[e].status = "complete" \/ e = Head(worker[w].good)
    BY <2>1, TypedParts, StatusSet
  <2> QED BY <2>1, <2>2, <2>3, CompleteAfter
<1> QED BY <1>1, <1>2, <1>8, <1>9, <1>10, <1>11, <1>12, <1>13, <1>14, <1>15, <1>16
        DEF WorkerStep, Take, MoveSidecar, GroupDone

LEMMA UndisturbedCompletes ==
    ASSUME DeferredInvariant, CompleteMeansAnalyzed, [Undisturbed]_vars
    PROVE  CompleteMeansAnalyzed'
<1>1. CASE UNCHANGED <<event, analyzed>>
  BY <1>1, CompleteAfter
<1>2. CASE \E w \in Workers : WorkerStep(w)
  BY <1>2, WorkerCompletes
<1>3. ASSUME NEW e \in JobEvents, AppendEvent(e) PROVE CompleteMeansAnalyzed'
  <2> DEFINE row == [NotCaptured EXCEPT !.status = "pending", !.analysis = TRUE,
                                        !.audio = disk[e].audio, !.iq = disk[e].iq]
  <2>1. event' = [event EXCEPT ![e] = row] /\ analyzed' = analyzed
    BY <1>3 DEF AppendEvent
  <2>2. row.status = "pending"
    BY DEF NotCaptured
  <2> HIDE DEF row
  <2>3. \A d \in Events : event'[d].status = "complete" => event[d].status = "complete"
    BY <2>1, <2>2, TypedParts
  <2> QED BY <2>1, <2>3, CompleteAfter
<1>4. CASE ReconcileRemoved
  <2>1. event' = [e \in Events |-> WithoutRemoved(e)] /\ analyzed' = analyzed
    BY <1>4 DEF ReconcileRemoved
  <2>2. \A e \in Events : WithoutRemoved(e).status = event[e].status \/ WithoutRemoved(e).status = "unavailable"
    BY TypedParts, WithoutRemovedRow
  <2>3. \A d \in Events : event'[d].status = "complete" => event[d].status = "complete"
    BY <2>1, <2>2
  <2> QED BY <2>1, <2>3, CompleteAfter
<1>5. Controller \/ FinishJob \/ StartAfterJob \/ Start(Events) \/ Stop \/ UNCHANGED vars
      => UNCHANGED <<event, analyzed>>
  BY DEF Controller, CloseWork, EndWave, LeaveIdle, KeepWatching, Poll, EndRun, FinishJob, StartAfterJob,
         Start, Stop, vars
<1>6. (\E e \in JobEvents, kind \in MediaKinds : WriteMedia(e, kind)) => UNCHANGED <<event, analyzed>>
  BY DEF WriteMedia
<1> QED BY <1>1, <1>2, <1>3, <1>4, <1>5, <1>6 DEF Undisturbed

LEMMA UndisturbedIsNext == [Undisturbed]_vars => [Next]_vars
BY DEF Next

-----------------------------------------------------------------------------
(* A second invariant: only captures that were appended are queued or at     *)
(* work, and a row that was not appended names no file.                      *)

Queued(q) == UNION {{q[i][j].id : j \in DOMAIN q[i]} : i \in DOMAIN q}
AtWork(wk) == UNION {{wk[w].todo[j].id : j \in DOMAIN wk[w].todo} \cup ToSet(wk[w].good) : w \in Workers}

Appended ==
    /\ \A e \in Queued(queue) \cup AtWork(worker) : event[e].status # "none"
    /\ \A e \in Events : event[e].status = "none" => event[e].iq = "none" /\ event[e].audio = FALSE

\* Rows do not become blank again, and a blank row stays as it is.
Settled ==
    \A e \in Events : /\ event[e].status # "none" => event'[e].status # "none"
                      /\ event'[e].status = "none" => event'[e].iq = event[e].iq /\ event'[e].audio = event[e].audio

LEMMA AppendedAfter ==
    ASSUME Appended, Settled, Queued(queue') \cup AtWork(worker') \subseteq Events,
           \A e \in Queued(queue') \cup AtWork(worker') :
              e \in Queued(queue) \cup AtWork(worker) \/ event[e].status = "pending"
    PROVE  Appended'
<1>1. \A e \in Queued(queue') \cup AtWork(worker') : event'[e].status # "none"
  BY DEF Appended, Settled
<1>2. \A e \in Events : event'[e].status = "none" => event'[e].iq = "none" /\ event'[e].audio = FALSE
  BY DEF Appended, Settled
<1> HIDE DEF Queued, AtWork
<1> QED BY <1>1, <1>2 DEF Appended

LEMMA QueuedTyped ==
    ASSUME Typed
    PROVE  Queued(queue) \cup AtWork(worker) \subseteq Events
<1>1. ASSUME NEW i \in DOMAIN queue, NEW j \in DOMAIN queue[i] PROVE queue[i][j].id \in Events
  <2>1. queue[i] \in Seq(Snapshots)
    BY ElementOfSeq, LenProperties DEF Typed
  <2>2. queue[i][j] \in Snapshots
    BY <2>1, ElementOfSeq, LenProperties
  <2> QED BY <2>2 DEF Snapshots
<1>2. ASSUME NEW w \in Workers, NEW j \in DOMAIN worker[w].todo PROVE worker[w].todo[j].id \in Events
  <2>1. worker[w].todo \in Seq(Snapshots)
    BY WorkerTyped
  <2>2. worker[w].todo[j] \in Snapshots
    BY <2>1, ElementOfSeq, LenProperties
  <2> QED BY <2>2 DEF Snapshots
<1>3. ASSUME NEW w \in Workers PROVE ToSet(worker[w].good) \subseteq Events
  BY WorkerTyped, MembersOfList
<1> QED BY <1>1, <1>2, <1>3 DEF Queued, AtWork

\* What a worker has after a step, in terms of what it had.
LEMMA WorkAfter ==
    ASSUME NEW w \in Workers, NEW pc, NEW todo, NEW good, Became(w, pc, todo, good), UNCHANGED queue,
           \A j \in DOMAIN todo : todo[j].id \in AtWork(worker),
           ToSet(good) \subseteq AtWork(worker)
    PROVE  Queued(queue') \cup AtWork(worker') \subseteq Queued(queue) \cup AtWork(worker)
<1>1. ASSUME NEW v \in Workers, NEW j \in DOMAIN worker'[v].todo
      PROVE  worker'[v].todo[j].id \in AtWork(worker)
  <2>1. CASE v = w
    BY <2>1 DEF Became
  <2>2. CASE v # w
    <3>1. worker'[v] = worker[v]
      BY <2>2 DEF Became
    <3> QED BY <3>1 DEF AtWork
  <2> QED BY <2>1, <2>2
<1>2. ASSUME NEW v \in Workers PROVE ToSet(worker'[v].good) \subseteq AtWork(worker)
  <2>1. CASE v = w
    BY <2>1 DEF Became
  <2>2. CASE v # w
    <3>1. worker'[v] = worker[v]
      BY <2>2 DEF Became
    <3> QED BY <3>1 DEF AtWork
  <2> QED BY <2>1, <2>2
<1>3. \A e \in AtWork(worker') : e \in AtWork(worker)
  <2> SUFFICES ASSUME NEW e \in AtWork(worker') PROVE e \in AtWork(worker)
    OBVIOUS
  <2>1. PICK v \in Workers : (\E j \in DOMAIN worker'[v].todo : e = worker'[v].todo[j].id) \/ e \in ToSet(worker'[v].good)
    BY DEF AtWork
  <2> HIDE DEF AtWork
  <2> QED BY <1>1, <1>2, <2>1
<1> HIDE DEF AtWork
<1> QED BY <1>3

LEMMA OwnWork ==
    ASSUME NEW w \in Workers
    PROVE  /\ \A j \in DOMAIN worker[w].todo : worker[w].todo[j].id \in AtWork(worker)
           /\ ToSet(worker[w].good) \subseteq AtWork(worker)
BY DEF AtWork

\* A worker's steps make no row blank.
LEMMA StatusSettles ==
    ASSUME DeferredInvariant, NEW S, NEW status \in {"pending", "running", "complete", "error"},
           NEW why \in {"none", "failed", "missing", "killed", "combine"}, SetStatus(S, status, why)
    PROVE  Settled
<1>1. \A e \in Events : event'[e].status = IF e \in S THEN status ELSE event[e].status
  BY TypedParts, StatusSet
<1>2. \A e \in Events : e \notin S => event'[e] = event[e]
  BY DEF SetStatus
<1> QED BY <1>1, <1>2 DEF Settled

LEMMA SameStatusSettles ==
    ASSUME \A e \in Events : /\ event'[e].status = event[e].status
                             /\ event[e].status = "none" => event'[e] = event[e]
    PROVE  Settled
BY DEF Settled

LEMMA SameWork ==
    ASSUME NEW w \in Workers, NEW pc, Became(w, pc, worker[w].todo, worker[w].good), UNCHANGED queue
    PROVE  Queued(queue') \cup AtWork(worker') \subseteq Queued(queue) \cup AtWork(worker)
BY OwnWork, WorkAfter

LEMMA NoWork ==
    ASSUME NEW w \in Workers, NEW pc, Became(w, pc, <<>>, <<>>), UNCHANGED queue
    PROVE  Queued(queue') \cup AtWork(worker') \subseteq Queued(queue) \cup AtWork(worker)
BY EmptyList, WorkAfter

LEMMA TailWork ==
    ASSUME Typed, NEW w \in Workers, worker[w].todo # <<>>, UNCHANGED queue, NEW pc, NEW good,
           Became(w, pc, Tail(worker[w].todo), good),
           ToSet(good) \subseteq ToSet(worker[w].good) \cup {Current(w).id}
    PROVE  Queued(queue') \cup AtWork(worker') \subseteq Queued(queue) \cup AtWork(worker)
<1>1. worker[w].todo \in Seq(Snapshots)
  BY WorkerTyped
<1>2. \A j \in DOMAIN Tail(worker[w].todo) :
         j + 1 \in DOMAIN worker[w].todo /\ Tail(worker[w].todo)[j] = worker[w].todo[j + 1]
  BY <1>1, TailOfList
<1>3. 1 \in DOMAIN worker[w].todo /\ Current(w) = worker[w].todo[1]
  BY <1>1, TailOfList DEF Current
<1>4. \A j \in DOMAIN Tail(worker[w].todo) : Tail(worker[w].todo)[j].id \in AtWork(worker)
  BY <1>2, OwnWork
<1>5. ToSet(good) \subseteq AtWork(worker)
  BY <1>3, OwnWork
<1> QED BY <1>4, <1>5, WorkAfter

LEMMA TakenWork ==
    ASSUME DeferredInvariant, NEW w \in Workers, Take(w)
    PROVE  Queued(queue') \cup AtWork(worker') \subseteq Queued(queue) \cup AtWork(worker)
<1> DEFINE pc == IF Stopped THEN "exited" ELSE "next"
           todo == IF Stopped THEN <<>> ELSE Head(queue)
<1>1. Became(w, pc, todo, <<>>)
  BY Takes
<1>2. queue # <<>> /\ queue' = Tail(queue) /\ queue \in Seq(Seq(Snapshots))
  BY InvariantParts DEF Take
<1>3. /\ 1 \in DOMAIN queue /\ Head(queue) = queue[1]
      /\ \A i \in DOMAIN Tail(queue) : i + 1 \in DOMAIN queue /\ Tail(queue)[i] = queue[i + 1]
  BY <1>2, TailOfList
<1>4. todo = <<>> \/ todo = queue[1]
  BY <1>3
<1>5. /\ worker'[w].todo = todo /\ worker'[w].good = <<>>
      /\ \A v \in Workers \ {w} : worker'[v] = worker[v]
  BY <1>1 DEF Became
<1> HIDE DEF pc, todo
<1>6. ASSUME NEW v \in Workers, NEW j \in DOMAIN worker'[v].todo
      PROVE  worker'[v].todo[j].id \in Queued(queue) \cup AtWork(worker)
  <2>1. CASE v = w
    BY <1>3, <1>4, <1>5, <2>1, EmptyList DEF Queued
  <2>2. CASE v # w
    BY <1>5, <2>2, OwnWork
  <2> QED BY <2>1, <2>2
<1>7. ASSUME NEW v \in Workers PROVE ToSet(worker'[v].good) \subseteq AtWork(worker)
  <2>1. CASE v = w
    BY <1>5, <2>1, EmptyList
  <2>2. CASE v # w
    BY <1>5, <2>2, OwnWork
  <2> QED BY <2>1, <2>2
<1>8. AtWork(worker') \subseteq Queued(queue) \cup AtWork(worker)
  <2> SUFFICES ASSUME NEW e \in AtWork(worker') PROVE e \in Queued(queue) \cup AtWork(worker)
    OBVIOUS
  <2>1. PICK v \in Workers : (\E j \in DOMAIN worker'[v].todo : e = worker'[v].todo[j].id) \/ e \in ToSet(worker'[v].good)
    BY DEF AtWork
  <2> HIDE DEF AtWork, Queued
  <2> QED BY <1>6, <1>7, <2>1
<1>9. Queued(queue') \subseteq Queued(queue)
  BY <1>2, <1>3 DEF Queued
<1> QED BY <1>8, <1>9

LEMMA WorkerWork ==
    ASSUME DeferredInvariant, NEW w \in Workers, WorkerStep(w)
    PROVE  Queued(queue') \cup AtWork(worker') \subseteq Queued(queue) \cup AtWork(worker)
<1> DEFINE Fewer == Queued(queue') \cup AtWork(worker') \subseteq Queued(queue) \cup AtWork(worker)
<1>t. Typed /\ (worker[w].pc \in AtFile => worker[w].todo # <<>>)
  BY DEF DeferredInvariant, Shaped
<1>1. CASE \E pc \in Pcs : Step(w, pc) /\ UNCHANGED queue
  BY <1>1, <1>t, Steps, SameWork
<1>2. CASE \E pc \in Pcs, place \in Places : Disposed(w, pc, place) /\ UNCHANGED queue
  BY <1>2, <1>t, Disposes, SameWork
<1>3. CASE \E result \in {"ok", "failed"} : Combined(w, result) /\ UNCHANGED queue
  BY <1>3, <1>t, Combines, SameWork
<1>4. CASE worker[w].pc \in AtFile /\ (\E why \in {"failed", "missing", "killed"} : Fail(w, why)) /\ UNCHANGED queue
  BY <1>4, <1>t, Fails, TailWork
<1>5. CASE (\E S : Abandon(w, S)) /\ UNCHANGED queue
  BY <1>5, <1>t, Abandons, NoWork
<1>6. CASE worker[w].pc = "analyze" /\ Processed(w) /\ UNCHANGED queue
  <2>1. worker[w].todo # <<>>
    BY <1>6, <1>t DEF AtFile
  <2> QED BY <1>6, <1>t, <2>1, Processes, TailWork
<1>7. CASE worker[w].todo = <<>> /\ worker[w].good # <<>> /\ Popped(w) /\ UNCHANGED queue
  <2>1. Became(w, "finalize", <<>>, Tail(worker[w].good))
    BY <1>7, <1>t, Pops
  <2>2. ToSet(Tail(worker[w].good)) \subseteq AtWork(worker)
    BY <1>7, <1>t, WorkerTyped, MembersOfList, OwnWork
  <2> QED BY <1>7, <2>1, <2>2, EmptyList, WorkAfter
<1>8. CASE Link(w)
  <2>1. PICK todo : Became(w, "classify", todo, worker[w].good) /\ SameIds(todo, worker[w].todo)
    BY <1>8, Links
  <2>2. \A j \in DOMAIN todo : todo[j].id \in AtWork(worker)
    BY <2>1, OwnWork DEF SameIds
  <2>3. UNCHANGED queue
    BY <1>8 DEF Link
  <2> QED BY <2>1, <2>2, <2>3, OwnWork, WorkAfter
<1>9. CASE GroupDone(w)
  <2>1. worker \in [Workers -> WorkerStates] /\ worker' = [worker EXCEPT ![w] = Idle] /\ UNCHANGED queue
    BY <1>9, <1>t DEF Typed, GroupDone
  <2>2. Became(w, "idle", <<>>, <<>>)
    BY <2>1, IdleTyped, WorkerSet DEF Became
  <2> QED BY <2>1, <2>2, NoWork
<1>10. CASE Take(w)
  BY <1>10, TakenWork
<1> HIDE DEF Fewer
<1>11. CASE NextFile(w) \/ Classify(w) \/ Decide(w) \/ MoveSidecar(w) \/ StorePath(w)
  BY <1>1, <1>5, <1>11 DEF NextFile, Classify, Decide, MoveSidecar, StorePath, Pcs, Fewer
<1>12. CASE Derive(w) \/ CheckFiles(w)
  BY <1>1, <1>4, <1>12 DEF Derive, CheckFiles, Pcs, AtFile, Fewer
<1>13. CASE Analyze(w)
  BY <1>4, <1>5, <1>6, <1>13 DEF Analyze, Processed, AtFile, Fewer
<1>14. CASE Combine(w)
  BY <1>3, <1>5, <1>14 DEF Combine, Combined, Fewer
<1>15. CASE Finalize(w)
  <2>1. /\ worker[w].pc = "finalize" /\ worker[w].good # <<>> /\ UNCHANGED queue
    BY <1>15 DEF Finalize
  <2>2. worker[w].todo = <<>> /\ Head(worker[w].good) \in Events
    BY <2>1, AtHead
  <2>3. event[Head(worker[w].good)].iq \in Places
    BY <2>2, TypedParts DEF Rows
  <2>4. CASE \E why \in {"combine", "missing"} : FinalizeFails(w, why)
    BY <1>7, <2>1, <2>2, <2>4 DEF FinalizeFails, Popped, Fewer
  <2>5. CASE Step(w, "mark")
    BY <1>1, <2>1, <2>5 DEF Pcs, Fewer
  <2>6. CASE \E pc \in {"store", "sidecar"}, place \in Places : Disposed(w, pc, place)
    BY <1>2, <2>1, <2>6 DEF Pcs, Fewer
  <2> QED BY <1>15, <2>3, <2>4, <2>5, <2>6 DEF Finalize, Disposed, Places
<1>16. CASE MarkComplete(w)
  <2>1. worker[w].pc = "mark" /\ Popped(w) /\ UNCHANGED queue
    BY <1>16 DEF MarkComplete, Popped
  <2>2. worker[w].todo = <<>> /\ worker[w].good # <<>>
    BY <2>1, AtHead DEF AtEvidence
  <2> QED BY <1>7, <2>1, <2>2
<1> QED BY <1>8, <1>9, <1>10, <1>11, <1>12, <1>13, <1>14, <1>15, <1>16 DEF WorkerStep, Fewer

LEMMA WorkerSettles ==
    ASSUME DeferredInvariant, Appended, NEW w \in Workers, WorkerStep(w)
    PROVE  Settled
<1>1. CASE UNCHANGED event
  BY <1>1 DEF Settled
<1>2. /\ \A S : SetStatus(S, "pending", "none") => Settled
      /\ \A S : SetStatus(S, "running", "none") => Settled
      /\ \A S : SetStatus(S, "complete", "none") => Settled
      /\ \A S : \A why \in {"failed", "missing", "killed", "combine"} : SetStatus(S, "error", why) => Settled
  BY StatusSettles
<1>a. \A S : Abandon(w, S) => Settled
  BY <1>2 DEF Abandon
<1>f. \A why \in {"failed", "missing", "killed"} : Fail(w, why) => Settled
  BY <1>2 DEF Fail
<1>s. /\ \A why \in {"combine", "missing"} : FinalizeFails(w, why) => Settled
      /\ SetStatus({Current(w).id}, "running", "none") => Settled
      /\ SetStatus({Head(worker[w].good)}, "complete", "none") => Settled
  BY <1>2 DEF FinalizeFails
<1>3. CASE \E e \in AtWork(worker) : \E row : event' = [event EXCEPT ![e] = row] /\ row.status = event[e].status
  <2>0. PICK e \in AtWork(worker) : \E row : event' = [event EXCEPT ![e] = row] /\ row.status = event[e].status
    BY <1>3
  <2>1. PICK row : event' = [event EXCEPT ![e] = row] /\ row.status = event[e].status
    BY <2>0
  <2>2. event[e].status # "none" /\ e \in Events
    BY <2>1, TypedParts, QueuedTyped DEF Appended
  <2>3. \A d \in Events : event'[d].status = event[d].status
    BY <2>1, <2>2, TypedParts
  <2>4. \A d \in Events : event[d].status = "none" => event'[d] = event[d]
    BY <2>1, <2>2, TypedParts
  <2> QED BY <2>3, <2>4, SameStatusSettles
<1>4. \A e \in Events : /\ [event[e] EXCEPT !.audio = TRUE].status = event[e].status
                        /\ [event[e] EXCEPT !.analysis = TRUE].status = event[e].status
                        /\ [event[e] EXCEPT !.analysis = @ \/ ModelEnabled].status = event[e].status
                        /\ \A place : [event[e] EXCEPT !.iq = place].status = event[e].status
  BY TypedParts DEF Rows
<1>5. worker[w].pc \in AtFile => Current(w).id \in AtWork(worker) /\ Current(w).id \in Events
  <2> SUFFICES ASSUME worker[w].pc \in AtFile PROVE Current(w).id \in AtWork(worker) /\ Current(w).id \in Events
    OBVIOUS
  <2>1. worker[w].todo # <<>> /\ worker[w].todo \in Seq(Snapshots) /\ Current(w).id \in Events
    BY TypedParts, WorkerTyped DEF DeferredInvariant, Shaped
  <2>2. 1 \in DOMAIN worker[w].todo /\ Current(w) = worker[w].todo[1]
    BY <2>1, TailOfList DEF Current
  <2> QED BY <2>1, <2>2, OwnWork
<1>6. CASE Link(w) \/ Classify(w)
  <2> DEFINE e == Current(w).id
  <2>1. e \in AtWork(worker) /\ e \in Events
    BY <1>5, <1>6 DEF Link, Classify, AtFile
  <2>2. \/ event' = [event EXCEPT ![e] = [event[e] EXCEPT !.audio = TRUE]]
        \/ event' = [event EXCEPT ![e] = [event[e] EXCEPT !.analysis = TRUE]]
    BY <1>6, <2>1, TypedParts DEF Link, Classify
  <2> QED BY <1>3, <1>4, <2>1, <2>2
<1>7. CASE StorePath(w)
  <2> DEFINE e == Head(worker[w].good)
  <2>1. worker[w].pc = "store" /\ event' = [event EXCEPT ![e].iq = worker[w].dest]
    BY <1>7 DEF StorePath
  <2>2. e \in Events /\ worker[w].good # <<>>
    BY <2>1, AtHead DEF AtEvidence
  <2>3. e \in AtWork(worker)
    BY <2>2, TypedParts, WorkerTyped, MembersOfList, OwnWork
  <2>4. event' = [event EXCEPT ![e] = [event[e] EXCEPT !.iq = worker[w].dest]]
    BY <2>1, <2>2, TypedParts
  <2> DEFINE row == [event[e] EXCEPT !.iq = worker[w].dest]
  <2>5. row.status = event[e].status /\ event' = [event EXCEPT ![e] = row]
    BY <1>4, <2>2, <2>4
  <2> HIDE DEF row
  <2> QED BY <1>3, <2>3, <2>5
<1>8. CASE Analyze(w)
  <2> DEFINE e == Current(w).id
  <2>1. e \in AtWork(worker) /\ e \in Events
    BY <1>5, <1>8 DEF Analyze, AtFile
  <2>2. CASE event' = [event EXCEPT ![e].analysis = @ \/ ModelEnabled]
    <3>1. event' = [event EXCEPT ![e] = [event[e] EXCEPT !.analysis = @ \/ ModelEnabled]]
      BY <2>1, <2>2, TypedParts
    <3> QED BY <1>3, <1>4, <2>1, <3>1
  <2> QED BY <1>a, <1>f, <1>8, <2>2 DEF Analyze
<1>9. CASE Combine(w)
  <2>1. CASE event' = [e \in Events |-> IF e \in ToSet(worker[w].good) /\ ModelEnabled
                                        THEN [event[e] EXCEPT !.analysis = TRUE] ELSE event[e]]
    <3>1. \A e \in Events : event'[e].status = event[e].status
      BY <1>4, <2>1
    <3>2. \A e \in ToSet(worker[w].good) : event[e].status # "none"
      BY OwnWork DEF Appended
    <3>3. \A e \in Events : event[e].status = "none" => event'[e] = event[e]
      BY <2>1, <3>2
    <3> QED BY <3>1, <3>3, SameStatusSettles
  <2> QED BY <1>1, <1>a, <1>9, <2>1 DEF Combine
<1>10. CASE NextFile(w) \/ Derive(w) \/ CheckFiles(w) \/ Decide(w)
  BY <1>1, <1>a, <1>f, <1>s, <1>10 DEF NextFile, Derive, CheckFiles, Decide
<1>11. CASE Finalize(w)
  BY <1>1, <1>s, <1>11 DEF Finalize
<1>12. CASE MarkComplete(w)
  BY <1>s, <1>12 DEF MarkComplete
<1> QED BY <1>1, <1>6, <1>7, <1>8, <1>9, <1>10, <1>11, <1>12 DEF WorkerStep, Take, MoveSidecar, GroupDone

\* A wave's groups hold pending captures.
LEMMA GroupsPending ==
    ASSUME NEW S \in SUBSET Events, event \in [Events -> Rows]
    PROVE  Queued(GroupsOf(S)) \subseteq S
<1> DEFINE K == {GroupOf[e] : e \in S}
           M(k) == {e \in S : GroupOf[e] = k}
           keys == InOrder(K)
           N(i) == InOrder(M(keys[i]))
<1>1. IsFiniteSet(S) /\ S \in SUBSET Nat
  BY DeferredAssumption, FS_Subset
<1>2. \A k : \A j \in DOMAIN InOrder(M(k)) : InOrder(M(k))[j] \in S
  <2> TAKE k
  <2>1. M(k) \in SUBSET S
    OBVIOUS
  <2>2. IsFiniteSet(M(k)) /\ M(k) \in SUBSET Nat
    BY <1>1, <2>1, FS_Subset
  <2> HIDE DEF M
  <2> QED BY <2>1, <2>2, InOrderEnumerates
<1> HIDE DEF K, keys
<1>3. GroupsOf(S) = [i \in DOMAIN keys |-> [j \in DOMAIN N(i) |-> Snapshot(N(i)[j])]]
  BY DEF GroupsOf, keys, K
<1>4. \A i \in DOMAIN keys : \A j \in DOMAIN N(i) : N(i)[j] \in S
  BY <1>2
<1> HIDE DEF N
<1>5. \A e \in S : Snapshot(e).id = e
  BY DEF Snapshot
<1>6. ASSUME NEW i \in DOMAIN GroupsOf(S), NEW j \in DOMAIN GroupsOf(S)[i]
      PROVE  GroupsOf(S)[i][j].id \in S
  <2>1. i \in DOMAIN keys /\ j \in DOMAIN N(i) /\ GroupsOf(S)[i][j] = Snapshot(N(i)[j])
    BY <1>3
  <2> QED BY <1>4, <1>5, <2>1
<1> HIDE DEF M
<1> QED BY <1>6 DEF Queued

LEMMA FreshWork ==
    ASSUME DeferredInvariant, NEW scope \in SUBSET Events,
           queue' = GroupsOf(Pending(scope)), worker' = [w \in Workers |-> Idle]
    PROVE  \A e \in Queued(queue') \cup AtWork(worker') : event[e].status = "pending"
<1>1. AtWork(worker') = {}
  <2>1. \A w \in Workers : worker'[w].todo = <<>> /\ worker'[w].good = <<>>
    BY IdleTyped
  <2> QED BY <2>1, EmptyList DEF AtWork
<1>2. Queued(queue') \subseteq Pending(scope)
  <2>1. Pending(scope) \in SUBSET Events
    BY DEF Pending
  <2>2. Queued(GroupsOf(Pending(scope))) \subseteq Pending(scope)
    BY <2>1, TypedParts, GroupsPending
  <2> QED BY <2>2
<1> HIDE DEF Queued, AtWork
<1> QED BY <1>1, <1>2 DEF Pending

LEMMA IdsSmaller ==
    ASSUME DeferredInvariant, Appended, Settled,
           Queued(queue') \cup AtWork(worker') \subseteq Queued(queue) \cup AtWork(worker)
    PROVE  Appended'
<1>1. Queued(queue) \cup AtWork(worker) \subseteq Events
  BY TypedParts, QueuedTyped
<1> HIDE DEF Queued, AtWork
<1> QED BY <1>1, AppendedAfter

LEMMA WaveAppended ==
    ASSUME DeferredInvariant, Appended, UNCHANGED event, NEW scope \in SUBSET Events,
           queue' = GroupsOf(Pending(scope)), worker' = [w \in Workers |-> Idle]
    PROVE  Appended'
<1>1. \A e \in Queued(queue') \cup AtWork(worker') : event[e].status = "pending"
  BY FreshWork
<1>2. Queued(queue') \cup AtWork(worker') \subseteq Events
  <2>1. AtWork(worker') = {}
    <3>1. \A w \in Workers : worker'[w].todo = <<>> /\ worker'[w].good = <<>>
      BY IdleTyped
    <3> QED BY <3>1, EmptyList DEF AtWork
  <2>2. Pending(scope) \in SUBSET Events
    BY DEF Pending
  <2>3. Queued(GroupsOf(Pending(scope))) \subseteq Pending(scope)
    BY <2>2, TypedParts, GroupsPending
  <2> HIDE DEF Queued, AtWork
  <2> QED BY <2>1, <2>2, <2>3
<1>3. Settled
  BY DEF Settled
<1> HIDE DEF Queued, AtWork
<1> QED BY <1>1, <1>2, <1>3, AppendedAfter

LEMMA WorldAppended ==
    ASSUME DeferredInvariant, Appended, Settled, UNCHANGED worker, queue' = queue \/ queue' = <<>>
    PROVE  Appended'
<1>1. Queued(queue') \cup AtWork(worker') \subseteq Queued(queue) \cup AtWork(worker)
  BY EmptyList DEF Queued
<1> HIDE DEF Queued, AtWork
<1> QED BY <1>1, IdsSmaller

LEMMA RestartAppended ==
    ASSUME DeferredInvariant, Appended, Restart
    PROVE  Appended'
<1>1. /\ event' = [e \in Events |-> Recovered(e)] /\ queue' = <<>> /\ worker' = [w \in Workers |-> Idle]
  BY DEF Restart
<1>2. Queued(queue') = {} /\ AtWork(worker') = {}
  <2>1. \A w \in Workers : worker'[w].todo = <<>> /\ worker'[w].good = <<>>
    BY <1>1, IdleTyped
  <2> QED BY <1>1, <2>1, EmptyList DEF Queued, AtWork
<1>3. ASSUME NEW e \in Events, event'[e].status = "none" PROVE event'[e].iq = "none" /\ event'[e].audio = FALSE
  <2>1. event'[e] = Recovered(e) /\ event[e] \in Rows /\ disk[e] \in DiskRows
    BY <1>1, TypedParts
  <2>2. event[e].status = "none" /\ ~ HalfCaptured(e)
    BY <1>3, <2>1, RecoveredRow
  <2>3. Recovered(e) = event[e]
    BY <2>1, <2>2, RecoveredRow
  <2> QED BY <2>1, <2>2, <2>3 DEF Appended
<1> HIDE DEF Queued, AtWork
<1> QED BY <1>2, <1>3 DEF Appended

LEMMA AppendedStep == DeferredInvariant /\ Appended /\ [Next]_vars => Appended'
<1> SUFFICES ASSUME DeferredInvariant, Appended, [Next]_vars PROVE Appended'
  OBVIOUS
<1>0. JobEvents \in SUBSET Events /\ run.scope \in SUBSET Events
  BY DeferredAssumption, InvariantParts DEF RunStates
<1>1. CASE \E w \in Workers : WorkerStep(w)
  BY <1>1, WorkerWork, WorkerSettles, IdsSmaller
<1>2. CASE UNCHANGED <<event, worker>> /\ (queue' = queue \/ queue' = <<>>)
  <2>1. Settled
    BY <1>2 DEF Settled
  <2> QED BY <1>2, <2>1, WorldAppended
<1>3. ASSUME NEW scope \in SUBSET Events, StartRun(scope), UNCHANGED event PROVE Appended'
  <2>1. queue' = GroupsOf(Pending(scope)) /\ worker' = [w \in Workers |-> Idle]
    BY <1>3 DEF StartRun
  <2> QED BY <1>3, <2>1, WaveAppended
<1>4. CASE NextWave(GroupsOf(Pending(run.scope))) /\ UNCHANGED event
  <2>1. queue' = GroupsOf(Pending(run.scope)) /\ worker' = [w \in Workers |-> Idle]
    BY <1>4 DEF NextWave
  <2> QED BY <1>0, <1>4, <2>1, WaveAppended
<1>5. ASSUME NEW e \in JobEvents, AppendEvent(e) PROVE Appended'
  <2> DEFINE row == [NotCaptured EXCEPT !.status = "pending", !.analysis = TRUE,
                                        !.audio = disk[e].audio, !.iq = disk[e].iq]
  <2>1. event' = [event EXCEPT ![e] = row] /\ UNCHANGED <<worker, queue>> /\ e \in Events
    BY <1>0, <1>5 DEF AppendEvent
  <2>2. row.status = "pending"
    BY DEF NotCaptured
  <2> HIDE DEF row
  <2>3. \A d \in Events : event'[d] = row \/ event'[d] = event[d]
    BY <2>1, TypedParts
  <2>4. Settled
    BY <2>2, <2>3 DEF Settled
  <2> QED BY <2>1, <2>4, WorldAppended
<1>6. CASE ReconcileRemoved
  <2>1. event' = [e \in Events |-> WithoutRemoved(e)] /\ UNCHANGED <<worker, queue>>
    BY <1>6 DEF ReconcileRemoved
  <2>2. ASSUME NEW e \in Events
        PROVE  /\ event[e].status # "none" => event'[e].status # "none"
               /\ event'[e].status = "none" => event'[e].iq = event[e].iq /\ event'[e].audio = event[e].audio
    <3>1. event'[e] = WithoutRemoved(e) /\ event[e] \in Rows /\ disk[e] \in DiskRows
      BY <2>1, TypedParts
    <3>2. /\ event'[e] \in Rows
          /\ event'[e].status = event[e].status \/ event'[e].status = "unavailable"
          /\ event'[e].iq \in {event[e].iq, "none"} /\ (event'[e].audio => event[e].audio)
      BY <3>1, WithoutRemovedRow
    <3>3. event[e].status = "none" => event[e].iq = "none" /\ event[e].audio = FALSE
      BY DEF Appended
    <3>4. event'[e].audio \in BOOLEAN
      BY <3>2 DEF Rows
    <3> QED BY <3>2, <3>3, <3>4
  <2>3. Settled
    BY <2>2 DEF Settled
  <2> QED BY <2>1, <2>3, WorldAppended
<1>7. CASE Restart
  BY <1>7, RestartAppended
<1>8. CASE Start(Events) \/ StartAfterJob
  <2>1. CASE \E scope \in {Events, JobEvents} : StartRun(scope) /\ UNCHANGED event
    BY <1>0, <1>3, <2>1
  <2> QED BY <1>2, <1>8, <2>1 DEF Start, StartAfterJob
<1>9. CASE Controller
  BY <1>2, <1>4, <1>9 DEF Controller, CloseWork, EndWave, LeaveIdle, KeepWatching, Poll, EndRun
<1>10. CASE \/ \E e \in JobEvents, kind \in MediaKinds : WriteMedia(e, kind)
            \/ \E e \in Events : Prune(e)
            \/ FinishJob \/ Stop \/ UNCHANGED vars
  BY <1>2, <1>10 DEF WriteMedia, Prune, FinishJob, Stop, vars
<1> QED BY <1>1, <1>5, <1>6, <1>7, <1>8, <1>9, <1>10 DEF Next, Undisturbed

LEMMA InitAppended == Init => Appended
<1> SUFFICES ASSUME Init PROVE Appended
  OBVIOUS
<1>1. Queued(queue) = {} /\ AtWork(worker) = {}
  <2>1. \A w \in Workers : worker[w].todo = <<>> /\ worker[w].good = <<>>
    BY IdleTyped DEF Init
  <2> QED BY <2>1, EmptyList DEF Init, Queued, AtWork
<1>2. \A e \in Events : event[e].iq = "none" /\ event[e].audio = FALSE
  BY DEF Init, NotCaptured
<1> HIDE DEF Queued, AtWork
<1> QED BY <1>1, <1>2 DEF Appended

\* Only a restart counts one.
LEMMA RestartsCounted ==
    ASSUME DeferredInvariant, [Next]_vars, used'.restarts # used.restarts
    PROVE  Restart
<1>1. /\ [used EXCEPT !.starts = @ + 1].restarts = used.restarts
      /\ [used EXCEPT !.prunes = @ + 1].restarts = used.restarts
  BY InvariantParts DEF Uses
<1>2. used' # used
  OBVIOUS
<1>3. ~ Start(Events) /\ ~ \E e \in Events : Prune(e)
  BY <1>1 DEF Start, Prune
<1>4. ~ (\E w \in Workers : WorkerStep(w))
  BY <1>2 DEF WorkerStep, Take, NextFile, Derive, Link, Classify, CheckFiles, Analyze,
           Combine, Decide, Finalize, MoveSidecar, StorePath, MarkComplete, GroupDone
<1>5. ~ Controller
  BY <1>2 DEF Controller, CloseWork, EndWave, LeaveIdle, KeepWatching, Poll, EndRun
<1>6. /\ ~ UNCHANGED vars /\ ~ FinishJob /\ ~ StartAfterJob /\ ~ Stop /\ ~ ReconcileRemoved
      /\ ~ \E e \in JobEvents : AppendEvent(e) \/ \E kind \in MediaKinds : WriteMedia(e, kind)
  BY <1>2 DEF vars, FinishJob, StartAfterJob, Stop, ReconcileRemoved, AppendEvent, WriteMedia
<1> QED BY <1>3, <1>4, <1>5, <1>6 DEF Next, Undisturbed

LEMMA RestartStep ==
    ASSUME DeferredInvariant, Appended, [Next]_vars, used'.restarts # used.restarts, NEW e \in Events
    PROVE  /\ event'[e].iq \in {"none", disk[e].iq}
           /\ (disk[e].iq # "none" /\ disk[e].meta = disk[e].iq) => event'[e].iq = disk[e].iq
           /\ event'[e].audio => disk[e].audio
<1>1. event' = [d \in Events |-> Recovered(d)]
  BY RestartsCounted DEF Restart
<1>2. event'[e] = Recovered(e) /\ event[e] \in Rows /\ disk[e] \in DiskRows
  BY <1>1, TypedParts
<1>3. CASE event[e].status # "none" \/ HalfCaptured(e)
  BY <1>2, <1>3, RecoveredRow
<1>4. CASE event[e].status = "none" /\ ~ HalfCaptured(e)
  <2>1. disk[e] = NoFiles
    BY <1>4 DEF HalfCaptured
  <2>2. disk[e].iq = "none"
    BY <2>1 DEF NoFiles
  <2>3. event'[e] = event[e] /\ event[e].iq = "none" /\ event[e].audio = FALSE
    BY <1>2, <1>4, RecoveredRow DEF Appended
  <2> QED BY <2>2, <2>3
<1> QED BY <1>3, <1>4

-----------------------------------------------------------------------------
(* Theorems *)

LEMMA AppendedHolds == Spec => []Appended
<1>1. Spec => []DeferredInvariant
  BY DeferredInvariantHolds
<1> QED BY <1>1, InitAppended, AppendedStep, PTL DEF Spec

LEMMA UndisturbedIsSpec == UndisturbedSpec => Spec
BY UndisturbedIsNext, PTL DEF UndisturbedSpec, Spec

\* Every variable keeps its type, whatever order analysis, collection, cleanup
\* and restarts take (deferred_analysis.go, media_recovery.go); in particular
\* no counter of the status page becomes negative, although an abandoned group
\* takes back what it had counted.
THEOREM AnalysisTypes == Spec => []TypeOK
BY DeferredInvariantHolds, TypesHold, PTL

\* An event that is "running" in the store is held by a worker of this process,
\* so none stays out of later runs, with cleanup and restarts too.
THEOREM NobodyStranded == Spec => []NoneStranded
BY DeferredInvariantHolds, NoneStrandedHolds, PTL

\* Until a run is stopped its total is what is completed, failed and ahead of
\* the workers, for every number of groups, waves and workers.
THEOREM PageAddsUp == Spec => []TotalsAddUp
BY DeferredInvariantHolds, TotalsHold, PTL

\* Without a restart, what is called complete was analysed to its end, besides
\* the two invariants above.
THEOREM AnalysisIsAccounted == UndisturbedSpec => []AnalysisAccounted
<1>1. UndisturbedSpec => []DeferredInvariant
  BY UndisturbedIsSpec, DeferredInvariantHolds, PTL
<1>2. Init => CompleteMeansAnalyzed
  BY DEF Init, NotCaptured, CompleteMeansAnalyzed
<1>3. DeferredInvariant /\ CompleteMeansAnalyzed /\ [Undisturbed]_vars => CompleteMeansAnalyzed'
  BY UndisturbedCompletes
<1>4. UndisturbedSpec => []CompleteMeansAnalyzed
  BY <1>1, <1>2, <1>3, PTL DEF UndisturbedSpec
<1>5. DeferredInvariant /\ CompleteMeansAnalyzed => AnalysisAccounted
  BY NoneStrandedHolds, TotalsHold DEF AnalysisAccounted
<1> QED BY <1>1, <1>4, <1>5, PTL

\* Analysis moves or deletes the only copy of a capture's IQ when its own
\* analysis and its group's succeeded, and at no other step
\* (finalizeDeferredEvidence).
THEOREM EvidenceIsKept == Spec => EvidenceKept
<1>1. DeferredInvariant /\ [Next]_vars =>
        [\A e \in Events :
          (disk'[e].iq # disk[e].iq /\ event[e].status # "none" /\ used' = used) =>
              \E w \in Workers : /\ worker[w].good # <<>> /\ Head(worker[w].good) = e
                                 /\ worker[w].combine = "ok" /\ e \in analyzed]_vars
  BY EvidenceStep
<1> QED BY <1>1, DeferredInvariantHolds, PTL DEF Spec, EvidenceKept

\* After a restart the store and the disk agree, wherever it cut a capture, a
\* move or a cleanup short (ReconcileMedia).
THEOREM RestartsLinkMedia == Spec => RestartLinksMedia
<1>1. DeferredInvariant /\ Appended /\ [Next]_vars =>
        [used'.restarts # used.restarts =>
          \A e \in Events :
             /\ event'[e].iq \in {"none", disk[e].iq}
             /\ (disk[e].iq # "none" /\ disk[e].meta = disk[e].iq) => event'[e].iq = disk[e].iq
             /\ event'[e].audio => disk[e].audio]_vars
  BY RestartStep
<1> QED BY <1>1, AppendedHolds, DeferredInvariantHolds, PTL DEF Spec, RestartLinksMedia

=============================================================================
