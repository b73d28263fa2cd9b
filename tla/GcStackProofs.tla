---------------------------- MODULE GcStackProofs ----------------------------
(***************************************************************************)
(* R's protect stack, for any objects, any number of guards and any        *)
(* nesting of calls: it has the entries its guards count, each guard has a *)
(* segment of it to itself as long as guards end in stack order, and so no *)
(* collection takes what a guard roots.                                    *)
(*                                                                         *)
(* The sums over guards come first: MapThenSumSet folds in an order that   *)
(* CHOOSE picks, and is shown to count a set.                              *)
(***************************************************************************)
EXTENDS GcProtectProofs

-----------------------------------------------------------------------------
(* Sums.                                                                    *)

\* Among sets of subsets of a finite set there is a smallest.
LEMMA SmallestSubset ==
  ASSUME NEW S, IsFiniteSet(S), NEW B, B \subseteq SUBSET S, B # {}
  PROVE  \E T \in B : \A U \in B : U \subseteq T => U = T
<1>1. IsWellFoundedOn(StrictSubsetOrdering(S), FiniteSubsetsOf(S))
  BY FS_StrictSubsetOrderingWellFounded, Zenon
<1>2. FiniteSubsetsOf(S) = SUBSET S
  BY FS_FiniteSubsetsOfFinite, Zenon
<1>3. ASSUME NEW R, NEW P, IsWellFoundedOn(R, P), B \subseteq P
      PROVE  \E x \in B : \A y \in B : ~(<<y, x>> \in R)
  BY <1>3, WFMin
<1>4. PICK T \in B : \A U \in B : ~(<<U, T>> \in StrictSubsetOrdering(S))
  BY <1>1, <1>2, <1>3
<1> QED
  BY <1>4 DEF StrictSubsetOrdering

\* Induction over the subsets of a finite set.
LEMMA SubsetInduction ==
  ASSUME NEW S, IsFiniteSet(S), NEW Good \in SUBSET (SUBSET S),
         \A T \in SUBSET S : (\A U \in SUBSET T : U # T => U \in Good) => T \in Good
  PROVE  Good = SUBSET S
<1> SUFFICES ASSUME Good # SUBSET S PROVE FALSE
  OBVIOUS
<1>1. PICK B : B = (SUBSET S) \ Good
  OBVIOUS
<1>2. PICK T \in B : \A U \in B : U \subseteq T => U = T
  <2>1. B \subseteq SUBSET S /\ B # {}
    BY <1>1
  <2> QED
    BY <2>1, SmallestSubset
<1> QED
  BY <1>1, <1>2

Weight(gd, S) == MapThenSumSet(LAMBDA g : gd[g].n, S)

Cells(gd, S) == {p \in S \X Nat : p[2] \in 1..gd[p[1]].n}

LEMMA CellsSplit ==
  ASSUME NEW gd, NEW S, NEW T, NEW x \in S, T = S \ {x},
         IsFiniteSet(Cells(gd, T)), gd[x].n \in Nat
  PROVE  /\ IsFiniteSet(Cells(gd, S))
         /\ Cardinality(Cells(gd, S)) = gd[x].n + Cardinality(Cells(gd, T))
<1> DEFINE Own == {x} \X (1..gd[x].n)
<1>1. Cells(gd, S) = Own \cup Cells(gd, T) /\ Own \cap Cells(gd, T) = {}
  BY DEF Cells
<1>2. \A n \in Nat : IsFiniteSet({x} \X (1..n)) /\ Cardinality({x} \X (1..n)) = 1 * n
  <2> SUFFICES ASSUME NEW n \in Nat
               PROVE  IsFiniteSet({x} \X (1..n)) /\ Cardinality({x} \X (1..n)) = 1 * n
    OBVIOUS
  <2>1. IsFiniteSet(1..n) /\ Cardinality(1..n) = n
    BY FS_Interval
  <2>2. IsFiniteSet({x}) /\ Cardinality({x}) = 1
    BY FS_Singleton
  <2> QED
    BY <2>1, <2>2, FS_Product, Zenon
<1>3. IsFiniteSet(Own) /\ Cardinality(Own) = 1 * gd[x].n
  BY <1>2
<1>4. Cardinality(Own) = gd[x].n
  BY <1>3
<1>5. IsFiniteSet(Own \cup Cells(gd, T))
  BY <1>3, FS_Union, Zenon
<1>6. Cardinality(Own \cup Cells(gd, T)) =
         Cardinality(Own) + Cardinality(Cells(gd, T)) - Cardinality(Own \cap Cells(gd, T))
  BY <1>3, FS_Union, Zenon
<1>7. Cardinality(Own \cap Cells(gd, T)) = 0
  BY <1>1, FS_EmptySet
<1>8. Cardinality(Cells(gd, T)) \in Nat
  BY FS_CardinalityType
<1> QED
  BY <1>1, <1>4, <1>5, <1>6, <1>7, <1>8

LEMMA CellsFinite ==
  ASSUME NEW gd, NEW S, IsFiniteSet(S), \A g \in S : gd[g].n \in Nat
  PROVE  IsFiniteSet(Cells(gd, S))
<1>1. PICK Good : Good = {T \in SUBSET S : IsFiniteSet(Cells(gd, T))}
  OBVIOUS
<1>2. ASSUME NEW T \in SUBSET S, \A U \in SUBSET T : U # T => U \in Good
      PROVE  T \in Good
  <2>1. CASE T = {}
    <3>1. Cells(gd, T) = {}
      BY <2>1 DEF Cells
    <3> QED
      BY <1>1, <3>1, FS_EmptySet
  <2>2. CASE T # {}
    <3>1. PICK x \in T : TRUE
      BY <2>2
    <3>2. IsFiniteSet(Cells(gd, T \ {x}))
      BY <1>1, <1>2, <3>1
    <3>3. IsFiniteSet(Cells(gd, T))
      BY <3>2, CellsSplit
    <3> QED
      BY <1>1, <3>3
  <2> QED
    BY <2>1, <2>2
<1>3. Good \in SUBSET (SUBSET S)
  BY <1>1
<1>4. Good = SUBSET S
  BY <1>2, <1>3, SubsetInduction
<1> QED
  BY <1>1, <1>4

\* The sum counts the pairs of a guard and one of its entries.
LEMMA WeightIsCount ==
  ASSUME NEW gd, NEW S, IsFiniteSet(S), \A g \in S : gd[g].n \in Nat
  PROVE  Weight(gd, S) = Cardinality(Cells(gd, S))
<1> DEFINE Any(s) == CHOOSE x \in s : TRUE
           Eq(h) == h = [s \in SUBSET S |->
                           IF s = {} THEN 0 ELSE gd[Any(s)].n + h[s \ {Any(s)}]]
           c == [s \in SUBSET S |-> Cardinality(Cells(gd, s))]
           w == CHOOSE h : Eq(h)
<1>1. Weight(gd, S) = w[S]
  BY DEF Weight, MapThenSumSet, MapThenFoldSet
<1>2. ASSUME NEW s \in SUBSET S
      PROVE  Cardinality(Cells(gd, s)) =
               IF s = {} THEN 0 ELSE gd[Any(s)].n + Cardinality(Cells(gd, s \ {Any(s)}))
  <2>1. CASE s = {}
    <3>1. Cells(gd, s) = {}
      BY <2>1 DEF Cells
    <3> QED
      BY <2>1, <3>1, FS_EmptySet
  <2>2. CASE s # {}
    <3>1. Any(s) \in s
      BY <2>2
    <3> HIDE DEF Any
    <3>2. ASSUME NEW x \in s
          PROVE  Cardinality(Cells(gd, s)) = gd[x].n + Cardinality(Cells(gd, s \ {x}))
      <4> PICK t : t = s \ {x}
        OBVIOUS
      <4>1. IsFiniteSet(t)
        BY FS_Subset, FS_RemoveElement
      <4>2. IsFiniteSet(Cells(gd, t))
        BY <4>1, CellsFinite
      <4>3. gd[x].n \in Nat
        OBVIOUS
      <4> QED
        BY <4>2, <4>3, CellsSplit
    <3> QED
      BY <2>2, <3>1, <3>2
  <2> QED
    BY <2>1, <2>2
<1>3. Eq(c)
  <2> HIDE DEF Any
  <2>1. \A s \in SUBSET S : s # {} => s \ {Any(s)} \in SUBSET S
    OBVIOUS
  <2>2. \A s \in SUBSET S : s # {} => c[s \ {Any(s)}] = Cardinality(Cells(gd, s \ {Any(s)}))
    BY <2>1
  <2> QED
    BY <1>2, <2>2
<1>4. Eq(w)
  <2> HIDE DEF Eq, c
  <2> QED
    BY <1>3
<1>5. PICK Good : Good = {s \in SUBSET S : w[s] = c[s]}
  OBVIOUS
<1>6. ASSUME NEW T \in SUBSET S, \A U \in SUBSET T : U # T => U \in Good
      PROVE  T \in Good
  <2>1. w[T] = IF T = {} THEN 0 ELSE gd[Any(T)].n + w[T \ {Any(T)}]
    <3> HIDE DEF w, Any
    <3> QED
      BY <1>4
  <2>2. c[T] = IF T = {} THEN 0 ELSE gd[Any(T)].n + c[T \ {Any(T)}]
    <3> HIDE DEF c, Any
    <3> QED
      BY <1>3
  <2>3. T # {} => Any(T) \in T
    OBVIOUS
  <2> HIDE DEF w, c, Any
  <2>4. T # {} => w[T \ {Any(T)}] = c[T \ {Any(T)}]
    BY <1>5, <1>6, <2>3
  <2> QED
    BY <1>5, <2>1, <2>2, <2>4
<1>7. Good = SUBSET S
  <2>1. Good \in SUBSET (SUBSET S)
    BY <1>5
  <2> HIDE DEF w, c
  <2> QED
    BY <1>6, <2>1, SubsetInduction
<1>8. w[S] = c[S]
  <2> HIDE DEF w, c
  <2> QED
    BY <1>5, <1>7
<1> QED
  BY <1>1, <1>8

\* What a sum over guards is: nothing of no guards, and one guard more adds its n.
LEMMA WeightFacts ==
  ASSUME NEW gd, NEW S, IsFiniteSet(S), \A g \in S : gd[g].n \in Nat
  PROVE  /\ Weight(gd, S) \in Nat
         /\ S = {} => Weight(gd, S) = 0
         /\ \A x \in S : Weight(gd, S) = gd[x].n + Weight(gd, S \ {x})
<1>1. IsFiniteSet(Cells(gd, S)) /\ Weight(gd, S) = Cardinality(Cells(gd, S))
  BY CellsFinite, WeightIsCount
<1>2. S = {} => Cells(gd, S) = {}
  BY DEF Cells
<1>3. ASSUME NEW x \in S
      PROVE  Weight(gd, S) = gd[x].n + Weight(gd, S \ {x})
  <2>1. IsFiniteSet(S \ {x}) /\ \A g \in S \ {x} : gd[g].n \in Nat
    BY FS_RemoveElement
  <2>2. PICK T : T = S \ {x}
    OBVIOUS
  <2>3. IsFiniteSet(Cells(gd, T)) /\ Weight(gd, T) = Cardinality(Cells(gd, T))
    BY <2>1, <2>2, CellsFinite, WeightIsCount
  <2>4. gd[x].n \in Nat
    OBVIOUS
  <2>5. Cardinality(Cells(gd, S)) = gd[x].n + Cardinality(Cells(gd, T))
    BY <2>2, <2>3, <2>4, CellsSplit
  <2> QED
    BY <1>1, <2>2, <2>3, <2>5
<1> QED
  BY <1>1, <1>2, <1>3, FS_EmptySet, FS_CardinalityType

\* It depends on the entries of those guards only.
LEMMA WeightSame ==
  ASSUME NEW gd, NEW ge, NEW S, IsFiniteSet(S), \A g \in S : gd[g].n \in Nat,
         \A g \in S : ge[g].n = gd[g].n
  PROVE  Weight(ge, S) = Weight(gd, S)
<1>1. Cells(gd, S) = Cells(ge, S)
  BY DEF Cells
<1> QED
  BY <1>1, WeightIsCount

\* Guards without entries do not count.
LEMMA WeightZeros ==
  ASSUME NEW gd, NEW S, NEW T \in SUBSET S, IsFiniteSet(S), \A g \in S : gd[g].n \in Nat,
         \A g \in S \ T : gd[g].n = 0
  PROVE  Weight(gd, S) = Weight(gd, T)
<1>1. Cells(gd, S) = Cells(gd, T)
  BY DEF Cells
<1>2. IsFiniteSet(T)
  BY FS_Subset
<1> QED
  BY <1>1, <1>2, WeightIsCount

\* More guards, more entries.
LEMMA WeightMonotone ==
  ASSUME NEW gd, NEW S, NEW T \in SUBSET S, IsFiniteSet(S), \A g \in S : gd[g].n \in Nat
  PROVE  Weight(gd, T) <= Weight(gd, S)
<1>1. Cells(gd, T) \subseteq Cells(gd, S)
  BY DEF Cells
<1>2. IsFiniteSet(T) /\ IsFiniteSet(Cells(gd, S))
  BY FS_Subset, CellsFinite
<1> QED
  BY <1>1, <1>2, WeightIsCount, FS_Subset
-----------------------------------------------------------------------------
(* The entries of the k oldest guards.                                      *)

Old(o, k) == {o[i] : i \in 1..k}
Base(gd, o, k) == Weight(gd, Old(o, k))

\* Places by age, each place once.
Ages(o) ==
  /\ o \in Seq(Guards)
  /\ \A i, j \in 1..Len(o) : o[i] = o[j] => i = j

Counts(gd) == \A g \in Guards : gd[g].n \in Nat

LEMMA OldIsFinite ==
  ASSUME NEW o, Ages(o), NEW k \in 0..Len(o)
  PROVE  Old(o, k) \subseteq Guards /\ IsFiniteSet(Old(o, k)) /\ IsFiniteSet(Guards)
<1>1. Old(o, k) \subseteq Guards
  <2>1. \A i \in 1..Len(o) : o[i] \in Guards
    BY DEF Ages
  <2>2. Len(o) \in Nat
    BY DEF Ages
  <2> QED
    BY <2>1, <2>2 DEF Old
<1> QED
  BY <1>1, GcAssumption, FS_Subset

LEMMA BaseFacts ==
  ASSUME NEW gd, Counts(gd), NEW o, Ages(o), NEW k \in 0..Len(o)
  PROVE  /\ Base(gd, o, k) \in Nat
         /\ k = 0 => Base(gd, o, k) = 0
         /\ k > 0 => Base(gd, o, k) = Base(gd, o, k - 1) + gd[o[k]].n
<1> PICK S : S = Old(o, k)
  OBVIOUS
<1>1. IsFiniteSet(S) /\ \A g \in S : gd[g].n \in Nat
  BY OldIsFinite DEF Counts
<1>2. Base(gd, o, k) \in Nat /\ (S = {} => Base(gd, o, k) = 0)
      /\ \A x \in S : Weight(gd, S) = gd[x].n + Weight(gd, S \ {x})
  BY <1>1, WeightFacts DEF Base
<1>3. k = 0 => S = {}
  BY DEF Old
<1>4. ASSUME k > 0
      PROVE  Base(gd, o, k) = Base(gd, o, k - 1) + gd[o[k]].n
  <2>1. o[k] \in S /\ S \ {o[k]} = Old(o, k - 1) /\ Len(o) \in Nat
    BY <1>4 DEF Old, Ages
  <2>2. Base(gd, o, k) = gd[o[k]].n + Base(gd, o, k - 1)
    BY <1>2, <2>1 DEF Base
  <2>3. k - 1 \in 0..Len(o)
    BY <1>4, <2>1
  <2>4. Base(gd, o, k - 1) \in Nat
    <3> PICK m : m = k - 1
      OBVIOUS
    <3>1. IsFiniteSet(Old(o, m)) /\ \A g \in Old(o, m) : gd[g].n \in Nat
      BY <2>3, OldIsFinite DEF Counts
    <3>2. Weight(gd, Old(o, m)) \in Nat
      BY <3>1, WeightFacts
    <3> QED
      BY <3>2 DEF Base
  <2> QED
    BY <1>1, <2>1, <2>2, <2>4
<1> QED
  BY <1>2, <1>3, <1>4

LEMMA BaseMonotone ==
  ASSUME NEW gd, Counts(gd), NEW o, Ages(o), NEW k \in 0..Len(o), NEW j \in 0..k
  PROVE  Base(gd, o, j) <= Base(gd, o, k)
<1> PICK S, T : S = Old(o, k) /\ T = Old(o, j)
  OBVIOUS
<1>1. T \in SUBSET S
  BY DEF Old
<1>2. IsFiniteSet(S) /\ \A g \in S : gd[g].n \in Nat
  BY OldIsFinite DEF Counts
<1> QED
  BY <1>1, <1>2, WeightMonotone DEF Base

\* The guards that are in place have all the entries.
LEMMA BaseAll ==
  ASSUME NEW gd, Counts(gd), NEW o, Ages(o),
         \A g \in Guards \ Old(o, Len(o)) : gd[g].n = 0
  PROVE  Weight(gd, Guards) = Base(gd, o, Len(o))
<1>1. Len(o) \in Nat
  BY DEF Ages
<1> PICK T : T = Old(o, Len(o))
  OBVIOUS
<1>2. T \in SUBSET Guards /\ IsFiniteSet(Guards) /\ \A g \in Guards \ T : gd[g].n = 0
  BY <1>1, OldIsFinite
<1> QED
  BY <1>2, WeightZeros DEF Base, Counts

\* The k oldest guards are the same, with the same entries.
Alike(gd, ge, o, p, k) == \A i \in 1..k : p[i] = o[i] /\ ge[o[i]].n = gd[o[i]].n

LEMMA BaseSame ==
  ASSUME NEW gd, NEW ge, NEW o, NEW p, NEW k, Alike(gd, ge, o, p, k),
         Counts(gd), Ages(o), k \in 0..Len(o)
  PROVE  Base(ge, p, k) = Base(gd, o, k)
<1> PICK S : S = Old(o, k)
  OBVIOUS
<1>1. Old(p, k) = S /\ \A g \in S : ge[g].n = gd[g].n
  BY DEF Old, Alike
<1>2. IsFiniteSet(S) /\ \A g \in S : gd[g].n \in Nat
  BY OldIsFinite DEF Counts
<1> QED
  BY <1>1, <1>2, WeightSame DEF Base

\* One entry more for the m-th oldest guard.
LEMMA BaseRaise ==
  ASSUME NEW gd, NEW ge, Counts(gd), Counts(ge), NEW o, Ages(o), NEW m \in 1..Len(o),
         ge[o[m]].n = gd[o[m]].n + 1,
         \A g \in Guards \ {o[m]} : ge[g].n = gd[g].n,
         NEW k \in 0..Len(o)
  PROVE  Base(ge, o, k) = IF k < m THEN Base(gd, o, k) ELSE Base(gd, o, k) + 1
<1> PICK S, x : S = Old(o, k) /\ x = o[m]
  OBVIOUS
<1>0. S \subseteq Guards /\ IsFiniteSet(S) /\ Len(o) \in Nat
  BY OldIsFinite DEF Ages
<1>1. CASE k < m
  <2>1. Alike(gd, ge, o, o, k)
    <3>1. \A i \in 1..k : o[i] \in Guards /\ o[i] # o[m]
      BY <1>0, <1>1 DEF Ages
    <3> QED
      BY <3>1 DEF Alike
  <2> QED
    BY <1>1, <2>1, BaseSame
<1>2. CASE ~(k < m)
  <2>1. x \in S
    BY <1>2 DEF Old
  <2> PICK T : T = S \ {x}
    OBVIOUS
  <2>2. IsFiniteSet(T) /\ \A g \in T : ge[g].n = gd[g].n
    BY <1>0, FS_RemoveElement
  <2>3. Weight(ge, T) = Weight(gd, T)
    BY <1>0, <2>2, WeightSame DEF Counts
  <2>4. /\ Weight(gd, S) = gd[x].n + Weight(gd, T)
        /\ Weight(ge, S) = ge[x].n + Weight(ge, T)
    <3>1. (\A g \in S : gd[g].n \in Nat) /\ (\A g \in S : ge[g].n \in Nat)
      BY <1>0 DEF Counts
    <3>2. \A y \in S : Weight(gd, S) = gd[y].n + Weight(gd, S \ {y})
      BY <1>0, <3>1, WeightFacts
    <3>3. \A y \in S : Weight(ge, S) = ge[y].n + Weight(ge, S \ {y})
      BY <1>0, <3>1, WeightFacts
    <3> QED
      BY <2>1, <3>2, <3>3
  <2>5. Weight(gd, T) \in Nat /\ gd[x].n \in Nat
    BY <1>0, <2>1, <2>2, WeightFacts DEF Counts
  <2> QED
    BY <1>2, <2>3, <2>4, <2>5 DEF Base
<1> QED
  BY <1>1, <1>2

LEMMA PrefixFacts ==
  ASSUME NEW S, NEW s \in Seq(S), NEW n \in 0..Len(s)
  PROVE  /\ SubSeq(s, 1, n) \in Seq(S) /\ Len(SubSeq(s, 1, n)) = n
         /\ \A i \in 1..n : SubSeq(s, 1, n)[i] = s[i]
  OBVIOUS

\* An order without its m-th element.
Cut(o, m) == SubSeq(o, 1, m - 1) \o SubSeq(o, m + 1, Len(o))

LEMMA CutFacts ==
  ASSUME NEW o, Ages(o), NEW m \in 1..Len(o)
  PROVE  /\ Ages(Cut(o, m)) /\ Len(Cut(o, m)) = Len(o) - 1
         /\ \A i \in 1..Len(o) - 1 : Cut(o, m)[i] = IF i < m THEN o[i] ELSE o[i + 1]
<1>0. Len(o) \in Nat /\ o \in Seq(Guards) /\ \A i \in 1..Len(o) : o[i] \in Guards
  BY DEF Ages
<1> DEFINE a == SubSeq(o, 1, m - 1)
           b == SubSeq(o, m + 1, Len(o))
<1>1. a \in Seq(Guards) /\ Len(a) = m - 1 /\ \A i \in 1..m - 1 : a[i] = o[i]
  BY <1>0
<1>2. b \in Seq(Guards) /\ Len(b) = Len(o) - m /\ \A i \in 1..Len(o) - m : b[i] = o[i + m]
  BY <1>0
<1> HIDE DEF a, b
<1>3. /\ a \o b \in Seq(Guards) /\ Len(a \o b) = Len(o) - 1
      /\ \A i \in 1..Len(o) - 1 : (a \o b)[i] = IF i < m THEN o[i] ELSE o[i + 1]
  <2>1. a \o b \in Seq(Guards) /\ Len(a \o b) = Len(o) - 1
    BY <1>0, <1>1, <1>2
  <2>2. ASSUME NEW i \in 1..Len(o) - 1, i < m
        PROVE  (a \o b)[i] = o[i]
    BY <1>0, <1>1, <1>2, <2>2
  <2>3. ASSUME NEW i \in 1..Len(o) - 1, ~(i < m)
        PROVE  (a \o b)[i] = o[i + 1]
    <3>1. (a \o b)[i] = b[i - Len(a)]
      BY <1>0, <1>1, <1>2, <2>3
    <3>2. i - Len(a) \in 1..Len(o) - m /\ (i - Len(a)) + m = i + 1
      BY <1>0, <1>1, <2>3
    <3> QED
      BY <1>2, <3>1, <3>2
  <2> QED
    BY <2>1, <2>2, <2>3
<1>4. Cut(o, m) = a \o b
  BY DEF Cut, a, b
<1>5. \A i, j \in 1..Len(o) - 1 : Cut(o, m)[i] = Cut(o, m)[j] => i = j
  <2> DEFINE from(i) == IF i < m THEN i ELSE i + 1
  <2>1. \A i, j \in 1..Len(o) - 1 :
          from(i) \in 1..Len(o) /\ (from(i) = from(j) => i = j)
    BY <1>0
  <2>2. \A i \in 1..Len(o) - 1 : Cut(o, m)[i] = o[from(i)]
    BY <1>3, <1>4
  <2> HIDE DEF from
  <2> QED
    BY <2>1, <2>2 DEF Ages
<1> QED
  BY <1>3, <1>4, <1>5 DEF Ages

\* The other guards than the m-th oldest have the same entries.
AlikeBut(gd, ge, o, m) ==
  Counts(gd) /\ Ages(o) /\ m \in 1..Len(o) /\ \A h \in Guards \ {o[m]} : ge[h].n = gd[h].n

\* Without the m-th oldest guard, its entries are missing from there on.
LEMMA BaseCut ==
  ASSUME NEW gd, NEW ge, NEW o, NEW m, AlikeBut(gd, ge, o, m)
  PROVE  \A k \in 0..Len(o) - 1 :
           Base(ge, Cut(o, m), k) =
             IF k < m THEN Base(gd, o, k) ELSE Base(gd, o, k + 1) - gd[o[m]].n
<1>a. Counts(gd) /\ Ages(o) /\ m \in 1..Len(o)
  BY DEF AlikeBut
<1> SUFFICES ASSUME NEW k \in 0..Len(o) - 1
             PROVE  Base(ge, Cut(o, m), k) =
                      IF k < m THEN Base(gd, o, k) ELSE Base(gd, o, k + 1) - gd[o[m]].n
  OBVIOUS
<1>0. Len(o) \in Nat /\ \A i \in 1..Len(o) : o[i] \in Guards
  BY <1>a DEF Ages
<1>b. \A g \in Guards \ {o[m]} : ge[g].n = gd[g].n
  BY DEF AlikeBut
<1> PICK p : p = Cut(o, m)
  OBVIOUS
<1>1. \A i \in 1..Len(o) - 1 : p[i] = IF i < m THEN o[i] ELSE o[i + 1]
  BY <1>a, CutFacts
<1>2. CASE k < m
  <2>1. Alike(gd, ge, o, p, k)
    BY <1>a, <1>b, <1>0, <1>1, <1>2 DEF Ages, Alike
  <2>2. k \in 0..Len(o)
    BY <1>0
  <2>3. Base(ge, p, k) = Base(gd, o, k)
    BY <1>a, <2>1, <2>2, BaseSame
  <2> QED
    BY <1>2, <2>3
<1>3. CASE ~(k < m)
  <2> PICK S, T, x : S = Old(o, k + 1) /\ T = Old(p, k) /\ x = o[m]
    OBVIOUS
  <2>1. x \in S
    BY <1>a, <1>0, <1>3 DEF Old
  <2>2. T = S \ {x}
    <3>1. ASSUME NEW g \in T PROVE g \in S \ {x}
      <4>1. PICK i \in 1..k : g = p[i]
        BY <3>1 DEF Old
      <4>2. g = (IF i < m THEN o[i] ELSE o[i + 1]) /\ i \in 1..Len(o) - 1
        BY <4>1, <1>0, <1>1
      <4>3. PICK j \in 1..k + 1 : g = o[j] /\ j # m
        BY <4>1, <4>2, <1>0
      <4>4. g # o[m]
        BY <4>3, <1>a, <1>0 DEF Ages
      <4> QED
        BY <4>3, <4>4 DEF Old
    <3>2. ASSUME NEW g \in S \ {x} PROVE g \in T
      <4>1. PICK j \in 1..k + 1 : g = o[j] /\ j # m
        BY <3>2 DEF Old
      <4>2. CASE j < m
        <5>1. j \in 1..k /\ p[j] = o[j]
          BY <1>a, <4>1, <4>2, <1>0, <1>1, <1>3
        <5> QED
          BY <5>1, <4>1 DEF Old
      <4>3. CASE j > m
        <5>1. j - 1 \in 1..k /\ p[j - 1] = o[j]
          BY <1>a, <4>1, <4>3, <1>0, <1>1, <1>3
        <5> QED
          BY <5>1, <4>1 DEF Old
      <4> QED
        BY <1>a, <1>0, <4>1, <4>2, <4>3
    <3> QED
      BY <3>1, <3>2
  <2>3. S \subseteq Guards /\ IsFiniteSet(S) /\ IsFiniteSet(T)
    <3> PICK j : j = k + 1
      OBVIOUS
    <3>1. j \in 0..Len(o)
      BY <1>0
    <3>2. Old(o, j) \subseteq Guards /\ IsFiniteSet(Old(o, j))
      BY <1>a, <3>1, OldIsFinite
    <3>3. S \subseteq Guards /\ IsFiniteSet(S)
      BY <3>2
    <3>4. IsFiniteSet(T)
      BY ONLY <2>2, <3>3, FS_RemoveElement
    <3> QED
      BY <3>3, <3>4
  <2>4. Weight(gd, S) = gd[x].n + Weight(gd, T) /\ Weight(gd, T) \in Nat
    <3>1. (\A g \in S : gd[g].n \in Nat) /\ (\A g \in T : gd[g].n \in Nat)
      BY <1>a, <2>2, <2>3 DEF Counts
    <3>2. \A y \in S : Weight(gd, S) = gd[y].n + Weight(gd, S \ {y})
      BY <2>3, <3>1, WeightFacts
    <3>3. Weight(gd, T) \in Nat
      BY <2>3, <3>1, WeightFacts
    <3> QED
      BY <2>1, <2>2, <3>2, <3>3
  <2>5. Weight(ge, T) = Weight(gd, T)
    BY <1>a, <1>b, <2>2, <2>3, WeightSame DEF Counts
  <2>6. gd[x].n \in Nat
    BY <1>a, <2>1, <2>3 DEF Counts
  <2> QED
    BY <1>3, <2>4, <2>5, <2>6 DEF Base
<1> QED
  BY <1>2, <1>3

\* No guard younger than the m-th has an entry.
LEMMA BaseTop ==
  ASSUME NEW gd, Counts(gd), NEW o, Ages(o), NEW m \in 0..Len(o), NEW k \in m..Len(o),
         \A i \in m + 1..Len(o) : gd[o[i]].n = 0
  PROVE  Base(gd, o, k) = Base(gd, o, m)
<1> PICK S, T : S = Old(o, k) /\ T = Old(o, m)
  OBVIOUS
<1>1. Len(o) \in Nat
  BY DEF Ages
<1>2. T \in SUBSET S
  BY <1>1 DEF Old
<1>3. \A g \in S \ T : gd[g].n = 0
  BY <1>1 DEF Old
<1>4. IsFiniteSet(S) /\ \A g \in S : gd[g].n \in Nat
  BY <1>1, OldIsFinite DEF Counts
<1> QED
  BY <1>2, <1>3, <1>4, WeightZeros DEF Base

-----------------------------------------------------------------------------
(* The inductive invariant.                                                 *)

SlotValues == {<<>>} \cup ((Nat \ {0}) \X (Objs \cup {Nil}))

Kinds == {"none", "scope", "tls", "owned", "forgotten", "arena"}

GuardRecords == [kind : Kinds, n : Nat, roots : SUBSET Objs, slot : SlotValues]

\* What a place can hold; only scopes and owned guards root entries of the stack.
GuardTypes ==
  /\ guard \in [Guards -> GuardRecords]
  /\ \A g \in Guards :
       /\ guard[g].kind \in {"none", "arena"} => guard[g].n = 0 /\ guard[g].slot = <<>>
       /\ guard[g].kind \in {"none", "forgotten"} => guard[g].roots = {} /\ guard[g].slot = <<>>

\* The live guards, by age.
OrderOK == Ages(order) /\ Live = Old(order, Len(order))

FrameRecords == [height : Nat, below : Nat, outer : BOOLEAN]

\* A call made from another began with the guards that one had then.
FramesOK ==
  /\ frames \in Seq(FrameRecords) /\ frames # <<>>
  /\ frames[1] = OutermostCall
  /\ \A i \in 1..Len(frames) : frames[i].below <= Len(order)
  /\ \A i, j \in 1..Len(frames) : i <= j => frames[i].below <= frames[j].below

\* The entries of the guards a call began with are the height it began with, and
\* more if some were pushed since.
HeightOK(f, gd, o) ==
  /\ f.height <= Base(gd, o, f.below)
  /\ ~f.outer => f.height = Base(gd, o, f.below)

Balanced ==
  ~miscounted =>
    /\ Len(stack) = Base(guard, order, Len(order))
    /\ \A i \in 1..Len(frames) : HeightOK(frames[i], guard, order)

Segment(gd, o, k) == Base(gd, o, k - 1) + 1..Base(gd, o, k)

\* The k-th oldest guard has its roots, and its slot, in its own segment.
RootsKept(gd, o, st, hp, k) ==
  \A x \in gd[o[k]].roots :
    /\ x \in hp
    /\ \E i \in Segment(gd, o, k) :
         st[i] = x /\ (gd[o[k]].slot # <<>> => gd[o[k]].slot[1] # i)

SlotKept(gd, o, st, hp, k) ==
  LET s == gd[o[k]].slot
  IN  s # <<>> => s[1] \in Segment(gd, o, k) /\ st[s[1]] = s[2] /\ s[2] \in hp \cup {Nil}

Kept(gd, o, st, hp) ==
  \A k \in 1..Len(o) :
    gd[o[k]].kind # "arena" => RootsKept(gd, o, st, hp, k) /\ SlotKept(gd, o, st, hp, k)

CoreInv ==
  /\ heap \subseteq Objs /\ stack \in Seq(Objs \cup {Nil})
  /\ GuardTypes /\ OrderOK /\ FramesOK
  /\ Balanced
  /\ ~mixed /\ ~miscounted => Kept(guard, order, stack, heap)

-----------------------------------------------------------------------------
(* Segments.                                                                *)

LEMMA CoreFacts ==
  ASSUME CoreInv
  PROVE  /\ Counts(guard) /\ Ages(order) /\ Len(order) \in Nat /\ Len(stack) \in Nat
         /\ \A i \in 1..Len(order) : order[i] \in Live /\ order[i] \in Guards
         /\ \A g \in Live : \E i \in 1..Len(order) : order[i] = g
         /\ \A i \in 1..Len(stack) : stack[i] \in Objs \cup {Nil}
         /\ Len(frames) \in Nat \ {0}
         /\ Call \in FrameRecords /\ Call.below \in 0..Len(order)
         /\ \A i \in 1..Len(frames) :
              frames[i] \in FrameRecords /\ frames[i].below \in 0..Call.below
<1>1. Counts(guard)
  BY DEF CoreInv, GuardTypes, GuardRecords, Counts
<1>2. Ages(order) /\ Len(order) \in Nat /\ Len(stack) \in Nat
  BY DEF CoreInv, OrderOK, Ages
<1>3. /\ \A i \in 1..Len(order) : order[i] \in Live /\ order[i] \in Guards
      /\ \A g \in Live : \E i \in 1..Len(order) : order[i] = g
  BY <1>2 DEF CoreInv, OrderOK, Old, Live
<1>4. \A i \in 1..Len(stack) : stack[i] \in Objs \cup {Nil}
  BY DEF CoreInv
<1>5. Len(frames) \in Nat \ {0} /\ \A i \in 1..Len(frames) : frames[i] \in FrameRecords
  BY EmptySeq DEF CoreInv, FramesOK
<1>6. \A i \in 1..Len(frames) : frames[i].below \in 0..Call.below
  BY <1>5 DEF CoreInv, FramesOK, Call, FrameRecords
<1>7. Call.below \in 0..Len(order)
  BY <1>2, <1>5 DEF CoreInv, FramesOK, Call, FrameRecords
<1> QED
  BY <1>1, <1>2, <1>3, <1>4, <1>5, <1>6, <1>7 DEF Call

\* Segments are parts of the stack, and no two of them meet.
LEMMA SegmentInside ==
  ASSUME NEW gd, Counts(gd), NEW o, Ages(o), NEW k \in 1..Len(o)
  PROVE  /\ Base(gd, o, k - 1) \in Nat /\ Base(gd, o, k) \in Nat
         /\ Base(gd, o, Len(o)) \in Nat
         /\ Base(gd, o, k) = Base(gd, o, k - 1) + gd[o[k]].n /\ gd[o[k]].n \in Nat
         /\ Base(gd, o, k) <= Base(gd, o, Len(o))
         /\ Segment(gd, o, k) \subseteq 1..Base(gd, o, Len(o))
<1>0. Len(o) \in Nat /\ k \in 0..Len(o) /\ k - 1 \in 0..Len(o) /\ Len(o) \in 0..Len(o) /\ o[k] \in Guards
  BY DEF Ages
<1>1. Base(gd, o, k) \in Nat /\ Base(gd, o, k) = Base(gd, o, k - 1) + gd[o[k]].n
  BY <1>0, BaseFacts
<1>2. Base(gd, o, k - 1) \in Nat
  <2> PICK j : j = k - 1
    OBVIOUS
  <2>1. Base(gd, o, j) \in Nat
    BY <1>0, BaseFacts
  <2> QED
    BY <2>1
<1>3. Base(gd, o, Len(o)) \in Nat /\ Base(gd, o, k) <= Base(gd, o, Len(o))
  BY <1>0, BaseFacts, BaseMonotone
<1> QED
  BY <1>0, <1>1, <1>2, <1>3 DEF Segment, Counts

LEMMA SegmentsApart ==
  ASSUME NEW gd, Counts(gd), NEW o, Ages(o), NEW j \in 1..Len(o), NEW k \in 1..Len(o), j # k
  PROVE  Segment(gd, o, j) \cap Segment(gd, o, k) = {}
<1>0. Len(o) \in Nat
  BY DEF Ages
<1>1. ASSUME NEW a \in 1..Len(o), NEW b \in 1..Len(o), a < b
      PROVE  Segment(gd, o, a) \cap Segment(gd, o, b) = {}
  <2> PICK c : c = b - 1
    OBVIOUS
  <2>1. c \in 0..Len(o) /\ a \in 0..c
    BY <1>0, <1>1
  <2>2. Base(gd, o, a) <= Base(gd, o, c)
    BY <2>1, BaseMonotone
  <2>3. Base(gd, o, a) \in Nat /\ Base(gd, o, c) \in Nat /\ Base(gd, o, a - 1) \in Nat
        /\ Base(gd, o, b) \in Nat
    BY <1>1, SegmentInside
  <2> QED
    BY <2>2, <2>3 DEF Segment
<1> QED
  BY <1>0, <1>1

\* What a guard has in its segment it keeps when the guard, the segment and
\* the entries in it stay, whatever its age becomes.
LEMMA KeptTransfer ==
  ASSUME NEW gd, NEW o, NEW st, NEW hp, NEW k,
         NEW ge, NEW p, NEW su, NEW hq, NEW j,
         ge[p[j]] = gd[o[k]], Segment(ge, p, j) = Segment(gd, o, k),
         \A i \in Segment(gd, o, k) : su[i] = st[i] /\ (st[i] \in hp => st[i] \in hq),
         RootsKept(gd, o, st, hp, k), SlotKept(gd, o, st, hp, k)
  PROVE  RootsKept(ge, p, su, hq, j) /\ SlotKept(ge, p, su, hq, j)
  BY DEF RootsKept, SlotKept

\* A guard without entries roots nothing.
LEMMA NothingKept ==
  ASSUME NEW gd, Counts(gd), NEW o, Ages(o), NEW st, NEW hp, NEW k \in 1..Len(o),
         gd[o[k]].n = 0, RootsKept(gd, o, st, hp, k), SlotKept(gd, o, st, hp, k)
  PROVE  gd[o[k]].roots = {} /\ gd[o[k]].slot = <<>>
<1>1. Segment(gd, o, k) = {}
  BY SegmentInside DEF Segment
<1> QED
  BY <1>1 DEF RootsKept, SlotKept

LEMMA BaresKept ==
  ASSUME NEW gd, NEW o, NEW st, NEW hp, NEW k, gd[o[k]].roots = {}, gd[o[k]].slot = <<>>
  PROVE  RootsKept(gd, o, st, hp, k) /\ SlotKept(gd, o, st, hp, k)
  BY DEF RootsKept, SlotKept

-----------------------------------------------------------------------------
(* Steps that leave the guards as they are.                                 *)

LEMMA InitCore == Init => CoreInv
<1> SUFFICES ASSUME Init PROVE CoreInv
  OBVIOUS
<1>1. guard = [g \in Guards |-> NoGuard] /\ order = <<>> /\ stack = <<>> /\ heap = {}
      /\ frames = <<OutermostCall>> /\ Len(order) = 0 /\ Len(stack) = 0
  BY DEF Init
<1>2. GuardTypes
  BY <1>1 DEF GuardTypes, GuardRecords, NoGuard, Kinds, SlotValues
<1>3. OrderOK
  BY <1>1 DEF OrderOK, Ages, Old, Live, NoGuard
<1>4. FramesOK
  BY <1>1 DEF FramesOK, FrameRecords, OutermostCall
<1>5. Counts(guard)
  BY <1>2 DEF GuardTypes, GuardRecords, Counts
<1>6. Base(guard, order, 0) = 0
  BY <1>1, <1>3, <1>5, BaseFacts DEF OrderOK
<1>7. Balanced
  BY <1>1, <1>6 DEF Balanced, HeightOK, OutermostCall
<1>8. Kept(guard, order, stack, heap)
  BY <1>1 DEF Kept
<1> QED
  BY <1>1, <1>2, <1>3, <1>4, <1>7, <1>8 DEF CoreInv

LEMMA SameGuardsCore ==
  ASSUME CoreInv, UNCHANGED <<guard, order, stack, mixed, miscounted>>, heap' \subseteq Objs,
         \A i \in 1..Len(stack) : stack[i] \in heap => stack[i] \in heap',
         FramesOK', Balanced'
  PROVE  CoreInv'
<1>1. GuardTypes' /\ OrderOK'
  BY DEF CoreInv, GuardTypes, OrderOK, Live
<1>2. ASSUME ~mixed, ~miscounted
      PROVE  Kept(guard, order, stack, heap')
  <2> SUFFICES ASSUME NEW k \in 1..Len(order), guard[order[k]].kind # "arena"
               PROVE  RootsKept(guard, order, stack, heap', k)
                      /\ SlotKept(guard, order, stack, heap', k)
    BY DEF Kept
  <2>1. RootsKept(guard, order, stack, heap, k) /\ SlotKept(guard, order, stack, heap, k)
    BY <1>2 DEF CoreInv, Kept
  <2>2. Segment(guard, order, k) \subseteq 1..Len(stack)
    BY <1>2, CoreFacts, SegmentInside DEF CoreInv, Balanced
  <2> QED
    BY <2>1, <2>2, KeptTransfer
<1> QED
  BY <1>1, <1>2 DEF CoreInv

LEMMA EnterCore ==
  ASSUME CoreInv, Enter
  PROVE  CoreInv'
<1> DEFINE f == [height |-> Len(stack), below |-> Len(order), outer |-> FALSE]
<1>1. frames' = Append(frames, f) /\ UNCHANGED <<guard, order, stack, heap, mixed, miscounted>>
  BY DEF Enter, rust, stackMarks
<1>2. f \in FrameRecords /\ f.below = Len(order) /\ f.height = Len(stack) /\ ~f.outer
  BY CoreFacts DEF FrameRecords
<1> HIDE DEF f
<1>3. /\ frames' \in Seq(FrameRecords) /\ frames' # <<>> /\ Len(frames') = Len(frames) + 1
      /\ \A i \in 1..Len(frames) : frames'[i] = frames[i]
      /\ frames'[Len(frames) + 1] = f
  BY <1>1, <1>2 DEF CoreInv, FramesOK
<1>4. FramesOK'
  <2>1. frames'[1] = OutermostCall
    BY <1>3, CoreFacts DEF CoreInv, FramesOK
  <2>2. \A i \in 1..Len(frames') : frames'[i].below <= Len(order)
    BY <1>2, <1>3, CoreFacts DEF CoreInv, FramesOK
  <2>3. ASSUME NEW i \in 1..Len(frames'), NEW j \in 1..Len(frames'), i <= j
        PROVE  frames'[i].below <= frames'[j].below
    <3>1. CASE j = Len(frames) + 1
      BY <2>2, <3>1, <1>2, <1>3
    <3>2. CASE j # Len(frames) + 1
      <4>1. i \in 1..Len(frames) /\ j \in 1..Len(frames)
        BY <2>3, <3>2, <1>3, CoreFacts
      <4> QED
        BY <4>1, <2>3, <1>3 DEF CoreInv, FramesOK
    <3> QED
      BY <3>1, <3>2
  <2> QED
    BY <1>1, <1>3, <2>1, <2>2, <2>3 DEF FramesOK
<1>5. Balanced'
  <2> SUFFICES ASSUME ~miscounted
               PROVE  /\ Len(stack) = Base(guard, order, Len(order))
                      /\ \A i \in 1..Len(frames') : HeightOK(frames'[i], guard, order)
    BY <1>1 DEF Balanced
  <2>1. /\ Len(stack) = Base(guard, order, Len(order))
        /\ \A i \in 1..Len(frames) : HeightOK(frames[i], guard, order)
    BY DEF CoreInv, Balanced
  <2>2. HeightOK(f, guard, order)
    BY <1>2, <2>1, CoreFacts DEF HeightOK
  <2> QED
    BY <1>3, <2>1, <2>2, CoreFacts
<1> QED
  BY <1>1, <1>4, <1>5, SameGuardsCore DEF CoreInv

LEMMA FramesPopped ==
  ASSUME CoreInv, Len(frames) > 1
  PROVE  LET fs == SubSeq(frames, 1, Len(frames) - 1)
         IN  /\ fs \in Seq(FrameRecords) /\ fs # <<>> /\ Len(fs) = Len(frames) - 1
             /\ \A i \in 1..Len(frames) - 1 : fs[i] = frames[i]
<1>1. frames \in Seq(FrameRecords) /\ Len(frames) \in Nat
  BY DEF CoreInv, FramesOK
<1> DEFINE fs == SubSeq(frames, 1, Len(frames) - 1)
<1>2. /\ fs \in Seq(FrameRecords) /\ Len(fs) = Len(frames) - 1
      /\ \A i \in 1..Len(frames) - 1 : fs[i] = frames[i]
  BY <1>1, PrefixFacts
<1> HIDE DEF fs
<1>3. Len(fs) # 0
  BY <1>1, <1>2
<1>4. fs # <<>>
  BY <1>3, EmptySeq
<1> QED
  BY <1>2, <1>4 DEF fs

LEMMA LeaveCore ==
  ASSUME CoreInv, Leave
  PROVE  CoreInv'
<1>1. /\ Len(frames) > 1 /\ frames' = SubSeq(frames, 1, Len(frames) - 1)
      /\ UNCHANGED <<guard, order, stack, heap, mixed, miscounted>>
  BY DEF Leave, rust, stackMarks
<1>2. /\ frames' \in Seq(FrameRecords) /\ frames' # <<>> /\ Len(frames') = Len(frames) - 1
      /\ \A i \in 1..Len(frames) - 1 : frames'[i] = frames[i]
  BY <1>1, FramesPopped
<1>3. Len(frames) \in Nat
  BY CoreFacts
<1>4. FramesOK'
  <2>1. frames'[1] = OutermostCall
    BY <1>1, <1>2, <1>3 DEF CoreInv, FramesOK
  <2>2. \A i \in 1..Len(frames') : i \in 1..Len(frames) /\ frames'[i] = frames[i]
    BY <1>2, <1>3
  <2>3. /\ \A i \in 1..Len(frames) : frames[i].below <= Len(order)
        /\ \A i, j \in 1..Len(frames) : i <= j => frames[i].below <= frames[j].below
    BY DEF CoreInv, FramesOK
  <2>4. /\ \A i \in 1..Len(frames') : frames'[i].below <= Len(order')
        /\ \A i, j \in 1..Len(frames') : i <= j => frames'[i].below <= frames'[j].below
    BY <1>1, <2>2, <2>3
  <2> QED
    BY <1>2, <2>1, <2>4 DEF FramesOK
<1>5. Balanced'
  BY <1>1, <1>2, <1>3 DEF CoreInv, Balanced
<1> QED
  BY <1>1, <1>4, <1>5, SameGuardsCore DEF CoreInv

-----------------------------------------------------------------------------
(* A new guard, with an entry or without.                                   *)

LEMMA PlaceCore ==
  ASSUME CoreInv, NEW g \in Guards, NEW r \in GuardRecords, Place(g, r),
         UNCHANGED <<frames, mixed, miscounted>>, heap' \subseteq Objs,
         \A i \in 1..Len(stack) : stack[i] \in heap => stack[i] \in heap',
         r.slot = <<>>, r.kind # "none",
         \/ r.kind \in {"scope", "tls", "arena"} /\ r.n = 0 /\ stack' = stack
            /\ (r.kind # "arena" => r.roots = {})
         \/ r.kind = "owned" /\ r.n = 1 /\ ~mixed /\ ~miscounted /\ heap' = heap
            /\ \E x \in heap : r.roots = {x} /\ stack' = Append(stack, x)
  PROVE  CoreInv'
<1>0. /\ guard[g].kind = "none" /\ guard' = [guard EXCEPT ![g] = r]
      /\ order' = Append(order, g)
  BY DEF Place
<1>1. guard \in [Guards -> GuardRecords]
  BY DEF CoreInv, GuardTypes
<1>2. guard'[g] = r /\ \A h \in Guards : h # g => guard'[h] = guard[h]
  BY <1>0, <1>1
<1> DEFINE L == Len(order)
<1>3. /\ order' \in Seq(Guards) /\ Len(order') = L + 1 /\ L \in Nat
      /\ \A i \in 1..L : order'[i] = order[i] /\ order[i] \in Guards /\ order[i] # g
      /\ order'[L + 1] = g
  <2>1. order \in Seq(Guards) /\ L \in Nat
    BY DEF CoreInv, OrderOK, Ages
  <2>2. \A i \in 1..L : order[i] \in Guards /\ order[i] # g
    BY <1>0, CoreFacts DEF Live
  <2> QED
    BY <1>0, <2>1, <2>2
<1>4. GuardTypes'
  <2>1. guard' \in [Guards -> GuardRecords]
    BY <1>0, <1>1
  <2> QED
    BY <2>1, <1>2 DEF CoreInv, GuardTypes
<1>5. OrderOK'
  <2>1. Ages(order')
    BY <1>3 DEF CoreInv, OrderOK, Ages
  <2>2. Live' = Live \cup {g}
    BY <1>2 DEF Live
  <2>3. Old(order', L + 1) = Old(order, L) \cup {g}
    BY <1>3 DEF Old
  <2> QED
    BY <1>3, <2>1, <2>2, <2>3 DEF CoreInv, OrderOK
<1>6. Counts(guard) /\ Counts(guard') /\ Ages(order) /\ Ages(order')
  BY <1>4, <1>5, CoreFacts DEF Counts, GuardTypes, GuardRecords, OrderOK
<1>7. \A k \in 0..L : Base(guard', order', k) = Base(guard, order, k)
  <2> SUFFICES ASSUME NEW k \in 0..L
               PROVE  Base(guard', order', k) = Base(guard, order, k)
    OBVIOUS
  <2>1. Alike(guard, guard', order, order', k)
    BY <1>2, <1>3 DEF Alike
  <2>2. k \in 0..Len(order)
    OBVIOUS
  <2> HIDE DEF L
  <2> QED
    BY <1>6, <2>1, <2>2, BaseSame
<1>8. Base(guard', order', L + 1) = Base(guard, order, L) + r.n
  <2> PICK j : j = L + 1
    OBVIOUS
  <2>1. j \in 0..Len(order') /\ j > 0
    BY <1>3
  <2>2. Base(guard', order', j) = Base(guard', order', j - 1) + guard'[order'[j]].n
    BY <1>6, <2>1, BaseFacts
  <2>3. j - 1 = L /\ L \in 0..L
    BY <1>3
  <2> QED
    BY <1>2, <1>3, <1>7, <2>2, <2>3
<1>9. FramesOK'
  <2>1. /\ frames \in Seq(FrameRecords) /\ frames # <<>> /\ frames[1] = OutermostCall
        /\ \A i \in 1..Len(frames) : frames[i].below \in 0..L
        /\ \A i, j \in 1..Len(frames) : i <= j => frames[i].below <= frames[j].below
    BY CoreFacts DEF CoreInv, FramesOK
  <2>2. \A i \in 1..Len(frames) : frames[i].below <= Len(order')
    BY <1>3, <2>1
  <2> QED
    BY <2>1, <2>2 DEF FramesOK
<1>10. stack' \in Seq(Objs \cup {Nil}) /\ Len(stack') = Len(stack) + r.n
       /\ \A i \in 1..Len(stack) : stack'[i] = stack[i]
  <2>1. stack \in Seq(Objs \cup {Nil}) /\ heap \subseteq Objs /\ Len(stack) \in Nat
    BY DEF CoreInv
  <2> QED
    BY <2>1
<1>11. Balanced'
  <2> SUFFICES ASSUME ~miscounted
               PROVE  /\ Len(stack') = Base(guard', order', L + 1)
                      /\ \A i \in 1..Len(frames) : HeightOK(frames[i], guard', order')
    BY <1>3 DEF Balanced
  <2>1. /\ Len(stack) = Base(guard, order, L)
        /\ \A i \in 1..Len(frames) : HeightOK(frames[i], guard, order)
    BY DEF CoreInv, Balanced
  <2>2. \A i \in 1..Len(frames) : frames[i].below \in 0..L
    BY CoreFacts
  <2>3. \A i \in 1..Len(frames) : HeightOK(frames[i], guard', order')
    BY <1>7, <2>1, <2>2 DEF HeightOK
  <2> QED
    BY <1>8, <1>10, <2>1, <2>3
<1>12. ASSUME ~mixed, ~miscounted
       PROVE  Kept(guard', order', stack', heap')
  <2> SUFFICES ASSUME NEW k \in 1..L + 1, guard'[order'[k]].kind # "arena"
               PROVE  /\ RootsKept(guard', order', stack', heap', k)
                      /\ SlotKept(guard', order', stack', heap', k)
    BY <1>3 DEF Kept
  <2>1. Len(stack) = Base(guard, order, L)
    BY <1>12 DEF CoreInv, Balanced
  <2>2. CASE k \in 1..L
    <3>1. guard'[order'[k]] = guard[order[k]] /\ k - 1 \in 0..L /\ k \in 0..L
      BY <1>2, <1>3, <2>2
    <3>2. Segment(guard', order', k) = Segment(guard, order, k)
      BY <1>7, <3>1 DEF Segment
    <3>3. RootsKept(guard, order, stack, heap, k) /\ SlotKept(guard, order, stack, heap, k)
      BY <1>12, <2>2, <3>1 DEF CoreInv, Kept
    <3>4. Segment(guard, order, k) \subseteq 1..Len(stack)
      BY <1>6, <2>1, <2>2, SegmentInside
    <3> QED
      BY <1>10, <3>1, <3>2, <3>3, <3>4, KeptTransfer
  <2>3. CASE k = L + 1
    <3>1. guard'[order'[k]] = r
      BY <1>2, <1>3, <2>3
    <3>2. CASE r.roots = {}
      BY <3>1, <3>2, BaresKept
    <3>3. CASE r.roots # {}
      <4>1. PICK x \in heap : r.roots = {x} /\ stack' = Append(stack, x) /\ r.n = 1 /\ heap' = heap
        BY <3>1, <3>3
      <4>2. stack'[Len(stack) + 1] = x
        BY <4>1, CoreFacts DEF CoreInv
      <4>3. Len(stack) + 1 \in Segment(guard', order', k)
        <5>1. k - 1 = L /\ L \in 0..L
          BY <1>3, <2>3
        <5> QED
          BY <1>7, <1>8, <2>1, <2>3, <4>1, <5>1, CoreFacts DEF Segment
      <4> QED
        BY <3>1, <4>1, <4>2, <4>3 DEF RootsKept, SlotKept
    <3> QED
      BY <3>2, <3>3
  <2> QED
    BY <1>3, <2>2, <2>3
<1> QED
  BY <1>4, <1>5, <1>9, <1>10, <1>11, <1>12 DEF CoreInv

-----------------------------------------------------------------------------
(* A scope gets one entry more.                                             *)

\* A guard is changed and stays live; places and ages stay.
LEMMA ChangeShape ==
  ASSUME CoreInv, NEW g \in Live, NEW r \in GuardRecords,
         guard' = [guard EXCEPT ![g] = r], order' = order,
         r.kind \notin {"none", "arena"},
         r.kind = "forgotten" => r.roots = {} /\ r.slot = <<>>
  PROVE  /\ GuardTypes' /\ OrderOK' /\ Counts(guard')
         /\ guard'[g] = r
         /\ \A h \in Guards \ {g} : guard'[h] = guard[h]
<1>1. guard \in [Guards -> GuardRecords] /\ g \in Guards
  BY DEF CoreInv, GuardTypes, Live
<1>2. guard'[g] = r /\ \A h \in Guards \ {g} : guard'[h] = guard[h]
  BY <1>1
<1>3. guard' \in [Guards -> GuardRecords]
  BY <1>1
<1>4. GuardTypes'
  BY <1>2, <1>3 DEF CoreInv, GuardTypes
<1>5. Live' = Live
  BY <1>1, <1>2 DEF Live
<1>6. OrderOK'
  BY <1>5 DEF CoreInv, OrderOK
<1>7. Counts(guard')
  BY <1>3 DEF Counts, GuardRecords
<1> QED
  BY <1>2, <1>4, <1>6, <1>7

\* Nobody above the m-th has an entry: the m-th has the end of the stack.
LEMMA OnTopIsLast ==
  ASSUME CoreInv, NEW m \in 1..Len(order), OnTop(order[m])
  PROVE  /\ \A i \in m + 1..Len(order) : guard[order[i]].n = 0
         /\ \A k \in m..Len(order) : Base(guard, order, k) = Base(guard, order, m)
<1>1. ASSUME NEW i \in m + 1..Len(order)
      PROVE  guard[order[i]].n = 0
  <2>1. i \in 1..Len(order) /\ m < i
    BY CoreFacts
  <2>2. order[i] \in Live
    BY <2>1, CoreFacts
  <2>3. Younger(order[i], order[m])
    BY <2>1 DEF Younger
  <2> QED
    BY <2>2, <2>3 DEF OnTop
<1>2. ASSUME NEW k \in m..Len(order)
      PROVE  Base(guard, order, k) = Base(guard, order, m)
  <2>1. m \in 0..Len(order)
    BY CoreFacts
  <2> QED
    BY <1>1, <2>1, CoreFacts, BaseTop
<1> QED
  BY <1>1, <1>2

LEMMA RaiseCore ==
  ASSUME CoreInv, NEW g \in Live, NEW x \in Objs \cup {Nil}, Push(x), Through(g),
         NEW r \in GuardRecords, guard' = [guard EXCEPT ![g] = r],
         UNCHANGED <<heap, order, miscounted>>,
         r.kind \in {"scope", "tls"}, guard[g].kind = r.kind, r.n = guard[g].n + 1,
         \/ r.roots = guard[g].roots \cup {x} /\ r.slot = guard[g].slot /\ x \in heap
         \/ /\ r.roots = guard[g].roots /\ guard[g].slot = <<>>
            /\ r.slot = <<Len(stack) + 1, x>> /\ x \in heap \cup {Nil}
  PROVE  CoreInv'
<1>0. ~mixed /\ ~miscounted /\ stack' = Append(stack, x)
  BY DEF Push
<1> PICK m \in 1..Len(order) : order[m] = g
  BY CoreFacts
<1> DEFINE L == Len(order)
<1>1. /\ GuardTypes' /\ OrderOK' /\ Counts(guard') /\ guard'[g] = r
      /\ \A h \in Guards \ {g} : guard'[h] = guard[h]
      /\ \A k \in 1..L : k # m => order[k] \in Guards \ {g}
  <2>1. r.kind \notin {"none", "arena"} /\ r.kind # "forgotten" /\ order' = order
    OBVIOUS
  <2>2. /\ GuardTypes' /\ OrderOK' /\ Counts(guard') /\ guard'[g] = r
        /\ \A h \in Guards \ {g} : guard'[h] = guard[h]
    BY <2>1, ChangeShape, Zenon
  <2>3. \A k \in 1..L : k # m => order[k] \in Guards \ {g}
    BY CoreFacts DEF Ages
  <2> QED
    BY <2>2, <2>3, Zenon
<1>2. Counts(guard) /\ Ages(order) /\ L \in Nat /\ m \in 0..L
  BY CoreFacts
<1>3. ASSUME NEW k \in 0..L
      PROVE  /\ Base(guard, order, k) \in Nat
             /\ Base(guard', order, k) =
                  IF k < m THEN Base(guard, order, k) ELSE Base(guard, order, k) + 1
  <2>1. Base(guard, order, k) \in Nat
    BY <1>2, BaseFacts
  <2>2. guard'[order[m]].n = guard[order[m]].n + 1
        /\ \A h \in Guards \ {order[m]} : guard'[h].n = guard[h].n
    BY <1>1
  <2>3. k \in 0..Len(order)
    OBVIOUS
  <2> HIDE DEF L
  <2>4. Base(guard', order, k) =
          IF k < m THEN Base(guard, order, k) ELSE Base(guard, order, k) + 1
    <3>1. Counts(guard') /\ Counts(guard) /\ Ages(order) /\ m \in 1..Len(order)
      BY <1>1, <1>2
    <3> PICK gd, ge, o : gd = guard /\ ge = guard' /\ o = order
      OBVIOUS
    <3>2. /\ Counts(gd) /\ Counts(ge) /\ Ages(o) /\ m \in 1..Len(o) /\ k \in 0..Len(o)
          /\ ge[o[m]].n = gd[o[m]].n + 1 /\ \A h \in Guards \ {o[m]} : ge[h].n = gd[h].n
      BY <3>1, <2>2, <2>3
    <3>3. Base(ge, o, k) = IF k < m THEN Base(gd, o, k) ELSE Base(gd, o, k) + 1
      BY ONLY <3>2, BaseRaise
    <3> QED
      BY <3>3
  <2> QED
    BY <2>1, <2>4
<1>4. /\ stack' \in Seq(Objs \cup {Nil}) /\ Len(stack') = Len(stack) + 1
      /\ \A i \in 1..Len(stack) : stack'[i] = stack[i]
      /\ stack'[Len(stack) + 1] = x /\ Len(stack) \in Nat
  BY <1>0 DEF CoreInv
<1>5. Len(stack) = Base(guard, order, L)
      /\ \A i \in 1..Len(frames) : HeightOK(frames[i], guard, order)
  BY <1>0 DEF CoreInv, Balanced
<1>6. /\ Len(frames') = Len(frames) /\ frames' \in Seq(FrameRecords)
      /\ \A i \in 1..Len(frames) :
           /\ frames'[i].height = frames[i].height /\ frames'[i].below = frames[i].below
           /\ frames'[i].outer = (frames[i].outer \/ g \in Oldest(frames[i].below))
           /\ frames'[i] \in FrameRecords
  <2>1. frames' = [i \in 1..Len(frames) |->
                     [frames[i] EXCEPT !.outer = @ \/ g \in Oldest(frames[i].below)]]
    BY DEF Through
  <2>2. Len(frames) \in Nat /\ \A i \in 1..Len(frames) : frames[i] \in FrameRecords
    BY CoreFacts
  <2>3. ASSUME NEW i \in 1..Len(frames)
        PROVE  /\ frames'[i].height = frames[i].height /\ frames'[i].below = frames[i].below
               /\ frames'[i].outer = (frames[i].outer \/ g \in Oldest(frames[i].below))
               /\ frames'[i] \in FrameRecords
    BY <2>1, <2>2 DEF FrameRecords
  <2>4. frames' \in [1..Len(frames) -> FrameRecords]
    BY <2>1, <2>3
  <2>5. frames' \in Seq(FrameRecords) /\ Len(frames') = Len(frames)
    BY <2>2, <2>4
  <2> QED
    BY <2>3, <2>5
<1>7. FramesOK'
  <2>1. Len(frames) \in Nat \ {0} /\ 1 \in 1..Len(frames)
    BY CoreFacts
  <2>2. frames' # <<>>
    BY <1>6, <2>1, EmptySeq
  <2>3. frames[1] = OutermostCall /\ Oldest(0) = {}
    BY DEF CoreInv, FramesOK, Oldest
  <2>4. frames'[1] = OutermostCall
    <3>1. frames'[1].height = 0 /\ frames'[1].below = 0 /\ frames'[1].outer = FALSE
      <4>1. frames[1].height = 0 /\ frames[1].below = 0 /\ frames[1].outer = FALSE
        BY <2>3 DEF OutermostCall
      <4>2. frames'[1].outer = (frames[1].outer \/ g \in Oldest(frames[1].below))
            /\ frames'[1].height = frames[1].height /\ frames'[1].below = frames[1].below
        BY <1>6, <2>1
      <4>3. frames'[1].outer = (FALSE \/ g \in Oldest(0))
        BY <4>1, <4>2
      <4> QED
        BY <4>1, <4>2, <4>3, <2>3
    <3> QED
      BY <3>1, <1>6, <2>1 DEF FrameRecords, OutermostCall
  <2>5. \A i \in 1..Len(frames') : frames'[i].below <= Len(order')
    BY <1>6 DEF CoreInv, FramesOK
  <2>6. \A i, j \in 1..Len(frames') : i <= j => frames'[i].below <= frames'[j].below
    BY <1>6 DEF CoreInv, FramesOK
  <2> QED
    BY <1>6, <2>2, <2>4, <2>5, <2>6 DEF FramesOK
<1>8. Balanced'
  <2>1. Len(stack') = Base(guard', order, L)
    <3>1. L \in 0..L /\ ~(L < m)
      BY <1>2
    <3> QED
      BY <1>3, <1>4, <1>5, <3>1
  <2>2. ASSUME NEW i \in 1..Len(frames)
        PROVE  HeightOK(frames'[i], guard', order)
    <3>1. frames[i].below \in 0..L /\ frames[i].height \in Nat /\ HeightOK(frames[i], guard, order)
      BY <1>5, CoreFacts DEF FrameRecords
    <3>2. CASE frames[i].below < m
      BY <1>3, <1>6, <3>1, <3>2 DEF HeightOK
    <3>3. CASE ~(frames[i].below < m)
      <4>1. g \in Oldest(frames[i].below)
        BY <3>1, <3>3, <1>2 DEF Oldest
      <4> QED
        <5>1. frames'[i].outer /\ frames'[i].height = frames[i].height
              /\ frames'[i].below = frames[i].below
          BY <1>6, <4>1
        <5>2. Base(guard, order, frames[i].below) \in Nat
              /\ Base(guard', order, frames[i].below) = Base(guard, order, frames[i].below) + 1
          BY <1>3, <3>1, <3>3
        <5>3. frames[i].height <= Base(guard, order, frames[i].below)
          BY <3>1 DEF HeightOK
        <5> QED
          BY <3>1, <5>1, <5>2, <5>3 DEF HeightOK
    <3> QED
      BY <3>2, <3>3
  <2> QED
    BY <1>6, <2>1, <2>2 DEF Balanced
<1>9. ASSUME ~mixed'
      PROVE  Kept(guard', order, stack', heap)
  <2>1. OnTop(order[m])
    BY <1>9 DEF Through
  <2>2. /\ \A i \in m + 1..L : guard[order[i]].n = 0
        /\ \A k \in m..L : Base(guard, order, k) = Base(guard, order, m)
    BY <2>1, OnTopIsLast
  <2>3. Len(stack) = Base(guard, order, m)
    <3>1. L \in m..L
      BY <1>2
    <3> QED
      BY <3>1, <1>5, <2>2
  <2> SUFFICES ASSUME NEW k \in 1..L, guard'[order[k]].kind # "arena"
               PROVE  /\ RootsKept(guard', order, stack', heap, k)
                      /\ SlotKept(guard', order, stack', heap, k)
    BY DEF Kept
  <2>4. k \in 0..L /\ k - 1 \in 0..L
    BY <1>2
  <2>5. guard[order[k]].kind # "arena"
    BY <1>1
  <2>6. RootsKept(guard, order, stack, heap, k) /\ SlotKept(guard, order, stack, heap, k)
    BY <1>0, <2>5 DEF CoreInv, Kept
  <2>7. Segment(guard, order, k) \subseteq 1..Len(stack)
    BY <1>2, <1>5, SegmentInside
  <2>8. CASE k < m
    <3>1. guard'[order[k]] = guard[order[k]]
      BY <1>1, <2>8
    <3>2. Segment(guard', order, k) = Segment(guard, order, k)
      <4>1. Base(guard', order, k) = Base(guard, order, k)
        BY <1>3, <2>4, <2>8
      <4>2. Base(guard', order, k - 1) = Base(guard, order, k - 1)
        <5> PICK c : c = k - 1
          OBVIOUS
        <5>1. c \in 0..L /\ c < m
          BY <1>2, <2>4, <2>8
        <5>2. Base(guard', order, c) = Base(guard, order, c)
          BY <1>3, <5>1
        <5> QED
          BY <5>2
      <4> QED
        BY <4>1, <4>2 DEF Segment
    <3> QED
      BY <1>4, <2>6, <2>7, <3>1, <3>2, KeptTransfer
  <2>9. CASE k > m
    <3>1. guard'[order[k]] = guard[order[k]] /\ guard[order[k]].n = 0
      BY <1>1, <1>2, <2>2, <2>9
    <3>2. guard[order[k]].roots = {} /\ guard[order[k]].slot = <<>>
      <4>1. k \in 1..Len(order)
        OBVIOUS
      <4> PICK gd, o, st, hp : gd = guard /\ o = order /\ st = stack /\ hp = heap
        OBVIOUS
      <4>2. /\ Counts(gd) /\ Ages(o) /\ k \in 1..Len(o) /\ gd[o[k]].n = 0
            /\ RootsKept(gd, o, st, hp, k) /\ SlotKept(gd, o, st, hp, k)
        BY <1>2, <2>6, <3>1, <4>1
      <4>3. gd[o[k]].roots = {} /\ gd[o[k]].slot = <<>>
        BY ONLY <4>2, NothingKept
      <4> QED
        BY <4>3
    <3> QED
      BY <3>1, <3>2, BaresKept
  <2>10. CASE k = m
    <3>1. Segment(guard, order, m) \cup {Len(stack) + 1} \subseteq Segment(guard', order, m)
          /\ Len(stack) + 1 \notin Segment(guard, order, m)
      <4>1. Base(guard', order, m - 1) = Base(guard, order, m - 1)
            /\ Base(guard, order, m - 1) \in Nat
        <5> PICK c : c = m - 1
          OBVIOUS
        <5>1. c \in 0..L /\ c < m
          BY <1>2, <2>4, <2>10
        <5>2. Base(guard', order, c) = Base(guard, order, c) /\ Base(guard, order, c) \in Nat
          BY <1>3, <5>1
        <5> QED
          BY <5>2
      <4>2. Base(guard', order, m) = Base(guard, order, m) + 1 /\ Base(guard, order, m) \in Nat
        <5>1. m \in 0..L /\ ~(m < m)
          BY <1>2
        <5> HIDE DEF L
        <5> QED
          BY <1>3, <5>1
      <4>3. Base(guard, order, m - 1) <= Base(guard, order, m)
        <5>1. /\ Base(guard, order, m) = Base(guard, order, m - 1) + guard[order[m]].n
              /\ guard[order[m]].n \in Nat
          BY <1>2, SegmentInside
        <5> QED
          BY <4>1, <5>1
      <4> QED
        BY <2>3, <4>1, <4>2, <4>3 DEF Segment
    <3>2. /\ \A y \in guard[g].roots :
               /\ y \in heap
               /\ \E i \in Segment(guard, order, m) :
                    stack[i] = y /\ (guard[g].slot # <<>> => guard[g].slot[1] # i)
          /\ guard[g].slot # <<>> =>
               /\ guard[g].slot[1] \in Segment(guard, order, m)
               /\ stack[guard[g].slot[1]] = guard[g].slot[2]
               /\ guard[g].slot[2] \in heap \cup {Nil}
      BY <2>6, <2>10 DEF RootsKept, SlotKept
    <3>3. \A i \in Segment(guard, order, m) : stack'[i] = stack[i] /\ i # Len(stack) + 1
      BY <1>4, <2>7, <2>10, <3>1
    <3>4. CASE r.roots = guard[g].roots \cup {x} /\ r.slot = guard[g].slot /\ x \in heap
      <4>1. RootsKept(guard', order, stack', heap, m)
        <5> PICK gd, st : gd = guard' /\ st = stack'
          OBVIOUS
        <5>0. gd[order[m]] = r /\ guard' = gd /\ stack' = st
          BY <1>1
        <5>1. ASSUME NEW y \in gd[order[m]].roots
              PROVE  /\ y \in heap
                     /\ \E i \in Segment(gd, order, m) :
                          st[i] = y /\ (gd[order[m]].slot # <<>> => gd[order[m]].slot[1] # i)
          <6>1. CASE y = x
            <7>1. Len(stack) + 1 \in Segment(guard', order, m) /\ stack'[Len(stack) + 1] = x
              BY <1>4, <3>1
            <7>2. r.slot # <<>> => r.slot[1] # Len(stack) + 1
              BY <3>1, <3>2, <3>4
            <7> QED
              BY <5>0, <3>4, <6>1, <7>1, <7>2
          <6>2. CASE y \in guard[g].roots
            <7>1. PICK i \in Segment(guard, order, m) :
                    stack[i] = y /\ (guard[g].slot # <<>> => guard[g].slot[1] # i)
              BY <3>2, <6>2
            <7>2. i \in Segment(guard', order, m) /\ stack'[i] = y
              BY <3>1, <3>3, <7>1
            <7> QED
              BY <5>0, <3>2, <3>4, <6>2, <7>1, <7>2
          <6> QED
            BY <5>0, <3>4, <6>1, <6>2
        <5>2. RootsKept(gd, order, st, heap, m)
          BY ONLY <5>1 DEF RootsKept
        <5> QED
          BY <5>0, <5>2
      <4>2. SlotKept(guard', order, stack', heap, m)
        <5>1. guard'[order[m]] = r
          BY <1>1
        <5>2. r.slot # <<>> =>
                /\ r.slot[1] \in Segment(guard', order, m)
                /\ stack'[r.slot[1]] = r.slot[2] /\ r.slot[2] \in heap \cup {Nil}
          BY <3>1, <3>2, <3>3, <3>4
        <5> QED
          BY <5>1, <5>2 DEF SlotKept
      <4> QED
        BY <2>10, <4>1, <4>2
    <3>5. CASE /\ r.roots = guard[g].roots /\ guard[g].slot = <<>>
               /\ r.slot = <<Len(stack) + 1, x>> /\ x \in heap \cup {Nil}
      <4>1. r.slot[1] = Len(stack) + 1 /\ r.slot[2] = x
        BY <3>5
      <4>2. RootsKept(guard', order, stack', heap, m)
        <5> PICK gd, st : gd = guard' /\ st = stack'
          OBVIOUS
        <5>0. gd[order[m]] = r /\ guard' = gd /\ stack' = st
          BY <1>1
        <5>1. ASSUME NEW y \in gd[order[m]].roots
              PROVE  /\ y \in heap
                     /\ \E i \in Segment(gd, order, m) :
                          st[i] = y /\ (gd[order[m]].slot # <<>> => gd[order[m]].slot[1] # i)
          <6>1. y \in heap /\ y \in guard[g].roots
            BY <5>0, <3>2, <3>5
          <6>2. PICK i \in Segment(guard, order, m) : stack[i] = y
            BY <3>2, <6>1
          <6>3. i \in Segment(guard', order, m) /\ stack'[i] = y /\ i # Len(stack) + 1
            BY <3>1, <3>3, <6>2
          <6> QED
            BY <5>0, <4>1, <6>1, <6>3
        <5>2. RootsKept(gd, order, st, heap, m)
          BY ONLY <5>1 DEF RootsKept
        <5> QED
          BY <5>0, <5>2
      <4>3. SlotKept(guard', order, stack', heap, m)
        BY <1>1, <1>4, <3>1, <3>5, <4>1 DEF SlotKept
      <4> QED
        BY <2>10, <4>2, <4>3
    <3> QED
      BY <3>4, <3>5
  <2> QED
    BY <1>2, <2>8, <2>9, <2>10
<1> QED
  BY <1>0, <1>1, <1>4, <1>7, <1>8, <1>9 DEF CoreInv

-----------------------------------------------------------------------------
(* R_Reprotect.                                                             *)

LEMMA ReprotectCore ==
  ASSUME CoreInv, NEW g \in Scopes, NEW x \in Objs \cup {Nil}, Reprotect(g, x),
         UNCHANGED <<frames, order, mixed, miscounted>>, heap' \subseteq Objs,
         \A i \in 1..Len(stack) : stack[i] \in heap => stack[i] \in heap',
         x \in heap' \cup {Nil}
  PROVE  CoreInv'
<1> DEFINE s == guard[g].slot
           r == [guard[g] EXCEPT !.slot = [s EXCEPT ![2] = x]]
           L == Len(order)
<1>0. /\ guard[g].slot # <<>> /\ s[1] <= Len(stack)
      /\ stack' = [stack EXCEPT ![s[1]] = x]
      /\ guard' = [guard EXCEPT ![g].slot[2] = x]
  BY DEF Reprotect
<1>1. g \in Guards /\ g \in Live /\ guard[g].kind \in {"scope", "tls"}
      /\ guard \in [Guards -> GuardRecords]
  BY DEF Scopes, Live, CoreInv, GuardTypes
<1>2. s \in (Nat \ {0}) \X (Objs \cup {Nil}) /\ s[1] \in Nat \ {0}
  BY <1>0, <1>1 DEF GuardRecords, SlotValues
<1>3. [s EXCEPT ![2] = x] = <<s[1], x>>
  BY <1>2
<1>4. /\ r \in GuardRecords /\ r.kind = guard[g].kind /\ r.n = guard[g].n
      /\ r.roots = guard[g].roots /\ r.slot = <<s[1], x>>
  <2>1. <<s[1], x>> \in SlotValues
    BY <1>2 DEF SlotValues
  <2>2. guard[g] \in GuardRecords
    BY <1>1
  <2>3. r = [guard[g] EXCEPT !.slot = <<s[1], x>>]
    BY <1>3
  <2> HIDE DEF r, s
  <2> QED
    BY <2>1, <2>2, <2>3 DEF GuardRecords
<1>5. guard' = [guard EXCEPT ![g] = r]
  BY <1>0, <1>1
<1> PICK m \in 1..Len(order) : order[m] = g
  BY <1>1, CoreFacts
<1> HIDE DEF r
<1>6. /\ GuardTypes' /\ OrderOK' /\ Counts(guard') /\ guard'[g] = r
      /\ \A h \in Guards \ {g} : guard'[h] = guard[h]
      /\ \A k \in 1..L : k # m => order[k] \in Guards \ {g}
  <2>1. /\ r.kind \notin {"none", "arena"} /\ r.kind # "forgotten" /\ order' = order
        /\ g \in Live
    BY <1>1, <1>4
  <2>2. /\ GuardTypes' /\ OrderOK' /\ Counts(guard') /\ guard'[g] = r
        /\ \A h \in Guards \ {g} : guard'[h] = guard[h]
    BY <1>4, <1>5, <2>1, ChangeShape, Zenon
  <2>3. \A k \in 1..L : k # m => order[k] \in Guards \ {g}
    BY CoreFacts DEF Ages
  <2> QED
    BY <2>2, <2>3, Zenon
<1>7. Counts(guard) /\ Ages(order) /\ L \in Nat /\ \A h \in Guards : guard'[h].n = guard[h].n
  BY <1>1, <1>4, <1>6, CoreFacts
<1>8. ASSUME NEW k \in 0..L
      PROVE  Base(guard', order, k) = Base(guard, order, k)
  <2>1. Alike(guard, guard', order, order, k)
    <3>1. \A i \in 1..k : i \in 1..Len(order)
      BY <1>7
    <3>2. \A i \in 1..Len(order) : order[i] \in Guards
      BY <1>7 DEF Ages
    <3> QED
      BY <1>7, <3>1, <3>2, Zenon DEF Alike
  <2>2. k \in 0..Len(order)
    OBVIOUS
  <2> HIDE DEF L
  <2> QED
    BY <1>7, <2>1, <2>2, BaseSame
<1>9. /\ stack' \in Seq(Objs \cup {Nil}) /\ Len(stack') = Len(stack) /\ Len(stack) \in Nat
      /\ \A i \in 1..Len(stack) : stack'[i] = IF i = s[1] THEN x ELSE stack[i]
  <2>1. stack \in Seq(Objs \cup {Nil}) /\ Len(stack) \in Nat
    BY DEF CoreInv
  <2>2. s[1] \in 1..Len(stack) /\ stack' = [stack EXCEPT ![s[1]] = x]
    BY <1>0, <1>2, <2>1
  <2> PICK z : z = s[1]
    OBVIOUS
  <2>3. z \in 1..Len(stack) /\ stack' = [stack EXCEPT ![z] = x]
    BY <2>2
  <2>4. stack' \in Seq(Objs \cup {Nil}) /\ Len(stack') = Len(stack)
    <3> PICK S, st : S = Objs \cup {Nil} /\ st = stack
      OBVIOUS
    <3>1. st \in Seq(S) /\ x \in S /\ stack' = [st EXCEPT ![z] = x] /\ z \in 1..Len(st)
      BY <2>1, <2>3
    <3>2. stack' \in Seq(S) /\ Len(stack') = Len(st)
      BY ONLY <3>1, ExceptSeq
    <3> QED
      BY <3>2
  <2>5. \A i \in 1..Len(stack) : stack'[i] = IF i = z THEN x ELSE stack[i]
    BY <2>1, <2>3
  <2> QED
    BY <2>1, <2>4, <2>5
<1>10. FramesOK'
  BY DEF CoreInv, FramesOK
<1>11. Balanced'
  <2> SUFFICES ASSUME ~miscounted
               PROVE  /\ Len(stack') = Base(guard', order, L)
                      /\ \A i \in 1..Len(frames) : HeightOK(frames[i], guard', order)
    BY DEF Balanced
  <2>1. /\ Len(stack) = Base(guard, order, L) /\ L \in 0..L
        /\ \A i \in 1..Len(frames) : HeightOK(frames[i], guard, order)
        /\ \A i \in 1..Len(frames) : frames[i].below \in 0..L
    BY <1>7, CoreFacts DEF CoreInv, Balanced
  <2> QED
    BY <1>8, <1>9, <2>1 DEF HeightOK
<1>12. ASSUME ~mixed, ~miscounted
       PROVE  Kept(guard', order, stack', heap')
  <2> SUFFICES ASSUME NEW k \in 1..L, guard'[order[k]].kind # "arena"
               PROVE  /\ RootsKept(guard', order, stack', heap', k)
                      /\ SlotKept(guard', order, stack', heap', k)
    BY DEF Kept
  <2>1. Segment(guard', order, k) = Segment(guard, order, k)
    <3>1. k \in 0..L /\ k - 1 \in 0..L
      BY <1>7
    <3> QED
      BY <1>8, <3>1 DEF Segment
  <2>2. Segment(guard, order, k) \subseteq 1..Len(stack)
    BY <1>7, <1>12, SegmentInside DEF CoreInv, Balanced
  <2>3. guard[order[k]].kind # "arena"
    BY <1>1, <1>6
  <2>4. /\ RootsKept(guard, order, stack, heap, k) /\ SlotKept(guard, order, stack, heap, k)
        /\ RootsKept(guard, order, stack, heap, m) /\ SlotKept(guard, order, stack, heap, m)
    BY <1>1, <1>12, <2>3 DEF CoreInv, Kept
  <2>5. s[1] \in Segment(guard, order, m)
    BY <1>0, <2>4 DEF SlotKept
  <2>6. CASE k # m
    <3>1. guard'[order[k]] = guard[order[k]]
      BY <1>6, <2>6
    <3>2. s[1] \notin Segment(guard, order, k)
      BY <1>7, <2>5, <2>6, SegmentsApart
    <3> QED
      <4>1. \A i \in Segment(guard, order, k) :
              stack'[i] = stack[i] /\ (stack[i] \in heap => stack[i] \in heap')
        BY <1>9, <2>2, <3>2
      <4> HIDE DEF s, L
      <4> QED
        BY <2>1, <2>4, <3>1, <4>1, KeptTransfer
  <2>7. CASE k = m
    <3>1. r.slot # <<>> /\ r.slot[1] = s[1] /\ r.slot[2] = x
      BY <1>4
    <3>2. SlotKept(guard', order, stack', heap', m)
      BY <1>6, <1>9, <2>1, <2>2, <2>5, <2>7, <3>1 DEF SlotKept
    <3>3. RootsKept(guard', order, stack', heap', m)
      <4> SUFFICES ASSUME NEW y \in r.roots
                   PROVE  /\ y \in heap'
                          /\ \E i \in Segment(guard, order, m) :
                               stack'[i] = y /\ (r.slot # <<>> => r.slot[1] # i)
        BY <1>6, <2>1, <2>7 DEF RootsKept
      <4>1. y \in heap /\ \E i \in Segment(guard, order, m) : stack[i] = y /\ s[1] # i
        BY <1>0, <1>4, <2>4 DEF RootsKept
      <4> QED
        BY <1>9, <2>2, <2>7, <3>1, <4>1
    <3> QED
      BY <2>7, <3>2, <3>3
  <2> QED
    BY <2>6, <2>7
<1> QED
  BY <1>6, <1>9, <1>10, <1>11, <1>12 DEF CoreInv

-----------------------------------------------------------------------------
(* A guard ends, and takes as many entries from the top as it counts.       *)

LEMMA RemovedIsCut ==
  ASSUME Ages(order), NEW m \in 1..Len(order)
  PROVE  Removed(order[m]) = Cut(order, m)
<1>1. \A k \in 1..Len(order) : order[k] = order[m] => k = m
  BY DEF Ages
<1>2. (CHOOSE k \in 1..Len(order) : order[k] = order[m]) = m
  BY <1>1
<1> QED
  BY <1>2 DEF Removed, Cut

LEMMA RemoveShape ==
  ASSUME CoreInv, NEW m \in Call.below + 1..Len(order),
         guard' = [guard EXCEPT ![order[m]] = NoGuard], order' = Cut(order, m)
  PROVE  /\ m \in 1..Len(order)
         /\ GuardTypes' /\ OrderOK' /\ Counts(guard') /\ Len(order') = Len(order) - 1
         /\ \A h \in Guards \ {order[m]} : guard'[h] = guard[h]
         /\ \A k \in 1..Len(order) - 1 :
              order'[k] = (IF k < m THEN order[k] ELSE order[k + 1])
              /\ order'[k] \in Guards \ {order[m]}
<1>0. /\ Call.below \in 0..Len(order) /\ Len(order) \in Nat /\ Ages(order)
      /\ \A i \in 1..Len(order) : order[i] \in Guards
      /\ m \in 1..Len(order)
  BY CoreFacts
<1> PICK g : g = order[m]
  OBVIOUS
<1>1. guard \in [Guards -> GuardRecords] /\ g \in Guards /\ guard' = [guard EXCEPT ![g] = NoGuard]
  BY <1>0 DEF CoreInv, GuardTypes
<1>2. guard'[g] = NoGuard /\ \A h \in Guards \ {g} : guard'[h] = guard[h]
  BY <1>1
<1>3. NoGuard \in GuardRecords
  BY DEF NoGuard, GuardRecords, Kinds, SlotValues
<1>4. guard' \in [Guards -> GuardRecords]
  BY <1>1, <1>3
<1>5. GuardTypes' /\ Counts(guard')
  <2>1. NoGuard.roots = {} /\ NoGuard.slot = <<>> /\ NoGuard.n = 0
    BY DEF NoGuard
  <2>2. GuardTypes'
    BY <1>2, <1>4, <2>1 DEF CoreInv, GuardTypes
  <2>3. Counts(guard')
    BY <1>4 DEF Counts, GuardRecords
  <2> QED
    BY <2>2, <2>3
<1>6. /\ Ages(order') /\ Len(order') = Len(order) - 1
      /\ \A i \in 1..Len(order) - 1 : order'[i] = IF i < m THEN order[i] ELSE order[i + 1]
  BY <1>0, CutFacts
<1>7. \A k \in 1..Len(order) - 1 : order'[k] \in Guards \ {g}
  BY <1>0, <1>6 DEF Ages
<1>8. Old(order', Len(order')) = Old(order, Len(order)) \ {g}
  <2>1. ASSUME NEW k \in 1..Len(order), order[k] # g
        PROVE  order[k] \in Old(order', Len(order'))
    <3>1. CASE k < m
      <4>1. k \in 1..Len(order') /\ order'[k] = order[k]
        BY <1>0, <1>6, <3>1
      <4> QED
        BY <4>1 DEF Old
    <3>2. CASE k > m
      <4>1. k - 1 \in 1..Len(order') /\ order'[k - 1] = order[k]
        BY <1>0, <1>6, <3>2
      <4> QED
        BY <4>1 DEF Old
    <3>3. k # m
      BY <2>1
    <3> QED
      BY <1>0, <3>1, <3>2, <3>3
  <2>2. ASSUME NEW k \in 1..Len(order')
        PROVE  order'[k] \in Old(order, Len(order)) \ {g}
    <3>1. k \in 1..Len(order) - 1 /\ k \in 1..Len(order) /\ k + 1 \in 1..Len(order)
      BY <1>0, <1>6
    <3>2. order'[k] = order[k] \/ order'[k] = order[k + 1]
      BY <1>6, <3>1
    <3> QED
      BY <1>7, <3>1, <3>2 DEF Old
  <2> QED
    BY <2>1, <2>2 DEF Old
<1>9. OrderOK'
  <2>1. Live' = Live \ {g}
    BY <1>1, <1>2 DEF Live, NoGuard
  <2> QED
    BY <1>6, <1>8, <2>1 DEF CoreInv, OrderOK
<1> QED
  BY <1>0, <1>2, <1>5, <1>6, <1>7, <1>9

LEMMA RemoveCore ==
  ASSUME CoreInv, NEW m \in Call.below + 1..Len(order), NEW n, n = guard[order[m]].n,
         n <= Len(stack), stack' = SubSeq(stack, 1, Len(stack) - n),
         guard' = [guard EXCEPT ![order[m]] = NoGuard], order' = Cut(order, m),
         UNCHANGED <<heap, frames, miscounted>>,
         ~mixed' => ~mixed /\ (n = 0 \/ OnTop(order[m]))
  PROVE  CoreInv'
<1> PICK L : L = Len(order)
  OBVIOUS
<1>1. /\ m \in 1..L /\ GuardTypes' /\ OrderOK' /\ Counts(guard') /\ Len(order') = L - 1
      /\ \A h \in Guards \ {order[m]} : guard'[h] = guard[h]
      /\ \A k \in 1..L - 1 :
           order'[k] = (IF k < m THEN order[k] ELSE order[k + 1])
           /\ order'[k] \in Guards \ {order[m]}
  BY RemoveShape
<1>2. Counts(guard) /\ Ages(order) /\ L \in Nat /\ n \in Nat /\ Call.below \in 0..m - 1
  <2>1. Counts(guard) /\ Ages(order) /\ L \in Nat /\ Call.below \in 0..L /\ order[m] \in Guards
    BY <1>1, CoreFacts
  <2> QED
    BY <2>1 DEF Counts
<1>3. ASSUME NEW k \in 0..L - 1
      PROVE  Base(guard', order', k) =
               IF k < m THEN Base(guard, order, k) ELSE Base(guard, order, k + 1) - n
  <2> PICK gd, ge, o : gd = guard /\ ge = guard' /\ o = order
    OBVIOUS
  <2>1. /\ Counts(gd) /\ Ages(o) /\ m \in 1..Len(o) /\ k \in 0..Len(o) - 1
        /\ AlikeBut(gd, ge, o, m)
    BY <1>1, <1>2 DEF AlikeBut
  <2>2. \A j \in 0..Len(o) - 1 :
          Base(ge, Cut(o, m), j) =
            IF j < m THEN Base(gd, o, j) ELSE Base(gd, o, j + 1) - gd[o[m]].n
    BY ONLY <2>1, BaseCut
  <2> QED
    BY <2>1, <2>2
<1>4. ASSUME NEW k \in 1..L
      PROVE  /\ Base(guard, order, k - 1) \in Nat /\ Base(guard, order, k) \in Nat
             /\ Base(guard, order, L) \in Nat
             /\ Base(guard, order, k) = Base(guard, order, k - 1) + guard[order[k]].n
             /\ guard[order[k]].n \in Nat
             /\ Base(guard, order, k) <= Base(guard, order, L)
             /\ Segment(guard, order, k) \subseteq 1..Base(guard, order, L)
  <2>1. k \in 1..Len(order)
    OBVIOUS
  <2> QED
    BY <1>2, <2>1, SegmentInside
<1>5. /\ stack' \in Seq(Objs \cup {Nil}) /\ Len(stack') = Len(stack) - n /\ Len(stack) \in Nat
      /\ \A i \in 1..Len(stack) - n : stack'[i] = stack[i]
  <2>1. stack \in Seq(Objs \cup {Nil}) /\ Len(stack) \in Nat /\ Len(stack) - n \in 0..Len(stack)
    BY <1>2 DEF CoreInv
  <2> QED
    BY <2>1, PrefixFacts
<1>6. FramesOK'
  <2>1. \A i \in 1..Len(frames) : frames[i].below <= L - 1
    <3>1. \A i \in 1..Len(frames) : frames[i].below \in 0..Call.below
      BY CoreFacts
    <3> QED
      BY <1>1, <1>2, <3>1
  <2> QED
    BY <1>1, <2>1 DEF CoreInv, FramesOK
<1>7. ASSUME ~miscounted
      PROVE  Len(stack) = Base(guard, order, L) /\ Len(stack') = Base(guard', order', L - 1)
  <2>1. Len(stack) = Base(guard, order, L)
    BY <1>7 DEF CoreInv, Balanced
  <2>2. CASE m = L
    <3>1. L - 1 \in 0..L - 1 /\ L - 1 < m
      BY <1>1, <1>2, <2>2
    <3>2. Base(guard', order', L - 1) = Base(guard, order, L - 1)
      BY <1>3, <3>1
    <3>3. Base(guard, order, L) = Base(guard, order, L - 1) + n
          /\ Base(guard, order, L - 1) \in Nat
      BY <1>1, <1>4, <2>2
    <3> QED
      BY <1>2, <1>5, <2>1, <3>2, <3>3
  <2>3. CASE m # L
    <3>1. L - 1 \in 0..L - 1 /\ ~(L - 1 < m) /\ L - 1 + 1 = L
      BY <1>1, <1>2, <2>3
    <3>2. Base(guard', order', L - 1) = Base(guard, order, L - 1 + 1) - n
      BY <1>3, <3>1
    <3> QED
      BY <1>5, <2>1, <3>1, <3>2
  <2> QED
    BY <2>2, <2>3
<1>8. Balanced'
  <2> SUFFICES ASSUME ~miscounted
               PROVE  /\ Len(stack') = Base(guard', order', L - 1)
                      /\ \A i \in 1..Len(frames) : HeightOK(frames[i], guard', order')
    BY <1>1 DEF Balanced
  <2>1. \A i \in 1..Len(frames) : HeightOK(frames[i], guard, order)
    BY DEF CoreInv, Balanced
  <2>2. ASSUME NEW i \in 1..Len(frames)
        PROVE  HeightOK(frames[i], guard', order')
    <3>1. frames[i].below \in 0..L - 1 /\ frames[i].below < m
      <4>1. frames[i].below \in 0..Call.below
        BY CoreFacts
      <4> QED
        BY <1>1, <1>2, <4>1
    <3>2. Base(guard', order', frames[i].below) = Base(guard, order, frames[i].below)
      BY <1>3, <3>1
    <3> QED
      BY <2>1, <3>2 DEF HeightOK
  <2> QED
    BY <1>7, <2>2
<1>9. ASSUME ~mixed', ~miscounted
      PROVE  Kept(guard', order', stack', heap)
  <2>1. Len(stack) = Base(guard, order, L)
    BY <1>7, <1>9
  <2>2. n = 0 \/ OnTop(order[m])
    BY <1>9
  <2>3. \A j \in 1..L : guard[order[j]].kind # "arena" =>
          RootsKept(guard, order, stack, heap, j) /\ SlotKept(guard, order, stack, heap, j)
    BY <1>9 DEF CoreInv, Kept
  <2>4. ASSUME NEW k \in 1..L - 1, guard'[order'[k]].kind # "arena"
        PROVE  /\ RootsKept(guard', order', stack', heap, k)
               /\ SlotKept(guard', order', stack', heap, k)
    <3>1. guard'[order'[k]] = guard[order'[k]] /\ k \in 0..L - 1 /\ k - 1 \in 0..L - 1
      BY <1>1, <1>2
    <3>2. CASE k < m
      <4>1. order'[k] = order[k] /\ k \in 1..L /\ k - 1 < m
        BY <1>1, <1>2, <3>2
      <4>2. Base(guard', order', k) = Base(guard, order, k)
        BY <1>3, <3>1, <3>2
      <4>3. Base(guard', order', k - 1) = Base(guard, order, k - 1)
        BY <1>3, <3>1, <4>1
      <4>4. Segment(guard', order', k) = Segment(guard, order, k)
        BY <4>2, <4>3 DEF Segment
      <4>5. Base(guard, order, k) <= Len(stack) - n
        <5>1. k \in 0..m - 1 /\ m - 1 \in 0..Len(order)
          BY <1>1, <1>2, <3>2
        <5>2. Base(guard, order, k) <= Base(guard, order, m - 1)
          <6> PICK c, gd, o : c = m - 1 /\ gd = guard /\ o = order
            OBVIOUS
          <6>1. Counts(gd) /\ Ages(o) /\ c \in 0..Len(o) /\ k \in 0..c
            BY <1>2, <5>1
          <6>2. Base(gd, o, k) <= Base(gd, o, c)
            BY ONLY <6>1, BaseMonotone
          <6> QED
            BY <6>2
        <5>3. /\ Base(guard, order, m) = Base(guard, order, m - 1) + n
              /\ Base(guard, order, m) <= Len(stack)
              /\ Base(guard, order, m - 1) \in Nat /\ Base(guard, order, k) \in Nat
          BY <1>1, <1>4, <2>1, <4>1
        <5>4. Len(stack) \in Nat /\ n \in Nat
          BY <1>2, <1>5
        <5> PICK a, b, c, d : /\ a = Base(guard, order, k) /\ b = Base(guard, order, m - 1)
                              /\ c = Base(guard, order, m) /\ d = Len(stack)
          OBVIOUS
        <5>5. a \in Nat /\ b \in Nat /\ d \in Nat /\ a <= b /\ c = b + n /\ c <= d
          BY <5>2, <5>3, <5>4
        <5>6. a <= d - n
          BY ONLY <5>4, <5>5
        <5> QED
          BY <5>6
      <4>6. \A i \in Segment(guard, order, k) :
              stack'[i] = stack[i] /\ (stack[i] \in heap => stack[i] \in heap)
        <5>1. Segment(guard, order, k) \subseteq 1..Len(stack) - n
          <6>1. Base(guard, order, k - 1) \in Nat /\ Base(guard, order, k) \in Nat
            BY <1>4, <4>1
          <6> PICK a, b : a = Base(guard, order, k - 1) /\ b = Base(guard, order, k)
            OBVIOUS
          <6> PICK c : c = Len(stack) - n
            OBVIOUS
          <6>2. a \in Nat /\ b \in Nat /\ b <= c /\ c \in Int
            BY <1>2, <1>5, <4>5, <6>1
          <6>3. a + 1..b \subseteq 1..c
            BY ONLY <6>2
          <6> QED
            BY <6>3 DEF Segment
        <5> QED
          BY <1>5, <5>1
      <4>7. RootsKept(guard, order, stack, heap, k) /\ SlotKept(guard, order, stack, heap, k)
        BY <2>3, <2>4, <3>1, <4>1
      <4>8. guard'[order'[k]] = guard[order[k]]
        BY <3>1, <4>1
      <4> QED
        BY ONLY <4>4, <4>6, <4>7, <4>8, KeptTransfer
    <3>3. CASE ~(k < m)
      <4>1. order'[k] = order[k + 1] /\ k + 1 \in 1..L /\ k + 1 \in m + 1..L
        BY <1>1, <1>2, <3>3
      <4>2. /\ RootsKept(guard, order, stack, heap, k + 1)
            /\ SlotKept(guard, order, stack, heap, k + 1)
        BY <2>3, <2>4, <3>1, <4>1
      <4>3. CASE OnTop(order[m])
        <5>1. guard[order[k + 1]].n = 0
          BY <1>1, <4>1, <4>3, OnTopIsLast
        <5>2. guard[order[k + 1]].roots = {} /\ guard[order[k + 1]].slot = <<>>
          <6> PICK c : c = k + 1
            OBVIOUS
          <6>1. c \in 1..Len(order) /\ guard[order[c]].n = 0
                /\ RootsKept(guard, order, stack, heap, c) /\ SlotKept(guard, order, stack, heap, c)
            BY <4>1, <4>2, <5>1
          <6>2. guard[order[c]].roots = {} /\ guard[order[c]].slot = <<>>
            BY <1>2, <6>1, NothingKept
          <6> QED
            BY <6>2
        <5> QED
          BY <3>1, <4>1, <5>2, BaresKept
      <4>4. CASE n = 0
        <5>1. Base(guard', order', k) = Base(guard, order, k + 1)
          <6>1. Base(guard', order', k) = Base(guard, order, k + 1) - n
            BY <1>3, <3>1, <3>3
          <6>2. Base(guard, order, k + 1) \in Nat
            BY <1>4, <4>1
          <6> QED
            BY <4>4, <6>1, <6>2
        <5>2. Base(guard', order', k - 1) = Base(guard, order, k)
          <6>1. CASE k = m
            <7>1. k - 1 < m
              BY <1>1, <1>2, <6>1
            <7>2. Base(guard', order', k - 1) = Base(guard, order, k - 1)
              BY <1>3, <3>1, <7>1
            <7>3. Base(guard, order, m) = Base(guard, order, m - 1) + n
                  /\ Base(guard, order, m - 1) \in Nat
              BY <1>1, <1>4
            <7> QED
              BY <4>4, <6>1, <7>2, <7>3
          <6>2. CASE k # m
            <7>1. ~(k - 1 < m) /\ k - 1 + 1 = k /\ k \in 1..L
              BY <1>1, <1>2, <3>3, <6>2
            <7>2. Base(guard', order', k - 1) = Base(guard, order, k - 1 + 1) - n
              BY <1>3, <3>1, <7>1
            <7>3. Base(guard, order, k) \in Nat
              BY <1>4, <7>1
            <7> QED
              BY <4>4, <7>1, <7>2, <7>3
          <6> QED
            BY <6>1, <6>2
        <5>3. Segment(guard', order', k) = Segment(guard, order, k + 1)
          <6>1. k + 1 - 1 = k
            OBVIOUS
          <6> QED
            BY <5>1, <5>2, <6>1 DEF Segment
        <5>4. \A i \in Segment(guard, order, k + 1) :
                stack'[i] = stack[i] /\ (stack[i] \in heap => stack[i] \in heap)
          <6>1. Segment(guard, order, k + 1) \subseteq 1..Len(stack)
            BY <1>4, <2>1, <4>1
          <6> QED
            BY <1>5, <4>4, <6>1
        <5> PICK c : c = k + 1
          OBVIOUS
        <5>5. /\ guard'[order'[k]] = guard[order[c]]
              /\ Segment(guard', order', k) = Segment(guard, order, c)
              /\ RootsKept(guard, order, stack, heap, c) /\ SlotKept(guard, order, stack, heap, c)
          BY <3>1, <4>1, <4>2, <5>3
        <5>6. \A i \in Segment(guard, order, c) :
                stack'[i] = stack[i] /\ (stack[i] \in heap => stack[i] \in heap)
          BY <5>4
        <5> QED
          BY ONLY <5>5, <5>6, KeptTransfer
      <4> QED
        BY <2>2, <4>3, <4>4
    <3> QED
      BY <3>2, <3>3
  <2> QED
    BY <1>1, <2>4 DEF Kept
<1> QED
  BY <1>1, <1>5, <1>6, <1>8, <1>9 DEF CoreInv

\* A guard gives its entries up: they stay counted, and root nothing.
LEMMA LeaveEntriesCore ==
  ASSUME CoreInv, NEW g \in Guards, LeaveEntries(g)
  PROVE  CoreInv'
<1> DEFINE r == [NoGuard EXCEPT !.kind = "forgotten", !.n = guard[g].n]
<1>1. /\ g \in Live /\ guard[g].kind \in {"scope", "owned"}
      /\ guard' = [guard EXCEPT ![g] = r]
      /\ UNCHANGED <<heap, stack, frames, order, mixed, miscounted>>
  BY DEF LeaveEntries, Live, stackMarks
<1>2. guard[g] \in GuardRecords
  BY DEF CoreInv, GuardTypes
<1>3. /\ r \in GuardRecords /\ r.kind = "forgotten" /\ r.n = guard[g].n
      /\ r.roots = {} /\ r.slot = <<>>
  BY <1>2 DEF NoGuard, GuardRecords, Kinds, SlotValues
<1> HIDE DEF r
<1>4. /\ GuardTypes' /\ OrderOK' /\ Counts(guard') /\ guard'[g] = r
      /\ \A h \in Guards \ {g} : guard'[h] = guard[h]
  <2>1. r.kind \notin {"none", "arena"} /\ order' = order
        /\ (r.kind = "forgotten" => r.roots = {} /\ r.slot = <<>>)
    BY <1>1, <1>3
  <2> QED
    BY <1>1, <1>3, <2>1, ChangeShape, Zenon
<1>5. Counts(guard) /\ Ages(order) /\ \A i \in 1..Len(order) : order[i] \in Guards
  BY CoreFacts
<1>6. ASSUME NEW k \in 0..Len(order)
      PROVE  Base(guard', order, k) = Base(guard, order, k)
  <2>1. Alike(guard, guard', order, order, k)
    BY <1>3, <1>4, <1>5 DEF Alike
  <2> QED
    BY <1>5, <2>1, BaseSame
<1>7. FramesOK'
  BY <1>1 DEF CoreInv, FramesOK
<1>8. Balanced'
  <2> SUFFICES ASSUME ~miscounted
               PROVE  /\ Len(stack) = Base(guard', order, Len(order))
                      /\ \A i \in 1..Len(frames) : HeightOK(frames[i], guard', order)
    BY <1>1 DEF Balanced
  <2>1. /\ Len(stack) = Base(guard, order, Len(order)) /\ Len(order) \in 0..Len(order)
        /\ \A i \in 1..Len(frames) : HeightOK(frames[i], guard, order)
        /\ \A i \in 1..Len(frames) : frames[i].below \in 0..Len(order)
    BY CoreFacts DEF CoreInv, Balanced
  <2> QED
    BY <1>6, <2>1 DEF HeightOK
<1>9. ASSUME ~mixed, ~miscounted
      PROVE  Kept(guard', order, stack, heap)
  <2>1. ASSUME NEW k \in 1..Len(order), guard'[order[k]].kind # "arena"
        PROVE  /\ RootsKept(guard', order, stack, heap, k)
               /\ SlotKept(guard', order, stack, heap, k)
    <3>1. CASE order[k] = g
      <4>1. guard'[order[k]].roots = {} /\ guard'[order[k]].slot = <<>>
        BY <1>3, <1>4, <3>1
      <4> QED
        BY <4>1, BaresKept
    <3>2. CASE order[k] # g
      <4>1. guard'[order[k]] = guard[order[k]] /\ k \in 0..Len(order) /\ k - 1 \in 0..Len(order)
        BY <1>4, <1>5, <3>2, CoreFacts
      <4>2. RootsKept(guard, order, stack, heap, k) /\ SlotKept(guard, order, stack, heap, k)
        BY <1>9, <2>1, <4>1 DEF CoreInv, Kept
      <4>3. Segment(guard', order, k) = Segment(guard, order, k)
        BY <1>6, <4>1 DEF Segment
      <4> QED
        BY ONLY <4>1, <4>2, <4>3, KeptTransfer
    <3> QED
      BY <3>1, <3>2
  <2> QED
    BY <2>1 DEF Kept
<1> QED
  BY <1>1, <1>4, <1>7, <1>8, <1>9 DEF CoreInv

-----------------------------------------------------------------------------
(* A longjmp out of the newest call.                                        *)

LEMMA JumpShape ==
  ASSUME CoreInv, Jump
  PROVE  /\ GuardTypes' /\ OrderOK' /\ Len(order') = Call.below
         /\ \A k \in 1..Call.below :
              order'[k] = order[k] /\ guard'[order[k]] = guard[order[k]]
<1> PICK B : B = Call.below
  OBVIOUS
<1>0. /\ B \in 0..Len(order) /\ Len(order) \in Nat /\ Ages(order)
      /\ \A i \in 1..Len(order) : order[i] \in Guards
  BY CoreFacts
<1>1. /\ guard' = [g \in Guards |-> IF g \in Mine THEN NoGuard ELSE guard[g]]
      /\ order' = SubSeq(order, 1, B)
  BY DEF Jump
<1>2. /\ order' \in Seq(Guards) /\ Len(order') = B
      /\ \A k \in 1..B : order'[k] = order[k]
  <2>1. order \in Seq(Guards)
    BY <1>0 DEF Ages
  <2> QED
    BY <1>0, <1>1, <2>1, PrefixFacts
<1>3. \A k \in 1..B : order[k] \in Guards \ Mine
  BY <1>0 DEF Mine, Ages
<1>4. \A k \in 1..B : guard'[order[k]] = guard[order[k]]
  BY <1>1, <1>3
<1>5. GuardTypes'
  <2>1. guard \in [Guards -> GuardRecords]
    BY DEF CoreInv, GuardTypes
  <2>2. NoGuard \in GuardRecords
    BY DEF NoGuard, GuardRecords, Kinds, SlotValues
  <2>3. guard' \in [Guards -> GuardRecords]
    BY <1>1, <2>1, <2>2
  <2>4. NoGuard.roots = {} /\ NoGuard.slot = <<>> /\ NoGuard.n = 0
    BY DEF NoGuard
  <2>5. \A g \in Guards : guard'[g] = NoGuard \/ guard'[g] = guard[g]
    BY <1>1
  <2> QED
    BY <2>3, <2>4, <2>5 DEF CoreInv, GuardTypes
<1>6. Live' = Live \ Mine
  BY <1>1 DEF Live, NoGuard
<1>7. Old(order', B) = Old(order, Len(order)) \ Mine
  <2>1. ASSUME NEW k \in 1..Len(order), order[k] \notin Mine
        PROVE  order[k] \in Old(order', B)
    <3>1. k \in 1..B
      BY <1>0, <2>1 DEF Mine
    <3> QED
      BY <1>2, <3>1 DEF Old
  <2>2. ASSUME NEW k \in 1..B
        PROVE  order'[k] \in Old(order, Len(order)) \ Mine
    BY <1>0, <1>2, <1>3 DEF Old
  <2> QED
    BY <2>1, <2>2 DEF Old
<1>8. OrderOK'
  <2>1. Ages(order')
    BY <1>0, <1>2 DEF Ages
  <2> QED
    BY <1>2, <1>6, <1>7, <2>1 DEF CoreInv, OrderOK
<1> QED
  BY <1>2, <1>4, <1>5, <1>8

LEMMA JumpCore ==
  ASSUME CoreInv, Jump, heap' = heap
  PROVE  CoreInv'
<1> PICK B, H : B = Call.below /\ H = Call.height
  OBVIOUS
<1>0. /\ B \in 0..Len(order) /\ Len(order) \in Nat /\ Ages(order) /\ Counts(guard)
      /\ Len(frames) \in Nat \ {0} /\ H \in Nat
      /\ \A i \in 1..Len(frames) : frames[i].below \in 0..B
  BY CoreFacts DEF FrameRecords
<1>1. /\ H <= Len(stack) /\ stack' = SubSeq(stack, 1, H)
      /\ frames' = IF Len(frames) = 1 THEN frames ELSE SubSeq(frames, 1, Len(frames) - 1)
      /\ miscounted' = (Len(frames) > 1 /\ (miscounted \/ Call.outer))
      /\ mixed' = (Len(frames) > 1 /\ mixed)
  BY <1>0 DEF Jump
<1>2. /\ GuardTypes' /\ OrderOK' /\ Len(order') = B
      /\ \A k \in 1..B : order'[k] = order[k] /\ guard'[order[k]] = guard[order[k]]
  BY JumpShape
<1>3. stack' \in Seq(Objs \cup {Nil}) /\ Len(stack') = H /\ \A i \in 1..H : stack'[i] = stack[i]
  <2>1. stack \in Seq(Objs \cup {Nil}) /\ H \in 0..Len(stack)
    BY <1>0, <1>1 DEF CoreInv
  <2> QED
    BY <1>1, <2>1, PrefixFacts
<1>4. ASSUME NEW k \in 0..B
      PROVE  Base(guard', order', k) = Base(guard, order, k)
  <2>1. Alike(guard, guard', order, order', k) /\ k \in 0..Len(order)
    BY <1>0, <1>2 DEF Alike
  <2> QED
    BY <1>0, <2>1, BaseSame
<1>5. CASE Len(frames) = 1
  <2>1. Call = OutermostCall /\ B = 0 /\ H = 0 /\ frames' = frames
    BY <1>1, <1>5 DEF Call, CoreInv, FramesOK, OutermostCall
  <2>2. FramesOK'
    <3>1. \A i \in 1..Len(frames) : frames[i].below = 0
      BY <1>0, <2>1
    <3> QED
      BY <1>2, <2>1, <3>1 DEF CoreInv, FramesOK
  <2>3. Base(guard', order', 0) = 0
    <3>1. 0 \in 0..B /\ 0 \in 0..Len(order)
      BY <1>0
    <3>2. Base(guard, order, 0) = 0
      BY <1>0, <3>1, BaseFacts
    <3> QED
      BY <1>4, <3>1, <3>2
  <2>4. Balanced'
    <3>1. \A i \in 1..Len(frames) : frames[i] = OutermostCall
      BY <1>5 DEF CoreInv, FramesOK
    <3>2. HeightOK(OutermostCall, guard', order')
      BY <2>3 DEF HeightOK, OutermostCall
    <3> QED
      BY <1>2, <1>3, <2>1, <2>3, <3>1, <3>2 DEF Balanced
  <2>5. Kept(guard', order', stack', heap')
    BY <1>2, <2>1 DEF Kept
  <2> QED
    BY <1>2, <1>3, <2>2, <2>4, <2>5 DEF CoreInv
<1>6. CASE Len(frames) # 1
  <2>1. /\ Len(frames) > 1 /\ frames' \in Seq(FrameRecords) /\ frames' # <<>>
        /\ Len(frames') = Len(frames) - 1
        /\ \A i \in 1..Len(frames) - 1 : frames'[i] = frames[i]
    <3> PICK fs : fs = SubSeq(frames, 1, Len(frames) - 1)
      OBVIOUS
    <3> PICK l : l = Len(frames)
      OBVIOUS
    <3>0. l \in Nat \ {0} /\ l # 1
      BY <1>0, <1>6
    <3>1. Len(frames) > 1
      BY <3>0
    <3>2. frames' = fs
      BY <1>1, <1>6, Zenon
    <3> QED
      BY <3>1, <3>2, FramesPopped
  <2>2. \A i \in 1..Len(frames') : i \in 1..Len(frames) /\ frames'[i] = frames[i]
    BY <1>0, <2>1
  <2>3. FramesOK'
    <3>1. frames'[1] = OutermostCall
      BY <1>0, <2>1 DEF CoreInv, FramesOK
    <3>2. \A i, j \in 1..Len(frames) : i <= j => frames[i].below <= frames[j].below
      BY DEF CoreInv, FramesOK
    <3>3. \A i, j \in 1..Len(frames') : i <= j => frames'[i].below <= frames'[j].below
      BY <2>2, <3>2
    <3>4. \A i \in 1..Len(frames') : frames'[i].below <= Len(order')
      BY <1>0, <1>2, <2>2
    <3> QED
      BY <2>1, <3>1, <3>3, <3>4 DEF FramesOK
  <2>4. ASSUME ~miscounted'
        PROVE  /\ ~miscounted /\ Len(stack) = Base(guard, order, Len(order))
               /\ \A i \in 1..Len(frames) : HeightOK(frames[i], guard, order)
               /\ H = Base(guard, order, B)
    <3>1. ~miscounted /\ ~Call.outer
      BY <1>1, <2>1, <2>4
    <3>2. /\ Len(stack) = Base(guard, order, Len(order))
          /\ \A i \in 1..Len(frames) : HeightOK(frames[i], guard, order)
      BY <3>1 DEF CoreInv, Balanced
    <3>3. HeightOK(Call, guard, order)
      BY <1>0, <3>2 DEF Call
    <3> QED
      BY <3>1, <3>2, <3>3 DEF HeightOK
  <2>5. Balanced'
    <3> SUFFICES ASSUME ~miscounted'
                 PROVE  /\ Len(stack') = Base(guard', order', B)
                        /\ \A i \in 1..Len(frames') : HeightOK(frames'[i], guard', order')
      BY <1>2 DEF Balanced
    <3>1. Len(stack') = Base(guard', order', B)
      BY <1>0, <1>3, <1>4, <2>4
    <3>2. ASSUME NEW i \in 1..Len(frames')
          PROVE  HeightOK(frames'[i], guard', order')
      <4>1. frames'[i] = frames[i] /\ frames[i].below \in 0..B /\ HeightOK(frames[i], guard, order)
        BY <1>0, <2>2, <2>4
      <4>2. Base(guard', order', frames[i].below) = Base(guard, order, frames[i].below)
        BY <1>4, <4>1
      <4> QED
        BY <4>1, <4>2 DEF HeightOK
    <3> QED
      BY <3>1, <3>2
  <2>6. ASSUME ~mixed', ~miscounted'
        PROVE  Kept(guard', order', stack', heap)
    <3>1. ~mixed /\ ~miscounted
      BY <1>1, <2>1, <2>4, <2>6
    <3>2. ASSUME NEW k \in 1..B, guard'[order'[k]].kind # "arena"
          PROVE  /\ RootsKept(guard', order', stack', heap, k)
                 /\ SlotKept(guard', order', stack', heap, k)
      <4>1. guard'[order'[k]] = guard[order[k]] /\ k \in 0..B /\ k - 1 \in 0..B
            /\ k \in 1..Len(order)
        BY <1>0, <1>2
      <4>2. RootsKept(guard, order, stack, heap, k) /\ SlotKept(guard, order, stack, heap, k)
        BY <3>1, <3>2, <4>1 DEF CoreInv, Kept
      <4>3. Segment(guard', order', k) = Segment(guard, order, k)
        BY <1>4, <4>1 DEF Segment
      <4>4. Segment(guard, order, k) \subseteq 1..H
        <5>1. Base(guard, order, k) <= Base(guard, order, B)
          BY <1>0, <4>1, BaseMonotone
        <5>2. Base(guard, order, k - 1) \in Nat /\ Base(guard, order, k) \in Nat
          BY <1>0, <4>1, SegmentInside
        <5> PICK a, b : a = Base(guard, order, k - 1) /\ b = Base(guard, order, k)
          OBVIOUS
        <5>3. a \in Nat /\ b \in Nat /\ b <= H /\ H \in Nat
          BY <1>0, <2>4, <2>6, <5>1, <5>2
        <5>4. a + 1..b \subseteq 1..H
          BY ONLY <5>3
        <5> QED
          BY <5>4 DEF Segment
      <4>5. \A i \in Segment(guard, order, k) :
              stack'[i] = stack[i] /\ (stack[i] \in heap => stack[i] \in heap)
        BY <1>3, <4>4
      <4> QED
        BY ONLY <4>1, <4>2, <4>3, <4>5, KeptTransfer
    <3> QED
      BY <1>2, <3>2 DEF Kept
  <2> QED
    BY <1>2, <1>3, <2>3, <2>5, <2>6 DEF CoreInv
<1> QED
  BY <1>5, <1>6

-----------------------------------------------------------------------------
(* Every step.                                                              *)

\* R allocates, collects what the stack and the arena do not have, and clears
\* the arena.
LEMMA HeapStepsCore ==
  ASSUME CoreInv, NewObject \/ Collect \/ ClearArena
  PROVE  CoreInv'
<1>1. UNCHANGED <<stack, frames, guard, order, mixed, miscounted>>
  BY DEF NewObject, Collect, ClearArena, rust, stackMarks
<1>2. heap' \subseteq Objs /\ heap \subseteq Objs
  BY DEF CoreInv, NewObject, Collect, ClearArena
<1>3. \A i \in 1..Len(stack) : stack[i] \in heap => stack[i] \in heap'
  BY DEF NewObject, Collect, ClearArena, Rooted
<1>4. FramesOK' /\ Balanced'
  BY <1>1 DEF CoreInv, FramesOK, Balanced
<1> QED
  BY <1>1, <1>2, <1>3, <1>4, SameGuardsCore

LEMMA PlacesCore ==
  ASSUME CoreInv, NEW g \in Guards,
         \/ OpenScope(g) \/ WithProtectScope(g)
         \/ \E x \in Objs : OwnedProtect(g, x) \/ ArenaGuard(g, x)
  PROVE  CoreInv'
<1>1. ASSUME NEW k \in {"scope", "tls"}, Place(g, [NoGuard EXCEPT !.kind = k]),
             UNCHANGED <<heap, stack, frames, mixed, miscounted>>
      PROVE  CoreInv'
  <2> PICK r : r = [NoGuard EXCEPT !.kind = k]
    OBVIOUS
  <2>1. /\ r \in GuardRecords /\ r.kind = k /\ r.n = 0 /\ r.roots = {} /\ r.slot = <<>>
    BY DEF NoGuard, GuardRecords, Kinds, SlotValues
  <2>2. Place(g, r) /\ heap' \subseteq Objs
    BY <1>1 DEF CoreInv
  <2> QED
    BY <1>1, <2>1, <2>2, PlaceCore
<1>2. CASE OpenScope(g)
  BY <1>1, <1>2 DEF OpenScope, stackMarks
<1>3. CASE WithProtectScope(g)
  BY <1>1, <1>3 DEF WithProtectScope, stackMarks
<1>4. ASSUME NEW x \in Objs, OwnedProtect(g, x)
      PROVE  CoreInv'
  <2> PICK r : r = [NoGuard EXCEPT !.kind = "owned", !.n = 1, !.roots = {x}]
    OBVIOUS
  <2>1. r \in GuardRecords /\ r.kind = "owned" /\ r.n = 1 /\ r.roots = {x} /\ r.slot = <<>>
    BY DEF NoGuard, GuardRecords, Kinds, SlotValues
  <2>2. /\ Place(g, r) /\ x \in heap /\ stack' = Append(stack, x) /\ ~mixed /\ ~miscounted
        /\ UNCHANGED <<heap, frames, mixed, miscounted>>
    BY <1>4 DEF OwnedProtect, Push, stackMarks
  <2>3. heap' \subseteq Objs
    BY <2>2 DEF CoreInv
  <2> QED
    BY <2>1, <2>2, <2>3, PlaceCore
<1>5. ASSUME NEW x \in Objs, ArenaGuard(g, x)
      PROVE  CoreInv'
  <2> PICK r : r = [NoGuard EXCEPT !.kind = "arena", !.roots = {x}]
    OBVIOUS
  <2>1. r \in GuardRecords /\ r.kind = "arena" /\ r.n = 0 /\ r.slot = <<>>
    BY DEF NoGuard, GuardRecords, Kinds, SlotValues
  <2>2. Place(g, r) /\ UNCHANGED <<stack, frames, mixed, miscounted>>
    BY <1>5 DEF ArenaGuard, stackMarks
  <2>3. heap' = heap \/ heap' = heap \cap Rooted
    BY <1>5 DEF ArenaGuard
  <2>4. heap' \subseteq Objs /\ \A i \in 1..Len(stack) : stack[i] \in heap => stack[i] \in heap'
    BY <2>3 DEF CoreInv, Rooted
  <2> QED
    BY <2>1, <2>2, <2>4, PlaceCore
<1> QED
  BY <1>2, <1>3, <1>4, <1>5

\* protect through a scope, the current one or another, and protect_with_index.
LEMMA ProtectThroughCore ==
  ASSUME CoreInv, NEW g \in Scopes, NEW x \in Objs, x \in heap, Push(x), Through(g),
         guard' = [guard EXCEPT ![g].n = @ + 1, ![g].roots = @ \cup {x}],
         UNCHANGED <<heap, order, miscounted>>
  PROVE  CoreInv'
<1>1. g \in Guards /\ g \in Live /\ guard[g].kind \in {"scope", "tls"}
      /\ guard \in [Guards -> GuardRecords] /\ guard[g] \in GuardRecords
  BY DEF Scopes, Live, CoreInv, GuardTypes
<1> PICK r : r = [guard[g] EXCEPT !.n = @ + 1, !.roots = @ \cup {x}]
  OBVIOUS
<1>2. /\ r \in GuardRecords /\ r.kind = guard[g].kind /\ r.n = guard[g].n + 1
      /\ r.roots = guard[g].roots \cup {x} /\ r.slot = guard[g].slot
  <2>1. /\ guard[g].n + 1 \in Nat /\ guard[g].roots \cup {x} \in SUBSET Objs
        /\ guard[g].kind \in Kinds /\ guard[g].slot \in SlotValues
    BY <1>1 DEF GuardRecords
  <2> PICK m, t, k, s : m = guard[g].n + 1 /\ t = guard[g].roots \cup {x}
                        /\ k = guard[g].kind /\ s = guard[g].slot
    OBVIOUS
  <2>2. r = [kind |-> k, n |-> m, roots |-> t, slot |-> s]
    BY <1>1 DEF GuardRecords
  <2> QED
    BY <2>1, <2>2 DEF GuardRecords
<1>3. guard' = [guard EXCEPT ![g] = r]
  BY <1>1
<1> QED
  BY <1>1, <1>2, <1>3, RaiseCore

LEMMA ProtectWithIndexCore ==
  ASSUME CoreInv, NEW g \in Guards, NEW x \in Objs \cup {Nil}, ProtectWithIndex(g, x)
  PROVE  CoreInv'
<1>1. /\ g \in Live /\ guard[g].kind \in {"scope", "tls"}
      /\ guard \in [Guards -> GuardRecords] /\ guard[g] \in GuardRecords
      /\ guard[g].slot = <<>> /\ x \in heap \cup {Nil} /\ Push(x) /\ Through(g)
      /\ guard' = [guard EXCEPT ![g].n = @ + 1, ![g].slot = <<Len(stack) + 1, x>>]
      /\ UNCHANGED <<heap, order, miscounted>>
  BY DEF ProtectWithIndex, Scopes, CoreInv, GuardTypes
<1>2. Len(stack) + 1 \in Nat \ {0}
  BY CoreFacts
<1> PICK s : s = <<Len(stack) + 1, x>>
  OBVIOUS
<1>3. s \in SlotValues
  BY <1>2 DEF SlotValues
<1> PICK r : r = [guard[g] EXCEPT !.n = @ + 1, !.slot = s]
  OBVIOUS
<1>4. /\ r \in GuardRecords /\ r.kind = guard[g].kind /\ r.n = guard[g].n + 1
      /\ r.roots = guard[g].roots /\ r.slot = s
  <2>1. guard[g].n + 1 \in Nat /\ guard[g].kind \in Kinds /\ guard[g].roots \in SUBSET Objs
    BY <1>1 DEF GuardRecords
  <2> PICK m, t, k : m = guard[g].n + 1 /\ t = guard[g].roots /\ k = guard[g].kind
    OBVIOUS
  <2>2. r = [kind |-> k, n |-> m, roots |-> t, slot |-> s]
    BY <1>1 DEF GuardRecords
  <2> QED
    BY <1>3, <2>1, <2>2 DEF GuardRecords
<1>5. guard' = [guard EXCEPT ![g] = r]
  BY <1>1
<1> QED
  BY <1>1, <1>4, <1>5, RaiseCore

LEMMA SlotsCore ==
  ASSUME CoreInv, NEW g \in Guards,
         \/ \E x \in Objs \cup {Nil} : SlotSet(g, x)
         \/ \E x \in Objs : SlotSetWith(g, x)
  PROVE  CoreInv'
<1>1. ASSUME NEW x \in Objs \cup {Nil}, SlotSet(g, x)
      PROVE  CoreInv'
  <2>1. /\ x \in heap \cup {Nil} /\ Reprotect(g, x)
        /\ UNCHANGED <<heap, frames, order, mixed, miscounted>>
    BY <1>1 DEF SlotSet, stackMarks
  <2>2. g \in Scopes /\ heap' \subseteq Objs
    BY <2>1 DEF Reprotect, CoreInv
  <2> QED
    BY <2>1, <2>2, ReprotectCore
<1>2. ASSUME NEW x \in Objs, SlotSetWith(g, x)
      PROVE  CoreInv'
  <2>1. /\ Reprotect(g, x) /\ UNCHANGED <<frames, order, mixed, miscounted>>
        /\ heap' = heap \cup {x} \/ heap' = (heap \cap Rooted) \cup {x}
    BY <1>2 DEF SlotSetWith, stackMarks
  <2>2. /\ g \in Scopes /\ heap' \subseteq Objs /\ x \in heap' \cup {Nil}
        /\ \A i \in 1..Len(stack) : stack[i] \in heap => stack[i] \in heap'
    BY <2>1 DEF Reprotect, CoreInv, Rooted
  <2> QED
    BY <2>1, <2>2, ReprotectCore
<1> QED
  BY <1>1, <1>2

LEMMA EndsCore ==
  ASSUME CoreInv, NEW g \in Guards,
         DropStackGuard(g) \/ ScopeReturns(g) \/ DropArenaGuard(g)
  PROVE  CoreInv'
<1>1. /\ g \in Mine /\ guard' = [guard EXCEPT ![g] = NoGuard] /\ order' = Removed(g)
      /\ UNCHANGED <<heap, frames, miscounted>>
  BY DEF DropStackGuard, ScopeReturns, PopEntries, DropArenaGuard, stackMarks
<1> PICK m \in Call.below + 1..Len(order) : order[m] = g
  BY <1>1 DEF Mine
<1>2. m \in 1..Len(order) /\ Ages(order) /\ stack \in Seq(Objs \cup {Nil})
  BY CoreFacts DEF CoreInv
<1>3. order' = Cut(order, m)
  BY <1>1, <1>2, RemovedIsCut
<1> PICK n : n = guard[g].n
  OBVIOUS
<1>4. n \in Nat
  BY CoreFacts DEF Counts
<1>5. CASE PopEntries(g)
  <2>1. /\ n <= Len(stack) /\ stack' = SubSeq(stack, 1, Len(stack) - n)
        /\ mixed' = (mixed \/ (n > 0 /\ ~OnTop(g)))
    BY <1>5 DEF PopEntries
  <2>2. ~mixed' => ~mixed /\ (n = 0 \/ OnTop(order[m]))
    <3>1. n > 0 \/ n = 0
      BY <1>4
    <3> QED
      BY <2>1, <3>1, Zenon
  <2>3. guard' = [guard EXCEPT ![order[m]] = NoGuard] /\ n = guard[order[m]].n
    BY <1>1
  <2> QED
    BY <1>1, <1>3, <2>1, <2>2, <2>3, RemoveCore
<1>6. CASE DropArenaGuard(g)
  <2>1. n = 0 /\ UNCHANGED <<stack, mixed>>
    BY <1>6 DEF DropArenaGuard, stackMarks, CoreInv, GuardTypes
  <2>2. n <= Len(stack) /\ stack' = SubSeq(stack, 1, Len(stack) - n)
    <3>1. Len(stack) \in Nat /\ SubSeq(stack, 1, Len(stack)) = stack
      BY <1>2
    <3> QED
      BY <2>1, <3>1
  <2>3. guard' = [guard EXCEPT ![order[m]] = NoGuard] /\ n = guard[order[m]].n
    BY <1>1
  <2>4. ~mixed' => ~mixed /\ (n = 0 \/ OnTop(order[m]))
    BY <2>1
  <2> QED
    BY <1>1, <1>3, <2>2, <2>3, <2>4, RemoveCore
<1> QED
  BY <1>5, <1>6 DEF DropStackGuard, ScopeReturns

LEMMA TlsProtectCore ==
  ASSUME CoreInv, NEW x \in Objs, TlsProtect(x)
  PROVE  CoreInv'
<1> PICK g : g = tls[Len(tls)]
  OBVIOUS
<1>1. x \in heap /\ Push(x) /\ UNCHANGED <<heap, order>>
  BY DEF TlsProtect
<1>2. CASE g \in Scopes
  <2>1. /\ guard' = [guard EXCEPT ![g].n = @ + 1, ![g].roots = @ \cup {x}]
        /\ Through(g) /\ UNCHANGED miscounted
    BY <1>2 DEF TlsProtect
  <2> QED
    BY <1>1, <1>2, <2>1, ProtectThroughCore
<1>3. CASE g \notin Scopes
  <2>1. miscounted' /\ UNCHANGED <<guard, frames, mixed>> /\ stack' = Append(stack, x)
    BY <1>1, <1>3 DEF TlsProtect, Push
  <2>2. GuardTypes' /\ OrderOK' /\ FramesOK'
    BY <1>1, <2>1 DEF CoreInv, GuardTypes, OrderOK, Live, FramesOK
  <2>3. stack' \in Seq(Objs \cup {Nil})
    BY <2>1 DEF CoreInv
  <2> QED
    BY <1>1, <2>1, <2>2, <2>3 DEF CoreInv, Balanced
<1> QED
  BY <1>2, <1>3

LEMMA NextCore ==
  ASSUME CoreInv, [Next]_vars
  PROVE  CoreInv'
<1>1. CASE RNext
  <2>1. CASE RError \/ GrowFails
    <3>1. Jump /\ heap' = heap
      BY <2>1 DEF RError, GrowFails
    <3> QED
      BY <3>1, JumpCore
  <2> QED
    BY <1>1, <2>1, HeapStepsCore, EnterCore, LeaveCore DEF RNext
<1>2. ASSUME NEW g \in Guards, ScopeNext(g)
      PROVE  CoreInv'
  <2>1. ASSUME NEW x \in Objs, ScopeProtect(g, x)
        PROVE  CoreInv'
    <3>1. /\ g \in Scopes /\ x \in heap /\ Push(x) /\ Through(g)
          /\ guard' = [guard EXCEPT ![g].n = @ + 1, ![g].roots = @ \cup {x}]
          /\ UNCHANGED <<heap, order, miscounted>>
      BY <2>1 DEF ScopeProtect
    <3> QED
      BY <3>1, ProtectThroughCore
  <2> QED
    BY <1>2, <2>1, PlacesCore, ProtectWithIndexCore, SlotsCore, EndsCore, LeaveEntriesCore
    DEF ScopeNext
<1>3. ASSUME NEW g \in Guards, DropArenaGuard(g) \/ \E x \in Objs : ArenaGuard(g, x)
      PROVE  CoreInv'
  BY <1>3, PlacesCore, EndsCore
<1>4. ASSUME NEW x \in Objs, TlsProtect(x)
      PROVE  CoreInv'
  BY <1>4, TlsProtectCore
<1>5. CASE ClearArena
  BY <1>5, HeapStepsCore
<1>6. CASE UNCHANGED vars
  <2>1. UNCHANGED <<heap, stack, frames, guard, order, mixed, miscounted>>
    BY <1>6 DEF vars, rust, stackMarks
  <2> QED
    BY <2>1 DEF CoreInv, GuardTypes, OrderOK, Live, FramesOK, Balanced
<1> QED
  BY <1>1, <1>2, <1>3, <1>4, <1>5, <1>6 DEF Next

THEOREM CoreInvariance == Spec => []CoreInv
<1> QED
  BY InitCore, NextCore, PTL DEF Spec

-----------------------------------------------------------------------------
(* SCOPE_STACK.                                                             *)

TlsGuards == {g \in Guards : guard[g].kind = "tls"}

TlsInv ==
  /\ tls \in Seq(Guards)
  /\ ~tlsLost =>
       /\ {tls[i] : i \in 1..Len(tls)} = TlsGuards
       /\ \A i, j \in 1..Len(tls) : i < j => Younger(tls[j], tls[i])

\* A step that neither opens nor ends a scope of with_protect_scope, and keeps
\* which of them is the younger.
LEMMA TlsKept ==
  ASSUME TlsInv, tls' = tls, ~tlsLost' => ~tlsLost,
         ~tlsLost' => TlsGuards' = TlsGuards,
         ~tlsLost' => \A g, h \in TlsGuards : Younger(h, g) => Younger(h, g)'
  PROVE  TlsInv'
<1> SUFFICES ASSUME ~tlsLost'
             PROVE  /\ {tls[i] : i \in 1..Len(tls)} = TlsGuards'
                    /\ \A i, j \in 1..Len(tls) : i < j => Younger(tls[j], tls[i])'
  BY DEF TlsInv
<1>1. /\ {tls[i] : i \in 1..Len(tls)} = TlsGuards
      /\ \A i, j \in 1..Len(tls) : i < j => Younger(tls[j], tls[i])
  BY DEF TlsInv
<1>2. \A i \in 1..Len(tls) : tls[i] \in TlsGuards
  BY <1>1
<1>3. ASSUME NEW i \in 1..Len(tls), NEW j \in 1..Len(tls), i < j
      PROVE  Younger(tls[j], tls[i])'
  <2> PICK g, h : g = tls[i] /\ h = tls[j]
    OBVIOUS
  <2>1. g \in TlsGuards /\ h \in TlsGuards /\ Younger(h, g)
    BY <1>1, <1>2, <1>3
  <2>2. Younger(h, g)'
    BY <2>1
  <2> QED
    BY <2>2 DEF Younger
<1> QED
  BY <1>1, <1>3

\* Guards change, but not their kinds, or to and from other kinds.
LEMMA TlsSameOrder ==
  ASSUME TlsInv, UNCHANGED <<tls, tlsLost, order>>,
         \A g \in Guards : guard'[g].kind = "tls" <=> guard[g].kind = "tls"
  PROVE  TlsInv'
<1>1. TlsGuards' = TlsGuards
  BY DEF TlsGuards
<1>2. \A g, h \in TlsGuards : Younger(h, g) => Younger(h, g)'
  BY DEF Younger
<1> QED
  BY <1>1, <1>2, TlsKept

LEMMA KindsKept ==
  ASSUME CoreInv, NEW g \in Guards, NEW r, guard' = [guard EXCEPT ![g] = r],
         r.kind = "tls" <=> guard[g].kind = "tls"
  PROVE  \A h \in Guards : guard'[h].kind = "tls" <=> guard[h].kind = "tls"
<1>1. guard \in [Guards -> GuardRecords]
  BY DEF CoreInv, GuardTypes
<1> QED
  BY <1>1

LEMMA TlsChange ==
  ASSUME CoreInv, TlsInv, NEW g \in Guards,
         \/ \E x \in Objs : ScopeProtect(g, x) \/ SlotSetWith(g, x)
         \/ \E x \in Objs \cup {Nil} : ProtectWithIndex(g, x) \/ SlotSet(g, x)
         \/ LeaveEntries(g)
  PROVE  TlsInv'
<1>1. guard \in [Guards -> GuardRecords] /\ guard[g] \in GuardRecords
  BY DEF CoreInv, GuardTypes
<1>2. UNCHANGED <<tls, tlsLost, order>>
  BY DEF ScopeProtect, SlotSetWith, ProtectWithIndex, SlotSet, LeaveEntries, stackMarks
<1>3. ASSUME NEW x, ScopeProtect(g, x) \/ SlotSetWith(g, x) \/ ProtectWithIndex(g, x) \/ SlotSet(g, x)
      PROVE  \A h \in Guards : guard'[h].kind = "tls" <=> guard[h].kind = "tls"
  <2>1. \/ guard' = [guard EXCEPT ![g].n = @ + 1, ![g].roots = @ \cup {x}]
        \/ guard' = [guard EXCEPT ![g].n = @ + 1, ![g].slot = <<Len(stack) + 1, x>>]
        \/ guard' = [guard EXCEPT ![g].slot[2] = x]
    BY <1>3 DEF ScopeProtect, SlotSetWith, ProtectWithIndex, SlotSet, Reprotect
  <2>2. \A h \in Guards : guard'[h].kind = guard[h].kind
    BY <1>1, <2>1 DEF GuardRecords
  <2> QED
    BY <2>2
<1>4. ASSUME LeaveEntries(g)
      PROVE  \A h \in Guards : guard'[h].kind = "tls" <=> guard[h].kind = "tls"
  <2> PICK r : r = [NoGuard EXCEPT !.kind = "forgotten", !.n = guard[g].n]
    OBVIOUS
  <2>1. guard' = [guard EXCEPT ![g] = r] /\ guard[g].kind \in {"scope", "owned"}
    BY <1>4 DEF LeaveEntries
  <2>2. r.kind = "forgotten"
    BY DEF NoGuard
  <2> QED
    BY <2>1, <2>2, KindsKept
<1> QED
  BY <1>2, <1>3, <1>4, TlsSameOrder

LEMMA TlsPlace ==
  ASSUME CoreInv, TlsInv, NEW g \in Guards,
         \/ OpenScope(g)
         \/ \E x \in Objs : OwnedProtect(g, x) \/ ArenaGuard(g, x)
  PROVE  TlsInv'
<1>1. PICK r : Place(g, r) /\ r.kind # "tls"
  <2>1. CASE OpenScope(g)
    <3>1. Place(g, [NoGuard EXCEPT !.kind = "scope"])
      BY <2>1 DEF OpenScope
    <3>2. [NoGuard EXCEPT !.kind = "scope"].kind # "tls"
      BY DEF NoGuard
    <3> QED
      BY <3>1, <3>2
  <2>2. ASSUME NEW x \in Objs, OwnedProtect(g, x)
        PROVE  \E r : Place(g, r) /\ r.kind # "tls"
    <3>1. Place(g, [NoGuard EXCEPT !.kind = "owned", !.n = 1, !.roots = {x}])
      BY <2>2 DEF OwnedProtect
    <3>2. [NoGuard EXCEPT !.kind = "owned", !.n = 1, !.roots = {x}].kind # "tls"
      BY DEF NoGuard
    <3> QED
      BY <3>1, <3>2
  <2>3. ASSUME NEW x \in Objs, ArenaGuard(g, x)
        PROVE  \E r : Place(g, r) /\ r.kind # "tls"
    <3>1. Place(g, [NoGuard EXCEPT !.kind = "arena", !.roots = {x}])
      BY <2>3 DEF ArenaGuard
    <3>2. [NoGuard EXCEPT !.kind = "arena", !.roots = {x}].kind # "tls"
      BY DEF NoGuard
    <3> QED
      BY <3>1, <3>2
  <2> QED
    BY <2>1, <2>2, <2>3
<1>2. UNCHANGED <<tls, tlsLost>>
  BY DEF OpenScope, OwnedProtect, ArenaGuard, stackMarks
<1>3. guard[g].kind = "none" /\ guard' = [guard EXCEPT ![g] = r] /\ order' = Append(order, g)
  BY <1>1 DEF Place
<1>4. TlsGuards' = TlsGuards
  <2>1. \A h \in Guards : guard'[h].kind = "tls" <=> guard[h].kind = "tls"
    BY <1>1, <1>3, KindsKept
  <2> QED
    BY <2>1 DEF TlsGuards
<1>5. /\ Len(order') = Len(order) + 1 /\ Len(order) \in Nat
      /\ \A i \in 1..Len(order) : order'[i] = order[i]
  BY <1>3 DEF CoreInv, OrderOK, Ages
<1>6. \A a, h \in TlsGuards : Younger(h, a) => Younger(h, a)'
  BY <1>5 DEF Younger
<1> QED
  BY <1>2, <1>4, <1>6, TlsKept

LEMMA TlsOpens ==
  ASSUME CoreInv, TlsInv, NEW g \in Guards, WithProtectScope(g)
  PROVE  TlsInv'
<1>1. /\ ~tlsLost /\ tls' = Append(tls, g) /\ UNCHANGED tlsLost
      /\ guard[g].kind = "none" /\ order' = Append(order, g)
      /\ guard' = [guard EXCEPT ![g] = [NoGuard EXCEPT !.kind = "tls"]]
  BY DEF WithProtectScope, Place, stackMarks
<1>2. /\ Len(order') = Len(order) + 1 /\ Len(order) \in Nat
      /\ \A i \in 1..Len(order) : order'[i] = order[i]
      /\ order'[Len(order) + 1] = g
  BY <1>1 DEF CoreInv, OrderOK, Ages
<1>3. /\ tls' \in Seq(Guards) /\ Len(tls') = Len(tls) + 1 /\ Len(tls) \in Nat
      /\ \A i \in 1..Len(tls) : tls'[i] = tls[i]
      /\ tls'[Len(tls) + 1] = g
  BY <1>1 DEF TlsInv
<1>4. /\ {tls[i] : i \in 1..Len(tls)} = TlsGuards
      /\ \A i, j \in 1..Len(tls) : i < j => Younger(tls[j], tls[i])
  BY <1>1 DEF TlsInv
<1>5. TlsGuards' = TlsGuards \cup {g}
  <2>1. guard \in [Guards -> GuardRecords]
    BY DEF CoreInv, GuardTypes
  <2>2. guard'[g].kind = "tls" /\ \A h \in Guards \ {g} : guard'[h] = guard[h]
    BY <1>1, <2>1 DEF NoGuard
  <2> QED
    BY <2>2 DEF TlsGuards
<1>6. {tls'[i] : i \in 1..Len(tls')} = TlsGuards'
  <2>1. \A i \in 1..Len(tls') : tls'[i] \in TlsGuards'
    BY <1>3, <1>4, <1>5
  <2>2. ASSUME NEW h \in TlsGuards'
        PROVE  \E i \in 1..Len(tls') : tls'[i] = h
    <3>1. CASE h = g
      <4>1. Len(tls) + 1 \in 1..Len(tls')
        BY <1>3
      <4> QED
        BY <1>3, <3>1, <4>1
    <3>2. CASE h \in TlsGuards
      <4>1. PICK i \in 1..Len(tls) : tls[i] = h
        BY <1>4, <3>2
      <4>2. i \in 1..Len(tls') /\ tls'[i] = h
        BY <1>3, <4>1
      <4> QED
        BY <4>2
    <3> QED
      BY <1>5, <3>1, <3>2
  <2> QED
    BY <2>1, <2>2
<1>7. ASSUME NEW i \in 1..Len(tls'), NEW j \in 1..Len(tls'), i < j
      PROVE  Younger(tls[j], tls[i])'
  <2>1. i \in 1..Len(tls) /\ tls'[i] = tls[i]
    BY <1>3, <1>7
  <2>2. CASE j = Len(tls) + 1
    <3>1. tls'[j] = g /\ tls[i] \in Live
      BY <1>3, <1>4, <2>1, <2>2 DEF TlsGuards, Live
    <3>2. PICK m \in 1..Len(order) : order[m] = tls[i]
      BY <3>1, CoreFacts
    <3>3. m \in 1..Len(order') /\ Len(order) + 1 \in 1..Len(order') /\ m < Len(order) + 1
          /\ order'[m] = tls'[i] /\ order'[Len(order) + 1] = tls'[j]
      BY <1>2, <2>1, <3>1, <3>2
    <3> QED
      BY <3>3 DEF Younger
  <2>3. CASE j # Len(tls) + 1
    <3>1. j \in 1..Len(tls) /\ tls'[j] = tls[j]
      BY <1>3, <2>3
    <3>2. Younger(tls[j], tls[i])
      BY <1>4, <1>7, <2>1, <3>1
    <3>3. PICK a, b \in 1..Len(order) : a < b /\ order[a] = tls[i] /\ order[b] = tls[j]
      BY <3>2 DEF Younger
    <3>4. a \in 1..Len(order') /\ b \in 1..Len(order') /\ order'[a] = tls'[i] /\ order'[b] = tls'[j]
      BY <1>2, <2>1, <3>1, <3>3
    <3> QED
      BY <3>3, <3>4 DEF Younger
  <2> QED
    BY <2>2, <2>3
<1> QED
  BY <1>3, <1>6, <1>7 DEF TlsInv

\* Without one guard, the others are in the same order.
LEMMA YoungerCut ==
  ASSUME Ages(order), NEW m \in 1..Len(order), order' = Cut(order, m),
         NEW g, NEW h, g # order[m], h # order[m], Younger(h, g)
  PROVE  Younger(h, g)'
<1>1. Len(order) \in Nat
  BY DEF Ages
<1>2. /\ Len(order') = Len(order) - 1
      /\ \A i \in 1..Len(order) - 1 : order'[i] = IF i < m THEN order[i] ELSE order[i + 1]
  BY CutFacts
<1>3. PICK i, j \in 1..Len(order) : i < j /\ order[i] = g /\ order[j] = h
  BY DEF Younger
<1>4. i # m /\ j # m
  BY <1>3
<1> DEFINE Now(k) == IF k < m THEN k ELSE k - 1
<1>5. /\ Now(i) \in 1..Len(order') /\ Now(j) \in 1..Len(order') /\ Now(i) < Now(j)
  BY <1>1, <1>2, <1>3, <1>4
<1>6. order'[Now(i)] = g
  BY <1>1, <1>2, <1>3, <1>4
<1>7. order'[Now(j)] = h
  BY <1>1, <1>2, <1>3, <1>4
<1> HIDE DEF Now
<1> QED
  BY <1>5, <1>6, <1>7 DEF Younger

LEMMA TlsEnds ==
  ASSUME CoreInv, TlsInv, NEW g \in Guards,
         DropStackGuard(g) \/ ScopeReturns(g) \/ DropArenaGuard(g)
  PROVE  TlsInv'
<1>1. /\ g \in Mine /\ guard' = [guard EXCEPT ![g] = NoGuard] /\ order' = Removed(g)
      /\ UNCHANGED tlsLost
  BY DEF DropStackGuard, ScopeReturns, PopEntries, DropArenaGuard, stackMarks
<1> PICK m \in Call.below + 1..Len(order) : order[m] = g
  BY <1>1 DEF Mine
<1>2. m \in 1..Len(order) /\ Ages(order) /\ guard \in [Guards -> GuardRecords]
  BY CoreFacts DEF CoreInv, GuardTypes
<1>3. order' = Cut(order, m)
  BY <1>1, <1>2, RemovedIsCut
<1>4. TlsGuards' = TlsGuards \ {g}
  BY <1>1, <1>2 DEF TlsGuards, NoGuard
<1>5. ASSUME NEW a \in TlsGuards', NEW b \in TlsGuards', Younger(b, a)
      PROVE  Younger(b, a)'
  <2>1. a # order[m] /\ b # order[m]
    BY <1>4
  <2> QED
    BY <1>2, <1>3, <1>5, <2>1, YoungerCut
<1>6. CASE guard[g].kind # "tls"
  <2>1. TlsGuards' = TlsGuards /\ tls' = tls
    BY <1>4, <1>6 DEF TlsGuards, DropStackGuard, ScopeReturns, DropArenaGuard
  <2> QED
    BY <1>1, <1>5, <2>1, TlsKept
<1>7. CASE guard[g].kind = "tls"
  <2>1. /\ ~\E h \in Live : guard[h].kind = "tls" /\ Younger(h, g)
        /\ tls' = IF tls = <<>> THEN tls ELSE SubSeq(tls, 1, Len(tls) - 1)
    BY <1>7 DEF DropStackGuard, ScopeReturns, DropArenaGuard
  <2>2. tls' \in Seq(Guards)
    BY <2>1 DEF TlsInv
  <2> SUFFICES ASSUME ~tlsLost
               PROVE  /\ {tls'[i] : i \in 1..Len(tls')} = TlsGuards'
                      /\ \A i, j \in 1..Len(tls') : i < j => Younger(tls[j], tls[i])'
    BY <1>1, <2>2 DEF TlsInv
  <2>3. /\ {tls[i] : i \in 1..Len(tls)} = TlsGuards /\ tls \in Seq(Guards) /\ Len(tls) \in Nat
        /\ \A i, j \in 1..Len(tls) : i < j => Younger(tls[j], tls[i])
    BY DEF TlsInv
  <2>4. PICK n \in 1..Len(tls) : tls[n] = g
    BY <1>7, <2>3 DEF TlsGuards
  <2>5. n = Len(tls)
    <3> SUFFICES ASSUME n # Len(tls) PROVE FALSE
      OBVIOUS
    <3>1. Len(tls) \in 1..Len(tls) /\ n < Len(tls)
      BY <2>3, <2>4
    <3>2. Younger(tls[Len(tls)], g)
      BY <2>3, <2>4, <3>1
    <3>3. tls[Len(tls)] \in TlsGuards
      BY <2>3, <3>1
    <3> QED
      BY <2>1, <3>2, <3>3 DEF TlsGuards, Live
  <2>6. /\ tls' = SubSeq(tls, 1, n - 1) /\ n - 1 \in 0..Len(tls)
    BY <2>1, <2>3, <2>4, <2>5
  <2>7. Len(tls') = n - 1 /\ \A i \in 1..n - 1 : tls'[i] = tls[i] /\ i \in 1..Len(tls) /\ i < n
    BY <2>3, <2>4, <2>6, PrefixFacts
  <2>8. ASSUME NEW i \in 1..n - 1
        PROVE  tls[i] \in TlsGuards'
    <3>1. i \in 1..Len(tls) /\ i < n
      BY <2>7
    <3>2. Younger(g, tls[i]) /\ tls[i] \in TlsGuards
      BY <2>3, <2>4, <3>1
    <3>3. tls[i] # g
      BY <1>2, <3>2 DEF Younger, Ages
    <3> QED
      BY <1>4, <3>2, <3>3
  <2>9. ASSUME NEW h \in TlsGuards'
        PROVE  \E i \in 1..n - 1 : tls[i] = h
    <3>1. PICK i \in 1..Len(tls) : tls[i] = h
      BY <1>4, <2>3
    <3>2. i # n
      BY <1>4, <2>4, <3>1
    <3>3. i \in 1..n - 1
      BY <2>3, <2>5, <3>2
    <3> QED
      BY <3>1, <3>3
  <2>10. {tls'[i] : i \in 1..Len(tls')} = TlsGuards'
    BY <2>7, <2>8, <2>9
  <2>11. ASSUME NEW i \in 1..Len(tls'), NEW j \in 1..Len(tls'), i < j
         PROVE  Younger(tls[j], tls[i])'
    <3> PICK a, b : a = tls[i] /\ b = tls[j]
      OBVIOUS
    <3>1. a = tls'[i] /\ b = tls'[j] /\ a \in TlsGuards' /\ b \in TlsGuards' /\ Younger(b, a)
      BY <2>3, <2>7, <2>8, <2>11
    <3>2. Younger(b, a)'
      BY <1>5, <3>1
    <3> QED
      BY <3>1, <3>2 DEF Younger
  <2> QED
    BY <2>10, <2>11
<1> QED
  BY <1>6, <1>7

LEMMA TlsJump ==
  ASSUME CoreInv, TlsInv, Jump, tls' = tls
  PROVE  TlsInv'
<1>1. /\ tlsLost' = (tlsLost \/ \E g \in Mine : guard[g].kind = "tls")
      /\ guard' = [g \in Guards |-> IF g \in Mine THEN NoGuard ELSE guard[g]]
      /\ order' = SubSeq(order, 1, Call.below)
  BY DEF Jump
<1>2. /\ Len(order') = Call.below /\ \A k \in 1..Call.below : order'[k] = order[k]
      /\ Call.below \in 0..Len(order) /\ Len(order) \in Nat
  BY JumpShape, CoreFacts
<1>3. ASSUME ~tlsLost'
      PROVE  ~tlsLost /\ TlsGuards \cap Mine = {}
  BY <1>1, <1>3 DEF TlsGuards
<1>4. ASSUME ~tlsLost'
      PROVE  TlsGuards' = TlsGuards
  <2>1. \A g \in Guards : guard'[g].kind = "tls" <=> guard[g].kind = "tls"
    BY <1>1, <1>3, <1>4 DEF TlsGuards, NoGuard
  <2> QED
    BY <2>1 DEF TlsGuards
<1>5. ASSUME ~tlsLost', NEW g \in TlsGuards, NEW h \in TlsGuards, Younger(h, g)
      PROVE  Younger(h, g)'
  <2>1. PICK i, j \in 1..Len(order) : i < j /\ order[i] = g /\ order[j] = h
    BY <1>5 DEF Younger
  <2>2. g \notin Mine /\ h \notin Mine
    BY <1>3, <1>5
  <2>3. i \in 1..Call.below /\ j \in 1..Call.below
    BY <1>2, <2>1, <2>2 DEF Mine
  <2> QED
    BY <1>2, <2>1, <2>3 DEF Younger
<1> QED
  BY <1>3, <1>4, <1>5, TlsKept

LEMMA TlsNext ==
  ASSUME CoreInv, TlsInv, [Next]_vars
  PROVE  TlsInv'
<1>0. ASSUME UNCHANGED <<tls, tlsLost, order, guard>>
      PROVE  TlsInv'
  BY <1>0, TlsSameOrder
<1>1. CASE RNext
  <2>1. CASE NewObject \/ Collect \/ Enter \/ Leave
    BY <1>0, <2>1 DEF NewObject, Collect, Enter, Leave, rust, stackMarks
  <2>2. CASE RError \/ GrowFails
    BY <2>2, TlsJump DEF RError, GrowFails
  <2> QED
    BY <1>1, <2>1, <2>2 DEF RNext
<1>2. ASSUME NEW g \in Guards, ScopeNext(g)
      PROVE  TlsInv'
  BY <1>2, TlsPlace, TlsOpens, TlsChange, TlsEnds DEF ScopeNext
<1>3. ASSUME NEW g \in Guards, DropArenaGuard(g) \/ \E x \in Objs : ArenaGuard(g, x)
      PROVE  TlsInv'
  BY <1>3, TlsPlace, TlsEnds
<1>4. ASSUME NEW x \in Objs, TlsProtect(x)
      PROVE  TlsInv'
  <2> PICK g : g = tls[Len(tls)]
    OBVIOUS
  <2>1. UNCHANGED <<tls, tlsLost, order>>
    BY <1>4 DEF TlsProtect
  <2>2. CASE g \in Scopes
    <3>1. guard' = [guard EXCEPT ![g].n = @ + 1, ![g].roots = @ \cup {x}] /\ g \in Guards
      BY <1>4, <2>2 DEF TlsProtect, Scopes, Live
    <3>2. guard \in [Guards -> GuardRecords]
      BY DEF CoreInv, GuardTypes
    <3>3. \A h \in Guards : guard'[h].kind = guard[h].kind
      BY <3>1, <3>2 DEF GuardRecords
    <3> QED
      BY <2>1, <3>3, TlsSameOrder
  <2>3. CASE g \notin Scopes
    <3>1. UNCHANGED guard
      BY <1>4, <2>3 DEF TlsProtect
    <3> QED
      BY <1>0, <2>1, <3>1
  <2> QED
    BY <2>2, <2>3
<1>5. CASE ClearArena
  BY <1>0, <1>5 DEF ClearArena, rust, stackMarks
<1>6. CASE UNCHANGED vars
  BY <1>0, <1>6 DEF vars, rust, stackMarks
<1> QED
  BY <1>1, <1>2, <1>3, <1>4, <1>5, <1>6 DEF Next

THEOREM TlsInvariance == Spec => []TlsInv
<1>1. Init => TlsInv
  BY DEF Init, TlsInv, TlsGuards, NoGuard
<1> QED
  BY <1>1, TlsNext, CoreInvariance, PTL DEF Spec

-----------------------------------------------------------------------------
(* The properties.                                                          *)

\* The stack has the entries its guards count, and SCOPE_STACK the scopes under
\* way, by age: at any depth of nested calls, with R errors among them.
THEOREM StackStaysBalanced == Spec => []StackBalanced
<1>1. ASSUME CoreInv, ~miscounted
      PROVE  Len(stack) = MapThenSumSet(LAMBDA g : guard[g].n, Guards)
  <2>1. Counts(guard) /\ Ages(order) /\ Len(stack) = Base(guard, order, Len(order))
    BY <1>1, CoreFacts DEF CoreInv, Balanced
  <2>2. \A g \in Guards \ Old(order, Len(order)) : guard[g].n = 0
    BY <1>1 DEF CoreInv, OrderOK, GuardTypes, Live
  <2>3. Weight(guard, Guards) = Len(stack)
    BY <2>1, <2>2, BaseAll
  <2> QED
    BY <2>3 DEF Weight
<1>2. ASSUME TlsInv, ~tlsLost
      PROVE  /\ {tls[i] : i \in 1..Len(tls)} = {g \in Live : guard[g].kind = "tls"}
             /\ \A i, j \in 1..Len(tls) : i < j => Younger(tls[j], tls[i])
  BY <1>2 DEF TlsInv, TlsGuards, Live
<1>3. CoreInv /\ TlsInv => StackBalanced
  BY <1>1, <1>2 DEF StackBalanced
<1> QED
  BY <1>3, CoreInvariance, TlsInvariance, PTL

\* While guards end and protect in stack order and every scope counts its own
\* entries, no collection takes what a guard of the stack roots, and a slot's
\* index is the entry of its value.
THEOREM StackGuardsKeepAlive == Spec => []StackGuardsProtect
<1>1. ASSUME CoreInv, ~mixed, ~miscounted, NEW g \in Live \ ArenaGuards
      PROVE  /\ guard[g].roots \subseteq heap
             /\ guard[g].slot # <<>> =>
                  /\ guard[g].slot[1] <= Len(stack)
                  /\ stack[guard[g].slot[1]] = guard[g].slot[2]
                  /\ guard[g].slot[2] \in heap \cup {Nil}
  <2>1. PICK k \in 1..Len(order) : order[k] = g
    BY <1>1, CoreFacts
  <2>2. guard[order[k]].kind # "arena"
    BY <1>1, <2>1 DEF ArenaGuards
  <2>3. RootsKept(guard, order, stack, heap, k) /\ SlotKept(guard, order, stack, heap, k)
    BY <1>1, <2>2 DEF CoreInv, Kept
  <2>4. Segment(guard, order, k) \subseteq 1..Len(stack)
    BY <1>1, CoreFacts, SegmentInside DEF CoreInv, Balanced
  <2>5. guard[g].roots \subseteq heap
    BY <2>1, <2>3 DEF RootsKept
  <2>6. guard[g].slot # <<>> =>
          /\ guard[g].slot[1] \in 1..Len(stack)
          /\ stack[guard[g].slot[1]] = guard[g].slot[2]
          /\ guard[g].slot[2] \in heap \cup {Nil}
    BY <2>1, <2>3, <2>4 DEF SlotKept
  <2> QED
    BY <2>5, <2>6
<1>2. CoreInv => StackGuardsProtect
  BY <1>1 DEF StackGuardsProtect
<1> QED
  BY <1>2, CoreInvariance, PTL

\* A guard of either kind keeps its objects from the collector.
THEOREM GuardsKeepAlive == Spec => []LiveGuardsProtect
<1>1. StackGuardsProtect /\ ArenaGuardsProtect => LiveGuardsProtect
  BY DEF LiveGuardsProtect
<1> QED
  BY <1>1, StackGuardsKeepAlive, ArenaGuardsKeepAlive, PTL
=============================================================================
